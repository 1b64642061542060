------------------------ MODULE PendingProposalsProofs ------------------------
(***************************************************************************)
(* Theorems about PendingProposals, for every set of proposals and         *)
(* requests and every clock skew.                                          *)
(***************************************************************************)
EXTENDS PendingProposals, TLAPS

-------------------------------------------------------------------------------
(* Type correctness                                                        *)

LEMMA TypeInit == Init => TypeOK
BY ConstantsAssumption DEF Init, TypeOK, Rows, Statuses, Working, InFlight,
   Undoing, Ended, Effects, AuditRows

\* A new audit row is well typed, and so is the clock after it.
LEMMA AuditedType ==
    ASSUME TypeOK, NEW x \in Rows, NEW who \in {"agent", "user"},
           Audited(x, who)
    PROVE  audit' \subseteq AuditRows /\ now' \in Nat
<1>1. now + 1 \in Nat
  BY DEF TypeOK
<1>2. [row |-> x, at |-> now + 1, by |-> who] \in AuditRows
  BY <1>1 DEF AuditRows
<1>3. QED
  BY <1>1, <1>2 DEF Audited, TypeOK

LEMMA TypeStep == TypeOK /\ [Next]_vars => TypeOK'
<1> SUFFICES ASSUME TypeOK, [Next]_vars
             PROVE  TypeOK'
  OBVIOUS
<1> USE ConstantsAssumption DEF TypeOK, queue, crm, local, ghost, Rows, Statuses,
        Working, InFlight, Undoing, Ended, Listed, Effects
<1>1. CASE UNCHANGED vars
  BY <1>1 DEF vars
<1>2. ASSUME NEW p \in Proposals, Propose(p) PROVE TypeOK'
  BY <1>2 DEF Propose, SetStatus
<1>3. CASE \E r \in Requests : Step(r)
  <2> PICK r \in Requests : Step(r)
    BY <1>3
  <2>1. ASSUME NEW p \in Listed, AcceptRead(r, p) PROVE TypeOK'
    BY <2>1 DEF AcceptRead, Begin
  <2>2. ASSUME NEW p \in Listed, Reject(r, p) PROVE TypeOK'
    BY <2>2 DEF Reject, Begin, SetStatus
  <2>3. ASSUME NEW p \in Listed, Reopen(r, p) PROVE TypeOK'
    BY <2>3 DEF Reopen, Begin, SetStatus, Requeue
  <2>4. ASSUME NEW p \in Listed, UndoRead(r, p) PROVE TypeOK'
    BY <2>4 DEF UndoRead, Begin
  <2>5. ASSUME NEW x \in Rows, Edit(r, x) PROVE TypeOK'
    <3>1. audit' \subseteq AuditRows /\ now' \in Nat
      BY <2>5, AuditedType DEF Edit
    <3>2. QED
      BY <2>5, <3>1 DEF Edit, Begin
  <2>6. CASE AcceptClaim(r)
    <3>1. on[r] \in Proposals
      BY <2>6 DEF AcceptClaim, Goto
    <3>2. ASSUME NEW skew \in Skews PROVE now + skew \in Int
      OBVIOUS
    <3>3. QED
      BY <2>6, <3>1, <3>2 DEF AcceptClaim, Goto, SetStatus
  <2>7. CASE Execute(r)
    <3>1. UNCHANGED <<audit, now>> \/ (audit' \subseteq AuditRows /\ now' \in Nat)
      BY <2>7, AuditedType DEF Execute, WrittenRow
    <3>2. QED
      BY <2>7, <3>1 DEF Execute, Goto
  <2>8. CASE Attach(r)
    <3>1. UNCHANGED <<audit, now>> \/ (audit' \subseteq AuditRows /\ now' \in Nat)
      BY <2>8, AuditedType DEF Attach, WrittenRow
    <3>2. QED
      BY <2>8, <3>1 DEF Attach, Goto
  <2>9. CASE Release(r)
    BY <2>9 DEF Release, Goto, SetStatus, Requeue, Releasable
  <2>10. CASE Finalize(r)
    BY <2>10 DEF Finalize, Goto, SetStatus, RowOf
  <2>11. CASE UndoCheck(r)
    BY <2>11 DEF UndoCheck, Goto
  <2>12. ASSUME NEW x \in Requests, Delete(r, x) PROVE TypeOK'
    <3>1. audit' \subseteq AuditRows /\ now' \in Nat
      BY <2>12, AuditedType DEF Delete
    <3>2. QED
      BY <2>12, <3>1 DEF Delete, Begin
  <2>13. CASE UndoReverse(r)
    <3>1. snapRow[r] \in Rows
      BY <2>13 DEF UndoReverse, Goto
    <3>2. audit' \subseteq AuditRows /\ now' \in Nat
      BY <2>13, <3>1, AuditedType DEF UndoReverse
    <3>3. QED
      BY <2>13, <3>1, <3>2 DEF UndoReverse, Goto
  <2>14. CASE UndoFlip(r)
    BY <2>14 DEF UndoFlip, Goto, SetStatus, Requeue
  <2>15. CASE Crash(r)
    BY <2>15 DEF Crash, Goto
  <2>16. ASSUME NEW p \in Proposals, Dispatch(r, p) PROVE TypeOK'
    BY <2>16 DEF Dispatch, Begin
  <2>17. CASE Executed(r)
    BY <2>17 DEF Executed, Goto
  <2>18. CASE FallBack(r)
    BY <2>18 DEF FallBack, Goto, SetStatus
  <2>19. QED
    BY <2>1, <2>2, <2>3, <2>4, <2>5, <2>6, <2>7, <2>8, <2>9, <2>10, <2>11,
       <2>12, <2>13, <2>14, <2>15, <2>16, <2>17, <2>18 DEF Step
<1>4. QED
  BY <1>1, <1>2, <1>3 DEF Next

THEOREM TypeCorrect == Spec => []TypeOK
<1>1. Init => TypeOK
  BY TypeInit
<1>2. TypeOK /\ [Next]_vars => TypeOK'
  BY TypeStep
<1>3. QED
  BY <1>1, <1>2, PTL DEF Spec

-------------------------------------------------------------------------------
(* The inductive invariant.  Its parts are the facts about the claim, about *)
(* the records, and about proposals no other operation overtook.            *)

\* A claim belongs to the present or an earlier stay of a proposal that exists,
\* strictly earlier while it waits in the queue; those who computed a stamp, and
\* nobody else, hold one.
ClaimInv ==
    /\ \A r \in Requests :
         claimStay[r] # 0 => /\ on[r] \in Proposals
                             /\ status[on[r]] # "absent"
                             /\ claimStay[r] <= stay[on[r]]
                             /\ status[on[r]] = "pending" =>
                                    claimStay[r] < stay[on[r]]
    /\ \A r \in Requests : Direct(r) <=> claimStay[r] = 0
    /\ \A r \in Requests :
         pc[r] \in {"idle", "claiming", "refused"} \cup Undoing
             => claimStay[r] = 0

\* r writes, or wrote, for the assistant.
WritesAlone(r) == claimStay[r] = 0 /\ (pc[r] \in InFlight \/ effect[r] # "none")

\* One turn takes an action up, and it is queued only when that turn gives up.
AloneInv ==
    /\ \A r \in Requests : WritesAlone(r) =>
         /\ on[r] \in Proposals
         /\ pc[r] # "failed" => status[on[r]] = "absent"
    /\ \A r, s \in Requests :
         WritesAlone(r) /\ WritesAlone(s) /\ on[r] = on[s] => r = s

\* Who has written, and that created_row_id and an undo's snapshot only ever
\* name records that were written.
RowInv ==
    /\ \A r \in Requests :
         /\ pc[r] \in {"idle", "claiming", "executing", "refused"} \cup Undoing
                => effect[r] = "none"
         /\ pc[r] \in {"attaching", "finalizing"} => effect[r] # "none"
         /\ snapRow[r] \in Requests => effect[snapRow[r]] # "none"
    /\ \A p \in Proposals :
         createdRow[p] \in Requests => effect[createdRow[p]] # "none"

\* No reject overrode an acceptance of it, and no undo overtook one.
Clear == Proposals \ (overruled \cup overtaken)

\* A proposal nothing overtook: its only claim that may still act, and its only
\* accepted record, are those of the present stay.
ClearInv ==
    \A p \in Clear :
        /\ status[p] # "accepted" => createdRow[p] = None
        /\ \A r \in Requests : Accepting(r, p) =>
             /\ status[p] = "accepted"
             /\ claimStay[r] = stay[p]
             /\ createdRow[p] = None
        /\ \A r \in Requests :
             /\ on[r] = p
             /\ claimStay[r] # 0
             /\ pc[r] = "done"
             /\ effect[r] = "written"
             /\ kind[p] # "update"
             => /\ status[p] = "accepted"
                /\ claimStay[r] = stay[p]
                /\ createdRow[p] = RowOf(p, r)

\* An undo about to flip the proposal has reversed the record it read.
UndoInv ==
    \A r \in Requests :
        /\ pc[r] \in Undoing => kind[on[r]] # "photos"
        /\ pc[r] = "flipping" /\ snapRow[r] \in Requests
               => effect[snapRow[r]] = "removed"

IInv == ClaimInv /\ AloneInv /\ ClaimOncePerStay /\ RowInv /\ UndoInv /\ ClearInv
        /\ NoPhantomAcceptance

LEMMA InvInit == Init => IInv
BY ConstantsAssumption DEF Init, IInv, ClaimInv, AloneInv, WritesAlone, Direct,
   ClaimOncePerStay, RowInv, UndoInv, ClearInv, Clear, NoPhantomAcceptance, Accepting,
   InFlight, Undoing, Rows

-------------------------------------------------------------------------------
(* The claim                                                               *)

\* A step that leaves the claims alone, moves no request out of "idle" or
\* "claiming" into an accept, and only ever starts new stays, keeps ClaimInv.
LEMMA ClaimStep ==
    ASSUME TypeOK, ClaimInv, AloneInv, ClaimOncePerStay,
           NEW r \in Requests, Step(r)
    PROVE  ClaimInv' /\ ClaimOncePerStay'
<1> USE DEF TypeOK, queue, crm, local, ghost, InFlight, Undoing, Working, Ended,
        Statuses, Listed, Direct, ClaimInv, ClaimOncePerStay
<1>1. ASSUME NEW p \in Listed, AcceptRead(r, p)
      PROVE  ClaimInv' /\ ClaimOncePerStay'
  BY <1>1 DEF AcceptRead, Begin
<1>2. ASSUME NEW p \in Listed, Reject(r, p)
      PROVE  ClaimInv' /\ ClaimOncePerStay'
  BY <1>2 DEF Reject, Begin, SetStatus
<1>3. ASSUME NEW p \in Listed, Reopen(r, p)
      PROVE  ClaimInv' /\ ClaimOncePerStay'
  BY <1>3 DEF Reopen, Begin, SetStatus, Requeue
<1>4. ASSUME NEW p \in Listed, UndoRead(r, p)
      PROVE  ClaimInv' /\ ClaimOncePerStay'
  BY <1>4 DEF UndoRead, Begin
<1>5. ASSUME NEW x \in Rows, Edit(r, x)
      PROVE  ClaimInv' /\ ClaimOncePerStay'
  BY <1>5 DEF Edit, Begin
<1>6. CASE AcceptClaim(r)
  <2> DEFINE p == on[r]
  <2>1. CASE ~Claimable(p)
    BY <1>6, <2>1 DEF AcceptClaim, Goto
  <2>2. CASE Claimable(p)
    <3>1. /\ pc[r] = "claiming" /\ p \in Proposals /\ status[p] = "pending"
          /\ pc' = [pc EXCEPT ![r] = "executing"]
          /\ status' = [status EXCEPT ![p] = "accepted"]
          /\ claimStay' = [claimStay EXCEPT ![r] = stay[p]]
          /\ \E at \in Int : stamp' = [stamp EXCEPT ![r] = at]
          /\ UNCHANGED <<on, stay>>
      BY <1>6, <2>2, ConstantsAssumption DEF AcceptClaim, Goto, SetStatus, Claimable
    <3>2. \A q \in Requests : Direct(q)' <=> claimStay'[q] = 0
      BY <3>1, ConstantsAssumption
    <3>3. QED
      BY <3>1, <3>2
  <2>3. QED
    BY <2>1, <2>2
<1>7. CASE Execute(r) \/ Attach(r) \/ UndoCheck(r)
           \/ UndoReverse(r) \/ Crash(r)
  BY <1>7 DEF Execute, Attach, UndoCheck, UndoReverse, Crash, Goto
<1>8. CASE Release(r)
  BY <1>8 DEF Release, Goto, SetStatus, Requeue, Releasable
<1>9. CASE Finalize(r)
  BY <1>9 DEF Finalize, Goto, SetStatus
<1>10. CASE UndoFlip(r)
  BY <1>10 DEF UndoFlip, Goto, SetStatus, Requeue
<1>11. ASSUME NEW p \in Proposals, Dispatch(r, p) PROVE ClaimInv' /\ ClaimOncePerStay'
  BY <1>11 DEF Dispatch, Begin
<1>12. ASSUME Executed(r) PROVE ClaimInv' /\ ClaimOncePerStay'
  BY <1>12 DEF Executed, Goto
<1>13. ASSUME FallBack(r) PROVE ClaimInv' /\ ClaimOncePerStay'
  BY <1>13 DEF FallBack, Goto, SetStatus, AloneInv, WritesAlone
<1>14. ASSUME NEW x \in Requests, Delete(r, x)
      PROVE  ClaimInv' /\ ClaimOncePerStay'
  BY <1>14 DEF Delete, Begin
<1>15. QED
  BY <1>1, <1>2, <1>3, <1>4, <1>5, <1>6, <1>7, <1>8, <1>9, <1>10, <1>11,
     <1>12, <1>13, <1>14 DEF Step

-------------------------------------------------------------------------------
(* Turns that write alone                                                  *)

LEMMA AloneStep ==
    ASSUME TypeOK, ClaimInv, AloneInv, RowInv, NEW r \in Requests, Step(r)
    PROVE  AloneInv'
<1> USE ConstantsAssumption
    DEF TypeOK, queue, crm, local, ghost, InFlight, Undoing, Working, Ended,
        Statuses, Listed, Direct, Rows, ClaimInv, AloneInv, WritesAlone, RowInv
<1>1. ASSUME NEW p \in Listed, AcceptRead(r, p) PROVE AloneInv'
  BY <1>1 DEF AcceptRead, Begin
<1>2. ASSUME NEW p \in Listed, Reject(r, p) PROVE AloneInv'
  BY <1>2 DEF Reject, Begin, SetStatus
<1>3. ASSUME NEW p \in Listed, Reopen(r, p) PROVE AloneInv'
  BY <1>3 DEF Reopen, Begin, SetStatus, Requeue
<1>4. ASSUME NEW p \in Listed, UndoRead(r, p) PROVE AloneInv'
  <2>1. /\ pc[r] = "idle" /\ pc'[r] \notin InFlight
        /\ \A q \in Requests : q # r => pc'[q] = pc[q] /\ on'[q] = on[q]
        /\ UNCHANGED <<status, effect, claimStay>>
    BY <1>4 DEF UndoRead, Begin
  <2>2. \A q \in Requests : WritesAlone(q)' => WritesAlone(q) /\ q # r
    BY <2>1
  <2>3. QED
    BY <2>1, <2>2
<1>5. ASSUME NEW x \in Rows, Edit(r, x) PROVE AloneInv'
  BY <1>5 DEF Edit, Begin
<1>6. ASSUME NEW p \in Proposals, Dispatch(r, p) PROVE AloneInv'
  BY <1>6 DEF Dispatch, Unasked, Begin
<1>7. ASSUME Executed(r) PROVE AloneInv'
  BY <1>7 DEF Executed, Goto
<1>8. ASSUME FallBack(r) PROVE AloneInv'
  BY <1>8 DEF FallBack, Goto, SetStatus
<1>9. ASSUME AcceptClaim(r) PROVE AloneInv'
  BY <1>9 DEF AcceptClaim, Goto, SetStatus, Claimable
<1>10. ASSUME Execute(r) \/ Attach(r) PROVE AloneInv'
  BY <1>10 DEF Execute, Attach, Goto
<1>11. ASSUME Release(r) PROVE AloneInv'
  BY <1>11 DEF Release, Goto, SetStatus, Requeue, Releasable
<1>12. ASSUME Finalize(r) PROVE AloneInv'
  BY <1>12 DEF Finalize, Goto, SetStatus
<1>13. ASSUME UndoCheck(r) \/ Crash(r) PROVE AloneInv'
  BY <1>13 DEF UndoCheck, Crash, Goto
<1>14. ASSUME UndoReverse(r) PROVE AloneInv'
  BY <1>14 DEF UndoReverse, Goto
<1>15. ASSUME UndoFlip(r) PROVE AloneInv'
  BY <1>15 DEF UndoFlip, Goto, SetStatus, Requeue, Flippable
<1>16. ASSUME NEW x \in Requests, Delete(r, x) PROVE AloneInv'
  BY <1>16 DEF Delete, Live, Begin
<1>17. QED
  BY <1>1, <1>2, <1>3, <1>4, <1>5, <1>6, <1>7, <1>8, <1>9, <1>10, <1>11,
     <1>12, <1>13, <1>14, <1>15, <1>16 DEF Step

-------------------------------------------------------------------------------
(* The records                                                             *)

LEMMA RowStep ==
    ASSUME TypeOK, ClaimInv, RowInv, NEW r \in Requests, Step(r)
    PROVE  RowInv'
<1> USE ConstantsAssumption
    DEF TypeOK, queue, crm, local, ghost, InFlight, Undoing, Working, Ended,
        Statuses, Listed, Direct, Rows, ClaimInv, RowInv
<1>1. ASSUME NEW p \in Listed, AcceptRead(r, p) PROVE RowInv'
  BY <1>1 DEF AcceptRead, Begin
<1>2. ASSUME NEW p \in Listed, Reject(r, p) PROVE RowInv'
  BY <1>2 DEF Reject, Begin, SetStatus
<1>3. ASSUME NEW p \in Listed, Reopen(r, p) PROVE RowInv'
  BY <1>3 DEF Reopen, Begin, SetStatus, Requeue
<1>4. ASSUME NEW p \in Listed, UndoRead(r, p) PROVE RowInv'
  BY <1>4 DEF UndoRead, Begin
<1>5. ASSUME NEW x \in Rows, Edit(r, x) PROVE RowInv'
  BY <1>5 DEF Edit, Begin
<1>6. CASE AcceptClaim(r)
  BY <1>6 DEF AcceptClaim, Goto, SetStatus, Claimable
<1>7. CASE Execute(r)
  BY <1>7 DEF Execute, Goto, RowOf
<1>8. CASE Attach(r)
  BY <1>8 DEF Attach, Goto
<1>9. CASE Release(r)
  BY <1>9 DEF Release, Goto, SetStatus, Requeue, Releasable
<1>10. CASE Finalize(r)
  BY <1>10 DEF Finalize, Goto, SetStatus, RowOf
<1>11. CASE UndoCheck(r)
  BY <1>11 DEF UndoCheck, Goto
<1>12. ASSUME NEW x \in Requests, Delete(r, x) PROVE RowInv'
  BY <1>12 DEF Delete, Live, Begin
<1>13. CASE UndoReverse(r)
  BY <1>13 DEF UndoReverse, Goto
<1>14. CASE UndoFlip(r)
  BY <1>14 DEF UndoFlip, Goto, SetStatus, Requeue, Flippable
<1>15. CASE Crash(r)
  BY <1>15 DEF Crash, Goto
<1>16. ASSUME NEW p \in Proposals, Dispatch(r, p) PROVE RowInv'
  BY <1>16 DEF Dispatch, Begin
<1>17. ASSUME Executed(r) PROVE RowInv'
  BY <1>17 DEF Executed, Goto
<1>18. ASSUME FallBack(r) PROVE RowInv'
  BY <1>18 DEF FallBack, Goto, SetStatus
<1>19. QED
  BY <1>1, <1>2, <1>3, <1>4, <1>5, <1>6, <1>7, <1>8, <1>9, <1>10, <1>11,
     <1>12, <1>13, <1>14, <1>15, <1>16,
     <1>17, <1>18 DEF Step

LEMMA UndoStep ==
    ASSUME TypeOK, RowInv, UndoInv, NEW r \in Requests, Step(r)
    PROVE  UndoInv'
<1> USE ConstantsAssumption
    DEF TypeOK, queue, crm, local, ghost, InFlight, Undoing, Working, Ended,
        Statuses, Listed, Direct, Rows, RowInv, UndoInv
<1>1. ASSUME NEW p \in Listed, AcceptRead(r, p) PROVE UndoInv'
  BY <1>1 DEF AcceptRead, Begin
<1>2. ASSUME NEW p \in Listed, Reject(r, p) PROVE UndoInv'
  BY <1>2 DEF Reject, Begin, SetStatus
<1>3. ASSUME NEW p \in Listed, Reopen(r, p) PROVE UndoInv'
  BY <1>3 DEF Reopen, Begin, SetStatus, Requeue
<1>4. ASSUME NEW p \in Listed, UndoRead(r, p) PROVE UndoInv'
  BY <1>4 DEF UndoRead, Begin
<1>5. ASSUME NEW x \in Rows, Edit(r, x) PROVE UndoInv'
  BY <1>5 DEF Edit, Begin
<1>6. CASE AcceptClaim(r)
  BY <1>6 DEF AcceptClaim, Goto, SetStatus, Claimable
<1>7. CASE Execute(r)
  BY <1>7 DEF Execute, Goto, RowOf
<1>8. CASE Attach(r)
  BY <1>8 DEF Attach, Goto
<1>9. CASE Release(r)
  BY <1>9 DEF Release, Goto, SetStatus, Requeue, Releasable
<1>10. CASE Finalize(r)
  BY <1>10 DEF Finalize, Goto, SetStatus, RowOf
<1>11. CASE UndoCheck(r)
  BY <1>11 DEF UndoCheck, Goto
<1>12. ASSUME NEW x \in Requests, Delete(r, x) PROVE UndoInv'
  BY <1>12 DEF Delete, Live, Begin
<1>13. CASE UndoReverse(r)
  BY <1>13 DEF UndoReverse, Goto
<1>14. CASE UndoFlip(r)
  BY <1>14 DEF UndoFlip, Goto, SetStatus, Requeue, Flippable
<1>15. CASE Crash(r)
  BY <1>15 DEF Crash, Goto
<1>16. ASSUME NEW p \in Proposals, Dispatch(r, p) PROVE UndoInv'
  BY <1>16 DEF Dispatch, Begin
<1>17. ASSUME Executed(r) PROVE UndoInv'
  BY <1>17 DEF Executed, Goto
<1>18. ASSUME FallBack(r) PROVE UndoInv'
  BY <1>18 DEF FallBack, Goto, SetStatus
<1>19. QED
  BY <1>1, <1>2, <1>3, <1>4, <1>5, <1>6, <1>7, <1>8, <1>9, <1>10, <1>11,
     <1>12, <1>13, <1>14, <1>15, <1>16,
     <1>17, <1>18 DEF Step

-------------------------------------------------------------------------------
(* Acceptances that wrote nothing                                          *)

LEMMA PhantomStep ==
    ASSUME TypeOK, ClaimInv, NoPhantomAcceptance, NEW r \in Requests, Step(r)
    PROVE  NoPhantomAcceptance'
<1> USE ConstantsAssumption
    DEF TypeOK, queue, crm, local, ghost, InFlight, Undoing, Working, Ended,
        Statuses, Listed, Direct, Rows, ClaimInv,
        NoPhantomAcceptance, Accepting
<1>1. ASSUME NEW p \in Listed, AcceptRead(r, p) PROVE NoPhantomAcceptance'
  BY <1>1 DEF AcceptRead, Begin
<1>2. ASSUME NEW p \in Listed, Reject(r, p) PROVE NoPhantomAcceptance'
  BY <1>2 DEF Reject, Begin, SetStatus
<1>3. ASSUME NEW p \in Listed, Reopen(r, p) PROVE NoPhantomAcceptance'
  BY <1>3 DEF Reopen, Begin, SetStatus, Requeue
<1>4. ASSUME NEW p \in Listed, UndoRead(r, p) PROVE NoPhantomAcceptance'
  BY <1>4 DEF UndoRead, Begin
<1>5. ASSUME NEW x \in Rows, Edit(r, x) PROVE NoPhantomAcceptance'
  BY <1>5 DEF Edit, Begin
<1>6. CASE AcceptClaim(r)
  BY <1>6 DEF AcceptClaim, Goto, SetStatus, Claimable
<1>7. CASE Execute(r)
  BY <1>7 DEF Execute, Goto, RowOf
<1>8. CASE Attach(r)
  BY <1>8 DEF Attach, Goto
<1>9. CASE Release(r)
  BY <1>9 DEF Release, Goto, SetStatus, Requeue, Releasable
<1>10. CASE Finalize(r)
  BY <1>10 DEF Finalize, Goto, SetStatus, RowOf
<1>11. CASE UndoCheck(r)
  BY <1>11 DEF UndoCheck, Goto
<1>12. ASSUME NEW x \in Requests, Delete(r, x) PROVE NoPhantomAcceptance'
  BY <1>12 DEF Delete, Live, Begin
<1>13. CASE UndoReverse(r)
  BY <1>13 DEF UndoReverse, Goto
<1>14. CASE UndoFlip(r)
  BY <1>14 DEF UndoFlip, Goto, SetStatus, Requeue, Flippable
<1>15. CASE Crash(r)
  BY <1>15 DEF Crash, Goto
<1>16. ASSUME NEW p \in Proposals, Dispatch(r, p) PROVE NoPhantomAcceptance'
  BY <1>16 DEF Dispatch, Begin
<1>17. ASSUME Executed(r) PROVE NoPhantomAcceptance'
  BY <1>17 DEF Executed, Goto
<1>18. ASSUME FallBack(r) PROVE NoPhantomAcceptance'
  BY <1>18 DEF FallBack, Goto, SetStatus
<1>19. QED
  BY <1>1, <1>2, <1>3, <1>4, <1>5, <1>6, <1>7, <1>8, <1>9, <1>10, <1>11,
     <1>12, <1>13, <1>14, <1>15, <1>16,
     <1>17, <1>18 DEF Step

-------------------------------------------------------------------------------
(* Proposals nothing overtook                                              *)

LEMMA ClearStep ==
    ASSUME TypeOK, ClaimInv, AloneInv, ClaimOncePerStay, RowInv, UndoInv,
           ClearInv, NEW r \in Requests, Step(r)
    PROVE  ClearInv'
<1> USE ConstantsAssumption
    DEF TypeOK, queue, crm, local, ghost, InFlight, Undoing, Working, Ended,
        Statuses, Listed, Direct, Rows, ClaimInv,
        ClaimOncePerStay, RowInv, UndoInv, ClearInv, Clear, Accepting, RowOf
<1>1. ASSUME NEW p \in Listed, AcceptRead(r, p) PROVE ClearInv'
  BY <1>1 DEF AcceptRead, Begin
<1>2. ASSUME NEW p \in Listed, Reject(r, p) PROVE ClearInv'
  BY <1>2 DEF Reject, Begin, SetStatus
<1>3. ASSUME NEW p \in Listed, Reopen(r, p) PROVE ClearInv'
  BY <1>3 DEF Reopen, Begin, SetStatus, Requeue
<1>4. ASSUME NEW p \in Listed, UndoRead(r, p) PROVE ClearInv'
  BY <1>4 DEF UndoRead, Begin
<1>5. ASSUME NEW x \in Rows, Edit(r, x) PROVE ClearInv'
  BY <1>5 DEF Edit, Begin
<1>6. CASE AcceptClaim(r)
  BY <1>6 DEF AcceptClaim, Goto, SetStatus, Claimable
<1>7. CASE Execute(r)
  BY <1>7 DEF Execute, Goto, RowOf
<1>8. CASE Attach(r)
  BY <1>8 DEF Attach, Goto
<1>9. CASE Release(r)
  BY <1>9 DEF Release, Goto, SetStatus, Requeue, Releasable
<1>10. CASE Finalize(r)
  BY <1>10 DEF Finalize, Goto, SetStatus, RowOf
<1>11. CASE UndoCheck(r)
  BY <1>11 DEF UndoCheck, Goto
<1>12. ASSUME NEW x \in Requests, Delete(r, x) PROVE ClearInv'
  BY <1>12 DEF Delete, Live, Begin
<1>13. CASE UndoReverse(r)
  BY <1>13 DEF UndoReverse, Goto
<1>14. CASE UndoFlip(r)
  <2> DEFINE p == on[r]
  <2>1. /\ pc[r] = "flipping"
        /\ p \in Proposals
        /\ snapRow[r] # None
        /\ claimStay[r] = 0
        /\ effect[r] = "none"
    BY <1>14 DEF UndoFlip, Goto
  <2>2. CASE ~Flippable(p)
    BY <1>14, <2>1, <2>2 DEF UndoFlip, Goto
  <2>3. CASE Flippable(p) /\ createdRow[p] # snapRow[r]
    BY <1>14, <2>1, <2>3 DEF UndoFlip, Goto, SetStatus, Requeue
  <2>4. CASE Flippable(p) /\ createdRow[p] = snapRow[r]
    \* The record the flip forgets is the one the undo reversed: no accept of
    \* this stay is running, and none has a live record to lose.
    <3>1. ASSUME p \in Clear, NEW s \in Requests
          PROVE  ~Accepting(s, p)
      BY <2>1, <2>4, <3>1
    <3>2. ASSUME p \in Clear, NEW s \in Requests, on[s] = p,
                 pc[s] = "done", kind[p] # "update"
          PROVE  effect[s] # "written"
      <4>1. kind[p] = "create"
        BY <2>1, <3>2 DEF AllKinds
      <4>2. effect[s] = "written" => claimStay[s] # 0
        BY <2>4, <3>2 DEF AloneInv, WritesAlone, Flippable
      <4>3. effect[s] = "written" => snapRow[r] = s
        BY <2>1, <2>4, <3>2, <4>1, <4>2
      <4>4. QED
        BY <2>1, <4>3
    <3>3. /\ pc' = [pc EXCEPT ![r] = "done"]
          /\ status' = [status EXCEPT ![p] = "pending"]
          /\ stay' = [stay EXCEPT ![p] = @ + 1]
          /\ createdRow' = [createdRow EXCEPT ![p] = None]
          /\ UNCHANGED <<overruled, overtaken>>
          /\ UNCHANGED <<on, kind, crm, claimStay>>
      BY <1>14, <2>4 DEF UndoFlip, Goto, SetStatus, Requeue
    <3>4. ASSUME NEW q \in Clear, q # p
          PROVE  /\ status'[q] = status[q]
                 /\ stay'[q] = stay[q]
                 /\ createdRow'[q] = createdRow[q]
                 /\ \A s \in Requests : on[s] = q => pc'[s] = pc[s]
      BY <3>3, <3>4
    <3>5. QED
      BY <2>1, <3>1, <3>2, <3>3, <3>4
  <2>5. QED
    BY <2>2, <2>3, <2>4
<1>15. CASE Crash(r)
  BY <1>15 DEF Crash, Goto
<1>16. ASSUME NEW p \in Proposals, Dispatch(r, p) PROVE ClearInv'
  BY <1>16 DEF Dispatch, Begin
<1>17. ASSUME Executed(r) PROVE ClearInv'
  BY <1>17 DEF Executed, Goto
<1>18. ASSUME FallBack(r) PROVE ClearInv'
  BY <1>18 DEF FallBack, Goto, SetStatus, AloneInv, WritesAlone
<1>19. QED
  BY <1>1, <1>2, <1>3, <1>4, <1>5, <1>6, <1>7, <1>8, <1>9, <1>10, <1>11,
     <1>12, <1>13, <1>14, <1>15, <1>16,
     <1>17, <1>18 DEF Step

-------------------------------------------------------------------------------
(* The theorems                                                            *)

\* A proposal that did not exist is named by no claim and no record.
LEMMA ProposeStep ==
    ASSUME TypeOK, IInv, NEW p \in Proposals, Propose(p)
    PROVE  IInv'
<1> USE DEF TypeOK, queue, crm, local, ghost, IInv, Propose, SetStatus, Unasked
<1>1. ClaimInv' /\ AloneInv' /\ ClaimOncePerStay'
  BY DEF ClaimInv, AloneInv, WritesAlone, Direct, ClaimOncePerStay
<1>2. RowInv' /\ UndoInv'
  BY DEF RowInv, UndoInv
<1>3. ClearInv'
  BY DEF ClearInv, Clear, Accepting, RowOf
<1>4. NoPhantomAcceptance'
  BY DEF NoPhantomAcceptance, Accepting
<1>5. QED
  BY <1>1, <1>2, <1>3, <1>4

LEMMA InvStep == TypeOK /\ IInv /\ [Next]_vars => IInv'
<1> SUFFICES ASSUME TypeOK, IInv, [Next]_vars
             PROVE  IInv'
  OBVIOUS
<1>1. CASE UNCHANGED vars
  BY <1>1 DEF vars, queue, crm, local, ghost, IInv, ClaimInv, AloneInv,
     WritesAlone, Direct, ClaimOncePerStay, RowInv, UndoInv, ClearInv, Clear,
     NoPhantomAcceptance, Accepting, RowOf
<1>2. ASSUME NEW p \in Proposals, Propose(p) PROVE IInv'
  BY <1>2, ProposeStep DEF IInv
<1>3. CASE \E r \in Requests : Step(r)
  <2> PICK r \in Requests : Step(r)
    BY <1>3
  <2>1. ClaimInv' /\ AloneInv' /\ ClaimOncePerStay'
    BY ClaimStep, AloneStep DEF IInv
  <2>2. RowInv' /\ UndoInv'
    BY RowStep, UndoStep DEF IInv
  <2>3. ClearInv' /\ NoPhantomAcceptance'
    BY ClearStep, PhantomStep DEF IInv
  <2>4. QED
    BY <2>1, <2>2, <2>3 DEF IInv
<1>4. QED
  BY <1>1, <1>2, <1>3 DEF Next

LEMMA Invariance == Spec => [](TypeOK /\ IInv)
<1>1. Init => TypeOK /\ IInv
  BY TypeInit, InvInit
<1>2. (TypeOK /\ IInv) /\ [Next]_vars => (TypeOK /\ IInv)'
  BY TypeStep, InvStep
<1>3. QED
  BY <1>1, <1>2, PTL DEF Spec

\* However many requests race for a proposal, two that claimed it did so in
\* different stays: the filtered UPDATE of accept_proposal is a lock.
THEOREM ClaimOnce == Spec => []ClaimOncePerStay
<1>1. IInv => ClaimOncePerStay
  BY DEF IInv
<1>2. QED
  BY <1>1, Invariance, PTL

\* An acceptance that names no record belongs to an accept that is still running
\* or whose instance died: the release in accept_proposal leaves none behind.
THEOREM NoPhantom == Spec => []NoPhantomAcceptance
<1>1. IInv => NoPhantomAcceptance
  BY DEF IInv
<1>2. QED
  BY <1>1, Invariance, PTL

LEMMA ClearMeansNoDuplicate == TypeOK /\ IInv => DuplicateHasCause
<1> USE ConstantsAssumption
    DEF TypeOK, queue, crm, local, ghost, InFlight, Undoing, Working, Ended,
        Statuses, Listed, Direct, Rows, IInv, ClaimInv,
        ClaimOncePerStay, RowInv, ClearInv, Clear, Accepting
<1> SUFFICES ASSUME TypeOK, IInv,
                    NEW r \in Requests, NEW s \in Requests, r # s,
                    on[r] = on[s], on[r] \in Clear,
                    kind[on[r]] # "update",
                    effect[r] = "written", effect[s] = "written",
                    ~Leaked(r), ~Leaked(s)
             PROVE  FALSE
  BY DEF DuplicateHasCause
<1>1. claimStay[r] # 0 /\ claimStay[s] # 0
  BY DEF AloneInv, WritesAlone, Leaked
<1>2. ASSUME NEW q \in {r, s} PROVE claimStay[q] = stay[on[r]]
  <2>1. pc[q] \in InFlight \cup {"dead", "done", "refused"}
    BY DEF Leaked
  <2>2. pc[q] # "refused"
    OBVIOUS
  <2>3. QED
    BY <1>1, <2>1, <2>2
<1>3. QED
  BY <1>1, <1>2

\* Two live records of one proposal need a reject that overrode an acceptance, an
\* undo that overtook one, or an executor that failed without cleaning up.
THEOREM DuplicatesHaveCauses == Spec => []DuplicateHasCause
BY ClearMeansNoDuplicate, Invariance, PTL

-------------------------------------------------------------------------------
(* The records accepted proposals name                                     *)

\* A record is created by an accept of its proposal that has answered, and only
\* undos of the same proposal name it; nothing in the queue removes the record of
\* an accept on its way to its last UPDATE.
NamedInv ==
    /\ \A p \in Proposals : createdRow[p] \in Requests =>
         /\ pc[createdRow[p]] = "done"
         /\ on[createdRow[p]] = p
    /\ \A r \in Requests :
         /\ snapRow[r] \in Requests => /\ pc[r] # "idle"
                                       /\ pc[snapRow[r]] = "done"
                                       /\ on[snapRow[r]] = on[r]
         /\ pc[r] \in {"attaching", "finalizing"} => effect[r] # "removed"

LiveInv == NamedInv /\ AcceptedRowLives

\* A step that touches no name and starts no removal, and ends no undo and no
\* accept, keeps the property.
LEMMA SameExcuses ==
    ASSUME AcceptedRowLives,
           UNCHANGED <<status, createdRow, snapRow>>,
           \A q \in Requests : effect'[q] = "removed" => effect[q] = "removed",
           \A q \in Requests : pc[q] \in {"flipping", "dead"} =>
                                    /\ pc'[q] \in {"flipping", "dead"}
                                    /\ on'[q] = on[q],
           \A q \in Requests, p \in Proposals :
               Accepting(q, p) => Accepting(q, p)'
    PROVE  AcceptedRowLives'
BY DEF AcceptedRowLives

\* NamedInv leaves the queue no way to remove a named record but an undo of its
\* proposal, and that undo is then about to flip it.
LEMMA LiveStep ==
    ASSUME TypeOK, ClaimInv, LiveInv, NEW r \in Requests, Step(r)
    PROVE  LiveInv'
<1> USE ConstantsAssumption
    DEF TypeOK, queue, crm, local, ghost, InFlight, Undoing, Working, Ended,
        Statuses, Listed, Direct, Rows, LiveInv, NamedInv, AcceptedRowLives, Accepting
<1>1. ASSUME NEW p \in Listed, AcceptRead(r, p) PROVE LiveInv'
  BY <1>1 DEF AcceptRead, Begin
<1>2. ASSUME NEW p \in Listed, Reject(r, p) PROVE LiveInv'
  BY <1>2 DEF Reject, Begin, SetStatus
<1>3. ASSUME NEW p \in Listed, Reopen(r, p) PROVE LiveInv'
  BY <1>3 DEF Reopen, Begin, SetStatus, Requeue
<1>4. ASSUME NEW p \in Listed, UndoRead(r, p) PROVE LiveInv'
  BY <1>4 DEF UndoRead, Begin
<1>5. ASSUME NEW x \in Rows, Edit(r, x) PROVE LiveInv'
  <2>1. /\ pc[r] = "idle" /\ pc'[r] = "done"
        /\ \A q \in Requests : q # r => pc'[q] = pc[q] /\ on'[q] = on[q]
        /\ UNCHANGED <<status, createdRow, effect, snapRow, claimStay>>
    BY <1>5 DEF Edit, Begin
  <2>2. NamedInv'
    BY <2>1
  <2>3. ASSUME NEW q \in Requests
        PROVE  /\ pc[q] \in {"flipping", "dead"} =>
                      /\ pc'[q] \in {"flipping", "dead"}
                      /\ on'[q] = on[q]
               /\ \A p \in Proposals : Accepting(q, p) => Accepting(q, p)'
    BY <2>1
  <2>4. AcceptedRowLives'
    BY <2>1, <2>3, SameExcuses
  <2>5. QED
    BY <2>2, <2>4
<1>6. ASSUME AcceptClaim(r) PROVE LiveInv'
  BY <1>6 DEF AcceptClaim, Goto, SetStatus, Claimable
<1>7. ASSUME Execute(r) PROVE LiveInv'
  BY <1>7 DEF Execute, Goto
<1>8. ASSUME Attach(r) PROVE LiveInv'
  BY <1>8 DEF Attach, Goto
<1>9. ASSUME Release(r) PROVE LiveInv'
  BY <1>9 DEF Release, Goto, SetStatus, Requeue, Releasable
<1>10. ASSUME Finalize(r) PROVE LiveInv'
  BY <1>10 DEF Finalize, Goto, SetStatus, RowOf
<1>11. ASSUME UndoCheck(r) PROVE LiveInv'
  BY <1>11 DEF UndoCheck, Goto
<1>12. ASSUME NEW x \in Requests, Delete(r, x) PROVE LiveInv'
  <2>1. /\ pc[r] = "idle" /\ pc'[r] = "done"
        /\ \A q \in Requests : q # r => pc'[q] = pc[q] /\ on'[q] = on[q]
        /\ \A q \in Requests : effect'[q] = "removed" <=> effect[q] = "removed"
        /\ UNCHANGED <<status, createdRow, snapRow, claimStay>>
    BY <1>12 DEF Delete, Live, Begin
  <2>2. NamedInv'
    BY <2>1
  <2>3. ASSUME NEW q \in Requests
        PROVE  /\ pc[q] \in {"flipping", "dead"} =>
                      /\ pc'[q] \in {"flipping", "dead"}
                      /\ on'[q] = on[q]
               /\ \A p \in Proposals : Accepting(q, p) => Accepting(q, p)'
    BY <2>1
  <2>4. AcceptedRowLives'
    BY <2>1, <2>3, SameExcuses
  <2>5. QED
    BY <2>2, <2>4
<1>13. ASSUME UndoReverse(r) PROVE LiveInv'
  BY <1>13 DEF UndoReverse, Goto
<1>14. ASSUME UndoFlip(r) PROVE LiveInv'
  BY <1>14 DEF UndoFlip, Goto, SetStatus, Requeue, Flippable
<1>15. ASSUME Crash(r) PROVE LiveInv'
  BY <1>15 DEF Crash, Goto
<1>16. ASSUME NEW p \in Proposals, Dispatch(r, p) PROVE LiveInv'
  <2>1. /\ pc[r] = "idle" /\ pc'[r] = "executing"
        /\ \A q \in Requests : q # r => pc'[q] = pc[q] /\ on'[q] = on[q]
        /\ UNCHANGED <<status, createdRow, effect, snapRow, claimStay>>
    BY <1>16 DEF Dispatch, Begin
  <2>2. NamedInv'
    BY <2>1
  <2>3. AcceptedRowLives'
    BY <2>1
  <2>4. QED
    BY <2>2, <2>3
<1>17. ASSUME Executed(r) PROVE LiveInv'
  <2>1. /\ pc[r] = "finalizing" /\ pc'[r] = "done" /\ stamp[r] = None
        /\ \A q \in Requests : q # r => pc'[q] = pc[q]
        /\ UNCHANGED <<status, createdRow, effect, snapRow, claimStay, on>>
    BY <1>17 DEF Executed, Goto
  <2>2. NamedInv'
    BY <2>1
  <2>3. claimStay[r] = 0
    BY <2>1 DEF ClaimInv
  <2>4. AcceptedRowLives'
    BY <2>1, <2>3, SameExcuses
  <2>5. QED
    BY <2>2, <2>4
<1>18. ASSUME FallBack(r) PROVE LiveInv'
  BY <1>18 DEF FallBack, Goto, SetStatus
<1>19. QED
  BY <1>1, <1>2, <1>3, <1>4, <1>5, <1>6, <1>7, <1>8, <1>9, <1>10, <1>11,
     <1>12, <1>13, <1>14, <1>15, <1>16,
     <1>17, <1>18 DEF Step

LEMMA LiveNext == TypeOK /\ IInv /\ LiveInv /\ [Next]_vars => LiveInv'
<1> SUFFICES ASSUME TypeOK, IInv, LiveInv, [Next]_vars
             PROVE  LiveInv'
  OBVIOUS
<1> USE DEF queue, crm, local, ghost
<1>1. CASE UNCHANGED vars
  BY <1>1 DEF vars, LiveInv, NamedInv, AcceptedRowLives, Accepting
<1>2. ASSUME NEW p \in Proposals, Propose(p) PROVE LiveInv'
  BY <1>2 DEF Propose, SetStatus, TypeOK, LiveInv, NamedInv,
     AcceptedRowLives, Accepting
<1>3. ASSUME NEW r \in Requests, Step(r) PROVE LiveInv'
  BY <1>3, LiveStep DEF IInv
<1>4. QED
  BY <1>1, <1>2, <1>3 DEF Next

\* The queue has not taken back the record an accepted proposal names, but while
\* an undo is between its two writes or a new accept has yet to replace the name.
THEOREM AcceptedRowsLive == Spec => []AcceptedRowLives
<1>1. Init => LiveInv
  BY ConstantsAssumption DEF Init, Rows, LiveInv, NamedInv, AcceptedRowLives
<1>2. LiveInv => AcceptedRowLives
  BY DEF LiveInv
<1>3. QED
  BY <1>1, <1>2, LiveNext, Invariance, PTL DEF Spec

-------------------------------------------------------------------------------
(* The queue implements the ledger                                         *)

LEMMA LedgerInit == Init => Ledger!Init
BY DEF Init, Ledger!Init, Writes

\* The writes depend on the requests that wrote, and on nothing else.
LEMMA SameWrites ==
    ASSUME \A q \in Requests :
               /\ effect'[q] # "none" <=> effect[q] # "none"
               /\ effect[q] # "none" => /\ on'[q] = on[q]
                                        /\ claimStay'[q] = claimStay[q]
    PROVE  Writes' = Writes
BY DEF Writes

LEMMA ExecuteWrites ==
    ASSUME TypeOK, IInv, NEW r \in Requests, Execute(r)
    PROVE  [Ledger!Next]_(Ledger!vars)
<1> DEFINE p == on[r]
<1> USE ConstantsAssumption
    DEF TypeOK, queue, crm, local, ghost, InFlight, Undoing, Working, Ended,
        Statuses, Listed, Direct, Rows, IInv, ClaimInv,
        ClaimOncePerStay, RowInv
<1>1. /\ pc[r] = "executing"
      /\ p \in Proposals
      /\ claimStay[r] \in 0..stay[p]
      /\ effect[r] = "none"
      /\ stay' = stay
      /\ claimStay' = claimStay
      /\ on' = on
  BY DEF Execute, Goto
<1>2. CASE effect' = effect
  <2>1. Writes' = Writes
    BY <1>1, <1>2, SameWrites
  <2>2. QED
    BY <1>1, <2>1 DEF Ledger!vars
<1>3. CASE effect' = [effect EXCEPT ![r] = "written"]
  <2>1. \A e \in Writes[p] : e.stay # claimStay[r]
    BY <1>1 DEF Writes, AloneInv, WritesAlone
  <2>2. Writes' = [Writes EXCEPT ![p] =
                       @ \cup {[by |-> r, stay |-> claimStay[r]]}]
    <3> DEFINE WritersOf(q) == {s \in Requests : on[s] = q /\ effect[s] # "none"}
               Entry(s) == [by |-> s, stay |-> claimStay[s]]
    <3>1. WritersOf(p)' = WritersOf(p) \cup {r}
      BY <1>1, <1>3
    <3>2. ASSUME NEW q \in Proposals, q # p PROVE WritersOf(q)' = WritersOf(q)
      BY <1>1, <1>3, <3>2
    <3>3. Writes = [q \in Proposals |-> {Entry(s) : s \in WritersOf(q)}]
      BY DEF Writes
    <3>4. Writes' = [q \in Proposals |-> {Entry(s) : s \in WritersOf(q)'}]
      BY <1>1 DEF Writes
    <3> HIDE DEF WritersOf
    <3>5. {Entry(s) : s \in WritersOf(p)'}
            = {Entry(s) : s \in WritersOf(p)} \cup {Entry(r)}
      BY <3>1
    <3>6. QED
      BY <1>1, <3>2, <3>3, <3>4, <3>5
  <2>3. Ledger!Write(p, r)
    BY <1>1, <2>1, <2>2 DEF Ledger!Write
  <2>4. QED
    BY <1>1, <2>3 DEF Ledger!Next
<1>4. QED
  BY <1>2, <1>3 DEF Execute

LEMMA LedgerStep ==
    ASSUME TypeOK, IInv, [Next]_vars
    PROVE  [Ledger!Next]_(Ledger!vars)
<1> USE ConstantsAssumption
    DEF TypeOK, queue, crm, local, ghost, InFlight, Undoing, Working, Ended,
        Statuses, Listed, Direct, Rows, IInv, ClaimInv, RowInv
<1>1. CASE UNCHANGED vars
  BY <1>1, SameWrites DEF vars, Ledger!vars
<1>2. ASSUME NEW p \in Proposals, Propose(p)
      PROVE  [Ledger!Next]_(Ledger!vars)
  BY <1>2, SameWrites DEF Propose, Ledger!vars
<1>3. CASE \E r \in Requests : Step(r)
  <2> PICK r \in Requests : Step(r)
    BY <1>3
  <2> DEFINE Quiet == \A q \in Requests :
                         /\ effect'[q] # "none" <=> effect[q] # "none"
                         /\ effect[q] # "none" => /\ on'[q] = on[q]
                                                  /\ claimStay'[q] = claimStay[q]
             Entered == \/ stay' = stay
                        \/ \E p \in Proposals :
                               stay' = [stay EXCEPT ![p] = @ + 1]
  <2>1. ASSUME NEW p \in Listed, AcceptRead(r, p) PROVE Quiet /\ Entered
    BY <2>1 DEF AcceptRead, Begin
  <2>2. ASSUME NEW p \in Listed, Reject(r, p) PROVE Quiet /\ Entered
    BY <2>2 DEF Reject, Begin
  <2>3. ASSUME NEW p \in Listed, Reopen(r, p) PROVE Quiet /\ Entered
    BY <2>3 DEF Reopen, Begin, Requeue
  <2>4. ASSUME NEW p \in Listed, UndoRead(r, p) PROVE Quiet /\ Entered
    BY <2>4 DEF UndoRead, Begin
  <2>5. ASSUME NEW x \in Rows, Edit(r, x) PROVE Quiet /\ Entered
    BY <2>5 DEF Edit, Begin
  <2>6. ASSUME AcceptClaim(r)
       PROVE  Quiet /\ Entered
    BY <2>6 DEF AcceptClaim, Goto
  <2>7. ASSUME Attach(r)
       PROVE  Quiet /\ Entered
    BY <2>7 DEF Attach, Goto
  <2>8. ASSUME Release(r)
       PROVE  Quiet /\ Entered
    BY <2>8 DEF Release, Goto, Requeue
  <2>9. ASSUME Finalize(r) \/ UndoCheck(r) \/ Crash(r)
       PROVE  Quiet /\ Entered
    BY <2>9 DEF Finalize, UndoCheck, Crash, Goto
  <2>10. ASSUME UndoReverse(r)
        PROVE  Quiet /\ Entered
    BY <2>10 DEF UndoReverse, Goto
  <2>11. ASSUME UndoFlip(r)
        PROVE  Quiet /\ Entered
    BY <2>11 DEF UndoFlip, Goto, Requeue
  <2>12. ASSUME NEW p \in Proposals, Dispatch(r, p) PROVE Quiet /\ Entered
    BY <2>12 DEF Dispatch, Begin
  <2>13. ASSUME Executed(r) \/ FallBack(r) PROVE Quiet /\ Entered
    BY <2>13 DEF Executed, FallBack, Goto
  <2>14. CASE Execute(r)
    BY <2>14, ExecuteWrites
  <2>15. ASSUME NEW x \in Requests, Delete(r, x) PROVE Quiet /\ Entered
    BY <2>15 DEF Delete, Live, Begin
  <2>16. Quiet /\ Entered => [Ledger!Next]_(Ledger!vars)
    <3>1. Quiet => Writes' = Writes
      BY SameWrites
    <3>2. QED
      BY <3>1 DEF Ledger!Next, Ledger!Enter, Ledger!vars
  <2>17. Execute(r) \/ (Quiet /\ Entered)
    BY <2>1, <2>2, <2>3, <2>4, <2>5, <2>6, <2>7, <2>8, <2>9, <2>10, <2>11,
       <2>12, <2>13, <2>15 DEF Step
  <2>18. QED
    BY <2>14, <2>16, <2>17
<1>4. QED
  BY <1>1, <1>2, <1>3 DEF Next

\* Every behaviour of the queue is one of the ledger: a stay in the queue is
\* written at most once.
THEOREM ImplementsLedger == Spec => LedgerSpec
<1>1. Init => Ledger!Init
  BY LedgerInit
<1>2. TypeOK /\ IInv /\ [Next]_vars => [Ledger!Next]_(Ledger!vars)
  BY LedgerStep
<1>3. QED
  BY <1>1, <1>2, Invariance, PTL DEF Spec, LedgerSpec, Ledger!Spec
===============================================================================
