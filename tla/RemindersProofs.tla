---------------------------- MODULE RemindersProofs ----------------------------
(***************************************************************************)
(* Theorems about Reminders, for any number of reminders and runners, any  *)
(* batch and any number of attempts and crashes.                           *)
(***************************************************************************)
EXTENDS Reminders, TLAPS

LEMMA TypeInit == Init => TypeOK
BY ConstantsAssumption DEF Init, TypeOK, Reminders, Statuses

\* The helper that changes rows keeps their type.
LEMMA SetStatusType ==
    ASSUME TypeOK, NEW S, NEW to \in Statuses, SetStatus(S, to)
    PROVE  /\ status' \in [Reminders -> Statuses]
           /\ stale' \in [Reminders -> BOOLEAN]
BY DEF TypeOK, SetStatus

LEMMA SubsetsType ==
    TypeOK => /\ DueBatch \subseteq Reminders
              /\ Stuck \subseteq Reminders
              /\ \A n \in Runners : Claimable(picked[n]) \subseteq Reminders
BY DEF TypeOK, DueBatch, Due, Stuck, Claimable

LEMMA TypeStep == TypeOK /\ [Next]_vars => TypeOK'
<1> SUFFICES ASSUME TypeOK, [Next]_vars
             PROVE  TypeOK'
  OBVIOUS
<1> USE ConstantsAssumption DEF TypeOK, table, world, local, ghost
<1>1. CASE UNCHANGED vars
  BY <1>1 DEF vars
<1>2. ASSUME NEW n \in Runners, RecoverStuck(n) PROVE TypeOK'
  <2>1. /\ status' \in [Reminders -> Statuses]
        /\ stale' \in [Reminders -> BOOLEAN]
    BY <1>2, SetStatusType DEF RecoverStuck, Statuses
  <2>2. QED
    BY <1>2, <2>1, SubsetsType DEF RecoverStuck, Goto
<1>3. ASSUME NEW n \in Runners, SelectDue(n) PROVE TypeOK'
  BY <1>3, SubsetsType DEF SelectDue, Goto
<1>4. ASSUME NEW n \in Runners, ClaimDue(n) PROVE TypeOK'
  BY <1>4, SetStatusType, SubsetsType DEF ClaimDue, Continue, Statuses
<1>5. ASSUME NEW n \in Runners, NEW m \in Reminders, PushReturns(n, m)
      PROVE  TypeOK'
  <2>1. pushed' \in [Reminders -> [Devices -> 0..2]]
    BY <1>5 DEF PushReturns, Served
  <2>2. QED
    BY <1>5, <2>1 DEF PushReturns, Attempting
<1>6. ASSUME NEW n \in Runners, NEW m \in Reminders, PushRaises(n, m)
      PROVE  TypeOK'
  <2>1. pushed' \in [Reminders -> [Devices -> 0..2]]
    BY <1>6 DEF PushRaises, Served
  <2>2. /\ pc[n] = "sending"
        /\ m \in todo[n]
        /\ attempt[n] \in 0..(Attempts - 1)
        /\ cur' = [cur EXCEPT ![n] = m]
        /\ attempt' = [attempt EXCEPT ![n] = attempt[n] + 1]
    BY <1>6 DEF PushRaises, Attempting
  <2>3. /\ pc' \in [Runners -> {"idle", "selecting", "claiming", "sending",
                                "sent", "failed"}]
        /\ pc'[n] \in {"sending", "failed"}
        /\ pc'[n] = "sending" => attempt[n] + 1 # Attempts
        /\ \A k \in Runners \ {n} : pc'[k] = pc[k]
    BY <1>6, <2>2 DEF PushRaises, LastAttempt
  <2>4. /\ attempt' \in [Runners -> 0..Attempts]
        /\ \A k \in Runners :
             /\ cur'[k] = NoReminder => attempt'[k] = 0
             /\ pc'[k] = "sending" => attempt'[k] < Attempts
    <3>1. attempt[n] + 1 \in 0..Attempts /\ m # NoReminder
      BY <2>2 DEF Reminders
    <3>2. attempt' \in [Runners -> 0..Attempts]
      BY <2>2, <3>1
    <3>3. /\ cur'[n] = m
          /\ attempt'[n] = attempt[n] + 1
          /\ \A k \in Runners \ {n} : cur'[k] = cur[k] /\ attempt'[k] = attempt[k]
      BY <2>2
    <3>4. pc'[n] = "sending" => attempt'[n] < Attempts
      BY <2>2, <2>3, <3>1, <3>3
    <3>5. QED
      BY <2>3, <3>1, <3>2, <3>3, <3>4
  <2>5. /\ cur' \in [Runners -> Reminders \cup {NoReminder}]
        /\ \A k \in Runners :
             /\ cur'[k] # NoReminder => cur'[k] \in todo[k]
             /\ pc'[k] \in {"idle", "selecting", "claiming"}
                    => cur'[k] = NoReminder
    BY <2>2, <2>3
  <2>6. QED
    BY <1>6, <2>1, <2>3, <2>4, <2>5 DEF PushRaises
<1>7. ASSUME NEW n \in Runners, SettleSent(n) \/ SettleFailed(n) PROVE TypeOK'
  <2>1. PICK to \in Statuses, from \in {"sent", "failed"} : Settle(n, from, to)
    BY <1>7 DEF SettleSent, SettleFailed, Statuses
  <2>2. /\ status' \in [Reminders -> Statuses]
        /\ stale' \in [Reminders -> BOOLEAN]
    BY <2>1, SetStatusType DEF Settle
  <2>3. /\ cur' = [cur EXCEPT ![n] = NoReminder]
        /\ attempt' = [attempt EXCEPT ![n] = 0]
        /\ todo' = [todo EXCEPT ![n] = @ \ {cur[n]}]
        /\ lost' = [lost EXCEPT ![n] = @ \ {cur[n]}]
        /\ pc' \in [Runners -> {"idle", "selecting", "claiming", "sending",
                                "sent", "failed"}]
        /\ \A k \in Runners \ {n} : pc'[k] = pc[k]
        /\ UNCHANGED <<deleted, made, clock, subs, picked, pushed, repeated, crashes>>
    BY <2>1 DEF Settle, Continue, Forget
  <2>4. QED
    BY <2>2, <2>3
<1>8. ASSUME NEW n \in Runners, Crash(n) PROVE TypeOK'
  BY <1>8 DEF Crash, Goto, Forget
<1>9. ASSUME NEW m \in Reminders, Create(m) \/ Age(m) \/ Delete(m) PROVE TypeOK'
  <2>1. CASE Create(m)
    BY <2>1 DEF Create
  <2>2. CASE Age(m)
    BY <2>2 DEF Age
  <2>3. CASE Delete(m)
    BY <2>3 DEF Delete
  <2>4. QED
    BY <1>9, <2>1, <2>2, <2>3
<1>10. ASSUME NEW d \in Devices, Subscribe(d) \/ Unsubscribe(d) PROVE TypeOK'
  BY <1>10 DEF Subscribe, Unsubscribe
<1>11. CASE Tick
  BY <1>11 DEF Tick
<1>12. QED
  BY <1>1, <1>2, <1>3, <1>4, <1>5, <1>6, <1>7, <1>8, <1>9, <1>10, <1>11 DEF Next, Run

THEOREM TypeCorrect == Spec => []TypeOK
<1>1. Init => TypeOK
  BY TypeInit
<1>2. TypeOK /\ [Next]_vars => TypeOK'
  BY TypeStep
<1>3. QED
  BY <1>1, <1>2, PTL DEF Spec

-------------------------------------------------------------------------------
(* Ownership                                                               *)

\* A row that no recovery took from its runner is not waiting in the queue, so
\* no other runner can claim it; and a row is lost only to a runner that holds
\* it.  Together with OneOwner this is inductive.
OwnerInv ==
    /\ \A n \in Runners : \A m \in todo[n] \ lost[n] : status[m] # "PENDING"
    /\ OneOwner

LEMMA OwnerStep == TypeOK /\ OwnerInv /\ [Next]_vars => OwnerInv'
<1> SUFFICES ASSUME TypeOK, OwnerInv, [Next]_vars
             PROVE  OwnerInv'
  OBVIOUS
<1> USE DEF TypeOK, table, world, local, ghost, OwnerInv, OneOwner
<1>1. CASE UNCHANGED vars
  BY <1>1 DEF vars
<1>2. ASSUME NEW n \in Runners, RecoverStuck(n) PROVE OwnerInv'
  BY <1>2 DEF RecoverStuck, SetStatus
<1>3. ASSUME NEW n \in Runners, SelectDue(n) PROVE OwnerInv'
  BY <1>3 DEF SelectDue
<1>4. ASSUME NEW n \in Runners, ClaimDue(n) PROVE OwnerInv'
  BY <1>4 DEF ClaimDue, SetStatus, Claimable
<1>5. ASSUME NEW n \in Runners, NEW m \in Reminders,
             PushReturns(n, m) \/ PushRaises(n, m)
      PROVE  OwnerInv'
  BY <1>5 DEF PushReturns, PushRaises
<1>6. ASSUME NEW n \in Runners, SettleSent(n) \/ SettleFailed(n) PROVE OwnerInv'
  <2>1. PICK to \in Settled, from \in {"sent", "failed"} : Settle(n, from, to)
    BY <1>6 DEF SettleSent, SettleFailed, Settled
  <2>2. /\ todo' = [todo EXCEPT ![n] = todo[n] \ {cur[n]}]
        /\ lost' = [lost EXCEPT ![n] = lost[n] \ {cur[n]}]
        /\ \A m \in Reminders : status'[m] = status[m] \/ status'[m] = to
        /\ to # "PENDING"
    BY <2>1 DEF Settle, SetStatus, Settled
  <2>3. \A k \in Runners : /\ todo'[k] \subseteq todo[k]
                           /\ todo'[k] \cap lost[k] \subseteq lost'[k]
    BY <2>2
  <2>4. QED
    BY <2>2, <2>3
<1>7. ASSUME NEW n \in Runners, Crash(n) PROVE OwnerInv'
  BY <1>7 DEF Crash
<1>8. ASSUME NEW m \in Reminders, Create(m) \/ Age(m) \/ Delete(m) PROVE OwnerInv'
  BY <1>8 DEF Create, Age, Delete
<1>9. ASSUME NEW d \in Devices, Subscribe(d) \/ Unsubscribe(d) PROVE OwnerInv'
  BY <1>9 DEF Subscribe, Unsubscribe
<1>10. CASE Tick
  BY <1>10 DEF Tick
<1>11. QED
  BY <1>1, <1>2, <1>3, <1>4, <1>5, <1>6, <1>7, <1>8, <1>9, <1>10 DEF Next, Run

\* Overlapping fires share a reminder only after the recovery of stuck rows took
\* it from one of them: the filtered UPDATE of _claim_due is exclusive.
THEOREM ClaimIsExclusive == Spec => []OneOwner
<1>1. Init => OwnerInv
  BY DEF Init, OwnerInv, OneOwner
<1>2. OwnerInv => OneOwner
  BY DEF OwnerInv
<1>3. QED
  BY <1>1, <1>2, OwnerStep, TypeCorrect, PTL DEF Spec

-------------------------------------------------------------------------------
(* Repeated pushes                                                         *)

\* Of a reminder that was neither recovered nor tried again a device got one
\* push at most; and once one did, the row is out of the queue and the only
\* runner that may hold it is about to write that it was sent.
PushInv ==
    /\ \A n \in Runners : lost[n] \subseteq repeated
    /\ \A m \in Reminders \ repeated, d \in Devices :
         /\ pushed[m][d] \in {0, 1}
         /\ pushed[m][d] = 1 =>
              /\ status[m] # "PENDING"
              /\ \A n \in Runners : m \in todo[n] => pc[n] = "sent" /\ cur[n] = m

LEMMA PushStep == TypeOK /\ OwnerInv /\ PushInv /\ [Next]_vars => PushInv'
<1> SUFFICES ASSUME TypeOK, OwnerInv, PushInv, [Next]_vars
             PROVE  PushInv'
  OBVIOUS
<1> USE DEF TypeOK, table, world, local, ghost, PushInv
<1>1. CASE UNCHANGED vars
  BY <1>1 DEF vars
<1>2. ASSUME NEW n \in Runners, RecoverStuck(n) PROVE PushInv'
  BY <1>2 DEF RecoverStuck, SetStatus, Goto
<1>3. ASSUME NEW n \in Runners, SelectDue(n) PROVE PushInv'
  BY <1>3 DEF SelectDue, Goto
<1>4. ASSUME NEW n \in Runners, ClaimDue(n) PROVE PushInv'
  BY <1>4 DEF ClaimDue, SetStatus, Claimable, Continue
<1>5. ASSUME NEW n \in Runners, NEW m \in Reminders, PushReturns(n, m)
      PROVE  PushInv'
  <2>1. /\ pc[n] = "sending" /\ m \in todo[n]
        /\ cur' = [cur EXCEPT ![n] = m]
        /\ pc' = [pc EXCEPT ![n] = "sent"]
        /\ UNCHANGED <<status, todo, lost, repeated>>
    BY <1>5 DEF PushReturns, Attempting
  <2>2. \A k \in Reminders, d \in Devices :
          /\ k # m => pushed'[k][d] = pushed[k][d]
          /\ pushed[m][d] = 0 => pushed'[m][d] \in {0, 1}
    BY <1>5 DEF PushReturns, Served
  <2>3. m \notin repeated =>
          /\ \A d \in Devices : pushed[m][d] = 0
          /\ status[m] # "PENDING"
          /\ \A k \in Runners : m \in todo[k] => k = n
    BY <2>1 DEF OwnerInv, OneOwner
  <2>4. \A k \in Reminders : k # m /\ k \in todo[n] /\ k \notin repeated =>
          \A d \in Devices : pushed[k][d] = 0
    BY <2>1
  <2>5. QED
    BY <2>1, <2>2, <2>3, <2>4
<1>6. ASSUME NEW n \in Runners, NEW m \in Reminders, PushRaises(n, m)
      PROVE  PushInv'
  <2>1. /\ pc[n] = "sending" /\ m \in todo[n]
        /\ cur' = [cur EXCEPT ![n] = m]
        /\ \A k \in Runners : k # n => pc'[k] = pc[k]
        /\ repeated' = repeated \cup {m}
        /\ UNCHANGED <<status, todo, lost>>
    BY <1>6 DEF PushRaises, Attempting
  <2>2. \A k \in Reminders, d \in Devices : k # m => pushed'[k][d] = pushed[k][d]
    BY <1>6 DEF PushRaises, Served
  <2>3. \A k \in Reminders : k \in todo[n] /\ k \notin repeated =>
          \A d \in Devices : pushed[k][d] = 0
    BY <2>1
  <2>4. QED
    BY <2>1, <2>2, <2>3
<1>7. ASSUME NEW n \in Runners, SettleSent(n) \/ SettleFailed(n) PROVE PushInv'
  <2>1. PICK to \in Settled, from \in {"sent", "failed"} : Settle(n, from, to)
    BY <1>7 DEF SettleSent, SettleFailed, Settled
  <2>2. /\ todo' = [todo EXCEPT ![n] = todo[n] \ {cur[n]}]
        /\ lost' = [lost EXCEPT ![n] = lost[n] \ {cur[n]}]
        /\ cur' = [cur EXCEPT ![n] = NoReminder]
        /\ \A k \in Runners : k # n => pc'[k] = pc[k]
        /\ \A m \in Reminders : status'[m] = status[m] \/ status'[m] # "PENDING"
        /\ UNCHANGED <<pushed, repeated>>
    BY <2>1 DEF Settle, SetStatus, Settled, Continue, Forget
  <2>3. \A m \in Reminders, d \in Devices :
          m \in todo'[n] /\ m \notin repeated => pushed[m][d] # 1
    BY <2>2
  <2>4. \A k \in Runners : /\ lost'[k] \subseteq lost[k]
                           /\ k # n => todo'[k] = todo[k] /\ cur'[k] = cur[k]
    BY <2>2
  <2>5. ASSUME NEW m \in Reminders \ repeated, NEW d \in Devices, pushed[m][d] = 1
        PROVE  /\ status'[m] # "PENDING"
               /\ \A k \in Runners : m \in todo'[k] => pc'[k] = "sent" /\ cur'[k] = m
    BY <2>2, <2>3, <2>4, <2>5
  <2>6. \A k \in Runners : lost'[k] \subseteq repeated'
    BY <2>2, <2>4
  <2>7. \A m \in Reminders \ repeated', d \in Devices : pushed'[m][d] \in {0, 1}
    BY <2>2
  <2>8. \A m \in Reminders \ repeated', d \in Devices : pushed'[m][d] = 1 =>
          /\ status'[m] # "PENDING"
          /\ \A k \in Runners : m \in todo'[k] => pc'[k] = "sent" /\ cur'[k] = m
    <3>1. pushed' = pushed /\ repeated' = repeated
      BY <2>2
    <3>2. QED
      BY <3>1, <2>5
  <2>9. QED
    BY <2>6, <2>7, <2>8 DEF PushInv
<1>8. ASSUME NEW n \in Runners, Crash(n) PROVE PushInv'
  <2>1. /\ todo'[n] = {} /\ lost'[n] = {}
        /\ UNCHANGED <<status, pushed, repeated>>
    BY <1>8 DEF Crash
  <2>2. \A k \in Runners : k # n =>
          /\ pc'[k] = pc[k] /\ cur'[k] = cur[k]
          /\ todo'[k] = todo[k] /\ lost'[k] = lost[k]
    BY <1>8 DEF Crash, Goto, Forget
  <2>3. QED
    BY <2>1, <2>2
<1>9. ASSUME NEW m \in Reminders, Create(m) \/ Age(m) \/ Delete(m) PROVE PushInv'
  BY <1>9 DEF Create, Age, Delete
<1>10. ASSUME NEW d \in Devices, Subscribe(d) \/ Unsubscribe(d) PROVE PushInv'
  BY <1>10 DEF Subscribe, Unsubscribe
<1>11. CASE Tick
  BY <1>11 DEF Tick
<1>12. QED
  BY <1>1, <1>2, <1>3, <1>4, <1>5, <1>6, <1>7, <1>8, <1>9, <1>10, <1>11 DEF Next, Run

\* A device is sent a reminder twice only after a recovery of its row or an
\* attempt that raised half-way.
THEOREM RepeatsHaveCauses == Spec => []RepeatHasCause
<1>1. Init => OwnerInv /\ PushInv
  BY DEF Init, OwnerInv, OneOwner, PushInv
<1>2. PushInv => RepeatHasCause
  BY DEF PushInv, RepeatHasCause
<1>3. QED
  BY <1>1, <1>2, OwnerStep, PushStep, TypeCorrect, PTL DEF Spec

-------------------------------------------------------------------------------
(* Deleted reminders                                                       *)

LEMMA DroppedStep ==
    ASSUME TypeOK, [Next]_vars, NEW m \in Reminders, Dropped(m)
    PROVE  Dropped(m)'
<1> USE DEF TypeOK, table, world, local, ghost, Dropped
<1>1. CASE UNCHANGED vars
  BY <1>1 DEF vars
<1>2. ASSUME NEW n \in Runners, RecoverStuck(n) PROVE Dropped(m)'
  BY <1>2 DEF RecoverStuck
<1>3. ASSUME NEW n \in Runners, SelectDue(n) PROVE Dropped(m)'
  BY <1>3 DEF SelectDue, DueBatch, Due
<1>4. ASSUME NEW n \in Runners, ClaimDue(n) PROVE Dropped(m)'
  BY <1>4 DEF ClaimDue, Claimable
<1>5. ASSUME NEW n \in Runners, NEW k \in Reminders,
             PushReturns(n, k) \/ PushRaises(n, k)
      PROVE  Dropped(m)'
  BY <1>5 DEF PushReturns, PushRaises
<1>6. ASSUME NEW n \in Runners, SettleSent(n) \/ SettleFailed(n)
      PROVE  Dropped(m)'
  BY <1>6 DEF SettleSent, SettleFailed, Settle
<1>7. ASSUME NEW n \in Runners, Crash(n) PROVE Dropped(m)'
  BY <1>7 DEF Crash
<1>8. ASSUME NEW k \in Reminders, Create(k) \/ Age(k) \/ Delete(k) PROVE Dropped(m)'
  BY <1>8 DEF Create, Age, Delete
<1>9. ASSUME NEW d \in Devices, Subscribe(d) \/ Unsubscribe(d) PROVE Dropped(m)'
  BY <1>9 DEF Subscribe, Unsubscribe
<1>10. CASE Tick
  BY <1>10 DEF Tick
<1>11. QED
  BY <1>1, <1>2, <1>3, <1>4, <1>5, <1>6, <1>7, <1>8, <1>9, <1>10 DEF Next, Run

\* A deleted reminder that no runner holds is never taken up again.
THEOREM DeletedIsFinal == Spec => DroppedStaysDropped
<1>1. TypeOK /\ [Next]_vars
        => [\A m \in Reminders : Dropped(m) => Dropped(m)']_vars
  BY DroppedStep
<1>2. QED
  BY <1>1, TypeCorrect, PTL DEF Spec, DroppedStaysDropped

-------------------------------------------------------------------------------
(* The job implements the lease                                            *)

\* Before it claims a runner holds nothing, and what it sends or settles it holds.
HandsInv ==
    \A n \in Runners :
        /\ pc[n] \in {"idle", "selecting", "claiming"} => todo[n] = {}
        /\ pc[n] \in {"sent", "failed"} => cur[n] \in todo[n]

LEMMA HandsStep == TypeOK /\ HandsInv /\ [Next]_vars => HandsInv'
<1> SUFFICES ASSUME TypeOK, HandsInv, [Next]_vars
             PROVE  HandsInv'
  OBVIOUS
<1> USE DEF TypeOK, table, world, local, ghost, HandsInv
<1>1. CASE UNCHANGED vars
  BY <1>1 DEF vars
<1>2. ASSUME NEW n \in Runners, RecoverStuck(n) PROVE HandsInv'
  BY <1>2 DEF RecoverStuck, Goto
<1>3. ASSUME NEW n \in Runners, SelectDue(n) PROVE HandsInv'
  BY <1>3 DEF SelectDue, Goto
<1>4. ASSUME NEW n \in Runners, ClaimDue(n) PROVE HandsInv'
  BY <1>4 DEF ClaimDue, Continue
<1>5. ASSUME NEW n \in Runners, NEW m \in Reminders,
             PushReturns(n, m) \/ PushRaises(n, m)
      PROVE  HandsInv'
  BY <1>5 DEF PushReturns, PushRaises, Attempting
<1>6. ASSUME NEW n \in Runners, SettleSent(n) \/ SettleFailed(n) PROVE HandsInv'
  <2>1. PICK to \in Statuses, from \in {"sent", "failed"} : Settle(n, from, to)
    BY <1>6 DEF SettleSent, SettleFailed, Statuses
  <2>2. QED
    BY <2>1 DEF Settle, Continue, Forget
<1>7. ASSUME NEW n \in Runners, Crash(n) PROVE HandsInv'
  BY <1>7 DEF Crash, Goto, Forget
<1>8. ASSUME NEW m \in Reminders, Create(m) \/ Age(m) \/ Delete(m) PROVE HandsInv'
  BY <1>8 DEF Create, Age, Delete
<1>9. ASSUME NEW d \in Devices, Subscribe(d) \/ Unsubscribe(d) PROVE HandsInv'
  BY <1>9 DEF Subscribe, Unsubscribe
<1>10. CASE Tick
  BY <1>10 DEF Tick
<1>11. QED
  BY <1>1, <1>2, <1>3, <1>4, <1>5, <1>6, <1>7, <1>8, <1>9, <1>10 DEF Next, Run

LEMMA Phases ==
    /\ Phase("PENDING") = "free" /\ Phase("SENDING") = "taken"
    /\ \A to \in Settled : Phase(to) = "settled"
BY DEF Phase, Settled

\* The helper that changes rows changes what the lease sees of them.
LEMMA SetStatusPhase ==
    ASSUME NEW S \in SUBSET Reminders, NEW to \in Statuses, SetStatus(S, to)
    PROVE  State' = Leases!In(S, Phase(to))
<1>1. \A m \in Reminders : status'[m] = IF m \in S THEN to ELSE status[m]
  BY DEF SetStatus
<1>2. \A m \in Reminders : Phase(status'[m]) = IF m \in S THEN Phase(to) ELSE State[m]
  BY <1>1 DEF State
<1>3. QED
  BY <1>2 DEF State, Leases!In

LEMMA PhaseMeans ==
    TypeOK => \A m \in Reminders : /\ State[m] = "free" <=> status[m] = "PENDING"
                                   /\ State[m] = "taken" <=> status[m] = "SENDING"
BY Phases DEF TypeOK, State, Statuses, Settled

LEMMA Unleased == UNCHANGED <<status, todo, lost>> => UNCHANGED (Leases!vars)
BY DEF Leases!vars, State, Phase

LEMMA LeaseInit == Init => Leases!Init
BY Phases DEF Init, Leases!Init, State

LEMMA LeaseStep ==
    ASSUME TypeOK, OwnerInv, HandsInv, [Next]_vars
    PROVE  [Leases!Next]_(Leases!vars)
<1> USE DEF table, world, local, ghost
<1>1. CASE UNCHANGED vars
  BY <1>1, Unleased DEF vars
<1>2. ASSUME NEW n \in Runners, RecoverStuck(n) PROVE Leases!Next
  <2>1. Stuck \in SUBSET Reminders /\ \A m \in Stuck : State[m] = "taken"
    BY PhaseMeans DEF Stuck
  <2>2. State' = Leases!In(Stuck, "free")
    BY <1>2, <2>1, SetStatusPhase, Phases DEF RecoverStuck, Statuses
  <2>3. Leases!Expire(Stuck)
    BY <1>2, <2>1, <2>2 DEF RecoverStuck, Leases!Expire
  <2>4. QED
    BY <2>1, <2>3 DEF Leases!Next
<1>3. ASSUME NEW n \in Runners, SelectDue(n) PROVE UNCHANGED (Leases!vars)
  BY <1>3, Unleased DEF SelectDue
<1>4. ASSUME NEW n \in Runners, ClaimDue(n) PROVE Leases!Next
  <2> DEFINE S == Claimable(picked[n])
  <2>1. S \in SUBSET Reminders /\ \A m \in S : State[m] = "free"
    BY SubsetsType, PhaseMeans DEF Claimable
  <2>2. State' = Leases!In(S, "taken")
    BY <1>4, <2>1, SetStatusPhase, Phases DEF ClaimDue, Statuses
  <2>3. Leases!Take(n, S)
    BY <1>4, <2>1, <2>2 DEF ClaimDue, HandsInv, Leases!Take
  <2>4. QED
    BY <2>1, <2>3 DEF Leases!Next
<1>5. ASSUME NEW n \in Runners, NEW m \in Reminders,
             PushReturns(n, m) \/ PushRaises(n, m)
      PROVE  UNCHANGED (Leases!vars)
  BY <1>5, Unleased DEF PushReturns, PushRaises
<1>6. ASSUME NEW n \in Runners, SettleSent(n) \/ SettleFailed(n) PROVE Leases!Next
  <2>1. PICK to \in Settled, from \in {"sent", "failed"} : Settle(n, from, to)
    BY <1>6 DEF SettleSent, SettleFailed, Settled
  <2> DEFINE m == cur[n]
  <2>2. m \in todo[n] /\ m \in Reminders
    BY <2>1 DEF Settle, HandsInv, TypeOK
  <2>3. State' = Leases!In({m}, "settled")
    <3>1. to \in Statuses /\ Phase(to) = "settled"
      BY <2>1, Phases DEF Statuses, Settled
    <3>2. SetStatus({m}, to)
      BY <2>1 DEF Settle
    <3>3. QED
      BY <2>2, <3>1, <3>2, SetStatusPhase
  <2>4. State[m] # "free" \/ m \in lost[n]
    BY <2>2, PhaseMeans DEF OwnerInv
  <2>5. Leases!Settle(n, m)
    BY <2>1, <2>2, <2>3, <2>4 DEF Settle, Leases!Settle
  <2>6. QED
    BY <2>2, <2>5 DEF Leases!Next
<1>7. ASSUME NEW n \in Runners, Crash(n) PROVE Leases!Next
  <2>1. UNCHANGED State
    BY <1>7 DEF Crash, State, Phase
  <2>2. Leases!Vanish(n)
    BY <1>7, <2>1 DEF Crash, Leases!Vanish
  <2>3. QED
    BY <2>2 DEF Leases!Next
<1>8. ASSUME NEW m \in Reminders, Create(m) \/ Age(m) \/ Delete(m)
      PROVE  UNCHANGED (Leases!vars)
  BY <1>8, Unleased DEF Create, Age, Delete
<1>9. ASSUME NEW d \in Devices, Subscribe(d) \/ Unsubscribe(d)
      PROVE  UNCHANGED (Leases!vars)
  BY <1>9, Unleased DEF Subscribe, Unsubscribe
<1>10. CASE Tick
  BY <1>10, Unleased DEF Tick
<1>11. QED
  BY <1>1, <1>2, <1>3, <1>4, <1>5, <1>6, <1>7, <1>8, <1>9, <1>10 DEF Next, Run

\* The job is a lease on each reminder: a fire takes only what is free, only a
\* recovery ends a claim from outside, only the runner it ended is late, and what
\* was settled, late or not, is never claimed again.
THEOREM ImplementsLease == Spec => LeaseSpec
<1>1. Init => Leases!Init
  BY LeaseInit
<1>2. TypeOK /\ OwnerInv /\ HandsInv /\ [Next]_vars => [Leases!Next]_(Leases!vars)
  BY LeaseStep
<1>3. Init => OwnerInv /\ HandsInv
  BY DEF Init, OwnerInv, OneOwner, HandsInv
<1>4. QED
  BY <1>1, <1>2, <1>3, OwnerStep, HandsStep, TypeCorrect, PTL
     DEF Spec, LeaseSpec, Leases!Spec

\* What every lease keeps.
LEMMA LeaseKeeps ==
    ASSUME TypeOK, [Leases!Next]_(Leases!vars)
    PROVE  \A m \in Reminders : State[m] = "settled" => State'[m] = "settled"
<1>1. ASSUME NEW n \in Runners, NEW S \in SUBSET Reminders, Leases!Take(n, S)
      PROVE  \A m \in Reminders : State[m] = "settled" => State'[m] = "settled"
  BY <1>1 DEF Leases!Take, Leases!In
<1>2. ASSUME NEW S \in SUBSET Reminders, Leases!Expire(S)
      PROVE  \A m \in Reminders : State[m] = "settled" => State'[m] = "settled"
  BY <1>2 DEF Leases!Expire, Leases!In
<1>3. ASSUME NEW n \in Runners, NEW k \in Reminders, Leases!Settle(n, k)
      PROVE  \A m \in Reminders : State[m] = "settled" => State'[m] = "settled"
  BY <1>3 DEF Leases!Settle, Leases!In
<1>4. CASE UNCHANGED State
  BY <1>4
<1>5. QED
  BY <1>1, <1>2, <1>3, <1>4 DEF Leases!Next, Leases!Vanish, Leases!vars

\* No settled reminder is sent for again: neither a claim, nor a recovery, nor a
\* late runner returns it to the queue.
THEOREM SettledIsFinal == Spec => SettledForGood
<1>1. TypeOK => \A m \in Reminders : State[m] = "settled" <=> status[m] \in Settled
  BY Phases DEF TypeOK, State, Statuses, Settled
<1>2. TypeOK /\ TypeOK' /\ [Leases!Next]_(Leases!vars)
        => [\A m \in Reminders : status[m] \in Settled => status'[m] \in Settled]_vars
  <2> SUFFICES ASSUME TypeOK, TypeOK', [Leases!Next]_(Leases!vars),
                      NEW m \in Reminders, status[m] \in Settled
               PROVE  status'[m] \in Settled
    OBVIOUS
  <2>1. State'[m] = "settled"
    BY <1>1, LeaseKeeps
  <2>2. State'[m] = Phase(status'[m]) /\ status'[m] \in Statuses
    BY DEF State, TypeOK
  <2>3. QED
    BY <2>1, <2>2, Phases DEF Statuses, Settled
<1>3. QED
  BY <1>2, ImplementsLease, TypeCorrect, PTL
     DEF LeaseSpec, Leases!Spec, SettledForGood
===============================================================================
