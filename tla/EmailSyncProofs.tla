--------------------------- MODULE EmailSyncProofs ----------------------------
(***************************************************************************)
(* Proofs about EmailSync: types, a cursor that covers only what is        *)
(* stored, one interaction per lead, and duplicates only of runs that      *)
(* overlapped, for any mailbox, cap and number of runners.                 *)
(***************************************************************************)
EXTENDS EmailSync, TLAPS

LEMMA TypeInit ==
    ASSUME Init
    PROVE  TypeOK
BY ConstantsAssumption DEF Init, TypeOK, Working, Handling

\* What the steps of a runner need to know of the mail it is at.
LEMMA CurrentType ==
    ASSUME TypeOK, NEW n \in Runners, pc[n] \in Handling
    PROVE  /\ at[n] \in Uids
           /\ at[n] <= last[n]
           /\ at[n] + 1 \in 1..(arrived + 1)
           /\ ReachedAfter(n) \in 0..arrived
           /\ Current(n) \in Messages
           /\ RootOf[Current(n)] \in Roots
           /\ SenderOf[Current(n)] # None => SenderOf[Current(n)] \in Persons
<1>1. at[n] \in 1..(arrived + 1) /\ at[n] <= last[n] /\ last[n] \in 0..arrived
  BY DEF TypeOK
<1>2. arrived \in 0..Count
  BY DEF TypeOK
<1>3. at[n] \in Uids /\ at[n] \in 1..arrived
  BY <1>1, <1>2, ConstantsAssumption DEF Uids
<1>4. Current(n) \in Messages
  BY <1>3, ConstantsAssumption DEF Current, Uids
<1>5. ReachedAfter(n) \in 0..arrived
  BY <1>2, <1>3 DEF TypeOK, ReachedAfter
<1>6. QED
  BY <1>1, <1>2, <1>3, <1>4, <1>5, ConstantsAssumption DEF Roots, Persons

\* A step that only moves one runner on within a mail.
LEMMA MoveType ==
    ASSUME TypeOK, NEW n \in Runners, NEW to \in Handling, at[n] <= last[n],
           to = "filing" => SenderOf[Current(n)] \in Persons,
           Goto(n, to), UNCHANGED <<arrived, cursor, local>>,
           stored' \subseteq Messages,
           contacts' \subseteq Persons \X Runners,
           threads' \subseteq Roots \X Runners,
           mirrors' \subseteq Messages \X Runners,
           met' \in [Runners -> SUBSET Runners],
           dropped' \subseteq Messages,
           failures' \in 0..MaxFailures
    PROVE  TypeOK'
BY DEF TypeOK, Goto, local, Working, Handling, Current

\* A step that ends the handling of a mail.
LEMMA NextMailType ==
    ASSUME TypeOK, NEW n \in Runners, at[n] \in Uids, at[n] + 1 \in 1..(arrived + 1),
           ReachedAfter(n) \in 0..arrived,
           Advance(n) \/ LeaveBehind(n), UNCHANGED <<arrived, cursor>>,
           stored' \subseteq Messages,
           contacts' \subseteq Persons \X Runners,
           threads' \subseteq Roots \X Runners,
           mirrors' \subseteq Messages \X Runners,
           met' \in [Runners -> SUBSET Runners],
           dropped' \subseteq Messages,
           failures' \in 0..MaxFailures
    PROVE  TypeOK'
<1> USE DEF TypeOK, Goto, Working, Handling, Current
<1>1. CASE Advance(n)
  <2>1. /\ pc' \in [Runners -> {"idle"} \cup Working]
        /\ at' \in [Runners -> 1..(arrived' + 1)]
        /\ reached' \in [Runners -> 0..arrived']
    BY <1>1 DEF Advance
  <2>2. ASSUME NEW k \in Runners
        PROVE  /\ pc'[k] \in Handling => at'[k] <= last'[k]
               /\ pc'[k] = "filing" => SenderOf[Mailbox[at'[k]]] \in Persons
    BY <1>1 DEF Advance
  <2>3. QED
    BY <1>1, <2>1, <2>2 DEF Advance
<1>2. CASE LeaveBehind(n)
  <2>1. /\ pc' \in [Runners -> {"idle"} \cup Working]
        /\ at' \in [Runners -> 1..(arrived' + 1)]
        /\ blocked' \in [Runners -> BOOLEAN]
    BY <1>2 DEF LeaveBehind
  <2>2. ASSUME NEW k \in Runners
        PROVE  /\ pc'[k] \in Handling => at'[k] <= last'[k]
               /\ pc'[k] = "filing" => SenderOf[Mailbox[at'[k]]] \in Persons
    BY <1>2 DEF LeaveBehind
  <2>3. QED
    BY <1>2, <2>1, <2>2 DEF LeaveBehind
<1>3. QED
  BY <1>1, <1>2

\* A step that ends a call of the job.
LEMMA ForgetType ==
    ASSUME TypeOK, NEW n \in Runners, Forget(n), UNCHANGED arrived
    PROVE  /\ pc' \in [Runners -> {"idle"} \cup Working]
           /\ from' \in [Runners -> 0..arrived']
           /\ last' \in [Runners -> 0..arrived']
           /\ at' \in [Runners -> 1..(arrived' + 1)]
           /\ \A k \in Runners :
                /\ pc'[k] \in Handling => at'[k] <= last'[k]
                /\ pc'[k] = "filing" => SenderOf[Current(k)'] \in Persons
           /\ reached' \in [Runners -> 0..arrived']
           /\ blocked' \in [Runners -> BOOLEAN]
<1>1. arrived \in Nat
  BY ConstantsAssumption DEF TypeOK
<1>2. /\ pc' \in [Runners -> {"idle"} \cup Working]
      /\ blocked' \in [Runners -> BOOLEAN]
  BY DEF TypeOK, Forget, Goto
<1>3. /\ from' \in [Runners -> 0..arrived']
      /\ last' \in [Runners -> 0..arrived']
      /\ reached' \in [Runners -> 0..arrived']
  BY <1>1 DEF TypeOK, Forget
<1>4. at' \in [Runners -> 1..(arrived' + 1)]
  BY <1>1 DEF TypeOK, Forget
<1>5. ASSUME NEW k \in Runners
      PROVE  /\ pc'[k] \in Handling => at'[k] <= last'[k]
             /\ pc'[k] = "filing" => SenderOf[Current(k)'] \in Persons
  <2>1. CASE k = n
    <3>1. pc'[n] = "idle"
      BY DEF TypeOK, Forget, Goto
    <3>2. QED
      BY <2>1, <3>1 DEF Handling, Working
  <2>2. CASE k # n
    <3>1. pc'[k] = pc[k] /\ at'[k] = at[k] /\ last'[k] = last[k]
      BY <2>2 DEF TypeOK, Forget, Goto
    <3>2. QED
      BY <3>1 DEF TypeOK, Current
  <2>3. QED
    BY <2>1, <2>2
<1>6. QED
  BY <1>2, <1>3, <1>4, <1>5

LEMMA TypeStep ==
    ASSUME TypeOK, [Next]_vars
    PROVE  TypeOK'
<1> USE ConstantsAssumption DEF crm, ghost
<1>1. ASSUME NEW n \in Runners, Start(n)
      PROVE  TypeOK'
  BY <1>1 DEF TypeOK, Start, Goto, Working, Handling, Current
<1>2. ASSUME NEW n \in Runners, Search(n)
      PROVE  TypeOK'
  <2>1. BatchEnd(n) \in 0..arrived /\ from[n] + 1 \in 1..(arrived + 1)
    BY DEF TypeOK, BatchEnd
  <2>2. QED
    BY <1>2, <2>1 DEF TypeOK, Search, Goto, Working, Handling, Current
<1>3. ASSUME NEW n \in Runners, Fetch(n)
      PROVE  TypeOK'
  <2>1. CASE Goto(n, "matching") /\ UNCHANGED <<local, failures>>
    BY <1>3, <2>1, MoveType DEF TypeOK, Fetch, Handling, Working
  <2>2. CASE LeaveBehind(n) /\ Failing
    <3>1. at[n] \in Uids /\ at[n] + 1 \in 1..(arrived + 1)
          /\ ReachedAfter(n) \in 0..arrived
      BY <1>3 DEF TypeOK, Fetch, Uids, ReachedAfter
    <3>2. failures' \in 0..MaxFailures
      BY <2>2 DEF TypeOK, Failing
    <3>3. /\ stored' \subseteq Messages /\ contacts' \subseteq Persons \X Runners
          /\ threads' \subseteq Roots \X Runners
          /\ mirrors' \subseteq Messages \X Runners
          /\ met' \in [Runners -> SUBSET Runners] /\ dropped' \subseteq Messages
      BY <1>3 DEF TypeOK, Fetch
    <3>4. UNCHANGED <<arrived, cursor>>
      BY <1>3 DEF Fetch
    <3>5. QED
      BY <2>2, <3>1, <3>2, <3>3, <3>4, NextMailType
  <2>3. QED
    BY <1>3, <2>1, <2>2 DEF Fetch
<1>4. ASSUME NEW n \in Runners, MatchContact(n)
      PROVE  TypeOK'
  BY <1>4, MoveType, CurrentType DEF TypeOK, MatchContact, Handling, Working
<1>5. ASSUME NEW n \in Runners, FileContact(n)
      PROVE  TypeOK'
  <2>1. SenderOf[Current(n)] \in Persons
    BY <1>5 DEF TypeOK, FileContact
  <2>2. contacts' \subseteq Persons \X Runners
    <3>1. <<SenderOf[Current(n)], n>> \in Persons \X Runners
      BY <2>1
    <3>2. QED
      BY <1>5, <3>1 DEF TypeOK, FileContact
  <2>3. QED
    BY <1>5, <2>2, MoveType, CurrentType
       DEF TypeOK, FileContact, Handling, Working
<1>6. ASSUME NEW n \in Runners, FindThread(n)
      PROVE  TypeOK'
  BY <1>6, MoveType, CurrentType DEF TypeOK, FindThread, Handling, Working
<1>7. ASSUME NEW n \in Runners, OpenThread(n)
      PROVE  TypeOK'
  <2>1. threads' \subseteq Roots \X Runners
    <3>1. RootOf[Current(n)] \in Roots
      BY <1>7, CurrentType DEF OpenThread, Handling, Working
    <3>2. <<RootOf[Current(n)], n>> \in Roots \X Runners
      BY <3>1
    <3>3. QED
      BY <1>7, <3>2 DEF TypeOK, OpenThread
  <2>2. QED
    BY <1>7, <2>1, MoveType, CurrentType
       DEF TypeOK, OpenThread, Handling, Working
<1>8. ASSUME NEW n \in Runners, StoreMessage(n)
      PROVE  TypeOK'
  <2>1. /\ stored' \subseteq Messages
        /\ dropped' \subseteq Messages
        /\ failures' \in 0..MaxFailures
    <3>1. Current(n) \in Messages
      BY <1>8, CurrentType DEF StoreMessage, Handling, Working
    <3>2. QED
      BY <1>8, <3>1 DEF TypeOK, StoreMessage, Failing
  <2>2. CASE Goto(n, "mirroring") /\ UNCHANGED local
    BY <1>8, <2>1, <2>2, MoveType, CurrentType
       DEF TypeOK, StoreMessage, Handling, Working
  <2>3. CASE Advance(n) \/ LeaveBehind(n)
    BY <1>8, <2>1, <2>3, NextMailType, CurrentType
       DEF TypeOK, StoreMessage, Handling, Working
  <2>4. QED
    BY <1>8, <2>2, <2>3 DEF StoreMessage
<1>9. ASSUME NEW n \in Runners, MirrorLead(n)
      PROVE  TypeOK'
  <2>1. /\ mirrors' \subseteq Messages \X Runners
        /\ dropped' \subseteq Messages
        /\ failures' \in 0..MaxFailures
    <3>1. Current(n) \in Messages
      BY <1>9, CurrentType DEF MirrorLead, Handling, Working
    <3>2. <<Current(n), n>> \in Messages \X Runners
      BY <3>1
    <3>3. QED
      BY <1>9, <3>1, <3>2 DEF TypeOK, MirrorLead, Failing
  <2>2. QED
    BY <1>9, <2>1, NextMailType, CurrentType
       DEF TypeOK, MirrorLead, Handling, Working
<1>10. ASSUME NEW n \in Runners, WriteCursor(n)
       PROVE  TypeOK'
  <2>1. Forget(n) /\ UNCHANGED <<arrived, crm, ghost>>
    BY <1>10 DEF WriteCursor
  <2>2. cursor' \in 0..arrived'
    BY <1>10 DEF TypeOK, WriteCursor
  <2>3. QED
    BY <2>1, <2>2, ForgetType DEF TypeOK
<1>11. ASSUME NEW n \in Runners, Abort(n)
       PROVE  TypeOK'
  <2>1. Forget(n) /\ UNCHANGED <<arrived, cursor, crm, met>>
    BY <1>11 DEF Abort
  <2>2. dropped' \subseteq Messages
    BY <1>11, CurrentType DEF TypeOK, Abort, Handling, Working
  <2>3. failures' \in 0..MaxFailures
    BY <1>11 DEF TypeOK, Abort, Failing
  <2>4. QED
    BY <2>1, <2>2, <2>3, ForgetType DEF TypeOK
<1>12. CASE Arrive
  <2>1. /\ arrived' \in 0..Count
        /\ 0..arrived \subseteq 0..arrived'
        /\ 1..(arrived + 1) \subseteq 1..(arrived' + 1)
        /\ UNCHANGED <<cursor, crm, pc, local, ghost>>
    BY <1>12 DEF TypeOK, Arrive
  <2>2. /\ from' \in [Runners -> 0..arrived']
        /\ last' \in [Runners -> 0..arrived']
        /\ at' \in [Runners -> 1..(arrived' + 1)]
        /\ reached' \in [Runners -> 0..arrived']
        /\ cursor' \in 0..arrived'
    BY <2>1 DEF TypeOK, local
  <2>3. QED
    BY <2>1, <2>2 DEF TypeOK, local, Current, Handling
<1>13. CASE UNCHANGED vars
  BY <1>13 DEF vars, TypeOK, local, Current, Handling
<1>14. QED
  BY <1>1, <1>2, <1>3, <1>4, <1>5, <1>6, <1>7, <1>8, <1>9, <1>10, <1>11,
     <1>12, <1>13 DEF Next, Run

\* The types of every variable of the job, whatever the mailbox, the cap, the
\* number of runners and the number of failures.
THEOREM TypeCorrect == Spec => []TypeOK
<1>1. QED
  BY TypeInit, TypeStep, PTL DEF Spec

-------------------------------------------------------------------------------
(* The cursor                                                              *)

\* Every number a runner may yet write into the cursor covers only what is
\* stored, and so does the place it is at as long as it left nothing behind.
Covered(u) == \A v \in 1..u : Mailbox[v] \in stored

CoverInv ==
    /\ Covered(cursor)
    /\ \A n \in Runners :
         /\ Covered(from[n])
         /\ Covered(reached[n])
         /\ ~blocked[n] => Covered(at[n] - 1)
         /\ pc[n] = "mirroring" => Current(n) \in stored

\* Storing a mail, and nothing else, changes what is covered, and for more.
LEMMA CoveredGrows ==
    ASSUME stored \subseteq stored', NEW u
    PROVE  Covered(u) => Covered(u)'
BY DEF Covered

LEMMA CoverNextMail ==
    ASSUME TypeOK, CoverInv, NEW n \in Runners, at[n] \in Uids,
           \/ Advance(n) /\ Mailbox[at[n]] \in stored'
           \/ LeaveBehind(n),
           UNCHANGED cursor, stored \subseteq stored'
    PROVE  CoverInv'
<1> USE DEF TypeOK, CoverInv, Current, Goto
<1>1. Covered(cursor)'
  BY CoveredGrows
<1>2. ASSUME NEW k \in Runners
      PROVE  /\ Covered(from[k])'
             /\ Covered(reached[k])'
             /\ ~blocked'[k] => Covered(at[k] - 1)'
             /\ pc'[k] = "mirroring" => Mailbox[at'[k]] \in stored'
  <2>1. CASE Advance(n) /\ Mailbox[at[n]] \in stored'
    <3>1. ~blocked[n] => \A v \in 1..at[n] : Mailbox[v] \in stored'
      <4>1. ASSUME ~blocked[n], NEW v \in 1..at[n]
            PROVE  Mailbox[v] \in stored'
        <5>1. v = at[n] \/ v \in 1..(at[n] - 1)
          BY DEF Uids
        <5>2. QED
          BY <2>1, <4>1, <5>1 DEF Covered
      <4>2. QED
        BY <4>1
    <3>2. CASE k = n
      <4>1. /\ from'[n] = from[n]
            /\ at'[n] - 1 = at[n]
            /\ blocked'[n] = blocked[n]
            /\ reached'[n] = IF blocked[n] THEN reached[n] ELSE at[n]
            /\ pc'[n] = "fetching"
        BY <2>1 DEF Advance, ReachedAfter, Uids
      <4>2. Covered(from[n])' /\ Covered(reached[n])'
        BY <3>1, <4>1 DEF Covered
      <4>3. ~blocked'[n] => Covered(at[n] - 1)'
        BY <3>1, <4>1 DEF Covered
      <4>4. QED
        BY <3>2, <4>1, <4>2, <4>3
    <3>3. CASE k # n
      <4>1. /\ from'[k] = from[k]
            /\ at'[k] = at[k]
            /\ blocked'[k] = blocked[k]
            /\ reached'[k] = reached[k]
            /\ pc'[k] = pc[k]
        BY <2>1, <3>3 DEF Advance
      <4>2. QED
        BY <4>1 DEF Covered
    <3>4. QED
      BY <3>2, <3>3
  <2>2. CASE LeaveBehind(n)
    BY <2>2 DEF LeaveBehind, Covered
  <2>3. QED
    BY <2>1, <2>2
<1>3. QED
  BY <1>1, <1>2

LEMMA CoverStep ==
    ASSUME TypeOK, CoverInv, [Next]_vars
    PROVE  CoverInv'
<1> USE DEF TypeOK, CoverInv, Covered, Current, Goto, crm, ghost
<1>1. ASSUME NEW n \in Runners, Start(n)
      PROVE  CoverInv'
  BY <1>1 DEF Start
<1>2. ASSUME NEW n \in Runners, Search(n)
      PROVE  CoverInv'
  BY <1>2 DEF Search
<1>3. ASSUME NEW n \in Runners, Fetch(n)
      PROVE  CoverInv'
  <2>1. CASE Goto(n, "matching") /\ UNCHANGED <<local, failures>>
    BY <1>3, <2>1 DEF Fetch, local
  <2>2. CASE LeaveBehind(n)
    BY <1>3, <2>2 DEF Fetch, LeaveBehind
  <2>3. QED
    BY <1>3, <2>1, <2>2 DEF Fetch
<1>4. ASSUME NEW n \in Runners,
             \/ MatchContact(n) \/ FileContact(n) \/ FindThread(n) \/ OpenThread(n)
      PROVE  CoverInv'
  BY <1>4 DEF MatchContact, FileContact, FindThread, OpenThread, local
<1>5. ASSUME NEW n \in Runners, StoreMessage(n)
      PROVE  CoverInv'
  <2>1. stored \subseteq stored' /\ UNCHANGED cursor
    BY <1>5 DEF StoreMessage
  <2>2. at[n] \in Uids
    BY <1>5, CurrentType DEF StoreMessage, Handling, Working
  <2>3. CASE Goto(n, "mirroring") /\ UNCHANGED local /\ Current(n) \in stored'
    BY <2>1, <2>3 DEF local
  <2>4. CASE \/ Advance(n) /\ Mailbox[at[n]] \in stored'
             \/ LeaveBehind(n)
    BY <2>1, <2>2, <2>4, CoverNextMail
  <2>5. QED
    BY <1>5, <2>3, <2>4 DEF StoreMessage, Insertable
<1>6. ASSUME NEW n \in Runners, MirrorLead(n)
      PROVE  CoverInv'
  <2>1. at[n] \in Uids
    BY <1>6, CurrentType DEF MirrorLead, Handling, Working
  <2>2. Mailbox[at[n]] \in stored' /\ stored \subseteq stored' /\ UNCHANGED cursor
    BY <1>6 DEF MirrorLead
  <2>3. QED
    BY <1>6, <2>1, <2>2, CoverNextMail DEF MirrorLead
<1>7. ASSUME NEW n \in Runners, WriteCursor(n)
      PROVE  CoverInv'
  BY <1>7 DEF WriteCursor, Forget
<1>8. ASSUME NEW n \in Runners, Abort(n)
      PROVE  CoverInv'
  BY <1>8 DEF Abort, Forget
<1>9. CASE Arrive
  BY <1>9 DEF Arrive, local
<1>10. CASE UNCHANGED vars
  BY <1>10 DEF vars, local
<1>11. QED
  BY <1>1, <1>2, <1>3, <1>4, <1>5, <1>6, <1>7, <1>8, <1>9, <1>10 DEF Next, Run

\* No mail is passed over: whatever fails, and however runs overlap, the cursor
\* is behind every mail that is not stored.
THEOREM NothingSkipped == Spec => []CursorCovers
<1>1. Init => CoverInv
  BY DEF Init, CoverInv, Covered
<1>2. TypeOK /\ CoverInv /\ [Next]_vars => CoverInv'
  BY CoverStep
<1>3. CoverInv => CursorCovers
  BY DEF CoverInv, Covered, CursorCovers
<1>4. QED
  BY <1>1, <1>2, <1>3, TypeCorrect, PTL DEF Spec

-------------------------------------------------------------------------------
(* The timeline                                                            *)

\* A lead is about to enter the timeline in one place only, and is not there.
OnceInv ==
    /\ \A a \in mirrors : a[1] \in stored
    /\ \A n \in Runners : pc[n] = "mirroring" =>
           /\ Current(n) \in stored
           /\ \A a \in mirrors : a[1] # Current(n)
    /\ \A n, k \in Runners :
           n # k /\ pc[n] = "mirroring" /\ pc[k] = "mirroring"
               => Current(n) # Current(k)
    /\ MirroredOnce

\* The end of a mail, or of a call, leaves one runner fewer in "mirroring".
LEMMA OnceQuiet ==
    ASSUME TypeOK, OnceInv, NEW n \in Runners,
           Advance(n) \/ LeaveBehind(n) \/ Forget(n),
           stored \subseteq stored', UNCHANGED mirrors
    PROVE  OnceInv'
BY DEF TypeOK, OnceInv, MirroredOnce, Current, Advance, LeaveBehind, Forget,
       Goto, Working

LEMMA OnceStep ==
    ASSUME TypeOK, OnceInv, [Next]_vars
    PROVE  OnceInv'
<1> USE DEF TypeOK, OnceInv, MirroredOnce, Current, Goto, crm, ghost
<1>1. ASSUME NEW n \in Runners, Start(n)
      PROVE  OnceInv'
  BY <1>1 DEF Start
<1>2. ASSUME NEW n \in Runners, Search(n)
      PROVE  OnceInv'
  BY <1>2 DEF Search
<1>3. ASSUME NEW n \in Runners, Fetch(n)
      PROVE  OnceInv'
  <2>1. CASE Goto(n, "matching") /\ UNCHANGED <<local, failures>>
    BY <1>3, <2>1 DEF Fetch, local
  <2>2. CASE LeaveBehind(n)
    BY <1>3, <2>2, OnceQuiet DEF Fetch
  <2>3. QED
    BY <1>3, <2>1, <2>2 DEF Fetch
<1>4. ASSUME NEW n \in Runners,
             \/ MatchContact(n) \/ FileContact(n) \/ FindThread(n) \/ OpenThread(n)
      PROVE  OnceInv'
  BY <1>4 DEF MatchContact, FileContact, FindThread, OpenThread, local
<1>5. ASSUME NEW n \in Runners, StoreMessage(n)
      PROVE  OnceInv'
  <2>1. stored \subseteq stored' /\ UNCHANGED mirrors
    BY <1>5 DEF StoreMessage
  <2>2. CASE /\ Goto(n, "mirroring") /\ UNCHANGED local
             /\ Current(n) \notin stored /\ stored' = stored \cup {Current(n)}
    BY <2>1, <2>2 DEF local
  <2>3. CASE Advance(n) \/ LeaveBehind(n)
    BY <2>1, <2>3, OnceQuiet
  <2>4. QED
    BY <1>5, <2>2, <2>3 DEF StoreMessage, Insertable
<1>6. ASSUME NEW n \in Runners, MirrorLead(n)
      PROVE  OnceInv'
  <2>1. /\ pc[n] = "mirroring" /\ Advance(n) /\ UNCHANGED stored
        /\ mirrors' \in {mirrors, mirrors \cup {<<Current(n), n>>}}
    BY <1>6 DEF MirrorLead
  <2>2. \A k \in Runners : pc'[k] = "mirroring" =>
            k # n /\ pc[k] = "mirroring" /\ Current(k)' = Current(k)
    BY <2>1 DEF Advance, Working
  <2>3. \A a \in mirrors' : a \in mirrors \/ a = <<Current(n), n>>
    BY <2>1
  <2>4. QED
    BY <2>1, <2>2, <2>3
<1>7. ASSUME NEW n \in Runners, WriteCursor(n)
      PROVE  OnceInv'
  BY <1>7, OnceQuiet DEF WriteCursor
<1>8. ASSUME NEW n \in Runners, Abort(n)
      PROVE  OnceInv'
  BY <1>8, OnceQuiet DEF Abort
<1>9. CASE Arrive
  BY <1>9 DEF Arrive, local
<1>10. CASE UNCHANGED vars
  BY <1>10 DEF vars, local
<1>11. QED
  BY <1>1, <1>2, <1>3, <1>4, <1>5, <1>6, <1>7, <1>8, <1>9, <1>10 DEF Next, Run

\* One interaction per lead, however often and by however many runs its mail is
\* handled.
THEOREM OneInteraction == Spec => []MirroredOnce
<1>1. Init => OnceInv
  BY DEF Init, OnceInv, MirroredOnce
<1>2. TypeOK /\ OnceInv /\ [Next]_vars => OnceInv'
  BY OnceStep
<1>3. OnceInv => MirroredOnce
  BY DEF OnceInv
<1>4. QED
  BY <1>1, <1>2, <1>3, TypeCorrect, PTL DEF Spec

LEMMA TimelineStep ==
    ASSUME TypeOK, LeadReachesTimeline, [Next]_vars
    PROVE  LeadReachesTimeline'
<1> USE DEF TypeOK, LeadReachesTimeline, Current, Goto, crm, ghost
<1>1. ASSUME NEW n \in Runners, pc[n] # "mirroring",
             UNCHANGED <<stored, mirrors, dropped>>,
             \A k \in Runners : k # n => pc'[k] = pc[k] /\ at'[k] = at[k]
      PROVE  LeadReachesTimeline'
  BY <1>1
<1>2. ASSUME NEW n \in Runners,
             \/ Start(n) \/ Search(n) \/ MatchContact(n) \/ FileContact(n)
             \/ FindThread(n) \/ OpenThread(n) \/ WriteCursor(n)
      PROVE  LeadReachesTimeline'
  <2>1. pc[n] # "mirroring" /\ UNCHANGED <<stored, mirrors, dropped>>
    BY <1>2 DEF Start, Search, MatchContact, FileContact, FindThread,
       OpenThread, WriteCursor
  <2>2. \A k \in Runners : k # n => pc'[k] = pc[k] /\ at'[k] = at[k]
    BY <1>2 DEF Start, Search, MatchContact, FileContact, FindThread,
       OpenThread, WriteCursor, Forget, local
  <2>3. QED
    BY <1>1, <2>1, <2>2
<1>3. ASSUME NEW n \in Runners, Fetch(n)
      PROVE  LeadReachesTimeline'
  BY <1>1, <1>3 DEF Fetch, LeaveBehind, local
<1>4. ASSUME NEW n \in Runners, StoreMessage(n)
      PROVE  LeadReachesTimeline'
  <2>1. /\ pc[n] = "storing" /\ UNCHANGED mirrors /\ dropped \subseteq dropped'
        /\ \A k \in Runners : k # n => pc'[k] = pc[k] /\ at'[k] = at[k]
    BY <1>4 DEF StoreMessage, Advance, LeaveBehind, local
  <2>2. \A i \in stored' \cap Leads :
            \/ i \in stored
            \/ i \in dropped'
            \/ i = Current(n) /\ pc'[n] = "mirroring" /\ at'[n] = at[n]
    BY <1>4 DEF StoreMessage, ForTimeline, local
  <2>3. ASSUME NEW i \in stored' \cap Leads
        PROVE  \/ \E k \in Runners : <<i, k>> \in mirrors'
               \/ \E k \in Runners : pc'[k] = "mirroring" /\ Current(k)' = i
               \/ i \in dropped'
    <3>1. CASE i = Current(n) /\ pc'[n] = "mirroring" /\ at'[n] = at[n]
      BY <3>1
    <3>2. CASE i \in dropped'
      BY <3>2
    <3>3. CASE i \in stored
      <4>1. CASE i \in dropped \/ \E k \in Runners : <<i, k>> \in mirrors
        BY <2>1, <4>1
      <4>2. CASE \E k \in Runners : pc[k] = "mirroring" /\ Current(k) = i
        BY <2>1, <4>2
      <4>3. QED
        BY <2>3, <3>3, <4>1, <4>2
    <3>4. QED
      BY <2>2, <3>1, <3>2, <3>3
  <2>4. QED
    BY <2>3
<1>5. ASSUME NEW n \in Runners, MirrorLead(n)
      PROVE  LeadReachesTimeline'
  <2>1. /\ UNCHANGED stored /\ mirrors \subseteq mirrors' /\ dropped \subseteq dropped'
        /\ \A k \in Runners : k # n => pc'[k] = pc[k] /\ at'[k] = at[k]
    BY <1>5 DEF MirrorLead, Advance
  <2>2. <<Current(n), n>> \in mirrors' \/ Current(n) \in dropped'
    BY <1>5 DEF MirrorLead
  <2>3. ASSUME NEW i \in stored' \cap Leads, i # Current(n)
        PROVE  \/ \E k \in Runners : <<i, k>> \in mirrors'
               \/ \E k \in Runners : pc'[k] = "mirroring" /\ Current(k)' = i
               \/ i \in dropped'
    <3>1. CASE \E k \in Runners : pc[k] = "mirroring" /\ Current(k) = i
      BY <2>1, <2>3, <3>1
    <3>2. CASE i \in dropped \/ \E k \in Runners : <<i, k>> \in mirrors
      BY <2>1, <3>2
    <3>3. QED
      BY <2>1, <3>1, <3>2
  <2>4. QED
    BY <2>2, <2>3
<1>6. ASSUME NEW n \in Runners, Abort(n)
      PROVE  LeadReachesTimeline'
  BY <1>6 DEF Abort, Forget
<1>7. CASE Arrive
  BY <1>7 DEF Arrive, local
<1>8. CASE UNCHANGED vars
  BY <1>8 DEF vars, local
<1>9. QED
  BY <1>2, <1>3, <1>4, <1>5, <1>6, <1>7, <1>8 DEF Next, Run

\* No lead is lost between its mail and the timeline but by a failure of that
\* very mail.
THEOREM LeadsReachTimeline == Spec => []LeadReachesTimeline
<1>1. Init => LeadReachesTimeline
  BY DEF Init, LeadReachesTimeline
<1>2. QED
  BY <1>1, TimelineStep, TypeCorrect, PTL DEF Spec

-------------------------------------------------------------------------------
(* Overlapping runs                                                        *)

\* A step of a runner leaves the others where they are.
LEMMA OthersStay ==
    ASSUME TypeOK, NEW n \in Runners, Run(n) \/ Abort(n)
    PROVE  \A k \in Runners \ {n} : pc'[k] = pc[k] /\ at'[k] = at[k]
<1> USE DEF TypeOK, Goto, local, Advance, LeaveBehind, Forget
<1>1. CASE Start(n) \/ Search(n) \/ Fetch(n) \/ MatchContact(n) \/ FileContact(n)
  BY <1>1 DEF Start, Search, Fetch, MatchContact, FileContact
<1>2. CASE FindThread(n) \/ OpenThread(n) \/ StoreMessage(n) \/ MirrorLead(n)
  BY <1>2 DEF FindThread, OpenThread, StoreMessage, MirrorLead
<1>3. CASE WriteCursor(n) \/ Abort(n)
  BY <1>3 DEF WriteCursor, Abort
<1>4. QED
  BY <1>1, <1>2, <1>3 DEF Run

\* Runners that work at the same time have met; and whoever filed a person, or
\* opened a thread, that n is about to file or open, has met n, except for the
\* persons nobody looks up.
AllMet ==
    \A n, k \in Runners :
        n # k /\ pc[n] # "idle" /\ pc[k] # "idle" => k \in met[n]

FilersMet ==
    \A n \in Runners, a \in contacts :
        pc[n] = "filing" /\ a[1] = SenderOf[Current(n)] /\ a[1] \notin NameOnly
        /\ a[2] # n
            => a[2] \in met[n] /\ n \in met[a[2]]

OpenersMet ==
    \A n \in Runners, a \in threads :
        pc[n] = "opening" /\ a[1] = RootOf[Current(n)] /\ a[2] # n
            => a[2] \in met[n] /\ n \in met[a[2]]

MetInv ==
    /\ AllMet
    /\ FilersMet
    /\ OpenersMet
    /\ DuplicatesOverlap

\* A runner that is not about to file or to open concerns only itself.
LEMMA MetQuiet ==
    ASSUME MetInv, NEW n \in Runners, pc[n] # "idle",
           pc'[n] \notin {"filing", "opening"},
           \A k \in Runners \ {n} : pc'[k] = pc[k] /\ at'[k] = at[k],
           UNCHANGED <<contacts, threads, met>>
    PROVE  MetInv'
<1>1. AllMet' /\ DuplicatesOverlap'
  BY DEF MetInv, AllMet, DuplicatesOverlap
<1>2. ASSUME NEW k \in Runners, pc'[k] \in {"filing", "opening"}
      PROVE  pc[k] = pc'[k] /\ Current(k)' = Current(k)
  BY <1>2 DEF Current
<1>3. FilersMet' /\ OpenersMet'
  BY <1>2 DEF MetInv, FilersMet, OpenersMet
<1>4. QED
  BY <1>1, <1>3 DEF MetInv

\* Who can be looked up and is not filed, or what is not opened, has no row.
LEMMA LookupsAreSound ==
    ASSUME TypeOK, NEW x
    PROVE  /\ ~Filed(x) /\ x \notin NameOnly => \A a \in contacts : a[1] # x
           /\ ~Opened(x) => \A a \in threads : a[1] # x
<1>1. ASSUME NEW a \in contacts, a[1] = x, x \notin NameOnly
      PROVE  Filed(x)
  <2>1. a \in Persons \X Runners
    BY DEF TypeOK
  <2>2. a = <<x, a[2]>> /\ a[2] \in Runners
    BY <1>1, <2>1
  <2>3. QED
    BY <1>1, <2>2, Zenon DEF Filed
<1>2. ASSUME NEW a \in threads, a[1] = x
      PROVE  Opened(x)
  <2>1. a \in Roots \X Runners
    BY DEF TypeOK
  <2>2. a = <<x, a[2]>> /\ a[2] \in Runners
    BY <1>2, <2>1
  <2>3. QED
    BY <2>2, Zenon DEF Opened
<1>3. QED
  BY <1>1, <1>2

\* The insert of a contact, and of a thread: a second row of a person that is
\* looked up, or of a root, comes of a runner that overlapped.
LEMMA MetInsert ==
    ASSUME TypeOK, MetInv, NEW n \in Runners, FileContact(n) \/ OpenThread(n)
    PROVE  MetInv'
<1> USE DEF TypeOK
<1>1. /\ pc[n] # "idle" /\ pc'[n] \notin {"filing", "opening"}
      /\ UNCHANGED met
      /\ \A k \in Runners \ {n} : pc'[k] = pc[k] /\ Current(k)' = Current(k)
  <2>1. UNCHANGED <<met, at>>
    BY DEF FileContact, OpenThread, local, ghost
  <2>2. pc[n] # "idle" /\ pc'[n] \notin {"filing", "opening"}
        /\ \A k \in Runners \ {n} : pc'[k] = pc[k]
    BY DEF FileContact, OpenThread, Goto
  <2>3. QED
    BY <2>1, <2>2 DEF Current
<1>2. \A k \in Runners \ {n} : pc[k] # "idle" => n \in met[k] /\ k \in met[n]
  BY <1>1 DEF MetInv, AllMet
<1>3. AllMet'
  BY <1>1 DEF MetInv, AllMet
<1>4. CASE FileContact(n)
  <2> DEFINE p == SenderOf[Current(n)]
  <2>1. /\ pc[n] = "filing" /\ UNCHANGED threads
        /\ contacts' = contacts \cup {<<p, n>>}
    BY <1>4 DEF FileContact
  <2>2. ASSUME p \notin NameOnly, NEW a \in contacts, a[1] = p, a # <<p, n>>
        PROVE  a[2] \in met[n] /\ n \in met[a[2]]
    <3>1. a = <<p, a[2]>>
      BY <2>2
    <3>2. QED
      BY <2>1, <2>2, <3>1 DEF MetInv, FilersMet
  <2>3. DuplicatesOverlap'
    BY <1>1, <2>1, <2>2 DEF MetInv, DuplicatesOverlap
  <2>4. FilersMet'
    BY <1>1, <1>2, <2>1 DEF MetInv, FilersMet
  <2>5. OpenersMet'
    BY <1>1, <2>1 DEF MetInv, OpenersMet
  <2>6. QED
    BY <1>3, <2>3, <2>4, <2>5 DEF MetInv
<1>5. CASE OpenThread(n)
  <2> DEFINE r == RootOf[Current(n)]
  <2>1. /\ pc[n] = "opening" /\ UNCHANGED contacts
        /\ threads' = threads \cup {<<r, n>>}
    BY <1>5 DEF OpenThread
  <2>2. ASSUME NEW a \in threads, a[1] = r, a # <<r, n>>
        PROVE  a[2] \in met[n] /\ n \in met[a[2]]
    <3>1. a = <<r, a[2]>>
      BY <2>2
    <3>2. QED
      BY <2>1, <2>2, <3>1 DEF MetInv, OpenersMet
  <2>3. DuplicatesOverlap'
    BY <1>1, <2>1, <2>2 DEF MetInv, DuplicatesOverlap
  <2>4. OpenersMet'
    BY <1>1, <1>2, <2>1 DEF MetInv, OpenersMet
  <2>5. FilersMet'
    BY <1>1, <2>1 DEF MetInv, FilersMet
  <2>6. QED
    BY <1>3, <2>3, <2>4, <2>5 DEF MetInv
<1>6. QED
  BY <1>4, <1>5

\* After a lookup that found nothing there is nobody to have met.
LEMMA MetLookup ==
    ASSUME TypeOK, MetInv, NEW n \in Runners, MatchContact(n) \/ FindThread(n)
    PROVE  MetInv'
<1>1. /\ pc[n] # "idle" /\ UNCHANGED <<contacts, threads, met>>
      /\ \A k \in Runners : Current(k)' = Current(k)
      /\ \A k \in Runners \ {n} : pc'[k] = pc[k]
  BY DEF TypeOK, MatchContact, FindThread, Goto, local, crm, ghost, Current
<1>2. /\ pc'[n] = "filing" => ~Filed(SenderOf[Current(n)])
      /\ pc'[n] = "opening" => ~Opened(RootOf[Current(n)])
  BY DEF TypeOK, MatchContact, FindThread, Goto
<1>3. AllMet' /\ DuplicatesOverlap'
  BY <1>1 DEF MetInv, AllMet, DuplicatesOverlap
<1>4. FilersMet'
  BY <1>1, <1>2, LookupsAreSound DEF MetInv, FilersMet
<1>5. OpenersMet'
  BY <1>1, <1>2, LookupsAreSound DEF MetInv, OpenersMet
<1>6. QED
  BY <1>3, <1>4, <1>5 DEF MetInv

LEMMA MetStep ==
    ASSUME TypeOK, MetInv, [Next]_vars
    PROVE  MetInv'
<1> USE DEF Goto, crm, ghost
<1>1. ASSUME NEW n \in Runners, Start(n)
      PROVE  MetInv'
  BY <1>1 DEF TypeOK, MetInv, AllMet, FilersMet, OpenersMet, DuplicatesOverlap,
     Current, Start
<1>2. ASSUME NEW n \in Runners, MatchContact(n) \/ FindThread(n)
      PROVE  MetInv'
  BY <1>2, MetLookup
<1>3. ASSUME NEW n \in Runners, FileContact(n) \/ OpenThread(n)
      PROVE  MetInv'
  BY <1>3, MetInsert
<1>4. ASSUME NEW n \in Runners,
             \/ Search(n) \/ Fetch(n) \/ StoreMessage(n) \/ MirrorLead(n)
             \/ WriteCursor(n) \/ Abort(n)
      PROVE  MetInv'
  <2>1. pc[n] # "idle" /\ UNCHANGED <<contacts, threads, met>>
    BY <1>4 DEF Search, Fetch, StoreMessage, MirrorLead, WriteCursor, Abort
  <2>2. pc'[n] \notin {"filing", "opening"}
    BY <1>4 DEF TypeOK, Search, Fetch, StoreMessage, MirrorLead, WriteCursor, Abort,
       Advance, LeaveBehind, Forget
  <2>3. \A k \in Runners \ {n} : pc'[k] = pc[k] /\ at'[k] = at[k]
    BY <1>4, OthersStay DEF Run
  <2>4. QED
    BY <2>1, <2>2, <2>3, MetQuiet
<1>5. CASE Arrive
  BY <1>5 DEF MetInv, AllMet, FilersMet, OpenersMet, DuplicatesOverlap, Current,
     Arrive, local
<1>6. CASE UNCHANGED vars
  BY <1>6 DEF MetInv, AllMet, FilersMet, OpenersMet, DuplicatesOverlap, Current,
     vars, local
<1>7. QED
  BY <1>1, <1>2, <1>3, <1>4, <1>5, <1>6 DEF Next, Run

\* Runs that follow each other never file a person who can be looked up, or open
\* a thread, twice.
THEOREM SerialRunsFileOnce == Spec => []DuplicatesOverlap
<1>1. Init => MetInv
  BY DEF Init, MetInv, AllMet, FilersMet, OpenersMet, DuplicatesOverlap
<1>2. TypeOK /\ MetInv /\ [Next]_vars => MetInv'
  BY MetStep
<1>3. MetInv => DuplicatesOverlap
  BY DEF MetInv
<1>4. QED
  BY <1>1, <1>2, <1>3, TypeCorrect, PTL DEF Spec

-------------------------------------------------------------------------------
(* The job implements the intake                                           *)

\* What waits after a step of n, by where n was and is.
LEMMA WaitingSame ==
    ASSUME NEW n \in Runners, pc[n] # "mirroring", pc'[n] # "mirroring",
           \A k \in Runners \ {n} : pc'[k] = pc[k] /\ at'[k] = at[k]
    PROVE  Waiting' = Waiting
BY DEF Waiting, Current

LEMMA WaitingMore ==
    ASSUME NEW n \in Runners, pc[n] # "mirroring", pc'[n] = "mirroring",
           at'[n] = at[n],
           \A k \in Runners \ {n} : pc'[k] = pc[k] /\ at'[k] = at[k]
    PROVE  Waiting' = Waiting \cup {Current(n)}
BY DEF Waiting, Current

LEMMA WaitingLess ==
    ASSUME OnceInv, NEW n \in Runners, pc[n] = "mirroring", pc'[n] # "mirroring",
           \A k \in Runners \ {n} : pc'[k] = pc[k] /\ at'[k] = at[k]
    PROVE  /\ Current(n) \in Waiting
           /\ Waiting' = Waiting \ {Current(n)}
<1>1. Current(n) \in Waiting
  BY DEF Waiting
<1>2. ASSUME NEW k \in Runners, k # n
      PROVE  /\ pc'[k] = "mirroring" <=> pc[k] = "mirroring"
             /\ Current(k)' = Current(k)
             /\ pc[k] = "mirroring" => Current(k) # Current(n)
  BY <1>2 DEF OnceInv, Current
<1>3. Waiting' = Waiting \ {Current(n)}
  BY <1>2 DEF Waiting
<1>4. QED
  BY <1>1, <1>3

LEMMA IntakeInit == Init => Mail!Init
BY DEF Init, Mail!Init, Waiting

\* The insert of a message is the Store of the intake, or nothing to it.
LEMMA IntakeStore ==
    ASSUME TypeOK, NEW n \in Runners, StoreMessage(n)
    PROVE  \/ \E u \in 1..arrived : Mail!Store(u)
           \/ UNCHANGED Mail!vars
<1> DEFINE i == Current(n)
<1> USE DEF TypeOK, Goto
<1>1. \A k \in Runners \ {n} : pc'[k] = pc[k] /\ at'[k] = at[k]
  BY OthersStay DEF Run
<1>2. at[n] \in 1..arrived /\ Mailbox[at[n]] = i /\ pc[n] = "storing"
  <2>1. pc[n] = "storing"
    BY DEF StoreMessage
  <2>2. at[n] \in 1..arrived
    BY <2>1 DEF Handling, Working
  <2>3. QED
    BY <2>1, <2>2 DEF Current
<1>3. UNCHANGED <<arrived, cursor, mirrors>>
  BY DEF StoreMessage
<1>4. CASE /\ Insertable(i) /\ stored' = stored \cup {i} /\ UNCHANGED dropped
           /\ i \in Leads /\ pc'[n] = "mirroring" /\ UNCHANGED local
  <2>1. Waiting' = Waiting \cup ({i} \cap Leads)
    BY <1>1, <1>2, <1>4, WaitingMore DEF local
  <2>2. Mail!Store(at[n])
    BY <1>2, <1>3, <1>4, <2>1 DEF Mail!Store, Insertable
  <2>3. QED
    BY <1>2, <2>2
<1>5. CASE /\ Insertable(i) /\ stored' = stored \cup {i} /\ pc'[n] # "mirroring"
           /\ dropped' = dropped \cup ({i} \cap Leads)
  <2>1. Waiting' = Waiting
    BY <1>1, <1>2, <1>5, WaitingSame
  <2>2. Mail!Store(at[n])
    BY <1>2, <1>3, <1>5, <2>1 DEF Mail!Store, Insertable
  <2>3. QED
    BY <1>2, <2>2
<1>6. CASE UNCHANGED <<stored, dropped>> /\ pc'[n] # "mirroring"
  <2>1. Waiting' = Waiting
    BY <1>1, <1>2, <1>6, WaitingSame
  <2>2. QED
    BY <1>3, <1>6, <2>1 DEF Mail!vars
<1>7. Advance(n) \/ LeaveBehind(n) => pc'[n] # "mirroring"
  BY DEF Advance, LeaveBehind
<1>8. QED
  BY <1>4, <1>5, <1>6, <1>7 DEF StoreMessage, ForTimeline

LEMMA IntakeStep ==
    ASSUME TypeOK, CoverInv, OnceInv, [Next]_vars
    PROVE  [Mail!Next]_(Mail!vars)
<1> USE DEF crm, ghost, Goto
<1>1. ASSUME NEW n \in Runners,
             \/ Start(n) \/ Search(n) \/ Fetch(n) \/ MatchContact(n) \/ FileContact(n)
             \/ FindThread(n) \/ OpenThread(n)
      PROVE  UNCHANGED Mail!vars
  <2>1. /\ pc[n] # "mirroring" /\ pc'[n] # "mirroring"
        /\ UNCHANGED <<arrived, cursor, stored, mirrors, dropped>>
    BY <1>1 DEF TypeOK, Start, Search, Fetch, MatchContact, FileContact, FindThread,
       OpenThread, LeaveBehind
  <2>2. \A k \in Runners \ {n} : pc'[k] = pc[k] /\ at'[k] = at[k]
    BY <1>1, OthersStay DEF Run
  <2>3. Waiting' = Waiting
    BY <2>1, <2>2, WaitingSame
  <2>4. QED
    BY <2>1, <2>3 DEF Mail!vars
<1>2. ASSUME NEW n \in Runners, StoreMessage(n)
      PROVE  [Mail!Next]_(Mail!vars)
  BY <1>2, IntakeStore DEF Mail!Next
<1>3. ASSUME NEW n \in Runners, MirrorLead(n) \/ (Abort(n) /\ pc[n] = "mirroring")
      PROVE  Mail!Next
  <2> DEFINE i == Current(n)
  <2>1. pc[n] = "mirroring" /\ pc'[n] # "mirroring"
    BY <1>3 DEF TypeOK, MirrorLead, Advance, Abort, Forget
  <2>2. \A k \in Runners \ {n} : pc'[k] = pc[k] /\ at'[k] = at[k]
    BY <1>3, OthersStay DEF Run
  <2>3. i \in Waiting /\ Waiting' = Waiting \ {i}
    BY <2>1, <2>2, WaitingLess
  <2>4. UNCHANGED <<arrived, cursor, stored>>
    BY <1>3 DEF MirrorLead, Abort
  <2>5. CASE mirrors' = mirrors \cup {<<i, n>>} /\ dropped' \in {dropped, dropped \cup {i}}
    <3>1. Mail!Show(i, n)
      BY <2>3, <2>4, <2>5 DEF Mail!Show
    <3>2. QED
      BY <2>3, <3>1 DEF Mail!Next
  <2>6. CASE mirrors' = mirrors /\ dropped' = dropped \cup {i}
    <3>1. Mail!GiveUp(i)
      BY <2>3, <2>4, <2>6 DEF Mail!GiveUp
    <3>2. QED
      BY <2>3, <3>1 DEF Mail!Next
  <2>7. QED
    BY <1>3, <2>1, <2>5, <2>6 DEF MirrorLead, Abort
<1>4. ASSUME NEW n \in Runners, WriteCursor(n) \/ (Abort(n) /\ pc[n] # "mirroring")
      PROVE  [Mail!Next]_(Mail!vars)
  <2>1. /\ pc[n] # "mirroring" /\ pc'[n] # "mirroring"
        /\ UNCHANGED <<arrived, stored, mirrors, dropped>>
    BY <1>4 DEF TypeOK, WriteCursor, Abort, Forget
  <2>2. \A k \in Runners \ {n} : pc'[k] = pc[k] /\ at'[k] = at[k]
    BY <1>4, OthersStay DEF Run
  <2>3. Waiting' = Waiting
    BY <2>1, <2>2, WaitingSame
  <2>4. CASE WriteCursor(n)
    <3>1. cursor' = reached[n] /\ reached[n] \in 0..arrived
      BY <2>4 DEF TypeOK, WriteCursor
    <3>2. \A u \in 1..reached[n] : Mailbox[u] \in stored
      BY DEF CoverInv, Covered
    <3>3. Mail!Move(reached[n])
      BY <2>1, <2>3, <3>1, <3>2 DEF Mail!Move
    <3>4. QED
      BY <3>1, <3>3 DEF Mail!Next
  <2>5. CASE Abort(n)
    BY <2>1, <2>3, <2>5 DEF Abort, Mail!vars
  <2>6. QED
    BY <1>4, <2>4, <2>5
<1>5. CASE Arrive
  <2>1. Waiting' = Waiting
    BY <1>5 DEF Arrive, local, Waiting, Current
  <2>2. Mail!Arrive
    BY <1>5, <2>1 DEF Arrive, Mail!Arrive
  <2>3. QED
    BY <2>2 DEF Mail!Next
<1>6. CASE UNCHANGED vars
  BY <1>6 DEF vars, local, Mail!vars, Waiting, Current
<1>7. QED
  BY <1>1, <1>2, <1>3, <1>4, <1>5, <1>6 DEF Next, Run

\* The job is an intake: a mail is stored once, a lead that waits leaves the wait
\* once, with its entry or given up, and the cursor is only ever written where
\* nothing before it is missing.
THEOREM ImplementsIntake == Spec => IntakeSpec
<1>1. Init => Mail!Init
  BY IntakeInit
<1>2. TypeOK /\ CoverInv /\ OnceInv /\ [Next]_vars => [Mail!Next]_(Mail!vars)
  BY IntakeStep
<1>3. Init => CoverInv /\ OnceInv
  BY DEF Init, CoverInv, Covered, OnceInv, MirroredOnce
<1>4. QED
  BY <1>1, <1>2, <1>3, CoverStep, OnceStep, TypeCorrect, PTL
     DEF Spec, IntakeSpec, Mail!Spec

\* A lead leaves the wait for its interaction for good, and a mail that was stored
\* without waiting never begins to.
THEOREM WaitsOnce == Spec => NoSecondWait
<1>1. [Mail!Next]_(Mail!vars) => [(stored \ Waiting) \cap Waiting' = {}]_vars
  <2> SUFFICES ASSUME [Mail!Next]_(Mail!vars)
               PROVE  (stored \ Waiting) \cap Waiting' = {}
    OBVIOUS
  <2>1. ASSUME NEW u \in 1..arrived, Mail!Store(u)
        PROVE  (stored \ Waiting) \cap Waiting' = {}
    BY <2>1 DEF Mail!Store
  <2>2. ASSUME NEW i \in Waiting, Mail!GiveUp(i) \/ \E w \in Runners : Mail!Show(i, w)
        PROVE  (stored \ Waiting) \cap Waiting' = {}
    BY <2>2 DEF Mail!GiveUp, Mail!Show
  <2>3. CASE UNCHANGED Waiting
    BY <2>3
  <2>4. QED
    BY <2>1, <2>2, <2>3 DEF Mail!Next, Mail!Arrive, Mail!Move, Mail!vars
<1>2. QED
  BY <1>1, ImplementsIntake, PTL DEF IntakeSpec, Mail!Spec, NoSecondWait
===============================================================================
