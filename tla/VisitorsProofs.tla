---------------------------- MODULE VisitorsProofs ----------------------------
(***************************************************************************)
(* Proofs about Visitors: types, a link that stays closed, a visitor       *)
(* registered once and an erasure that forgets, for any contacts, workers  *)
(* and numbers of calls and failures.                                      *)
(***************************************************************************)
EXTENDS Visitors, TLAPS

USE ConstantsAssumption

\* The types of the link, of the rows, of the calls and of the rest.
LinkType ==
    /\ status \in {"pending", "opened", "completed", "expired"}
    /\ past \in BOOLEAN
    /\ mode \in {"visitor_only", "auth_user"}
    /\ account \in BOOLEAN

RowType ==
    /\ known \subseteq Contacts
    /\ held \subseteq known
    /\ listed \subseteq held
    /\ erased \subseteq known
    /\ consent \in [Contacts -> {"none", "granted", "erased"}]
    /\ mirrored \subseteq known
    /\ copied \subseteq known
    /\ trail \subseteq known

CallType ==
    /\ pc \in [Workers -> States]
    /\ found \in [Workers -> Contacts \cup {None}]

\* What a call that is at work has found.
HasFound(w) ==
    /\ found[w] # None => found[w] \in known
    /\ pc[w] \in {"consenting", "visiting", "completing", "erasing", "redacting"} =>
           found[w] # None
    /\ pc[w] = "redacting" => found[w] \in erased

FoundType == \A w \in Workers : HasFound(w)

GhostType ==
    /\ visits \in Nat
    /\ stale \subseteq Workers
    /\ forgotten \subseteq erased
    /\ revived \subseteq erased
    /\ causes \subseteq {"overlap", "ended", "reopened", "retried"}
    /\ calls \in 0..MaxCalls
    /\ failures \in 0..MaxFailures

Typed == LinkType /\ RowType /\ CallType /\ FoundType /\ GhostType

LEMMA TypeSplit == Typed <=> TypeOK
BY DEF TypeOK, Typed, LinkType, RowType, CallType, FoundType, HasFound, GhostType

-------------------------------------------------------------------------------
(* A step of a worker leaves the calls of the others alone, and those of   *)
(* nobody in particular leave every call alone.                            *)

Acts(w) == Link(w) \/ Submit(w) \/ Erase(w) \/ Fail(w)

Apart == (\E c \in Contacts : UpdateContact(c)) \/ ExpireInvitation \/ TimePasses

LEMMA StepActs ==
    ASSUME Next
    PROVE  (\E w \in Workers : Acts(w)) \/ Apart
BY DEF Next, Acts, Apart

LEMMA ApartKeeps ==
    ASSUME Apart
    PROVE  local' = local
BY DEF Apart, UpdateContact, ExpireInvitation, TimePasses, local

LEMMA OthersKeep ==
    ASSUME CallType, NEW w \in Workers, Acts(w), NEW k \in Workers, k # w
    PROVE  pc'[k] = pc[k] /\ found'[k] = found[k]
<1> USE DEF CallType, local, Goto, Done
<1>1. CASE Link(w)
  BY <1>1 DEF Link, Resolve, MarkOpened, MarkExpired
<1>2. CASE Submit(w)
  <2>1. CASE BeginSubmit(w) \/ FindAccount(w) \/ CreateAccount(w)
    BY <2>1 DEF BeginSubmit, FindAccount, CreateAccount
  <2>2. CASE FindContact(w)
    BY <2>2 DEF FindContact
  <2>3. CASE PutContact(w)
    BY <2>3 DEF PutContact
  <2>4. CASE RetryPut(w) \/ RecordConsent(w) \/ InsertVisit(w) \/ Complete(w)
    BY <2>4 DEF RetryPut, RecordConsent, InsertVisit, Complete
  <2>5. QED
    BY <1>2, <2>1, <2>2, <2>3, <2>4 DEF Submit
<1>3. CASE Erase(w)
  BY <1>3 DEF Erase, BeginErase, Tombstone, Redact
<1>4. CASE Fail(w)
  BY <1>4 DEF Fail
<1>5. QED
  BY <1>1, <1>2, <1>3, <1>4 DEF Acts

-------------------------------------------------------------------------------
(* Types                                                                   *)

LEMMA TypeInit ==
    ASSUME Init
    PROVE  Typed
<1>1. LinkType
  <2>1. past \in BOOLEAN /\ account \in BOOLEAN
    BY Zenon DEF Init
  <2>2. QED
    BY <2>1 DEF Init, LinkType
<1>2. RowType
  BY DEF Init, RowType
<1>3. CallType /\ FoundType
  BY DEF Init, CallType, FoundType, HasFound, States
<1>4. GhostType
  BY DEF Init, GhostType
<1>5. QED
  BY <1>1, <1>2, <1>3, <1>4 DEF Typed

\* The flags are kept, or set.
LEMMA FlagsStep ==
    ASSUME Next
    PROVE  /\ mode' = mode
           /\ past' = past \/ past' = TRUE
           /\ account' = account \/ account' = TRUE
<1> USE DEF link
<1>1. ASSUME NEW w \in Workers, Acts(w)
      PROVE  /\ mode' = mode
             /\ past' = past
             /\ account' = account \/ account' = TRUE
  <2>1. CASE Link(w)
    BY <2>1 DEF Link, Resolve, MarkOpened, MarkExpired
  <2>2. CASE Submit(w)
    BY <2>2 DEF Submit, BeginSubmit, FindAccount, CreateAccount, FindContact, PutContact,
                RetryPut, RecordConsent, InsertVisit, Complete
  <2>3. CASE Erase(w) \/ Fail(w)
    BY <2>3 DEF Erase, BeginErase, Tombstone, Redact, Fail
  <2>4. QED
    BY <1>1, <2>1, <2>2, <2>3 DEF Acts
<1>2. CASE Apart
  BY <1>2 DEF Apart, UpdateContact, ExpireInvitation, TimePasses
<1>3. QED
  BY <1>1, <1>2, StepActs

\* What a step makes of the status, and which steps do.
LEMMA StatusStep ==
    ASSUME Next
    PROVE  \/ status' = status
           \/ \E w \in Workers : MarkOpened(w) \/ MarkExpired(w) \/ Complete(w)
           \/ ExpireInvitation
<1> DEFINE Marks ==
      \/ \E w \in Workers : MarkOpened(w) \/ MarkExpired(w) \/ Complete(w)
      \/ ExpireInvitation
<1> USE DEF link
<1>1. ASSUME NEW w \in Workers, Acts(w)
      PROVE  status' = status \/ Marks
  <2>1. CASE Link(w)
    BY <2>1 DEF Link, Resolve
  <2>2. CASE Submit(w)
    BY <2>2 DEF Submit, BeginSubmit, FindAccount, CreateAccount, FindContact, PutContact,
                RetryPut, RecordConsent, InsertVisit
  <2>3. CASE Erase(w) \/ Fail(w)
    BY <2>3 DEF Erase, BeginErase, Tombstone, Redact, Fail
  <2>4. QED
    BY <1>1, <2>1, <2>2, <2>3 DEF Acts
<1>2. CASE Apart
  BY <1>2 DEF Apart, UpdateContact, TimePasses
<1>3. QED
  BY <1>1, <1>2, StepActs

LEMMA LinkStep ==
    ASSUME LinkType, Next
    PROVE  LinkType'
<1>1. past' \in BOOLEAN
  BY FlagsStep, Zenon DEF LinkType
<1>2. account' \in BOOLEAN
  BY FlagsStep, Zenon DEF LinkType
<1>3. mode' \in {"visitor_only", "auth_user"}
  BY FlagsStep DEF LinkType
<1>4. status' \in {"pending", "opened", "completed", "expired"}
  BY StatusStep DEF LinkType, MarkOpened, MarkExpired, Complete, ExpireInvitation, Close
<1>5. QED
  BY <1>1, <1>2, <1>3, <1>4 DEF LinkType

\* A written row is a row, and an erased one is revived.
LEMMA WriteType ==
    ASSUME RowType, NEW c \in Contacts, Write(c)
    PROVE  /\ RowType'
           /\ known \subseteq known' /\ c \in known'
           /\ erased' = erased /\ revived' \subseteq revived \cup erased
BY DEF RowType, Write, Revive

\* What a step does to the rows: known and erased only grow.
RowsGrow == RowType' /\ known \subseteq known' /\ erased \subseteq erased'

LEMMA RowsUnchanged ==
    ASSUME RowType, UNCHANGED rows
    PROVE  RowsGrow
BY DEF RowType, RowsGrow, rows

LEMMA RowStep ==
    ASSUME RowType, CallType, FoundType, Next
    PROVE  RowsGrow
<1>1. ASSUME NEW w \in Workers, Acts(w)
      PROVE  RowsGrow
  <2> HasFound(w)
    BY DEF FoundType
  <2>1. CASE Link(w)
    BY <2>1, RowsUnchanged DEF Link, Resolve, MarkOpened, MarkExpired
  <2>2. CASE \/ BeginSubmit(w) \/ FindAccount(w) \/ CreateAccount(w) \/ FindContact(w)
             \/ InsertVisit(w) \/ Complete(w)
    BY <2>2, RowsUnchanged DEF BeginSubmit, FindAccount, CreateAccount, FindContact,
                               InsertVisit, Complete
  <2>3. CASE PutContact(w)
    <3>1. PICK c \in Contacts : Write(c)
      BY <2>3 DEF PutContact, Upsert
    <3>2. QED
      BY <3>1, WriteType DEF RowsGrow
  <2>4. CASE RetryPut(w)
    <3>1. CASE UNCHANGED rows
      BY <3>1, RowsUnchanged
    <3>2. CASE \E c \in Contacts : Write(c)
      BY <3>2, WriteType DEF RowsGrow
    <3>3. QED
      BY <2>4, <3>1, <3>2 DEF RetryPut, Upsert
  <2>5. CASE RecordConsent(w)
    <3>1. found[w] \in known
      BY <2>5 DEF RecordConsent, HasFound
    <3>2. QED
      BY <2>5, <3>1 DEF RecordConsent, RowType, RowsGrow
  <2>6. ASSUME NEW c \in Contacts, BeginErase(w, c)
        PROVE  RowsGrow
    BY <2>6, RowsUnchanged DEF BeginErase
  <2>7. CASE Tombstone(w)
    <3>1. found[w] \in known
      BY <2>7 DEF Tombstone, HasFound
    <3>2. QED
      BY <2>7, <3>1 DEF Tombstone, RowType, RowsGrow
  <2>8. CASE Redact(w)
    BY <2>8 DEF Redact, RowType, RowsGrow
  <2>9. CASE Fail(w)
    BY <2>9, RowsUnchanged DEF Fail
  <2>10. QED
    BY <1>1, <2>1, <2>2, <2>3, <2>4, <2>5, <2>6, <2>7, <2>8, <2>9 DEF Acts, Submit, Erase
<1>2. CASE Apart
  <2>1. ASSUME NEW c \in Contacts, UpdateContact(c)
        PROVE  RowsGrow
    BY <2>1 DEF UpdateContact, RowType, RowsGrow
  <2>2. CASE ExpireInvitation \/ TimePasses
    BY <2>2, RowsUnchanged DEF ExpireInvitation, TimePasses
  <2>3. QED
    BY <1>2, <2>1, <2>2 DEF Apart
<1>3. QED
  BY <1>1, <1>2, StepActs

LEMMA DoneType ==
    ASSUME CallType, NEW w \in Workers, Done(w)
    PROVE  CallType' /\ pc'[w] = "idle" /\ found'[w] = None
BY DEF CallType, Done, Goto, States

LEMMA GotoType ==
    ASSUME CallType, NEW w \in Workers, NEW to \in States, Goto(w, to), UNCHANGED found
    PROVE  CallType' /\ pc'[w] = to /\ found'[w] = found[w]
BY DEF CallType, Goto

\* The call of the worker that acts.
LEMMA CallOwn ==
    ASSUME RowType, CallType, FoundType, NEW w \in Workers, Acts(w), RowsGrow
    PROVE  CallType' /\ HasFound(w)'
<1> HasFound(w)
  BY DEF FoundType
<1>1. ASSUME Done(w)
      PROVE  CallType' /\ HasFound(w)'
  BY <1>1, DoneType DEF HasFound
<1>2. ASSUME NEW to \in {"opening", "expiring", "locating", "creating", "finding", "retrying"},
             Goto(w, to), UNCHANGED found
      PROVE  CallType' /\ HasFound(w)'
  <2>1. to \in States
    BY DEF States, Submitting
  <2>2. QED
    BY <1>2, <2>1, GotoType DEF HasFound, RowsGrow
<1>3. ASSUME NEW to \in {"visiting", "completing", "redacting"}, Goto(w, to), UNCHANGED found,
             found[w] # None, to = "redacting" => found[w] \in erased'
      PROVE  CallType' /\ HasFound(w)'
  <2>1. to \in States
    BY DEF States, Submitting
  <2>2. QED
    BY <1>3, <2>1, GotoType DEF HasFound, RowsGrow
<1>4. ASSUME NEW to \in {"putting", "consenting", "erasing"}, NEW c \in Contacts \cup {None},
             Goto(w, to), found' = [found EXCEPT ![w] = c],
             c # None => c \in known', to # "putting" => c # None
      PROVE  CallType' /\ HasFound(w)'
  <2>1. to \in States
    BY DEF States, Submitting
  <2>2. CallType' /\ pc'[w] = to /\ found'[w] = c
    BY <1>4, <2>1 DEF CallType, Goto
  <2>3. QED
    BY <1>4, <2>2 DEF HasFound
<1>5. CASE Link(w)
  <2>1. CASE Resolve(w)
    BY <2>1, <1>2 DEF Resolve
  <2>2. CASE MarkOpened(w) \/ MarkExpired(w)
    BY <2>2, <1>1 DEF MarkOpened, MarkExpired
  <2>3. QED
    BY <1>5, <2>1, <2>2 DEF Link
<1>6. CASE Submit(w)
  <2>1. CASE BeginSubmit(w) \/ FindAccount(w) \/ RetryPut(w)
    BY <2>1, <1>2 DEF BeginSubmit, FindAccount, RetryPut
  <2>2. CASE CreateAccount(w)
    BY <2>2, <1>1, <1>2 DEF CreateAccount
  <2>3. CASE FindContact(w)
    <3>1. PICK c \in IF listed = {} THEN {None} ELSE listed : found' = [found EXCEPT ![w] = c]
      BY <2>3 DEF FindContact
    <3>2. c \in Contacts \cup {None} /\ (c # None => c \in known')
      BY <3>1, <2>3 DEF FindContact, RowType, RowsGrow
    <3>3. QED
      BY <2>3, <3>1, <3>2, <1>4 DEF FindContact
  <2>4. CASE PutContact(w)
    <3>1. PICK c \in Contacts : Write(c) /\ found' = [found EXCEPT ![w] = c]
      BY <2>4 DEF PutContact, Upsert
    <3>2. c \in known' /\ c # None
      BY <3>1 DEF Write
    <3>3. QED
      BY <2>4, <3>1, <3>2, <1>4 DEF PutContact
  <2>5. CASE RecordConsent(w) \/ InsertVisit(w)
    BY <2>5, <1>3 DEF RecordConsent, InsertVisit, HasFound
  <2>6. CASE Complete(w)
    BY <2>6, <1>1 DEF Complete
  <2>7. QED
    BY <1>6, <2>1, <2>2, <2>3, <2>4, <2>5, <2>6 DEF Submit
<1>7. CASE Erase(w)
  <2>1. ASSUME NEW c \in Contacts, BeginErase(w, c)
        PROVE  CallType' /\ HasFound(w)'
    <3>1. c \in known' /\ c # None
      BY <2>1 DEF BeginErase, RowsGrow
    <3>2. QED
      BY <2>1, <3>1, <1>4 DEF BeginErase
  <2>2. CASE Tombstone(w)
    BY <2>2, <1>3 DEF Tombstone, HasFound
  <2>3. CASE Redact(w)
    BY <2>3, <1>1 DEF Redact
  <2>4. QED
    BY <1>7, <2>1, <2>2, <2>3 DEF Erase
<1>8. CASE Fail(w)
  BY <1>8, <1>1 DEF Fail
<1>9. QED
  BY <1>5, <1>6, <1>7, <1>8 DEF Acts

LEMMA CallStep ==
    ASSUME RowType, CallType, FoundType, Next, RowsGrow
    PROVE  CallType' /\ FoundType'
<1>1. ASSUME NEW w \in Workers, Acts(w)
      PROVE  CallType' /\ FoundType'
  <2>1. CallType' /\ HasFound(w)'
    BY <1>1, CallOwn
  <2>2. ASSUME NEW k \in Workers, k # w
        PROVE  HasFound(k)'
    BY <1>1, <2>2, OthersKeep DEF HasFound, FoundType, RowsGrow
  <2>3. QED
    BY <2>1, <2>2 DEF FoundType
<1>2. CASE Apart
  <2>1. UNCHANGED <<pc, found>>
    BY <1>2, ApartKeeps DEF local
  <2>2. QED
    BY <2>1 DEF CallType, FoundType, HasFound, RowsGrow
<1>3. QED
  BY <1>1, <1>2, StepActs

\* Closing makes workers stale, resolving is a fresh read; nothing else matters.
LEMMA StaleStep ==
    ASSUME stale \subseteq Workers, Next
    PROVE  stale' \subseteq Workers
<1> USE DEF ghosts, Close
<1>1. ASSUME NEW w \in Workers, Acts(w)
      PROVE  stale' \subseteq Workers
  <2>1. CASE Link(w)
    BY <2>1 DEF Link, Resolve, MarkOpened, MarkExpired
  <2>2. CASE Submit(w)
    BY <2>2 DEF Submit, BeginSubmit, FindAccount, CreateAccount, FindContact, PutContact,
                RetryPut, RecordConsent, InsertVisit, Complete
  <2>3. CASE Erase(w) \/ Fail(w)
    BY <2>3 DEF Erase, BeginErase, Tombstone, Redact, Fail
  <2>4. QED
    BY <1>1, <2>1, <2>2, <2>3 DEF Acts
<1>2. CASE Apart
  BY <1>2 DEF Apart, UpdateContact, ExpireInvitation, TimePasses
<1>3. QED
  BY <1>1, <1>2, StepActs

LEMMA CountUp ==
    ASSUME calls \in 0..MaxCalls, failures \in 0..MaxFailures
    PROVE  /\ Calling => calls' \in 0..MaxCalls
           /\ Failing => failures' \in 0..MaxFailures
BY DEF Calling, Failing

LEMMA CountStep ==
    ASSUME GhostType, Next
    PROVE  calls' \in 0..MaxCalls /\ failures' \in 0..MaxFailures
<1> DEFINE Counted ==
      /\ calls' = calls \/ Calling
      /\ failures' = failures \/ Failing
<1>1. ASSUME NEW w \in Workers, Acts(w)
      PROVE  Counted
  <2>1. CASE Link(w)
    BY <2>1 DEF Link, Resolve, MarkOpened, MarkExpired, Begin
  <2>2. CASE BeginSubmit(w) \/ FindAccount(w) \/ CreateAccount(w) \/ FindContact(w)
    BY <2>2 DEF BeginSubmit, FindAccount, CreateAccount, FindContact, Begin
  <2>3. CASE PutContact(w) \/ RetryPut(w)
    BY <2>3 DEF PutContact, RetryPut
  <2>4. CASE RecordConsent(w) \/ InsertVisit(w) \/ Complete(w)
    BY <2>4 DEF RecordConsent, InsertVisit, Complete
  <2>5. CASE Erase(w)
    BY <2>5 DEF Erase, BeginErase, Tombstone, Redact, Begin
  <2>6. CASE Fail(w)
    BY <2>6 DEF Fail
  <2>7. QED
    BY <1>1, <2>1, <2>2, <2>3, <2>4, <2>5, <2>6 DEF Acts, Submit
<1>2. ASSUME Apart
      PROVE  Counted
  BY <1>2 DEF Apart, UpdateContact, ExpireInvitation, TimePasses
<1>3. Counted
  BY <1>1, <1>2, StepActs
<1>4. QED
  BY <1>3, CountUp DEF GhostType

LEMMA VisitStep ==
    ASSUME GhostType, Next
    PROVE  /\ visits' \in Nat
           /\ causes' \subseteq {"overlap", "ended", "reopened", "retried"}
<1> DEFINE Seen ==
      /\ visits' = visits \/ visits' = visits + 1
      /\ causes' \subseteq causes \cup {"overlap", "ended", "reopened", "retried"}
<1> USE DEF ghosts
<1>1. ASSUME NEW w \in Workers, Acts(w)
      PROVE  Seen
  <2>1. CASE Link(w)
    BY <2>1 DEF Link, Resolve, MarkOpened, MarkExpired
  <2>2. CASE BeginSubmit(w) \/ FindAccount(w) \/ CreateAccount(w) \/ FindContact(w)
    BY <2>2 DEF BeginSubmit, FindAccount, CreateAccount, FindContact
  <2>3. CASE PutContact(w) \/ RetryPut(w)
    BY <2>3 DEF PutContact, RetryPut
  <2>4. CASE RecordConsent(w) \/ InsertVisit(w) \/ Complete(w)
    BY <2>4 DEF RecordConsent, InsertVisit, Complete
  <2>5. CASE Erase(w)
    BY <2>5 DEF Erase, BeginErase, Tombstone, Redact
  <2>6. CASE Fail(w)
    BY <2>6 DEF Fail
  <2>7. QED
    BY <1>1, <2>1, <2>2, <2>3, <2>4, <2>5, <2>6 DEF Acts, Submit
<1>2. ASSUME Apart
      PROVE  Seen
  BY <1>2 DEF Apart, UpdateContact, ExpireInvitation, TimePasses
<1>3. Seen
  BY <1>1, <1>2, StepActs
<1>4. QED
  BY <1>3 DEF GhostType

\* What is forgotten or revived has been erased.
LEMMA ErasedStep ==
    ASSUME Typed, Next
    PROVE  forgotten' \subseteq erased' /\ revived' \subseteq erased'
<1> DEFINE Told == forgotten' \subseteq erased' /\ revived' \subseteq erased'
<1> USE DEF Typed, GhostType, ghosts, rows
<1>1. ASSUME NEW w \in Workers, Acts(w)
      PROVE  Told
  <2>1. CASE Link(w)
    BY <2>1 DEF Link, Resolve, MarkOpened, MarkExpired
  <2>2. CASE BeginSubmit(w) \/ FindAccount(w) \/ CreateAccount(w) \/ FindContact(w)
    BY <2>2 DEF BeginSubmit, FindAccount, CreateAccount, FindContact
  <2>3. CASE PutContact(w) \/ RetryPut(w)
    BY <2>3 DEF PutContact, RetryPut, Upsert, Write, Revive
  <2>4. CASE RecordConsent(w)
    BY <2>4 DEF RecordConsent, Revive
  <2>5. CASE InsertVisit(w) \/ Complete(w)
    BY <2>5 DEF InsertVisit, Complete
  <2>6. ASSUME NEW c \in Contacts, BeginErase(w, c)
        PROVE  Told
    BY <2>6 DEF BeginErase
  <2>7. CASE Tombstone(w)
    BY <2>7 DEF Tombstone
  <2>8. CASE Redact(w)
    BY <2>8 DEF Redact, FoundType, HasFound
  <2>9. CASE Fail(w)
    BY <2>9 DEF Fail
  <2>10. QED
    BY <1>1, <2>1, <2>2, <2>3, <2>4, <2>5, <2>6, <2>7, <2>8, <2>9 DEF Acts, Submit, Erase
<1>2. CASE Apart
  BY <1>2 DEF Apart, UpdateContact, Revive, ExpireInvitation, TimePasses
<1>3. QED
  BY <1>1, <1>2, StepActs

LEMMA TypeStep ==
    ASSUME Typed, [Next]_vars
    PROVE  Typed'
<1>1. CASE Next
  <2>1. RowsGrow
    BY <1>1, RowStep DEF Typed
  <2>2. CallType' /\ FoundType'
    BY <1>1, <2>1, CallStep DEF Typed
  <2>3. LinkType'
    BY <1>1, LinkStep DEF Typed
  <2>4. GhostType'
    BY <1>1, StaleStep, CountStep, VisitStep, ErasedStep DEF Typed, GhostType
  <2>5. QED
    BY <2>1, <2>2, <2>3, <2>4 DEF Typed, RowsGrow
<1>2. CASE UNCHANGED vars
  <2>1. LinkType'
    BY <1>2 DEF Typed, LinkType, vars, link
  <2>2. RowType'
    BY <1>2 DEF Typed, RowType, vars, rows
  <2>3. CallType' /\ FoundType'
    BY <1>2 DEF Typed, CallType, FoundType, HasFound, vars, rows, local
  <2>4. GhostType'
    BY <1>2 DEF Typed, GhostType, vars, rows, ghosts
  <2>5. QED
    BY <2>1, <2>2, <2>3, <2>4 DEF Typed
<1>3. QED
  BY <1>1, <1>2

\* In every behaviour the state has its type.
THEOREM TypeCorrect == Spec => []TypeOK
<1>1. Init => Typed
  BY TypeInit
<1>2. Typed /\ [Next]_vars => Typed'
  BY TypeStep
<1>3. Typed => TypeOK
  BY TypeSplit
<1>4. QED
  BY <1>1, <1>2, <1>3, PTL DEF Spec

\* The types in parts, for the proofs below.
THEOREM TypedHolds == Spec => []Typed
<1>1. Init => Typed
  BY TypeInit
<1>2. Typed /\ [Next]_vars => Typed'
  BY TypeStep
<1>3. QED
  BY <1>1, <1>2, PTL DEF Spec

-------------------------------------------------------------------------------
(* A link is opened again by late readers only: once it is closed, every   *)
(* worker about to mark it opened read it before.                          *)

LateInv == Closed => \A w \in Workers : pc[w] = "opening" => w \in stale

\* A worker that resolves has read the link open; no other worker starts to.
LEMMA OpeningBegins ==
    ASSUME CallType, Next, NEW k \in Workers, pc'[k] = "opening", pc[k] # "opening"
    PROVE  Resolve(k)
<1> USE DEF CallType, Goto, Done
<1>1. ASSUME NEW w \in Workers, Acts(w)
      PROVE  Resolve(k)
  <2>1. k = w
    BY <1>1, OthersKeep
  <2>2. CASE Link(w)
    BY <2>1, <2>2 DEF Link, MarkOpened, MarkExpired
  <2>3. CASE Submit(w)
    BY <2>1, <2>3 DEF Submit, BeginSubmit, FindAccount, CreateAccount, FindContact, PutContact,
                      RetryPut, RecordConsent, InsertVisit, Complete
  <2>4. CASE Erase(w)
    BY <2>1, <2>4 DEF Erase, BeginErase, Tombstone, Redact
  <2>5. CASE Fail(w)
    BY <2>1, <2>5 DEF Fail
  <2>6. QED
    BY <1>1, <2>2, <2>3, <2>4, <2>5 DEF Acts
<1>2. CASE Apart
  BY <1>2, ApartKeeps DEF local
<1>3. QED
  BY <1>1, <1>2, StepActs

\* Nobody is told twice: only a fresh read takes a worker off the stale ones.
LEMMA StaleStays ==
    ASSUME CallType, Next, NEW k \in stale, pc[k] = "opening"
    PROVE  k \in stale'
<1> USE DEF ghosts, Close
<1>1. ASSUME NEW w \in Workers, Acts(w)
      PROVE  k \in stale'
  <2>1. CASE Resolve(w)
    BY <2>1 DEF Resolve, Begin
  <2>2. CASE MarkOpened(w) \/ MarkExpired(w)
    BY <2>2 DEF MarkOpened, MarkExpired
  <2>3. CASE Submit(w)
    BY <2>3 DEF Submit, BeginSubmit, FindAccount, CreateAccount, FindContact, PutContact,
                RetryPut, RecordConsent, InsertVisit, Complete
  <2>4. CASE Erase(w) \/ Fail(w)
    BY <2>4 DEF Erase, BeginErase, Tombstone, Redact, Fail
  <2>5. QED
    BY <1>1, <2>1, <2>2, <2>3, <2>4 DEF Acts, Link
<1>2. CASE Apart
  BY <1>2 DEF Apart, UpdateContact, ExpireInvitation, TimePasses
<1>3. QED
  BY <1>1, <1>2, StepActs

\* Whatever closes the link tells the readers.
LEMMA CloseTells ==
    ASSUME Next, Closed', status' # status, NEW k \in Workers, pc[k] = "opening"
    PROVE  k \in stale'
BY StatusStep DEF MarkOpened, MarkExpired, Complete, ExpireInvitation, Close, Closed

LEMMA LateStep ==
    ASSUME CallType, LateInv, [Next]_vars
    PROVE  LateInv'
<1>1. CASE Next
  <2> SUFFICES ASSUME Closed', NEW k \in Workers, pc'[k] = "opening"
               PROVE  k \in stale'
    BY DEF LateInv
  <2>1. CASE pc[k] # "opening"
    <3>1. Resolve(k)
      BY <1>1, <2>1, OpeningBegins
    <3>2. ~Closed'
      BY <3>1 DEF Resolve, Open, Closed, link
    <3>3. QED
      BY <3>2
  <2>2. CASE pc[k] = "opening" /\ status' = status
    BY <1>1, <2>2, StaleStays DEF LateInv, Closed
  <2>3. CASE pc[k] = "opening" /\ status' # status
    BY <1>1, <2>3, CloseTells
  <2>4. QED
    BY <2>1, <2>2, <2>3
<1>2. CASE UNCHANGED vars
  BY <1>2 DEF LateInv, Closed, vars, link, local, ghosts
<1>3. QED
  BY <1>1, <1>2

\* A closed link is opened again only by a worker that read it before.
THEOREM ClosedStaysClosedHolds == Spec => ClosedStaysClosed
<1> DEFINE Late == Closed /\ ~Closed' => \E w \in stale : pc[w] = "opening"
<1>1. Init => LateInv
  BY DEF Init, LateInv, Closed
<1>2. Typed /\ LateInv /\ [Next]_vars => LateInv'
  BY LateStep DEF Typed
<1>3. Typed /\ LateInv /\ [Next]_vars => [Late]_vars
  <2> SUFFICES ASSUME Typed, LateInv, Next, Closed, ~Closed'
               PROVE  \E w \in stale : pc[w] = "opening"
    OBVIOUS
  <2>1. status' # status
    BY DEF Closed
  <2>2. PICK w \in Workers : MarkOpened(w)
    BY <2>1, StatusStep DEF MarkExpired, Complete, ExpireInvitation, Close, Closed
  <2>3. QED
    BY <2>2 DEF MarkOpened, LateInv
<1>4. QED
  BY <1>1, <1>2, <1>3, TypedHolds, PTL DEF Spec, ClosedStaysClosed

-------------------------------------------------------------------------------
(* Registered once.  With no cause for a second one there is one           *)
(* submission at a time, the visit is in exactly when it is about to       *)
(* complete or the link is closed, and what it found is all there is.      *)

Single ==
    \A w, k \in Workers : pc[w] \in Submitting /\ pc[k] \in Submitting => w = k

VisitInv ==
    /\ visits \in {0, 1}
    /\ visits = 1 => Closed \/ \E w \in Workers : pc[w] = "completing"
    /\ \A w \in Workers :
         pc[w] \in Submitting => (visits = 1 <=> pc[w] = "completing")
    /\ status = "completed" => visits = 1

ListInv ==
    /\ \A c, d \in listed : c = d
    /\ \A w \in Workers :
         pc[w] \in {"putting", "retrying"} => \A c \in listed : found[w] = c

OnceInv == causes = {} => Single /\ VisitInv /\ ListInv

LEMMA CausesGrow ==
    ASSUME Next
    PROVE  causes \subseteq causes'
<1> USE DEF ghosts
<1>1. ASSUME NEW w \in Workers, Acts(w)
      PROVE  causes \subseteq causes'
  <2>1. CASE Link(w)
    BY <2>1 DEF Link, Resolve, MarkOpened, MarkExpired
  <2>2. CASE BeginSubmit(w) \/ FindAccount(w) \/ CreateAccount(w) \/ FindContact(w)
    BY <2>2 DEF BeginSubmit, FindAccount, CreateAccount, FindContact
  <2>3. CASE PutContact(w) \/ RetryPut(w)
    BY <2>3 DEF PutContact, RetryPut
  <2>4. CASE RecordConsent(w) \/ InsertVisit(w) \/ Complete(w)
    BY <2>4 DEF RecordConsent, InsertVisit, Complete
  <2>5. CASE Erase(w)
    BY <2>5 DEF Erase, BeginErase, Tombstone, Redact
  <2>6. CASE Fail(w)
    BY <2>6 DEF Fail
  <2>7. QED
    BY <1>1, <2>1, <2>2, <2>3, <2>4, <2>5, <2>6 DEF Acts, Submit
<1>2. CASE Apart
  BY <1>2 DEF Apart, UpdateContact, ExpireInvitation, TimePasses
<1>3. QED
  BY <1>1, <1>2, StepActs

LEMMA SubmitBegins ==
    ASSUME CallType, Next, NEW k \in Workers, pc'[k] \in Submitting, pc[k] \notin Submitting
    PROVE  BeginSubmit(k)
<1> USE DEF CallType, Goto, Done, Submitting
<1>1. ASSUME NEW w \in Workers, Acts(w)
      PROVE  BeginSubmit(k)
  <2>1. k = w
    BY <1>1, OthersKeep
  <2>2. CASE Link(w)
    BY <2>1, <2>2 DEF Link, Resolve, MarkOpened, MarkExpired
  <2>3. CASE FindAccount(w) \/ CreateAccount(w) \/ FindContact(w)
    BY <2>1, <2>3 DEF FindAccount, CreateAccount, FindContact
  <2>4. CASE PutContact(w) \/ RetryPut(w)
    BY <2>1, <2>4 DEF PutContact, RetryPut
  <2>5. CASE RecordConsent(w) \/ InsertVisit(w) \/ Complete(w)
    BY <2>1, <2>5 DEF RecordConsent, InsertVisit, Complete
  <2>6. CASE Erase(w)
    BY <2>1, <2>6 DEF Erase, BeginErase, Tombstone, Redact
  <2>7. CASE Fail(w)
    BY <2>1, <2>7 DEF Fail
  <2>8. QED
    BY <1>1, <2>1, <2>2, <2>3, <2>4, <2>5, <2>6, <2>7 DEF Acts, Submit
<1>2. CASE Apart
  BY <1>2, ApartKeeps DEF local
<1>3. QED
  BY <1>1, <1>2, StepActs

LEMMA SingleStep ==
    ASSUME CallType, Single, Next, causes' = {}
    PROVE  Single'
<1>1. ASSUME NEW w \in Workers, BeginSubmit(w), NEW k \in Workers, pc'[k] \in Submitting
      PROVE  k = w
  <2>1. pc[k] \notin Submitting
    BY <1>1 DEF BeginSubmit
  <2>2. Acts(w)
    BY <1>1 DEF Acts, Submit
  <2>3. QED
    BY <1>1, <2>1, <2>2, OthersKeep
<1>2. SUFFICES ASSUME NEW w \in Workers, NEW k \in Workers,
                      pc'[w] \in Submitting, pc'[k] \in Submitting
               PROVE  w = k
  BY DEF Single, Submitting
<1>3. CASE pc[w] \in Submitting /\ pc[k] \in Submitting
  BY <1>3 DEF Single
<1>4. CASE pc[w] \notin Submitting
  BY <1>1, <1>2, <1>4, SubmitBegins
<1>5. CASE pc[k] \notin Submitting
  BY <1>1, <1>2, <1>5, SubmitBegins
<1>6. QED
  BY <1>3, <1>4, <1>5

\* A worker that is not at a submission changes neither the visits nor, but by
\* opening the link or closing it, the status.
LEMMA VisitAway ==
    ASSUME CallType, VisitInv, NEW w \in Workers, Acts(w),
           pc[w] \notin Submitting, pc'[w] \notin Submitting,
           visits' = visits, status' = status \/ status' = "expired"
                             \/ (status' = "opened" /\ ~Closed)
    PROVE  VisitInv'
<1>1. ASSUME NEW k \in Workers, pc[k] = "completing" \/ pc'[k] \in Submitting
      PROVE  pc'[k] = pc[k] /\ k # w
  BY <1>1, OthersKeep DEF Submitting
<1>2. visits' = 1 => Closed' \/ \E k \in Workers : pc'[k] = "completing"
  <2>1. CASE status' = status
    BY <2>1, <1>1 DEF VisitInv, Closed
  <2>2. CASE status' = "expired"
    BY <2>2 DEF Closed
  <2>3. CASE status' = "opened" /\ ~Closed
    BY <2>3, <1>1 DEF VisitInv
  <2>4. QED
    BY <2>1, <2>2, <2>3
<1>3. \A k \in Workers : pc'[k] \in Submitting => (visits' = 1 <=> pc'[k] = "completing")
  BY <1>1 DEF VisitInv, Submitting
<1>4. QED
  BY <1>2, <1>3 DEF VisitInv, Submitting

\* A submission on its way has registered nothing, and goes on or ends.
LEMMA VisitAtWork ==
    ASSUME CallType, Single, VisitInv, NEW w \in Workers, Acts(w), Single',
           pc[w] \in Submitting, pc[w] # "completing",
           pc'[w] = "idle" \/ pc'[w] \in Submitting,
           visits' = IF pc'[w] = "completing" THEN 1 ELSE 0, status' = status
    PROVE  VisitInv'
<1>1. visits = 0 /\ status # "completed"
  BY DEF VisitInv
<1>2. ASSUME NEW k \in Workers, pc'[k] \in Submitting
      PROVE  k = w
  BY <1>2, OthersKeep DEF Single
<1>3. QED
  BY <1>1, <1>2 DEF VisitInv, Submitting

LEMMA VisitInvStep ==
    ASSUME Typed, Single, VisitInv, Next, Single', causes' = {}
    PROVE  VisitInv'
<1> USE DEF Typed, CallType, link, Goto, Done
<1>1. ASSUME NEW w \in Workers, Acts(w)
      PROVE  VisitInv'
  <2>1. CASE Link(w)
    <3>1. /\ pc[w] \notin Submitting /\ pc'[w] \notin Submitting
          /\ visits' = visits
      BY <2>1 DEF Link, Resolve, MarkOpened, MarkExpired, Begin, Submitting
    <3>2. \/ status' = status \/ status' = "expired"
          \/ (status' = "opened" /\ ~Closed)
      BY <2>1 DEF Link, Resolve, MarkOpened, MarkExpired, Close
    <3>3. QED
      BY <1>1, <3>1, <3>2, VisitAway
  <2>2. CASE BeginSubmit(w)
    <3>1. /\ \A k \in Workers : pc[k] \notin Submitting
          /\ pc'[w] = "locating" /\ visits' = visits /\ status' = status /\ Open
      BY <2>2 DEF BeginSubmit
    <3>2. visits = 0 /\ status # "completed"
      BY <3>1 DEF VisitInv, Open, Closed, Submitting
    <3>3. ASSUME NEW k \in Workers, pc'[k] \in Submitting
          PROVE  k = w
      BY <1>1, <3>1, <3>3, OthersKeep
    <3>4. QED
      BY <3>1, <3>2, <3>3 DEF VisitInv
  <2>3. CASE FindAccount(w) \/ CreateAccount(w) \/ FindContact(w) \/ PutContact(w)
             \/ RetryPut(w) \/ RecordConsent(w)
    <3>1. /\ pc[w] \in Submitting /\ pc[w] # "completing"
          /\ pc'[w] = "idle" \/ pc'[w] \in Submitting
          /\ pc'[w] # "completing"
          /\ visits' = visits /\ status' = status
      <4>1. CASE FindAccount(w) \/ CreateAccount(w) \/ FindContact(w)
        BY <4>1 DEF FindAccount, CreateAccount, FindContact, Submitting
      <4>2. CASE PutContact(w) \/ RetryPut(w) \/ RecordConsent(w)
        BY <4>2 DEF PutContact, RetryPut, RecordConsent, Submitting
      <4>3. QED
        BY <2>3, <4>1, <4>2
    <3>2. visits = 0
      BY <3>1 DEF VisitInv
    <3>3. QED
      BY <1>1, <3>1, <3>2, VisitAtWork
  <2>4. CASE InsertVisit(w)
    <3>1. /\ pc[w] \in Submitting /\ pc[w] # "completing"
          /\ pc'[w] = "completing" /\ "completing" \in Submitting
          /\ visits' = visits + 1 /\ status' = status
      BY <2>4 DEF InsertVisit, Submitting
    <3>2. visits = 0
      BY <3>1 DEF VisitInv
    <3>3. QED
      BY <1>1, <3>1, <3>2, VisitAtWork
  <2>5. CASE Complete(w)
    <3>1. /\ pc[w] = "completing" /\ pc[w] \in Submitting /\ pc'[w] = "idle"
          /\ visits' = visits /\ status' = "completed"
      BY <2>5 DEF Complete, Close, Submitting
    <3>2. visits' = 1
      BY <3>1 DEF VisitInv
    <3>3. ASSUME NEW k \in Workers
          PROVE  pc'[k] \notin Submitting
      BY <1>1, <3>1, OthersKeep DEF Single, Submitting
    <3>4. QED
      BY <3>1, <3>2, <3>3 DEF VisitInv, Closed, Submitting
  <2>6. CASE Erase(w)
    <3>1. /\ pc[w] \notin Submitting /\ pc'[w] \notin Submitting
          /\ visits' = visits /\ status' = status
      BY <2>6 DEF Erase, BeginErase, Tombstone, Redact, Begin, Submitting
    <3>2. QED
      BY <1>1, <3>1, VisitAway
  <2>7. CASE Fail(w)
    <3>1. /\ pc'[w] = "idle" /\ "idle" \notin Submitting /\ pc[w] # "completing"
          /\ visits' = visits /\ status' = status
      BY <2>7 DEF Fail, Submitting
    <3>2. CASE pc[w] \in Submitting
      <4>1. visits = 0
        BY <3>1, <3>2 DEF VisitInv
      <4>2. QED
        BY <1>1, <3>1, <3>2, <4>1, VisitAtWork
    <3>3. CASE pc[w] \notin Submitting
      BY <1>1, <3>1, <3>3, VisitAway
    <3>4. QED
      BY <3>2, <3>3
  <2>8. QED
    BY <1>1, <2>1, <2>2, <2>3, <2>4, <2>5, <2>6, <2>7 DEF Acts, Submit
<1>2. CASE Apart
  <2>1. pc' = pc /\ visits' = visits /\ (status' = status \/ status' = "expired")
    BY <1>2 DEF Apart, UpdateContact, ExpireInvitation, TimePasses, Close, local
  <2>2. QED
    BY <2>1 DEF VisitInv, Closed
<1>3. QED
  BY <1>1, <1>2, StepActs

\* The e-mail is given only when the contact is put; a submission is about to put
\* one only when it has just looked, or as before.
LEMMA ListStep ==
    ASSUME Typed, Next, causes' = {}
    PROVE  \/ listed' \subseteq listed
           \/ \E w \in Workers : PutContact(w)
<1> USE DEF rows, ghosts
<1>1. ASSUME NEW w \in Workers, Acts(w), ~PutContact(w)
      PROVE  listed' \subseteq listed
  <2>1. CASE Link(w)
    BY <2>1 DEF Link, Resolve, MarkOpened, MarkExpired
  <2>2. CASE Submit(w)
    BY <1>1, <2>2 DEF Submit, BeginSubmit, FindAccount, CreateAccount, FindContact,
                      RetryPut, RecordConsent, InsertVisit, Complete
  <2>3. CASE Erase(w)
    BY <2>3 DEF Erase, BeginErase, Tombstone, Redact
  <2>4. CASE Fail(w)
    BY <2>4 DEF Fail
  <2>5. QED
    BY <1>1, <2>1, <2>2, <2>3, <2>4 DEF Acts
<1>2. CASE Apart
  BY <1>2 DEF Apart, UpdateContact, ExpireInvitation, TimePasses
<1>3. QED
  BY <1>1, <1>2, StepActs

Puts(k) == pc[k] \in {"putting", "retrying"}

LEMMA PutsBegins ==
    ASSUME CallType, Next, causes' = {}, NEW k \in Workers, Puts(k)'
    PROVE  (Puts(k) /\ found'[k] = found[k]) \/ FindContact(k)
<1> USE DEF CallType, Goto, Done, Puts
<1>1. ASSUME NEW w \in Workers, Acts(w)
      PROVE  (Puts(k) /\ found'[k] = found[k]) \/ FindContact(k)
  <2>1. CASE k # w
    BY <1>1, <2>1, OthersKeep
  <2>2. CASE k = w /\ Link(w)
    BY <2>2 DEF Link, Resolve, MarkOpened, MarkExpired
  <2>3. CASE k = w /\ Submit(w)
    <3>1. CASE BeginSubmit(w) \/ FindAccount(w) \/ CreateAccount(w)
      BY <2>3, <3>1 DEF BeginSubmit, FindAccount, CreateAccount
    <3>2. CASE PutContact(w) \/ RetryPut(w)
      BY <2>3, <3>2 DEF PutContact, RetryPut
    <3>3. CASE RecordConsent(w) \/ InsertVisit(w) \/ Complete(w)
      BY <2>3, <3>3 DEF RecordConsent, InsertVisit, Complete
    <3>4. QED
      BY <2>3, <3>1, <3>2, <3>3 DEF Submit
  <2>4. CASE k = w /\ (Erase(w) \/ Fail(w))
    BY <2>4 DEF Erase, BeginErase, Tombstone, Redact, Fail
  <2>5. QED
    BY <1>1, <2>1, <2>2, <2>3, <2>4 DEF Acts
<1>2. CASE Apart
  BY <1>2, ApartKeeps DEF local
<1>3. QED
  BY <1>1, <1>2, StepActs

LEMMA ListInvStep ==
    ASSUME Typed, Single, ListInv, Next, Single', causes' = {}
    PROVE  ListInv'
<1> listed \subseteq Contacts /\ None \notin listed
  BY DEF Typed, RowType
<1>1. CASE listed' \subseteq listed
  <2>1. ASSUME NEW k \in Workers, Puts(k)', NEW c \in listed'
        PROVE  found'[k] = c
    <3>1. CASE Puts(k) /\ found'[k] = found[k]
      BY <1>1, <2>1, <3>1 DEF ListInv, Puts
    <3>2. CASE FindContact(k)
      <4>1. PICK d \in listed : found' = [found EXCEPT ![k] = d]
        BY <1>1, <2>1, <3>2 DEF FindContact
      <4>2. QED
        BY <1>1, <2>1, <4>1 DEF ListInv, Typed, CallType
    <3>3. QED
      BY <2>1, <3>1, <3>2, PutsBegins DEF Typed
  <2>2. QED
    BY <1>1, <2>1 DEF ListInv, Puts
<1>2. ASSUME NEW w \in Workers, PutContact(w)
      PROVE  ListInv'
  <2>1. PICK c \in Contacts : Upsert(w, c)
    BY <1>2 DEF PutContact
  <2>2. listed' = listed \cup {c}
    BY <2>1 DEF Upsert, Write
  <2>3. ASSUME NEW d \in listed
        PROVE  d = c
    <3>1. found[w] = d /\ d # None
      BY <1>2, <2>3 DEF PutContact, ListInv
    <3>2. QED
      BY <2>1, <3>1 DEF Upsert
  <2>4. ASSUME NEW k \in Workers, Puts(k)'
        PROVE  FALSE
    <3>1. pc'[w] = "consenting"
      BY <1>2 DEF PutContact, Goto, Typed, CallType
    <3>2. pc'[w] \in Submitting /\ pc'[k] \in Submitting
      BY <2>4, <3>1 DEF Puts, Submitting
    <3>3. QED
      BY <2>4, <3>1, <3>2 DEF Single, Puts
  <2>5. QED
    BY <2>2, <2>3, <2>4 DEF ListInv, Puts
<1>3. QED
  BY <1>1, <1>2, ListStep

LEMMA OnceStep ==
    ASSUME Typed, OnceInv, [Next]_vars
    PROVE  OnceInv'
<1>1. CASE Next
  <2> SUFFICES ASSUME causes' = {}
               PROVE  (Single /\ VisitInv /\ ListInv)'
    BY DEF OnceInv
  <2>1. Single /\ VisitInv /\ ListInv
    BY <1>1, CausesGrow DEF OnceInv
  <2>2. Single'
    BY <1>1, <2>1, SingleStep DEF Typed
  <2>3. VisitInv'
    BY <1>1, <2>1, <2>2, VisitInvStep
  <2>4. ListInv'
    BY <1>1, <2>1, <2>2, ListInvStep
  <2>5. QED
    BY <2>2, <2>3, <2>4
<1>2. CASE UNCHANGED vars
  BY <1>2 DEF OnceInv, Single, VisitInv, Closed, ListInv, vars, link, rows, local, ghosts
<1>3. QED
  BY <1>1, <1>2

LEMMA OnceInit ==
    ASSUME Init
    PROVE  OnceInv
<1>1. Single /\ VisitInv
  BY DEF Init, Single, VisitInv, Submitting
<1>2. ListInv
  BY DEF Init, ListInv
<1>3. QED
  BY <1>1, <1>2 DEF OnceInv

\* With no overlap, no end after the visit, no retry of a write that was done and
\* no late reader, the visitor is registered once.
THEOREM RegisteredOnceHolds == Spec => []RegisteredOnce
<1>1. Init => OnceInv
  BY OnceInit
<1>2. Typed /\ OnceInv /\ [Next]_vars => OnceInv'
  BY OnceStep
<1>3. OnceInv => RegisteredOnce
  BY DEF OnceInv, VisitInv, ListInv, RegisteredOnce
<1>4. QED
  BY <1>1, <1>2, <1>3, TypedHolds, PTL DEF Spec

-------------------------------------------------------------------------------
(* Forgotten.  An erased row that nobody wrote to is empty, so no later    *)
(* snapshot of it, that of a second erasure included, holds anything.      *)

Gone(c) == c \notin held /\ c \notin listed /\ consent[c] = "erased"

GoneInv ==
    /\ \A c \in erased \ revived : Gone(c)
    /\ \A c \in forgotten \ revived : c \notin trail

\* A write to c revives it when it was erased; the others are as they were.
LEMMA WriteGone ==
    ASSUME Typed, GoneInv, NEW c \in Contacts,
           erased' = erased, forgotten' = forgotten, Revive(c),
           \A d \in Contacts : d # c =>
               /\ d \in held' => d \in held
               /\ d \in listed' => d \in listed
               /\ d \in trail' => d \in trail
               /\ consent'[d] = consent[d]
    PROVE  GoneInv'
<1>1. ASSUME NEW d \in erased' \ revived'
      PROVE  d \in Contacts /\ d # c /\ d \in erased \ revived
  BY <1>1 DEF Revive, Typed, RowType
<1>2. forgotten' \subseteq erased'
  BY DEF Typed, GhostType
<1>3. QED
  BY <1>1, <1>2 DEF GoneInv, Gone

LEMMA KeepGone ==
    ASSUME GoneInv, UNCHANGED <<held, listed, erased, consent, trail, forgotten, revived>>
    PROVE  GoneInv'
BY DEF GoneInv, Gone

LEMMA TombstoneGone ==
    ASSUME Typed, GoneInv, NEW w \in Workers, Tombstone(w)
    PROVE  GoneInv'
<1>1. found[w] \in Contacts
  BY DEF Tombstone, Typed, RowType, FoundType, HasFound
<1>2. /\ held' = held \ {found[w]} /\ listed' = listed \ {found[w]}
      /\ erased' = erased \cup {found[w]}
      /\ revived' = revived \ {found[w]} /\ forgotten' = forgotten \ {found[w]}
      /\ trail' = trail \cup ({found[w]} \cap held)
  BY DEF Tombstone
<1>3. /\ consent'[found[w]] = "erased"
      /\ \A d \in Contacts : d # found[w] => consent'[d] = consent[d]
  BY <1>1 DEF Tombstone, Typed, RowType
<1>4. ASSUME NEW d \in erased' \ revived'
      PROVE  Gone(d)'
  <2>1. CASE d = found[w]
    BY <1>2, <1>3, <2>1 DEF Gone
  <2>2. CASE d # found[w]
    <3>1. d \in erased \ revived /\ d \in Contacts
      BY <1>2, <1>4, <2>2 DEF Typed, RowType
    <3>2. QED
      BY <1>2, <1>3, <2>2, <3>1 DEF GoneInv, Gone
  <2>3. QED
    BY <2>1, <2>2
<1>5. ASSUME NEW d \in forgotten' \ revived'
      PROVE  d \notin trail'
  BY <1>2, <1>5 DEF GoneInv
<1>6. QED
  BY <1>4, <1>5 DEF GoneInv

LEMMA RedactGone ==
    ASSUME Typed, GoneInv, NEW w \in Workers, Redact(w)
    PROVE  GoneInv'
<1>1. /\ UNCHANGED <<held, listed, erased, consent, revived>>
      /\ forgotten' = forgotten \cup {found[w]} /\ trail' = trail \ {found[w]}
  BY DEF Redact
<1>2. QED
  BY <1>1 DEF GoneInv, Gone

LEMMA GoneStep ==
    ASSUME Typed, GoneInv, [Next]_vars
    PROVE  GoneInv'
<1> USE DEF rows, ghosts
<1>1. ASSUME NEW w \in Workers, Acts(w)
      PROVE  GoneInv'
  <2>1. CASE Link(w)
    BY <2>1, KeepGone DEF Link, Resolve, MarkOpened, MarkExpired
  <2>2. CASE BeginSubmit(w) \/ FindAccount(w) \/ CreateAccount(w) \/ FindContact(w)
    BY <2>2, KeepGone DEF BeginSubmit, FindAccount, CreateAccount, FindContact
  <2>3. ASSUME NEW c \in Contacts, Write(c), UNCHANGED forgotten
        PROVE  GoneInv'
    BY <2>3, WriteGone DEF Write
  <2>4. CASE PutContact(w)
    BY <2>3, <2>4 DEF PutContact, Upsert
  <2>5. CASE RetryPut(w)
    <3>1. CASE UNCHANGED <<rows, revived, causes>>
      BY <2>5, <3>1, KeepGone DEF RetryPut
    <3>2. CASE \E c \in Contacts : Upsert(w, c)
      BY <2>3, <2>5, <3>2 DEF RetryPut, Upsert
    <3>3. QED
      BY <2>5, <3>1, <3>2 DEF RetryPut
  <2>6. CASE RecordConsent(w)
    <3>1. found[w] \in Contacts
      BY <2>6 DEF RecordConsent, Typed, RowType, FoundType, HasFound
    <3>2. \A d \in Contacts : d # found[w] => consent'[d] = consent[d]
      BY <2>6, <3>1 DEF RecordConsent, Typed, RowType
    <3>3. /\ UNCHANGED <<held, listed, erased, forgotten>> /\ Revive(found[w])
          /\ trail' \subseteq trail \cup {found[w]}
      BY <2>6 DEF RecordConsent
    <3>4. QED
      BY <3>1, <3>2, <3>3, WriteGone
  <2>7. CASE InsertVisit(w) \/ Complete(w)
    BY <2>7, KeepGone DEF InsertVisit, Complete
  <2>8. ASSUME NEW c \in Contacts, BeginErase(w, c)
        PROVE  GoneInv'
    BY <2>8, KeepGone DEF BeginErase
  <2>9. CASE Tombstone(w) \/ Redact(w)
    BY <2>9, TombstoneGone, RedactGone
  <2>10. CASE Fail(w)
    BY <2>10, KeepGone DEF Fail
  <2>11. QED
    BY <1>1, <2>1, <2>2, <2>4, <2>5, <2>6, <2>7, <2>8, <2>9, <2>10 DEF Acts, Submit, Erase
<1>2. CASE Apart
  <2>1. ASSUME NEW c \in Contacts, UpdateContact(c)
        PROVE  GoneInv'
    BY <2>1, WriteGone DEF UpdateContact
  <2>2. CASE ExpireInvitation \/ TimePasses
    BY <2>2, KeepGone DEF ExpireInvitation, TimePasses
  <2>3. QED
    BY <1>2, <2>1, <2>2 DEF Apart
<1>3. CASE UNCHANGED vars
  BY <1>3, KeepGone DEF vars
<1>4. QED
  BY <1>1, <1>2, <1>3, StepActs

\* An erased contact that was left alone is forgotten, whatever the order in which
\* submissions, edits and other erasures run.
THEOREM ErasedIsForgottenHolds == Spec => []ErasedIsForgotten
<1>1. Init => GoneInv
  BY DEF Init, GoneInv
<1>2. Typed /\ GoneInv /\ [Next]_vars => GoneInv'
  BY GoneStep
<1>3. Typed /\ GoneInv => ErasedIsForgotten
  BY DEF Typed, GhostType, GoneInv, Gone, ErasedIsForgotten
<1>4. QED
  BY <1>1, <1>2, <1>3, TypedHolds, PTL DEF Spec
===============================================================================
