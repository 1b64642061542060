----------------------------- MODULE DealsProofs ------------------------------
(***************************************************************************)
(* Proofs about Deals: types, moves along declared transitions, whole      *)
(* transitions, a commission that is booked and booked once, and a file    *)
(* with its items, for any stages, bodies, transitions and workers.        *)
(***************************************************************************)
EXTENDS Deals, TLAPS

USE ConstantsAssumption

\* The types of what one call keeps, of the tables, and of the rest.
CallType ==
    /\ pc \in [Workers -> States]
    /\ patch \in [Workers -> Patches \cup {Blank}]
    /\ \A w \in Workers : pc[w] = "checking" => patch[w].stage \in Stages
    /\ from \in [Workers -> Stages \cup {Unset}]
    /\ payload \in [Workers -> SUBSET Rules]
    /\ late \in [Workers -> BOOLEAN]

TableType ==
    /\ deal \in Rows
    /\ piped \in BOOLEAN
    /\ rules \in SUBSET Rules
    /\ template \in {"absent", "present", "deleted"}
    /\ items \in BOOLEAN
    /\ receivables \in Nat
    /\ checklist \in {"none", "bare", "full"}

RestType ==
    /\ saved \in SUBSET Rules
    /\ torn \subseteq {"overlap", "ended"}
    /\ owed \subseteq {"receivable", "file"}
    /\ causes \subseteq {"overlap", "ended", "blank"}
    /\ calls \in 0..MaxCalls
    /\ failures \in 0..MaxFailures

LEMMA TypeSplit == TypeOK <=> CallType /\ TableType /\ RestType
BY DEF TypeOK, CallType, TableType, RestType

\* A field of a body is left out or has the type of the column.
LEMMA BodyType ==
    ASSUME NEW p \in Patches
    PROVE  /\ p.stage \in Stages \cup {Unset}
           /\ p.status \in Statuses \cup {Unset}
           /\ p.valued \in BOOLEAN \cup {Unset}
OBVIOUS

LEMMA BlankType ==
    Blank.stage = Unset /\ Blank.stage \notin Stages /\ Blank.stage \notin Agreement
BY DEF Blank

LEMMA FileType ==
    ASSUME NEW p, NEW row
    PROVE  /\ File(p) \in {"listing", "idle"}
           /\ Follow(p, row) \in {"billing", "listing", "idle"}
BY DEF File, Follow

\* How a call ends, and how it goes on.
LEMMA DoneType ==
    ASSUME CallType, NEW w \in Workers, Done(w), late' \in [Workers -> BOOLEAN]
    PROVE  CallType'
BY DEF CallType, Done, Goto, States

LEMMA ProceedType ==
    ASSUME CallType, NEW w \in Workers, NEW p \in Patches \cup {Blank},
           NEW to \in {"billing", "listing", "idle"}, Proceed(w, p, to),
           late' \in [Workers -> BOOLEAN]
    PROVE  CallType'
BY DEF CallType, Proceed, Goto, States

LEMMA StayType ==
    ASSUME CallType, NEW w \in Workers, NEW to \in States \ {"checking"}, Goto(w, to),
           UNCHANGED local, late' \in [Workers -> BOOLEAN]
    PROVE  CallType'
BY DEF CallType, Goto, local

LEMMA BeginType ==
    ASSUME RestType, NEW w \in Workers, Begin(w)
    PROVE  calls' \in 0..MaxCalls
BY DEF RestType, Begin

LEMMA OvertakeType ==
    ASSUME CallType, NEW w \in Workers, NEW held, Overtake(w, held)
    PROVE  late' \in [Workers -> BOOLEAN]
BY DEF CallType, Overtake

LEMMA TypeInit ==
    ASSUME Init
    PROVE  TypeOK
<1>1. CallType
  BY DEF Init, CallType, States
<1>2. deal \in Rows
  BY DEF Init, Rows, Statuses
<1>3. rules \in SUBSET Rules
  BY DEF Init
<1>4. TableType
  BY <1>2, <1>3 DEF Init, TableType
<1>5. RestType
  BY <1>3 DEF Init, RestType
<1>6. QED
  BY <1>1, <1>4, <1>5, TypeSplit

\* The row an update writes has the types of its columns.
LEMMA RowType ==
    ASSUME TableType, NEW p \in Patches
    PROVE  [stage |-> Given(p.stage, deal.stage), status |-> Given(p.status, deal.status),
            valued |-> Given(p.valued, deal.valued)] \in Rows
<1>1. /\ deal.stage \in Stages
      /\ deal.status \in Statuses
      /\ deal.valued \in BOOLEAN
  BY DEF TableType, Rows
<1>2. /\ Given(p.stage, deal.stage) \in Stages
      /\ Given(p.status, deal.status) \in Statuses
      /\ Given(p.valued, deal.valued) \in BOOLEAN
  BY <1>1, BodyType DEF Given
<1>3. QED
  BY <1>2 DEF Rows

LEMMA TypeStep ==
    ASSUME TypeOK, [Next]_vars
    PROVE  TypeOK'
<1> SUFFICES ASSUME CallType, TableType, RestType
             PROVE  CallType' /\ TableType' /\ RestType'
  BY DEF TypeOK, CallType, TableType, RestType
<1>1. ASSUME NEW w \in Workers, NEW p \in Patches, ReadDeal(w, p)
      PROVE  CallType' /\ TableType' /\ RestType'
  <2>1. RestType' /\ TableType'
    BY <1>1 DEF ReadDeal, Begin, RestType, TableType, ghosts, catalogue, books
  <2>2. deal.stage \in Stages /\ p.stage \in Stages
    BY <1>1, BodyType DEF ReadDeal, TableType, Rows
  <2>3. CallType'
    BY <1>1, <2>2 DEF ReadDeal, Begin, Goto, CallType, States
  <2>4. QED
    BY <2>1, <2>3
<1>2. ASSUME NEW w \in Workers, CheckMove(w)
      PROVE  CallType' /\ TableType' /\ RestType'
  <2>1. RestType' /\ TableType'
    BY <1>2 DEF CheckMove, RestType, TableType, ghosts, catalogue, books
  <2>2. late' \in [Workers -> BOOLEAN]
    BY <1>2 DEF CheckMove, CallType
  <2>3. CallType'
    BY <1>2, <2>2, DoneType, StayType DEF CheckMove, States
  <2>4. QED
    BY <2>1, <2>3
<1>3. ASSUME NEW w \in Workers, NEW p \in Patches, WriteDeal(w, p)
      PROVE  CallType' /\ TableType' /\ RestType'
  <2> DEFINE row == [stage  |-> Given(p.stage, deal.stage),
                     status |-> Given(p.status, deal.status),
                     valued |-> Given(p.valued, deal.valued)]
  <2>1. deal' = row /\ row \in Rows
    BY <1>3, RowType DEF WriteDeal
  <2>2. TableType'
    BY <1>3, <2>1 DEF WriteDeal, TableType, catalogue, books
  <2>3. late' \in [Workers -> BOOLEAN]
    <3>1. CASE row.stage = deal.stage
      BY <1>3, <3>1 DEF WriteDeal, CallType
    <3>2. CASE row.stage # deal.stage
      BY <1>3, <3>2, OvertakeType DEF WriteDeal
    <3>3. QED
      BY <3>1, <3>2
  <2>4. Follow(p, row) \in {"billing", "listing", "idle"}
    BY FileType
  <2>5. Proceed(w, p, Follow(p, row))
    BY <1>3 DEF WriteDeal
  <2>6. CallType'
    BY <2>3, <2>4, <2>5, ProceedType
  <2>7. RestType'
    <3>1. calls' \in 0..MaxCalls
      BY <1>3 DEF WriteDeal, Begin, RestType
    <3>2. owed' \subseteq {"receivable", "file"}
      BY <1>3 DEF WriteDeal, RestType
    <3>3. QED
      BY <1>3, <3>1, <3>2 DEF WriteDeal, RestType
  <2>8. QED
    BY <2>2, <2>6, <2>7
<1>4. ASSUME NEW w \in Workers, FindReceivable(w)
      PROVE  CallType' /\ TableType' /\ RestType'
  <2>1. RestType' /\ TableType'
    BY <1>4 DEF FindReceivable, RestType, TableType, ghosts, catalogue, books
  <2>2. late' \in [Workers -> BOOLEAN] /\ patch[w] \in Patches \cup {Blank}
    BY <1>4 DEF FindReceivable, CallType
  <2>3. CallType'
    BY <1>4, <2>2, FileType, ProceedType, StayType DEF FindReceivable, States
  <2>4. QED
    BY <2>1, <2>3
<1>5. ASSUME NEW w \in Workers, Book(w)
      PROVE  CallType' /\ TableType' /\ RestType'
  <2>1. RestType' /\ TableType'
    BY <1>5 DEF Book, RestType, TableType, catalogue
  <2>2. late' \in [Workers -> BOOLEAN] /\ patch[w] \in Patches \cup {Blank}
    BY <1>5, OvertakeType DEF Book, CallType
  <2>3. Proceed(w, patch[w], File(patch[w]))
    BY <1>5 DEF Book
  <2>4. CallType'
    BY <2>2, <2>3, FileType, ProceedType
  <2>5. QED
    BY <2>1, <2>4
<1>6. ASSUME NEW w \in Workers,
             FindChecklist(w) \/ PickTemplate(w) \/ CreateChecklist(w) \/ ReadItems(w)
               \/ FillChecklist(w)
      PROVE  CallType' /\ TableType' /\ RestType'
  <2>1. RestType' /\ TableType'
    BY <1>6 DEF FindChecklist, PickTemplate, CreateChecklist, ReadItems, FillChecklist,
       RestType, TableType, ghosts, catalogue, books
  <2>2. late' \in [Workers -> BOOLEAN]
    BY <1>6 DEF FindChecklist, PickTemplate, CreateChecklist, ReadItems, FillChecklist,
       CallType, ghosts
  <2>3. Done(w) \/ (UNCHANGED local /\
                      \E to \in {"picking", "creating", "copying", "filling"} : Goto(w, to))
    BY <1>6 DEF FindChecklist, PickTemplate, CreateChecklist, ReadItems, FillChecklist
  <2>4. CallType'
    BY <2>2, <2>3, DoneType, StayType DEF States
  <2>5. QED
    BY <2>1, <2>4
<1>7. ASSUME NEW w \in Workers, NEW rs \in RuleSets, ClearRules(w, rs)
      PROVE  CallType' /\ TableType' /\ RestType'
  <2>1. RestType' /\ TableType'
    BY <1>7 DEF ClearRules, Begin, RestType, TableType, books
  <2>2. late' \in [Workers -> BOOLEAN]
    BY <1>7, OvertakeType DEF ClearRules
  <2>3. CallType'
    BY <1>7, <2>2 DEF ClearRules, Begin, Goto, CallType, States
  <2>4. QED
    BY <2>1, <2>3
<1>8. ASSUME NEW w \in Workers, InsertRules(w)
      PROVE  CallType' /\ TableType' /\ RestType'
  <2>1. payload[w] \in SUBSET Rules
    BY DEF CallType
  <2>2. RestType' /\ TableType'
    BY <1>8, <2>1 DEF InsertRules, RestType, TableType, ghosts, books
  <2>3. late' \in [Workers -> BOOLEAN]
    BY <1>8, OvertakeType DEF InsertRules
  <2>4. CallType'
    BY <1>8, <2>3, DoneType DEF InsertRules
  <2>5. QED
    BY <2>2, <2>4
<1>9. ASSUME NEW w \in Workers, DeletePipeline(w)
      PROVE  CallType' /\ TableType' /\ RestType'
  <2>1. calls' \in 0..MaxCalls
    BY <1>9, BeginType DEF DeletePipeline
  <2>2. TableType'
    BY <1>9 DEF DeletePipeline, TableType, books
  <2>3. RestType'
    BY <1>9, <2>1 DEF DeletePipeline, RestType
  <2>4. late' \in [Workers -> BOOLEAN]
    BY <1>9, OvertakeType DEF DeletePipeline
  <2>5. CallType'
    BY <1>9, <2>4 DEF DeletePipeline, CallType, local
  <2>6. QED
    BY <2>2, <2>3, <2>5
<1>10. ASSUME NEW w \in Workers, ClearItems(w)
       PROVE  CallType' /\ TableType' /\ RestType'
  <2>1. calls' \in 0..MaxCalls
    BY <1>10, BeginType DEF ClearItems
  <2>2. TableType'
    BY <1>10 DEF ClearItems, TableType, books
  <2>3. RestType'
    BY <1>10, <2>1 DEF ClearItems, RestType, ghosts
  <2>4. PICK to \in {"idle", "itemizing"} : Goto(w, to)
    BY <1>10 DEF ClearItems
  <2>5. UNCHANGED local /\ late' \in [Workers -> BOOLEAN]
    BY <1>10 DEF ClearItems, CallType
  <2>6. to \in States \ {"checking"}
    BY DEF States
  <2>7. CallType'
    BY <2>4, <2>5, <2>6, StayType
  <2>8. QED
    BY <2>2, <2>3, <2>7
<1>11. ASSUME NEW w \in Workers, InsertItems(w)
       PROVE  CallType' /\ TableType' /\ RestType'
  <2>1. RestType' /\ TableType'
    BY <1>11 DEF InsertItems, RestType, TableType, ghosts, books
  <2>2. late' \in [Workers -> BOOLEAN] /\ Done(w)
    BY <1>11 DEF InsertItems, CallType
  <2>3. QED
    BY <2>1, <2>2, DoneType
<1>12. ASSUME NEW w \in Workers, DeleteTemplate(w)
       PROVE  CallType' /\ TableType' /\ RestType'
  <2>1. calls' \in 0..MaxCalls
    BY <1>12, BeginType DEF DeleteTemplate
  <2>2. TableType'
    BY <1>12 DEF DeleteTemplate, TableType, books
  <2>3. RestType'
    BY <1>12, <2>1 DEF DeleteTemplate, RestType, ghosts
  <2>4. CallType'
    BY <1>12 DEF DeleteTemplate, CallType, local
  <2>5. QED
    BY <2>2, <2>3, <2>4
<1>13. ASSUME NEW w \in Workers, Fail(w)
       PROVE  CallType' /\ TableType' /\ RestType'
  <2>1. RestType' /\ TableType'
    BY <1>13 DEF Fail, Failing, RestType, TableType, catalogue, books
  <2>2. late' \in [Workers -> BOOLEAN] /\ Done(w)
    BY <1>13 DEF Fail, CallType
  <2>3. QED
    BY <2>1, <2>2, DoneType
<1>14. CASE UNCHANGED vars
  BY <1>14 DEF CallType, TableType, RestType, vars, catalogue, books, local, ghosts
<1>15. QED
  BY <1>1, <1>2, <1>3, <1>4, <1>5, <1>6, <1>7, <1>8, <1>9, <1>10, <1>13, <1>14,
     <1>11, <1>12 DEF Next, Update, Administer

\* Every variable keeps its type, whatever the bodies and the transitions.
THEOREM TypeCorrect == Spec => []TypeOK
<1>1. Init => TypeOK
  BY TypeInit
<1>2. TypeOK /\ [Next]_vars => TypeOK'
  BY TypeStep
<1>3. QED
  BY <1>1, <1>2, PTL DEF Spec

-------------------------------------------------------------------------------
(* What a step of one worker does to the calls of the others.              *)

Acts(w) == Update(w) \/ Administer(w) \/ Fail(w)

LEMMA StepActs ==
    ASSUME Next
    PROVE  \E w \in Workers : Acts(w)
BY DEF Next, Acts

\* It leaves their variables alone ...
LEMMA OthersKeep ==
    ASSUME TypeOK, NEW w \in Workers, Acts(w), NEW k \in Workers, k # w
    PROVE  /\ pc'[k] = pc[k] /\ patch'[k] = patch[k]
           /\ from'[k] = from[k] /\ payload'[k] = payload[k]
<1> USE DEF Done, Proceed, Goto, TypeOK, local
<1>1. CASE Update(w)
  <2>1. ASSUME NEW p \in Patches, ReadDeal(w, p) \/ WriteDeal(w, p)
        PROVE  /\ pc'[k] = pc[k] /\ patch'[k] = patch[k]
               /\ from'[k] = from[k] /\ payload'[k] = payload[k]
    BY <2>1 DEF ReadDeal, WriteDeal
  <2>2. CASE CheckMove(w) \/ FindReceivable(w) \/ Book(w)
    BY <2>2 DEF CheckMove, FindReceivable, Book
  <2>3. CASE FindChecklist(w) \/ PickTemplate(w) \/ CreateChecklist(w)
               \/ ReadItems(w) \/ FillChecklist(w)
    BY <2>3 DEF FindChecklist, PickTemplate, CreateChecklist, ReadItems, FillChecklist
  <2>4. QED
    BY <1>1, <2>1, <2>2, <2>3 DEF Update
<1>2. CASE Administer(w)
  BY <1>2 DEF Administer, ClearRules, InsertRules, DeletePipeline, ClearItems,
     InsertItems, DeleteTemplate
<1>3. CASE Fail(w)
  BY <1>3 DEF Fail
<1>4. QED
  BY <1>1, <1>2, <1>3 DEF Acts

\* ... and late tells those whose answers it made stale.
LEMMA OthersTold ==
    ASSUME TypeOK, NEW w \in Workers, Acts(w), NEW k \in Workers, k # w, ~late'[k]
    PROVE  /\ ~late[k]
           /\ pc[k] \in {"checking", "writing"} =>
                deal'.stage = deal.stage /\ saved' = saved /\ piped' = piped
           /\ pc[k] = "booking" => receivables' = receivables
<1> USE DEF TypeOK, ghosts, catalogue, books
<1>1. CASE Update(w)
  <2>1. ASSUME NEW p \in Patches, ReadDeal(w, p)
        PROVE  UNCHANGED <<late, deal, saved, piped, receivables>>
    BY <2>1 DEF ReadDeal
  <2>2. ASSUME NEW p \in Patches, WriteDeal(w, p)
        PROVE  /\ ~late[k] /\ UNCHANGED <<saved, piped, receivables>>
               /\ pc[k] \in {"checking", "writing"} => deal'.stage = deal.stage
    <3>1. UNCHANGED <<saved, piped, receivables>>
      BY <2>2 DEF WriteDeal
    <3>2. /\ ~late[k]
          /\ pc[k] \in {"checking", "writing"} => deal'.stage = deal.stage
      BY <2>2 DEF WriteDeal, Overtake
    <3>3. QED
      BY <3>1, <3>2
  <2>3. CASE CheckMove(w) \/ FindReceivable(w)
    BY <2>3 DEF CheckMove, FindReceivable
  <2>4. CASE Book(w)
    BY <2>4 DEF Book, Overtake
  <2>5. CASE FindChecklist(w) \/ PickTemplate(w) \/ CreateChecklist(w)
               \/ ReadItems(w) \/ FillChecklist(w)
    BY <2>5 DEF FindChecklist, PickTemplate, CreateChecklist, ReadItems, FillChecklist
  <2>6. QED
    BY <1>1, <2>1, <2>2, <2>3, <2>4, <2>5 DEF Update
<1>2. CASE Administer(w)
  <2>1. ASSUME NEW rs \in RuleSets, ClearRules(w, rs)
        PROVE  /\ ~late[k] /\ pc[k] \notin {"checking", "writing"}
               /\ receivables' = receivables
    BY <2>1 DEF ClearRules, Overtake
  <2>2. CASE InsertRules(w)
    BY <2>2 DEF InsertRules, Overtake
  <2>3. CASE DeletePipeline(w)
    BY <2>3 DEF DeletePipeline, Overtake
  <2>4. CASE ClearItems(w) \/ InsertItems(w) \/ DeleteTemplate(w)
    BY <2>4 DEF ClearItems, InsertItems, DeleteTemplate
  <2>5. QED
    BY <1>2, <2>1, <2>2, <2>3, <2>4 DEF Administer
<1>3. CASE Fail(w)
  BY <1>3 DEF Fail
<1>4. QED
  BY <1>1, <1>2, <1>3 DEF Acts

-------------------------------------------------------------------------------
(* Moves follow declared transitions                                       *)

\* A worker not told otherwise knows the stage it checks, and one about to
\* write has checked its move against the transitions saved last.
Knows(w) ==
    /\ pc[w] = "checking" /\ ~late[w] => from[w] = deal.stage
    /\ pc[w] = "writing" /\ ~late[w] /\ piped => Legal(saved, deal.stage, patch[w].stage)

KnowsInv == \A w \in Workers : Knows(w)

LEMMA KnowsOwn ==
    ASSUME TypeOK, KnowsInv, NEW w \in Workers, Acts(w)
    PROVE  Knows(w)'
<1> USE DEF TypeOK
<1>1. ASSUME NEW p \in Patches, ReadDeal(w, p)
      PROVE  Knows(w)'
  <2>1. /\ UNCHANGED <<deal, saved, piped>>
        /\ from'[w] = deal.stage /\ patch'[w] = p
        /\ pc'[w] = IF piped /\ deal.stage # p.stage THEN "checking" ELSE "writing"
    BY <1>1 DEF ReadDeal, Goto, ghosts, catalogue
  <2>2. QED
    BY <2>1 DEF Knows, Legal
<1>2. CASE CheckMove(w)
  <2>1. pc[w] = "checking" /\ (~late[w] => from[w] = deal.stage)
    BY <1>2 DEF CheckMove, KnowsInv, Knows
  <2>2. CASE Legal(rules, from[w], patch[w].stage)
    <3>1. /\ pc'[w] = "writing" /\ UNCHANGED <<deal, saved, patch>>
          /\ late'[w] = (late[w] \/ rules # saved)
      BY <1>2, <2>2 DEF CheckMove, Goto, ghosts, local
    <3>2. QED
      BY <2>1, <2>2, <3>1 DEF Knows
  <2>3. CASE ~Legal(rules, from[w], patch[w].stage)
    <3>1. pc'[w] = "idle"
      BY <1>2, <2>3 DEF CheckMove, Done, Goto
    <3>2. QED
      BY <3>1 DEF Knows
  <2>4. QED
    BY <2>2, <2>3
<1>3. ASSUME pc'[w] \notin {"checking", "writing"}
      PROVE  Knows(w)'
  BY <1>3 DEF Knows
<1>4. ASSUME NEW p \in Patches, WriteDeal(w, p)
      PROVE  pc'[w] \notin {"checking", "writing"}
  BY <1>4, FileType DEF WriteDeal, Proceed, Goto
<1>5. CASE FindReceivable(w) \/ Book(w)
  <2>1. pc'[w] \notin {"checking", "writing"}
    BY <1>5, FileType DEF FindReceivable, Book, Proceed, Goto
  <2>2. QED
    BY <1>3, <2>1
<1>6. CASE FindChecklist(w) \/ PickTemplate(w) \/ CreateChecklist(w)
               \/ ReadItems(w) \/ FillChecklist(w) \/ Fail(w)
  <2>1. pc'[w] \notin {"checking", "writing"}
    BY <1>6 DEF FindChecklist, PickTemplate, CreateChecklist, ReadItems, FillChecklist,
       Fail, Done, Goto
  <2>2. QED
    BY <1>3, <2>1
<1>7. CASE Administer(w)
  <2>1. pc'[w] \notin {"checking", "writing"}
    BY <1>7 DEF Administer, ClearRules, InsertRules, DeletePipeline, ClearItems,
       InsertItems, DeleteTemplate, Begin, Done, Goto
  <2>2. QED
    BY <1>3, <2>1
<1>8. QED
  BY <1>1, <1>2, <1>3, <1>4, <1>5, <1>6, <1>7 DEF Acts, Update

LEMMA KnowsStep ==
    ASSUME TypeOK, KnowsInv, [Next]_vars
    PROVE  KnowsInv'
<1>1. CASE Next
  <2>1. PICK w \in Workers : Acts(w)
    BY <1>1, StepActs
  <2>2. ASSUME NEW k \in Workers, k # w
        PROVE  Knows(k)'
    BY <2>1, <2>2, OthersKeep, OthersTold DEF KnowsInv, Knows
  <2>3. QED
    BY <2>1, <2>2, KnowsOwn DEF KnowsInv
<1>2. CASE UNCHANGED vars
  BY <1>2 DEF vars, ghosts, catalogue, local, KnowsInv, Knows, Legal
<1>3. QED
  BY <1>1, <1>2

LEMMA KnowsInit ==
    ASSUME Init
    PROVE  KnowsInv
BY DEF Init, KnowsInv, Knows

\* A deal moves only along a transition declared last, unless stage or
\* transitions changed after the check, or were torn when it was made.
THEOREM MovesDeclaredHolds == Spec => MovesDeclared
<1> DEFINE Declared ==
      deal'.stage # deal.stage =>
        \E w \in Workers : /\ pc[w] = "writing" /\ pc'[w] # "writing"
                           /\ \/ late[w]
                              \/ ~piped
                              \/ Legal(saved, deal.stage, deal'.stage)
<1>1. TypeOK /\ KnowsInv /\ [Next]_vars => Declared
  <2> SUFFICES ASSUME TypeOK, KnowsInv, [Next]_vars, deal'.stage # deal.stage
               PROVE  \E w \in Workers : /\ pc[w] = "writing" /\ pc'[w] # "writing"
                                         /\ \/ late[w]
                                            \/ ~piped
                                            \/ Legal(saved, deal.stage, deal'.stage)
    OBVIOUS
  <2>1. PICK w \in Workers, p \in Patches : WriteDeal(w, p)
    BY DEF Next, Update, ReadDeal, CheckMove, FindReceivable, Book, FindChecklist,
       PickTemplate, CreateChecklist, ReadItems, FillChecklist, Administer, ClearRules,
       InsertRules, DeletePipeline, ClearItems, InsertItems, DeleteTemplate, Fail, vars
  <2>2. deal'.stage = Given(p.stage, deal.stage)
    BY <2>1 DEF WriteDeal
  <2>3. pc[w] = "writing" /\ p = patch[w] /\ deal'.stage = patch[w].stage
    BY <2>1, <2>2 DEF WriteDeal, Given
  <2>4. pc'[w] # "writing"
    BY <2>1, FileType DEF WriteDeal, Proceed, Goto, TypeOK
  <2>5. QED
    BY <2>3, <2>4 DEF KnowsInv, Knows
<1>2. TypeOK /\ KnowsInv /\ [Next]_vars => KnowsInv'
  BY KnowsStep
<1>3. Init => KnowsInv
  BY KnowsInit
<1>4. TypeOK /\ KnowsInv /\ [Next]_vars => [Declared]_vars
  BY <1>1
<1>5. QED
  BY TypeCorrect, <1>2, <1>3, <1>4, PTL DEF Spec, MovesDeclared

-------------------------------------------------------------------------------
(* The transitions are those of one edit                                   *)

\* While no cause is on record at most one edit is between its DELETE and its
\* INSERT; until then there is nothing, and what it will insert is what was
\* saved last.
RulesInv ==
    /\ ~piped => rules = {} /\ saved = {}
    /\ torn = {} =>
         /\ \A w, k \in Workers : pc[w] = "ruling" /\ pc[k] = "ruling" => w = k
         /\ \A w \in Workers : pc[w] = "ruling" /\ piped => rules = {} /\ payload[w] = saved
         /\ RulesWhole

\* The other steps: no transitions, and no edit of them, are concerned.
Elsewhere(w) ==
    /\ UNCHANGED <<piped, rules, saved, torn>>
    /\ pc[w] # "ruling" /\ pc'[w] # "ruling"

LEMMA ElsewhereSteps ==
    ASSUME TypeOK, NEW w \in Workers, Acts(w)
    PROVE  \/ Elsewhere(w)
           \/ \E rs \in RuleSets : ClearRules(w, rs)
           \/ InsertRules(w) \/ DeletePipeline(w) \/ Fail(w)
<1> USE DEF Elsewhere, TypeOK, Done, Proceed, Goto, Begin
<1>1. ASSUME NEW p \in Patches, ReadDeal(w, p)
      PROVE  Elsewhere(w)
  BY <1>1 DEF ReadDeal, ghosts, catalogue
<1>2. ASSUME NEW p \in Patches, WriteDeal(w, p)
      PROVE  Elsewhere(w)
  BY <1>2, FileType DEF WriteDeal, catalogue
<1>3. CASE CheckMove(w)
  BY <1>3 DEF CheckMove, ghosts, catalogue
<1>4. CASE FindReceivable(w) \/ Book(w)
  BY <1>4, FileType DEF FindReceivable, Book, ghosts, catalogue
<1>5. CASE FindChecklist(w) \/ PickTemplate(w) \/ CreateChecklist(w) \/ ReadItems(w)
             \/ FillChecklist(w)
  BY <1>5 DEF FindChecklist, PickTemplate, CreateChecklist, ReadItems, FillChecklist,
     ghosts, catalogue
<1>6. CASE ClearItems(w) \/ InsertItems(w) \/ DeleteTemplate(w)
  BY <1>6 DEF ClearItems, InsertItems, DeleteTemplate, ghosts
<1>7. QED
  BY <1>1, <1>2, <1>3, <1>4, <1>5, <1>6 DEF Acts, Update, Administer

LEMMA RulesStep ==
    ASSUME TypeOK, RulesInv, [Next]_vars
    PROVE  RulesInv'
<1>1. CASE UNCHANGED vars
  BY <1>1 DEF vars, ghosts, catalogue, local, RulesInv, RulesWhole
<1>2. ASSUME NEW w \in Workers, Acts(w)
      PROVE  RulesInv'
  <2>1. \A k \in Workers : k # w => pc'[k] = pc[k] /\ payload'[k] = payload[k]
    BY <1>2, OthersKeep
  <2>2. CASE Elsewhere(w)
    <3>1. \A k \in Workers : (pc'[k] = "ruling") = (pc[k] = "ruling")
      BY <2>1, <2>2 DEF Elsewhere
    <3>2. \A k \in Workers : pc'[k] = "ruling" => payload'[k] = payload[k]
      BY <2>1, <2>2 DEF Elsewhere
    <3>3. UNCHANGED <<piped, rules, saved, torn>>
      BY <2>2 DEF Elsewhere
    <3>4. QED
      BY <3>1, <3>2, <3>3 DEF RulesInv, RulesWhole
  <2>3. ASSUME NEW rs \in RuleSets, ClearRules(w, rs)
        PROVE  RulesInv'
    <3>1. /\ piped /\ piped' = piped /\ rules' = {} /\ saved' = rs
          /\ payload'[w] = rs
          /\ pc'[w] = IF rs = {} THEN "idle" ELSE "ruling"
          /\ torn' = {} => \A k \in Workers : pc[k] # "ruling"
      BY <2>3 DEF ClearRules, Goto, TypeOK
    <3>2. torn' = {} => \A k \in Workers : pc'[k] = "ruling" => k = w /\ rs # {}
      BY <2>1, <3>1
    <3>3. torn' = {} => RulesWhole'
      BY <3>1 DEF RulesWhole
    <3>4. QED
      BY <3>1, <3>2, <3>3 DEF RulesInv
  <2>4. CASE InsertRules(w)
    <3>1. /\ pc[w] = "ruling" /\ pc'[w] = "idle" /\ UNCHANGED <<piped, saved, torn>>
          /\ rules' = IF piped /\ ~Collides(payload[w]) THEN rules \cup payload[w]
                      ELSE rules
      BY <2>4 DEF InsertRules, Done, Goto, TypeOK, ghosts
    <3>2. CASE ~piped
      <4>1. rules' = {} /\ saved' = {} /\ ~piped'
        BY <3>1, <3>2 DEF RulesInv
      <4>2. \A k \in Workers : pc'[k] = "ruling" => pc[k] = "ruling"
        BY <2>1, <3>1
      <4>3. QED
        BY <3>1, <4>1, <4>2 DEF RulesInv, RulesWhole
    <3>3. CASE piped
      <4>1. ASSUME torn = {}
            PROVE  rules' = saved /\ \A k \in Workers : pc'[k] # "ruling"
        <5>1. rules = {} /\ payload[w] = saved
          BY <3>1, <3>3, <4>1 DEF RulesInv
        <5>2. ~Collides(payload[w])
          BY <5>1 DEF Collides
        <5>3. QED
          BY <2>1, <3>1, <3>3, <4>1, <5>1, <5>2 DEF RulesInv
      <4>2. QED
        BY <3>1, <3>3, <4>1 DEF RulesInv, RulesWhole
    <3>4. QED
      BY <3>2, <3>3
  <2>5. CASE DeletePipeline(w)
    <3>1. ~piped' /\ rules' = {} /\ saved' = {} /\ UNCHANGED <<pc, torn>>
      BY <2>5 DEF DeletePipeline
    <3>2. QED
      BY <3>1 DEF RulesInv, RulesWhole
  <2>6. CASE Fail(w)
    <3>1. pc'[w] = "idle" /\ UNCHANGED <<piped, rules, saved>>
      BY <2>6 DEF Fail, Done, Goto, TypeOK, catalogue
    <3>2. CASE pc[w] = "ruling"
      <4>1. torn' # {}
        BY <2>6, <3>2 DEF Fail
      <4>2. QED
        BY <3>1, <4>1 DEF RulesInv
    <3>3. CASE pc[w] # "ruling"
      <4>1. torn' = torn
        BY <2>6, <3>3 DEF Fail
      <4>2. \A k \in Workers : (pc'[k] = "ruling") = (pc[k] = "ruling")
        BY <2>1, <3>1, <3>3
      <4>3. \A k \in Workers : pc'[k] = "ruling" => payload'[k] = payload[k]
        BY <2>1, <3>1
      <4>4. QED
        BY <3>1, <4>1, <4>2, <4>3 DEF RulesInv, RulesWhole
    <3>4. QED
      BY <3>2, <3>3
  <2>7. QED
    BY <1>2, <2>2, <2>3, <2>4, <2>5, <2>6, ElsewhereSteps
<1>3. QED
  BY <1>1, <1>2, StepActs

\* The transitions in force are the last saved, but for edits at work and those
\* that overlapped or ended half-way.
THEOREM RulesWholeHolds == Spec => []RulesWhole
<1>1. Init => RulesInv
  BY DEF Init, RulesInv, RulesWhole
<1>2. TypeOK /\ RulesInv /\ [Next]_vars => RulesInv'
  BY RulesStep
<1>3. RulesInv => RulesWhole
  BY DEF RulesInv, RulesWhole
<1>4. QED
  BY TypeCorrect, <1>1, <1>2, <1>3, PTL DEF Spec

-------------------------------------------------------------------------------
(* The commission                                                          *)

\* A worker about to book that was not told of another commission saw none.
BookInv ==
    /\ BookedOnce
    /\ \A w \in Workers : pc[w] = "booking" /\ ~late[w] => receivables = 0

\* Steps that do not book.
LEMMA BookedOnlyByBook ==
    ASSUME TypeOK, NEW w \in Workers, Acts(w), ~Book(w)
    PROVE  /\ receivables' = receivables
           /\ causes \subseteq causes'
           /\ pc'[w] = "booking" => receivables = 0
<1> USE DEF TypeOK, Done, Goto, Begin, ghosts, catalogue, books
<1>1. ASSUME NEW p \in Patches, ReadDeal(w, p)
      PROVE  UNCHANGED <<receivables, causes>> /\ pc'[w] # "booking"
  BY <1>1 DEF ReadDeal
<1>2. ASSUME NEW p \in Patches, WriteDeal(w, p)
      PROVE  UNCHANGED <<receivables, causes>> /\ pc'[w] # "booking"
  BY <1>2, FileType DEF WriteDeal, Proceed
<1>3. CASE CheckMove(w)
  BY <1>3 DEF CheckMove
<1>4. CASE FindReceivable(w)
  BY <1>4, FileType DEF FindReceivable, Proceed
<1>5. CASE FindChecklist(w) \/ PickTemplate(w) \/ CreateChecklist(w) \/ ReadItems(w)
             \/ FillChecklist(w)
  BY <1>5 DEF FindChecklist, PickTemplate, CreateChecklist, ReadItems, FillChecklist
<1>6. CASE Administer(w)
  BY <1>6 DEF Administer, ClearRules, InsertRules, DeletePipeline, ClearItems,
     InsertItems, DeleteTemplate
<1>7. CASE Fail(w)
  BY <1>7 DEF Fail
<1>8. QED
  BY <1>1, <1>2, <1>3, <1>4, <1>5, <1>6, <1>7 DEF Acts, Update

LEMMA BookStep ==
    ASSUME TypeOK, BookInv, [Next]_vars
    PROVE  BookInv'
<1>1. CASE UNCHANGED vars
  BY <1>1 DEF vars, ghosts, books, BookInv, BookedOnce
<1>2. ASSUME NEW w \in Workers, Acts(w)
      PROVE  BookInv'
  <2>1. ASSUME NEW k \in Workers, k # w, pc'[k] = "booking", ~late'[k]
        PROVE  receivables' = 0
    <3>1. pc[k] = "booking" /\ ~late[k] /\ receivables' = receivables
      BY <1>2, <2>1, OthersKeep, OthersTold
    <3>2. QED
      BY <3>1 DEF BookInv
  <2>2. CASE Book(w)
    <3>1. /\ pc[w] = "booking" /\ receivables' = receivables + 1
          /\ causes' = IF late[w] THEN causes \cup {"overlap"} ELSE causes
          /\ pc'[w] = File(patch[w])
      BY <2>2 DEF Book, Proceed, Goto, TypeOK
    <3>2. ~late[w] => receivables' = 1
      BY <3>1 DEF BookInv
    <3>3. BookedOnce'
      BY <3>1, <3>2 DEF BookedOnce
    <3>4. pc'[w] # "booking"
      BY <3>1 DEF File
    <3>5. QED
      BY <2>1, <3>3, <3>4 DEF BookInv
  <2>3. CASE ~Book(w)
    <3>1. /\ receivables' = receivables /\ causes \subseteq causes'
          /\ pc'[w] = "booking" => receivables = 0
      BY <1>2, <2>3, BookedOnlyByBook
    <3>2. QED
      BY <2>1, <3>1 DEF BookInv, BookedOnce
  <2>4. QED
    BY <2>2, <2>3
<1>3. QED
  BY <1>1, <1>2, StepActs

\* Two commissions come from two updates that looked before either booked.
THEOREM BookedOnceHolds == Spec => []BookedOnce
<1>1. Init => BookInv
  BY DEF Init, BookInv, BookedOnce
<1>2. TypeOK /\ BookInv /\ [Next]_vars => BookInv'
  BY BookStep
<1>3. BookInv => BookedOnce
  BY DEF BookInv
<1>4. QED
  BY TypeCorrect, <1>1, <1>2, <1>3, PTL DEF Spec

\* What a step does to what is owed and booked.
LEMMA BillOwn ==
    ASSUME TypeOK, NEW w \in Workers, Acts(w)
    PROVE  /\ receivables > 0 => receivables' > 0
           /\ "ended" \in causes => "ended" \in causes'
           /\ "receivable" \in owed' => "receivable" \in owed \/ pc'[w] = "billing"
           /\ pc[w] \in {"billing", "booking"} =>
                \/ pc'[w] \in {"billing", "booking"}
                \/ receivables' > 0
                \/ "ended" \in causes'
<1> USE DEF TypeOK, Done, Goto, Begin, ghosts, catalogue, books
<1> DEFINE Mine ==
      /\ receivables > 0 => receivables' > 0
      /\ "ended" \in causes => "ended" \in causes'
      /\ "receivable" \in owed' => "receivable" \in owed \/ pc'[w] = "billing"
      /\ pc[w] \in {"billing", "booking"} =>
           \/ pc'[w] \in {"billing", "booking"}
           \/ receivables' > 0
           \/ "ended" \in causes'
<1>1. ASSUME NEW p \in Patches, ReadDeal(w, p)
      PROVE  Mine
  BY <1>1 DEF ReadDeal
<1>2. ASSUME NEW p \in Patches, WriteDeal(w, p)
      PROVE  Mine
  <2> DEFINE row == [stage  |-> Given(p.stage, deal.stage),
                     status |-> Given(p.status, deal.status),
                     valued |-> Given(p.valued, deal.valued)]
  <2>1. /\ UNCHANGED <<receivables, causes>>
        /\ pc[w] \in {"idle", "writing"}
        /\ pc'[w] = Follow(p, row)
    BY <1>2 DEF WriteDeal, Proceed
  <2>2. "receivable" \in owed' =>
          "receivable" \in owed \/ (p.status = "WON" /\ row.valued)
    BY <1>2 DEF WriteDeal
  <2>3. p.status = "WON" /\ row.valued => Follow(p, row) = "billing"
    BY DEF Follow
  <2>4. QED
    BY <2>1, <2>2, <2>3
<1>3. CASE CheckMove(w)
  BY <1>3 DEF CheckMove
<1>4. CASE FindReceivable(w)
  BY <1>4 DEF FindReceivable
<1>5. CASE Book(w)
  BY <1>5 DEF Book
<1>6. CASE FindChecklist(w) \/ PickTemplate(w) \/ CreateChecklist(w) \/ ReadItems(w)
             \/ FillChecklist(w)
  BY <1>6 DEF FindChecklist, PickTemplate, CreateChecklist, ReadItems, FillChecklist
<1>7. CASE Administer(w)
  BY <1>7 DEF Administer, ClearRules, InsertRules, DeletePipeline, ClearItems,
     InsertItems, DeleteTemplate
<1>8. CASE Fail(w)
  BY <1>8 DEF Fail
<1>9. QED
  BY <1>1, <1>2, <1>3, <1>4, <1>5, <1>6, <1>7, <1>8 DEF Acts, Update

LEMMA BillStep ==
    ASSUME TypeOK, WonIsBooked, [Next]_vars
    PROVE  WonIsBooked'
<1>1. CASE UNCHANGED vars
  BY <1>1 DEF vars, ghosts, books, WonIsBooked
<1>2. ASSUME NEW w \in Workers, Acts(w)
      PROVE  WonIsBooked'
  <2> SUFFICES ASSUME "receivable" \in owed', "ended" \notin causes'
               PROVE  \/ receivables' > 0
                      \/ \E k \in Workers : pc'[k] \in {"billing", "booking"}
    BY DEF WonIsBooked
  <2>1. CASE pc'[w] = "billing" \/ receivables > 0
    BY <1>2, <2>1, BillOwn
  <2>2. CASE pc'[w] # "billing" /\ ~(receivables > 0)
    <3>1. PICK k \in Workers : pc[k] \in {"billing", "booking"}
      BY <1>2, <2>2, BillOwn DEF WonIsBooked
    <3>2. CASE k = w
      BY <1>2, <3>1, <3>2, BillOwn
    <3>3. CASE k # w
      BY <1>2, <3>1, <3>3, OthersKeep
    <3>4. QED
      BY <3>2, <3>3
  <2>3. QED
    BY <2>1, <2>2
<1>3. QED
  BY <1>1, <1>2, StepActs

\* A deal with a value that an update won has its commission, or is about to
\* have it, unless an update ended half-way.
THEOREM WonIsBookedHolds == Spec => []WonIsBooked
<1>1. Init => WonIsBooked
  BY DEF Init, WonIsBooked
<1>2. TypeOK /\ WonIsBooked /\ [Next]_vars => WonIsBooked'
  BY BillStep
<1>3. QED
  BY TypeCorrect, <1>1, <1>2, PTL DEF Spec

\* A deal that was won owes one commission, whichever way its updates interleave.
THEOREM CommissionIsRight == Spec => []CommissionRight
  BY WonIsBookedHolds, BookedOnceHolds, PTL DEF CommissionRight

-------------------------------------------------------------------------------
(* The file of an agreed deal                                              *)

Excused == causes \cap {"ended", "blank"} # {}

\* A file without items has a worker that is about to bring them.
FileInv ==
    /\ AgreedDealHasFile
    /\ ~Excused /\ checklist = "bare" =>
         \E w \in Workers : pc[w] \in {"copying", "filling"}

\* What a step does to the file.
LEMMA FileOwn ==
    ASSUME TypeOK, NEW w \in Workers, Acts(w)
    PROVE  /\ Excused => Excused'
           /\ \/ checklist' = checklist
              \/ checklist' = "bare" /\ pc'[w] = "copying"
              \/ checklist' = "full"
           /\ "file" \in owed' => "file" \in owed \/ Ahead(w)'
           /\ Ahead(w) => Ahead(w)' \/ checklist' # "none" \/ Excused'
           /\ pc[w] \in {"copying", "filling"} =>
                pc'[w] = "filling" \/ checklist' = "full" \/ Excused'
<1> USE DEF TypeOK, Done, Goto, Begin, ghosts, catalogue, books, Excused, Ahead
<1> DEFINE Mine ==
      /\ Excused => Excused'
      /\ \/ checklist' = checklist
         \/ checklist' = "bare" /\ pc'[w] = "copying"
         \/ checklist' = "full"
      /\ "file" \in owed' => "file" \in owed \/ Ahead(w)'
      /\ Ahead(w) => Ahead(w)' \/ checklist' # "none" \/ Excused'
      /\ pc[w] \in {"copying", "filling"} =>
           pc'[w] = "filling" \/ checklist' = "full" \/ Excused'
<1>1. ASSUME NEW p \in Patches, ReadDeal(w, p)
      PROVE  Mine
  BY <1>1 DEF ReadDeal
<1>2. ASSUME NEW p \in Patches, WriteDeal(w, p)
      PROVE  Mine
  <2> DEFINE row == [stage  |-> Given(p.stage, deal.stage),
                     status |-> Given(p.status, deal.status),
                     valued |-> Given(p.valued, deal.valued)]
  <2>1. /\ UNCHANGED <<checklist, causes>>
        /\ pc[w] \in {"idle", "writing"}
        /\ pc'[w] = Follow(p, row)
        /\ Follow(p, row) # "idle" => patch'[w] = p
    BY <1>2 DEF WriteDeal, Proceed
  <2>2. "file" \in owed' => "file" \in owed \/ p.stage \in Agreement
    BY <1>2 DEF WriteDeal
  <2>3. p.stage \in Agreement => Follow(p, row) \in {"billing", "listing"}
    BY DEF Follow, File
  <2>4. p.stage \in Agreement => Ahead(w)'
    BY <2>1, <2>3
  <2>5. QED
    BY <2>1, <2>2, <2>4
<1>3. CASE CheckMove(w)
  BY <1>3 DEF CheckMove
<1>4. CASE FindReceivable(w)
  BY <1>4 DEF FindReceivable, Proceed, File, local
<1>5. CASE Book(w)
  BY <1>5 DEF Book, Proceed, File
<1>6. CASE FindChecklist(w)
  BY <1>6 DEF FindChecklist
<1>7. CASE PickTemplate(w)
  BY <1>7 DEF PickTemplate
<1>8. CASE CreateChecklist(w)
  BY <1>8 DEF CreateChecklist
<1>9. CASE ReadItems(w) \/ FillChecklist(w)
  BY <1>9 DEF ReadItems, FillChecklist
<1>10. CASE Administer(w)
  BY <1>10 DEF Administer, ClearRules, InsertRules, DeletePipeline, ClearItems,
     InsertItems, DeleteTemplate, local
<1>11. CASE Fail(w)
  BY <1>11 DEF Fail
<1>12. QED
  BY <1>1, <1>2, <1>3, <1>4, <1>5, <1>6, <1>7, <1>8, <1>9, <1>10, <1>11
     DEF Acts, Update

LEMMA FileStep ==
    ASSUME TypeOK, FileInv, [Next]_vars
    PROVE  FileInv'
<1>1. CASE UNCHANGED vars
  BY <1>1 DEF vars, ghosts, books, local, FileInv, AgreedDealHasFile, Excused, Ahead
<1>2. ASSUME NEW w \in Workers, Acts(w)
      PROVE  FileInv'
  <2> SUFFICES ASSUME ~Excused'
               PROVE  /\ checklist' = "bare" =>
                           \E k \in Workers : pc'[k] \in {"copying", "filling"}
                      /\ "file" \in owed' /\ checklist' = "none" =>
                           \E k \in Workers : Ahead(k)'
    <3>1. checklist' \in {"none", "bare", "full"}
      BY <1>2, FileOwn DEF TypeOK
    <3>2. QED
      BY <3>1 DEF FileInv, AgreedDealHasFile, Excused
  <2>1. ~Excused
    BY <1>2, FileOwn
  <2>2. ASSUME checklist' = "bare"
        PROVE  \E k \in Workers : pc'[k] \in {"copying", "filling"}
    <3>1. CASE checklist # "bare"
      BY <1>2, <2>2, <3>1, FileOwn
    <3>2. CASE checklist = "bare"
      <4>1. PICK k \in Workers : pc[k] \in {"copying", "filling"}
        BY <2>1, <3>2 DEF FileInv
      <4>2. CASE k = w
        BY <1>2, <2>2, <4>1, <4>2, FileOwn
      <4>3. CASE k # w
        BY <1>2, <4>1, <4>3, OthersKeep
      <4>4. QED
        BY <4>2, <4>3
    <3>3. QED
      BY <3>1, <3>2
  <2>3. ASSUME "file" \in owed', checklist' = "none"
        PROVE  \E k \in Workers : Ahead(k)'
    <3>1. checklist = "none"
      BY <1>2, <2>3, FileOwn
    <3>2. CASE "file" \notin owed
      BY <1>2, <2>3, <3>2, FileOwn
    <3>3. CASE "file" \in owed
      <4>1. PICK k \in Workers : Ahead(k)
        BY <2>1, <3>1, <3>3 DEF FileInv, AgreedDealHasFile, Excused
      <4>2. CASE k = w
        BY <1>2, <2>3, <4>1, <4>2, FileOwn
      <4>3. CASE k # w
        BY <1>2, <4>1, <4>3, OthersKeep DEF Ahead
      <4>4. QED
        BY <4>2, <4>3
    <3>4. QED
      BY <3>2, <3>3
  <2>4. QED
    BY <2>2, <2>3
<1>3. QED
  BY <1>1, <1>2, StepActs

\* An agreed deal has its file with its items, or is about to, unless an update
\* ended half-way or found nothing to copy.
THEOREM AgreedDealHasFileHolds == Spec => []AgreedDealHasFile
<1>1. Init => FileInv
  BY DEF Init, FileInv, AgreedDealHasFile
<1>2. TypeOK /\ FileInv /\ [Next]_vars => FileInv'
  BY FileStep
<1>3. FileInv => AgreedDealHasFile
  BY DEF FileInv
<1>4. QED
  BY TypeCorrect, <1>1, <1>2, <1>3, PTL DEF Spec

===============================================================================
