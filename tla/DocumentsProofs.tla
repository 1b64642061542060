---------------------------- MODULE DocumentsProofs ----------------------------
(***************************************************************************)
(* Proofs about Documents: types, versions whose objects are there, the    *)
(* newest version that is the current one, and uploads that leave no       *)
(* orphans, for any contents, numbers and workers.                         *)
(***************************************************************************)
EXTENDS Documents, TLAPS

USE ConstantsAssumption

\* The types of what one call keeps, of rows and objects, and of the rest.
CallType ==
    /\ pc \in [Workers -> States]
    /\ content \in [Workers -> Contents \cup {None}]
    /\ picture \in [Workers -> BOOLEAN]
    /\ number \in [Workers -> 0..MaxVersions]
    /\ asked \in [Workers -> BOOLEAN]
    /\ met \in [Workers -> BOOLEAN]
    /\ passed \in [Workers -> BOOLEAN]

\* What a call that is at work has.
HasWork(w) ==
    /\ asked[w] => pc[w] = "pointing"
    /\ pc[w] # "idle" /\ ~asked[w] => content[w] \in Contents
    /\ pc[w] \notin {"idle", "matching", "numbering"} => number[w] \in Numbers
    /\ pc[w] = "shooting" => picture[w]

WorkType == \A w \in Workers : HasWork(w)

TableType ==
    /\ document \in BOOLEAN
    /\ current \in 0..MaxVersions
    /\ versions \in [Numbers -> Contents \cup {None}]
    /\ pictured \subseteq Numbers
    /\ blobs \subseteq Contents
    /\ shots \in [Numbers -> Contents \cup {None}]

RestType ==
    /\ spoiled \subseteq Numbers
    /\ aside \subseteq {"chosen", "overtaken", "ended"}
    /\ causes \subseteq {"ended"}
    /\ calls \in 0..MaxCalls
    /\ failures \in 0..MaxFailures

Typed == CallType /\ WorkType /\ TableType /\ RestType

LEMMA TypeSplit == Typed => TypeOK
BY DEF TypeOK, Typed, CallType, WorkType, HasWork, TableType, RestType

-------------------------------------------------------------------------------
(* A step is one of one worker, and leaves the calls of the others alone,  *)
(* but for telling them that they met it or that it passed them.           *)

Acts(w) == Start(w) \/ Upload(w) \/ Fail(w)

LEMMA StepActs ==
    ASSUME Next
    PROVE  \E w \in Workers : Acts(w)
BY DEF Next, Acts

\* What begins is a document, a version or a choice.
LEMMA StartKinds ==
    ASSUME NEW w \in Workers, Start(w)
    PROVE  \/ \E c \in Contents, p \in BOOLEAN : Create(w, c, p) \/ AddVersion(w, c, p)
           \/ \E n \in Numbers : MakeCurrent(w, n)
<1>1. ASSUME NEW c \in Contents, RestoreOriginal(w, c)
      PROVE  AddVersion(w, c, FALSE)
  BY <1>1 DEF RestoreOriginal
<1>2. QED
  BY <1>1 DEF Start

LEMMA OthersKeep ==
    ASSUME CallType, NEW w \in Workers, Acts(w), NEW k \in Workers, k # w
    PROVE  /\ pc'[k] = pc[k] /\ content'[k] = content[k] /\ picture'[k] = picture[k]
           /\ number'[k] = number[k] /\ asked'[k] = asked[k]
           /\ met[k] => met'[k]
           /\ passed[k] => passed'[k]
<1> DEFINE Kept ==
      /\ pc'[k] = pc[k] /\ content'[k] = content[k] /\ picture'[k] = picture[k]
      /\ number'[k] = number[k] /\ asked'[k] = asked[k]
      /\ met[k] => met'[k]
      /\ passed[k] => passed'[k]
<1> USE DEF CallType, local, ghosts, Goto, Done
<1>1. CASE Start(w)
  <2>1. ASSUME NEW c \in Contents, NEW p \in BOOLEAN, Create(w, c, p) \/ AddVersion(w, c, p)
        PROVE  Kept
    BY <2>1 DEF Create, AddVersion
  <2>2. ASSUME NEW n \in Numbers, MakeCurrent(w, n)
        PROVE  Kept
    BY <2>2 DEF MakeCurrent
  <2>3. QED
    BY <1>1, <2>1, <2>2, StartKinds
<1>2. CASE Upload(w)
  <2>1. CASE FindSame(w)
    BY <2>1 DEF FindSame, Meet
  <2>2. CASE ReadLast(w)
    BY <2>2 DEF ReadLast, Meet
  <2>3. CASE UploadContent(w) \/ UploadShots(w) \/ InsertDocument(w)
    BY <2>3 DEF UploadContent, UploadShots, InsertDocument
  <2>4. CASE InsertVersion(w)
    BY <2>4 DEF InsertVersion, Store
  <2>5. CASE PointCurrent(w) \/ CleanUp(w)
    BY <2>5 DEF PointCurrent, CleanUp
  <2>6. QED
    BY <1>2, <2>1, <2>2, <2>3, <2>4, <2>5 DEF Upload
<1>3. CASE Fail(w)
  <2>1. CASE RaiseEarly(w) \/ Stop(w)
    BY <2>1 DEF RaiseEarly, Stop
  <2>2. CASE RaiseShooting(w)
    BY <2>2 DEF RaiseShooting
  <2>3. CASE RaiseInserting(w)
    BY <2>3 DEF RaiseInserting, Store
  <2>4. CASE RaisePointing(w)
    BY <2>4 DEF RaisePointing
  <2>5. QED
    BY <1>3, <2>1, <2>2, <2>3, <2>4 DEF Fail
<1>4. QED
  BY <1>1, <1>2, <1>3 DEF Acts

-------------------------------------------------------------------------------
(* Types                                                                   *)

LEMMA TypeInit ==
    ASSUME Init
    PROVE  Typed
<1>1. CallType /\ WorkType
  BY DEF Init, CallType, WorkType, HasWork, States
<1>2. TableType
  <2>1. document \in BOOLEAN
    BY Zenon DEF Init
  <2>2. current \in 0..MaxVersions
    BY DEF Init
  <2>3. /\ versions \in [Numbers -> Contents \cup {None}]
        /\ shots \in [Numbers -> Contents \cup {None}]
        /\ pictured = {} /\ blobs = {}
    BY DEF Init
  <2>4. QED
    BY <2>1, <2>2, <2>3 DEF TableType
<1>3. RestType
  BY DEF Init, RestType
<1>4. QED
  BY <1>1, <1>2, <1>3 DEF Typed

LEMMA DoneType ==
    ASSUME CallType, NEW w \in Workers, Done(w)
    PROVE  CallType' /\ HasWork(w)'
BY DEF CallType, HasWork, Done, Goto, States

\* The next number is a number.
LEMMA NextNumber ==
    ASSUME NEW n \in 0..MaxVersions, n < MaxVersions
    PROVE  n + 1 \in Numbers
BY DEF Numbers

LEMMA NumberRange ==
    ASSUME NEW n \in Numbers
    PROVE  n \in 0..MaxVersions
BY DEF Numbers

LEMMA CallStep ==
    ASSUME Typed, NEW w \in Workers, Acts(w)
    PROVE  CallType' /\ HasWork(w)'
<1> USE DEF Typed, WorkType
<1>1. CASE Start(w)
  <2>1. ASSUME NEW c \in Contents, NEW p \in BOOLEAN, Create(w, c, p) \/ AddVersion(w, c, p)
        PROVE  CallType' /\ HasWork(w)'
    <3>1. HasWork(w) /\ pc[w] = "idle"
      BY <2>1 DEF Create, AddVersion, Begin
    <3>2. 1 \in Numbers /\ 1 \in 0..MaxVersions
      BY DEF Numbers
    <3>3. CallType'
      BY <2>1, <3>2 DEF Create, AddVersion, CallType, Goto, States, ghosts
    <3>4. /\ pc'[w] \in {"uploading", "matching"} /\ content'[w] = c
          /\ pc'[w] = "uploading" => number'[w] = 1
          /\ asked'[w] = asked[w]
      BY <2>1 DEF Create, AddVersion, CallType, Goto
    <3>5. QED
      BY <3>1, <3>2, <3>3, <3>4 DEF HasWork
  <2>2. ASSUME NEW n \in Numbers, MakeCurrent(w, n)
        PROVE  CallType' /\ HasWork(w)'
    <3>1. n \in 0..MaxVersions
      BY NumberRange
    <3>2. CallType'
      BY <2>2, <3>1 DEF MakeCurrent, CallType, Goto, States, ghosts
    <3>3. pc'[w] = "pointing" /\ number'[w] = n /\ asked'[w]
      BY <2>2 DEF MakeCurrent, CallType, Goto
    <3>4. QED
      BY <3>2, <3>3 DEF HasWork
  <2>3. QED
    BY <1>1, <2>1, <2>2, StartKinds
<1>2. CASE FindSame(w)
  <2>1. HasWork(w) /\ pc[w] = "matching"
    BY <1>2 DEF FindSame
  <2>2. met' \in [Workers -> BOOLEAN]
    BY <1>2 DEF FindSame, CallType, Meet
  <2>3. CASE Goto(w, "numbering") /\ UNCHANGED <<number, asked>>
    BY <1>2, <2>1, <2>2, <2>3 DEF FindSame, CallType, HasWork, Goto, States
  <2>4. ASSUME NEW n \in Numbers, Goto(w, "pointing"),
               number' = [number EXCEPT ![w] = n], asked' = [asked EXCEPT ![w] = TRUE]
        PROVE  CallType' /\ HasWork(w)'
    BY <1>2, <2>2, <2>4, NumberRange DEF FindSame, CallType, HasWork, Goto, States
  <2>5. QED
    BY <1>2, <2>3, <2>4 DEF FindSame
<1>3. CASE ReadLast(w)
  <2>1. PICK n \in 0..MaxVersions : n < MaxVersions /\ number' = [number EXCEPT ![w] = n + 1]
    BY <1>3 DEF ReadLast
  <2>2. n + 1 \in Numbers /\ n + 1 \in 0..MaxVersions
    BY <2>1, NextNumber, NumberRange
  <2>3. met' \in [Workers -> BOOLEAN]
    BY <1>3 DEF ReadLast, CallType, Meet
  <2>4. HasWork(w) /\ pc[w] = "numbering"
    BY <1>3 DEF ReadLast
  <2>5. QED
    BY <1>3, <2>1, <2>2, <2>3, <2>4 DEF ReadLast, CallType, HasWork, Goto, States
<1>4. CASE UploadContent(w) \/ UploadShots(w) \/ InsertDocument(w)
  <2>1. HasWork(w) /\ pc[w] \in {"uploading", "shooting", "registering"}
    BY <1>4 DEF UploadContent, UploadShots, InsertDocument
  <2>2. UNCHANGED local /\ UNCHANGED ghosts
    BY <1>4 DEF UploadContent, UploadShots, InsertDocument
  <2>3. \E to \in {"shooting", "inserting", "registering"} :
          Goto(w, to) /\ (to = "shooting" => picture[w])
    BY <1>4 DEF UploadContent, UploadShots, InsertDocument
  <2>4. QED
    BY <2>1, <2>2, <2>3 DEF local, ghosts, CallType, HasWork, Goto, States
<1>5. CASE InsertVersion(w)
  <2>1. HasWork(w) /\ pc[w] = "inserting"
    BY <1>5 DEF InsertVersion
  <2>2. passed' \in [Workers -> BOOLEAN]
    BY <1>5 DEF InsertVersion, Store, CallType
  <2>3. \E to \in {"pointing", "cleaning"} : Goto(w, to)
    BY <1>5 DEF InsertVersion
  <2>4. QED
    BY <1>5, <2>1, <2>2, <2>3 DEF InsertVersion, local, CallType, HasWork, Goto, States
<1>6. CASE PointCurrent(w) \/ CleanUp(w) \/ RaiseEarly(w) \/ Stop(w)
  BY <1>6, DoneType DEF PointCurrent, CleanUp, RaiseEarly, Stop
<1>7. CASE RaiseShooting(w)
  <2>1. HasWork(w) /\ pc[w] = "shooting"
    BY <1>7 DEF RaiseShooting
  <2>2. picture' \in [Workers -> BOOLEAN]
    BY <1>7 DEF RaiseShooting, CallType
  <2>3. QED
    BY <1>7, <2>1, <2>2 DEF RaiseShooting, CallType, HasWork, Goto, States
<1>8. CASE RaiseInserting(w)
  <2>1. HasWork(w) /\ pc[w] \in {"registering", "inserting"}
    BY <1>8 DEF RaiseInserting
  <2>2. passed' \in [Workers -> BOOLEAN]
    BY <1>8 DEF RaiseInserting, Store, CallType
  <2>3. QED
    BY <1>8, <2>1, <2>2 DEF RaiseInserting, local, CallType, HasWork, Goto, States
<1>9. CASE RaisePointing(w)
  <2>1. HasWork(w) /\ pc[w] = "pointing"
    BY <1>9 DEF RaisePointing
  <2>2. CASE Done(w)
    BY <2>2, DoneType
  <2>3. CASE ~asked[w] /\ Goto(w, "cleaning") /\ UNCHANGED <<local, met, passed>>
    BY <2>1, <2>3 DEF local, CallType, HasWork, Goto, States
  <2>4. QED
    BY <1>9, <2>2, <2>3 DEF RaisePointing
<1>10. QED
  BY <1>1, <1>2, <1>3, <1>4, <1>5, <1>6, <1>7, <1>8, <1>9 DEF Acts, Upload, Fail

LEMMA TableStep ==
    ASSUME Typed, NEW w \in Workers, Acts(w)
    PROVE  TableType'
<1> USE DEF Typed, TableType, rows, objects
<1>1. ASSUME UNCHANGED rows, UNCHANGED objects
      PROVE  TableType'
  BY <1>1
<1>2. HasWork(w)
  BY DEF WorkType
<1>3. content[w] \in Contents \cup {None} /\ number[w] \in 0..MaxVersions
  BY DEF CallType
<1>4. ASSUME shots' \in {shots, [shots EXCEPT ![number[w]] = content[w]]}
      PROVE  shots' \in [Numbers -> Contents \cup {None}]
  BY <1>3, <1>4
<1>5. shots \in [Numbers -> Contents \cup {None}] =>
        ShotsLeft(w) \in [Numbers -> Contents \cup {None}]
  BY DEF ShotsLeft
<1>6. ASSUME Store(w), number[w] \in Numbers
      PROVE  versions' \in [Numbers -> Contents \cup {None}] /\ pictured' \subseteq Numbers
  BY <1>3, <1>6 DEF Store
<1>7. CASE Start(w)
  BY <1>1, <1>7, StartKinds DEF Create, AddVersion, MakeCurrent
<1>8. CASE FindSame(w) \/ ReadLast(w)
  BY <1>1, <1>8 DEF FindSame, ReadLast
<1>9. CASE UploadContent(w) \/ RaiseEarly(w)
  <2>1. UNCHANGED rows /\ UNCHANGED shots
    BY <1>9 DEF UploadContent, RaiseEarly
  <2>2. blobs' = blobs \/ blobs' = blobs \cup {content[w]}
    BY <1>9 DEF UploadContent, RaiseEarly
  <2>3. content[w] \in Contents
    BY <1>2, <1>9 DEF HasWork, UploadContent, RaiseEarly
  <2>4. QED
    BY <2>1, <2>2, <2>3
<1>10. CASE UploadShots(w) \/ RaiseShooting(w)
  BY <1>4, <1>10 DEF UploadShots, RaiseShooting
<1>11. CASE InsertDocument(w)
  BY <1>11 DEF InsertDocument
<1>12. CASE InsertVersion(w) \/ RaiseInserting(w)
  <2>1. UNCHANGED <<current, objects>> /\ document' \in BOOLEAN
    BY <1>12 DEF InsertVersion, RaiseInserting
  <2>2. number[w] \in Numbers
    BY <1>2, <1>12 DEF HasWork, InsertVersion, RaiseInserting
  <2>3. Store(w) \/ UNCHANGED <<versions, pictured>>
    BY <1>12 DEF InsertVersion, RaiseInserting
  <2>4. QED
    BY <1>6, <2>1, <2>2, <2>3
<1>13. CASE PointCurrent(w) \/ RaisePointing(w)
  BY <1>3, <1>13 DEF PointCurrent, RaisePointing, Pointed
<1>14. CASE CleanUp(w) \/ Stop(w)
  <2>1. UNCHANGED rows
    BY <1>14 DEF CleanUp, Stop
  <2>2. blobs' \subseteq blobs /\ shots' \in {shots, ShotsLeft(w)}
    BY <1>14 DEF CleanUp, Stop
  <2>3. QED
    BY <1>5, <2>1, <2>2
<1>15. QED
  BY <1>7, <1>8, <1>9, <1>10, <1>11, <1>12, <1>13, <1>14 DEF Acts, Upload, Fail

LEMMA RestStep ==
    ASSUME Typed, NEW w \in Workers, Acts(w)
    PROVE  RestType'
<1> USE DEF Typed, RestType, ghosts
<1>1. CASE Start(w)
  <2>1. UNCHANGED <<ghosts, failures>> /\ Begin(w)
    BY <1>1, StartKinds DEF Create, AddVersion, MakeCurrent
  <2>2. calls' \in 0..MaxCalls
    BY <2>1 DEF Begin
  <2>3. QED
    BY <2>1, <2>2
<1>2. CASE FindSame(w) \/ ReadLast(w) \/ UploadContent(w) \/ UploadShots(w)
             \/ InsertDocument(w) \/ PointCurrent(w) \/ CleanUp(w)
  <2>1. UNCHANGED <<spoiled, causes, calls, failures>>
    BY <1>2 DEF FindSame, ReadLast, UploadContent, UploadShots, InsertDocument,
       PointCurrent, CleanUp
  <2>2. aside' \in {aside, {}, {"chosen"}, {"overtaken"}}
    BY <1>2 DEF FindSame, ReadLast, UploadContent, UploadShots, InsertDocument,
       PointCurrent, CleanUp
  <2>3. QED
    BY <2>1, <2>2
<1>3. HasWork(w)
  BY DEF WorkType
<1>4. CASE InsertVersion(w)
  BY <1>3, <1>4 DEF InsertVersion, HasWork
<1>5. CASE RaiseEarly(w) \/ RaiseShooting(w) \/ Stop(w)
  <2>1. UNCHANGED <<spoiled, calls>> /\ causes' \in {causes, {"ended"}}
    BY <1>5 DEF RaiseEarly, RaiseShooting, Stop
  <2>2. aside' \in {aside, aside \cup {"ended"}}
    BY <1>5 DEF RaiseEarly, RaiseShooting, Stop
  <2>3. failures' \in 0..MaxFailures
    BY <1>5 DEF RaiseEarly, RaiseShooting, Stop, Failing
  <2>4. QED
    BY <2>1, <2>2, <2>3
<1>6. CASE RaiseInserting(w)
  <2>1. UNCHANGED <<causes, calls>>
        /\ spoiled' \in {spoiled, spoiled \cup {number[w]}}
        /\ aside' \in {aside, aside \cup {"ended"}}
    BY <1>6 DEF RaiseInserting
  <2>2. number[w] \in Numbers
    BY <1>3, <1>6 DEF RaiseInserting, HasWork
  <2>3. failures' \in 0..MaxFailures
    BY <1>6 DEF RaiseInserting, Failing
  <2>4. QED
    BY <2>1, <2>2, <2>3
<1>7. CASE RaisePointing(w)
  <2>1. UNCHANGED <<causes, calls>>
        /\ spoiled' \in {spoiled, spoiled \cup {number[w]}}
        /\ aside' \in {aside, {"chosen"}, aside \cup {"ended"}}
    BY <1>7 DEF RaisePointing
  <2>2. number[w] \in Numbers
    BY <1>3, <1>7 DEF RaisePointing, HasWork
  <2>3. failures' \in 0..MaxFailures
    BY <1>7 DEF RaisePointing, Failing
  <2>4. QED
    BY <2>1, <2>2, <2>3
<1>8. QED
  BY <1>1, <1>2, <1>4, <1>5, <1>6, <1>7 DEF Acts, Upload, Fail

LEMMA TypeStep ==
    ASSUME Typed, [Next]_vars
    PROVE  Typed'
<1>1. CASE Next
  <2>1. PICK w \in Workers : Acts(w)
    BY <1>1, StepActs
  <2>2. CallType' /\ HasWork(w)' /\ TableType' /\ RestType'
    BY <2>1, CallStep, TableStep, RestStep
  <2>3. ASSUME NEW k \in Workers, k # w
        PROVE  HasWork(k)'
    <3>1. HasWork(k)
      BY DEF Typed, WorkType
    <3>2. /\ pc'[k] = pc[k] /\ content'[k] = content[k]
          /\ number'[k] = number[k] /\ asked'[k] = asked[k]
          /\ picture'[k] = picture[k]
      BY <2>1, <2>3, OthersKeep DEF Typed
    <3>3. QED
      BY <3>1, <3>2 DEF HasWork
  <2>4. QED
    BY <2>2, <2>3 DEF Typed, WorkType
<1>2. CASE UNCHANGED vars
  BY <1>2 DEF vars, rows, objects, local, ghosts, Typed, CallType, WorkType, HasWork,
     TableType, RestType
<1>3. QED
  BY <1>1, <1>2

\* Every variable keeps its type, whatever the contents and the workers.
THEOREM TypeCorrect == Spec => []TypeOK
<1>1. Init => Typed
  BY TypeInit
<1>2. Typed /\ [Next]_vars => Typed'
  BY TypeStep
<1>3. Typed => TypeOK
  BY TypeSplit
<1>4. QED
  BY <1>1, <1>2, <1>3, PTL DEF Spec

\* The types, and what a call at work has, for the proofs that follow.
THEOREM TypedHolds == Spec => []Typed
<1>1. Init => Typed
  BY TypeInit
<1>2. Typed /\ [Next]_vars => Typed'
  BY TypeStep
<1>3. QED
  BY <1>1, <1>2, PTL DEF Spec

-------------------------------------------------------------------------------
(* Versions are whole                                                      *)

\* w has a number for the version it stores.
Numbered(w) == Storing(w) /\ pc[w] # "numbering"

\* The row of n is the one w is about to make current.
Own(w, n) == pc[w] = "pointing" /\ n = number[w]

\* Two uploads at work on one content, or on one number, know of each other.
Aware ==
    /\ \A w, k \in Workers :
         w # k /\ Storing(w) /\ Storing(k) /\ content[w] = content[k] => met[w]
    /\ \A w, k \in Workers :
         w # k /\ Numbered(w) /\ Numbered(k) /\ number[w] = number[k] => met[w]

\* The row an upload would overwrite the objects of is its own, or is spoiled.
RowApart(w) ==
    /\ \A n \in Numbers :
         Storing(w) /\ versions[n] = content[w] => n \in spoiled \/ Own(w, n)
    /\ Numbered(w) /\ Row(number[w]) => number[w] \in spoiled \/ Own(w, number[w])

\* What an upload has put in storage is there until its row is in, unless it
\* met another.
Uploaded(w) ==
    ~met[w] =>
      /\ pc[w] \in {"shooting", "registering", "inserting"} => content[w] \in blobs
      /\ pc[w] \in {"registering", "inserting"} /\ picture[w] =>
           shots[number[w]] = content[w]

\* Before the first call there is nothing.
Fresh ==
    calls = 0 => /\ \A w \in Workers : pc[w] = "idle"
                 /\ \A n \in Numbers : ~Row(n)

WholeInv ==
    /\ Fresh
    /\ Aware
    /\ \A w \in Workers : RowApart(w) /\ Uploaded(w)
    /\ \A n \in pictured : Row(n)
    /\ VersionsWhole

\* A worker that stores after a step did so before it, but for the three steps
\* with which storing begins.
LEMMA StoringBegins ==
    ASSUME Typed, NEW w \in Workers, Acts(w), Storing(w)'
    PROVE  \/ Storing(w) /\ content'[w] = content[w] /\ asked'[w] = asked[w]
           \/ FindSame(w) /\ pc'[w] = "numbering"
           \/ \E c \in Contents, p \in BOOLEAN : Create(w, c, p)
<1> USE DEF Storing, Typed, CallType, Goto, Done, local
<1>1. CASE Start(w)
  <2>1. ASSUME NEW c \in Contents, NEW p \in BOOLEAN, AddVersion(w, c, p)
        PROVE  FALSE
    BY <2>1 DEF AddVersion
  <2>2. ASSUME NEW n \in Numbers, MakeCurrent(w, n)
        PROVE  FALSE
    BY <2>2 DEF MakeCurrent
  <2>3. QED
    BY <1>1, <2>1, <2>2, StartKinds
<1>2. CASE FindSame(w)
  BY <1>2 DEF FindSame
<1>3. CASE ReadLast(w) \/ UploadContent(w) \/ UploadShots(w) \/ InsertDocument(w)
  BY <1>3 DEF ReadLast, UploadContent, UploadShots, InsertDocument
<1>4. CASE InsertVersion(w) \/ RaiseShooting(w) \/ RaiseInserting(w)
  BY <1>4 DEF InsertVersion, RaiseShooting, RaiseInserting
<1>5. CASE PointCurrent(w) \/ CleanUp(w) \/ RaiseEarly(w) \/ Stop(w)
  BY <1>5 DEF PointCurrent, CleanUp, RaiseEarly, Stop
<1>6. CASE RaisePointing(w)
  BY <1>6 DEF RaisePointing
<1>7. QED
  BY <1>1, <1>2, <1>3, <1>4, <1>5, <1>6 DEF Acts, Upload, Fail

\* The same of having a number.
LEMMA NumberBegins ==
    ASSUME Typed, NEW w \in Workers, Acts(w), Numbered(w)'
    PROVE  \/ Numbered(w) /\ number'[w] = number[w]
           \/ ReadLast(w)
           \/ \E c \in Contents, p \in BOOLEAN : Create(w, c, p)
<1> USE DEF Numbered, Storing, Typed, CallType, Goto, Done, local
<1>1. CASE Start(w)
  <2>1. ASSUME NEW c \in Contents, NEW p \in BOOLEAN, AddVersion(w, c, p)
        PROVE  FALSE
    BY <2>1 DEF AddVersion
  <2>2. ASSUME NEW n \in Numbers, MakeCurrent(w, n)
        PROVE  FALSE
    BY <2>2 DEF MakeCurrent
  <2>3. QED
    BY <1>1, <2>1, <2>2, StartKinds
<1>2. CASE FindSame(w)
  BY <1>2 DEF FindSame
<1>3. CASE UploadContent(w) \/ UploadShots(w) \/ InsertDocument(w)
  BY <1>3 DEF UploadContent, UploadShots, InsertDocument
<1>4. CASE InsertVersion(w) \/ RaiseShooting(w) \/ RaiseInserting(w)
  BY <1>4 DEF InsertVersion, RaiseShooting, RaiseInserting
<1>5. CASE PointCurrent(w) \/ CleanUp(w) \/ RaiseEarly(w) \/ Stop(w)
  BY <1>5 DEF PointCurrent, CleanUp, RaiseEarly, Stop
<1>6. CASE RaisePointing(w)
  BY <1>6 DEF RaisePointing
<1>7. QED
  BY <1>1, <1>2, <1>3, <1>4, <1>5, <1>6 DEF Acts, Upload, Fail

\* A worker that stores goes on knowing what it knows.
LEMMA MetStays ==
    ASSUME Typed, NEW w \in Workers, Acts(w), Storing(w), Storing(w)', met[w]
    PROVE  met'[w]
<1> USE DEF Storing, Typed, CallType, Goto, Done, local, ghosts
<1>1. CASE Start(w) \/ FindSame(w)
  BY <1>1, StartKinds DEF Create, AddVersion, MakeCurrent, Begin, FindSame
<1>2. CASE ReadLast(w)
  BY <1>2 DEF ReadLast, Meet
<1>3. CASE UploadContent(w) \/ UploadShots(w) \/ InsertDocument(w)
  BY <1>3 DEF UploadContent, UploadShots, InsertDocument
<1>4. CASE InsertVersion(w) \/ RaiseShooting(w) \/ RaiseInserting(w)
  BY <1>4 DEF InsertVersion, RaiseShooting, RaiseInserting
<1>5. CASE PointCurrent(w) \/ CleanUp(w) \/ RaiseEarly(w) \/ Stop(w)
  BY <1>5 DEF PointCurrent, CleanUp, RaiseEarly, Stop
<1>6. CASE RaisePointing(w)
  BY <1>6 DEF RaisePointing
<1>7. QED
  BY <1>1, <1>2, <1>3, <1>4, <1>5, <1>6 DEF Acts, Upload, Fail

LEMMA FreshStep ==
    ASSUME Typed, Fresh, NEW w \in Workers, Acts(w)
    PROVE  Fresh'
<1>1. CASE Start(w)
  <2>1. Begin(w)
    BY <1>1, StartKinds DEF Create, AddVersion, MakeCurrent
  <2>2. calls' # 0
    BY <2>1 DEF Begin, Typed, RestType
  <2>3. QED
    BY <2>2 DEF Fresh
<1>2. CASE Upload(w) \/ Fail(w)
  <2>1. pc[w] # "idle"
    BY <1>2 DEF Upload, FindSame, ReadLast, UploadContent, UploadShots, InsertDocument,
       InsertVersion, PointCurrent, CleanUp, Fail, RaiseEarly, RaiseShooting,
       RaiseInserting, RaisePointing, Stop
  <2>2. calls' = calls
    BY <1>2 DEF Upload, FindSame, ReadLast, UploadContent, UploadShots, InsertDocument,
       InsertVersion, PointCurrent, CleanUp, Fail, RaiseEarly, RaiseShooting,
       RaiseInserting, RaisePointing, Stop
  <2>3. QED
    BY <2>1, <2>2 DEF Fresh
<1>3. QED
  BY <1>1, <1>2 DEF Acts

LEMMA AwareStep ==
    ASSUME Typed, Fresh, Aware, NEW w \in Workers, Acts(w)
    PROVE  Aware'
<1>1. ASSUME NEW k \in Workers, k # w
      PROVE  /\ Storing(k)' => Storing(k) /\ content'[k] = content[k]
             /\ Numbered(k)' => Numbered(k) /\ number'[k] = number[k]
             /\ met[k] => met'[k]
  BY <1>1, OthersKeep DEF Storing, Numbered, Typed
<1>2. ASSUME NEW c \in Contents, NEW p \in BOOLEAN, Create(w, c, p),
             NEW k \in Workers, k # w
      PROVE  ~Storing(k)' /\ ~Numbered(k)'
  <2>1. pc[k] = "idle"
    BY <1>2 DEF Create, Fresh
  <2>2. ~Storing(k)
    BY <2>1 DEF Storing
  <2>3. QED
    BY <1>1, <1>2, <2>2 DEF Numbered
<1>3. ASSUME NEW k \in Workers, k # w, Storing(k)', Storing(w)', content'[k] = content'[w]
      PROVE  met'[k] /\ met'[w]
  <2>1. Storing(k) /\ content'[k] = content[k]
    BY <1>1, <1>3
  <2>2. CASE Storing(w) /\ content'[w] = content[w]
    <3>1. met[w] /\ met[k]
      BY <1>3, <2>1, <2>2 DEF Aware
    <3>2. QED
      BY <1>1, <1>3, <2>2, <3>1, MetStays
  <2>3. CASE FindSame(w) /\ pc'[w] = "numbering"
    <3>1. content' = content
      BY <2>3 DEF FindSame
    <3>2. Meet(w, {j \in Workers \ {w} : Storing(j) /\ content[j] = content[w]})
      BY <2>3 DEF FindSame, Goto, Typed, CallType
    <3>3. QED
      BY <1>3, <2>1, <3>1, <3>2 DEF Meet
  <2>4. ASSUME NEW c \in Contents, NEW p \in BOOLEAN, Create(w, c, p)
        PROVE  FALSE
    BY <1>2, <1>3, <2>4
  <2>5. QED
    BY <1>3, <2>2, <2>3, <2>4, StoringBegins
<1>4. ASSUME NEW k \in Workers, k # w, Numbered(k)', Numbered(w)', number'[k] = number'[w]
      PROVE  met'[k] /\ met'[w]
  <2>1. Numbered(k) /\ number'[k] = number[k]
    BY <1>1, <1>4
  <2>2. CASE Numbered(w) /\ number'[w] = number[w]
    <3>1. met[w] /\ met[k]
      BY <1>4, <2>1, <2>2 DEF Aware
    <3>2. Storing(w) /\ Storing(w)'
      BY <1>4, <2>2 DEF Numbered
    <3>3. QED
      BY <1>1, <1>4, <3>1, <3>2, MetStays
  <2>3. CASE ReadLast(w)
    <3>1. PICK n \in 0..MaxVersions :
            /\ number' = [number EXCEPT ![w] = n + 1]
            /\ Meet(w, {j \in Workers \ {w} : /\ Storing(j) /\ pc[j] # "numbering"
                                              /\ number[j] = n + 1})
      BY <2>3 DEF ReadLast
    <3>2. number'[w] = n + 1
      BY <3>1 DEF Typed, CallType
    <3>3. k \in {j \in Workers \ {w} : /\ Storing(j) /\ pc[j] # "numbering"
                                       /\ number[j] = n + 1}
      BY <1>4, <2>1, <3>2 DEF Numbered
    <3>4. QED
      BY <3>1, <3>3 DEF Meet
  <2>4. ASSUME NEW c \in Contents, NEW p \in BOOLEAN, Create(w, c, p)
        PROVE  FALSE
    BY <1>2, <1>4, <2>4
  <2>5. QED
    BY <1>4, <2>2, <2>3, <2>4, NumberBegins
<1>5. ASSUME NEW j \in Workers, NEW k \in Workers, j # w, k # w, j # k
      PROVE  /\ Storing(j)' /\ Storing(k)' /\ content'[j] = content'[k] => met'[j]
             /\ Numbered(j)' /\ Numbered(k)' /\ number'[j] = number'[k] => met'[j]
  BY <1>1, <1>5 DEF Aware
<1>6. QED
  BY <1>3, <1>4, <1>5 DEF Aware

\* Rows only come in, with the INSERT of one that was not there; what spoils a
\* version is recorded with it.
Inserts(w) ==
    /\ pc[w] = "inserting" /\ Storable(w) /\ Store(w)
    /\ UNCHANGED <<blobs, shots, content, number, picture>>
    /\ pc'[w] = "pointing" \/ number[w] \in spoiled'
    /\ met[w] => number[w] \in spoiled'

LEMMA RowsKeep ==
    ASSUME Typed, NEW w \in Workers, Acts(w)
    PROVE  /\ UNCHANGED <<versions, pictured>> \/ Inserts(w)
           /\ spoiled \subseteq spoiled'
           /\ pc[w] = "pointing" /\ pc'[w] # "idle" => number[w] \in spoiled'
<1> DEFINE Goal ==
      /\ UNCHANGED <<versions, pictured>> \/ Inserts(w)
      /\ spoiled \subseteq spoiled'
      /\ pc[w] = "pointing" /\ pc'[w] # "idle" => number[w] \in spoiled'
<1> USE DEF rows, ghosts, Typed, CallType, Goto
<1>1. CASE Start(w)
  BY <1>1, StartKinds DEF Create, AddVersion, MakeCurrent, Begin
<1>2. CASE FindSame(w) \/ ReadLast(w) \/ UploadContent(w) \/ UploadShots(w)
             \/ InsertDocument(w)
  BY <1>2 DEF FindSame, ReadLast, UploadContent, UploadShots, InsertDocument
<1>3. CASE InsertVersion(w)
  <2>1. CASE UNCHANGED <<versions, pictured, spoiled>>
    BY <1>3, <2>1 DEF InsertVersion
  <2>2. CASE Storable(w) /\ Store(w) /\ Goto(w, "pointing")
             /\ spoiled' = IF met[w] THEN spoiled \cup {number[w]} ELSE spoiled
    <3>1. Inserts(w)
      BY <1>3, <2>2 DEF InsertVersion, Inserts, objects, local
    <3>2. QED
      BY <1>3, <2>2, <3>1 DEF InsertVersion
  <2>3. QED
    BY <1>3, <2>1, <2>2 DEF InsertVersion
<1>4. CASE PointCurrent(w) \/ CleanUp(w) \/ RaiseEarly(w) \/ RaiseShooting(w) \/ Stop(w)
  BY <1>4 DEF PointCurrent, CleanUp, RaiseEarly, RaiseShooting, Stop, Done
<1>5. CASE RaiseInserting(w)
  <2>1. CASE UNCHANGED <<versions, pictured, spoiled>>
    BY <1>5, <2>1 DEF RaiseInserting
  <2>2. CASE pc[w] = "inserting" /\ Storable(w) /\ Store(w)
             /\ spoiled' = spoiled \cup {number[w]}
    BY <1>5, <2>2 DEF RaiseInserting, Inserts, objects, local
  <2>3. QED
    BY <1>5, <2>1, <2>2 DEF RaiseInserting
<1>6. CASE RaisePointing(w)
  BY <1>6 DEF RaisePointing, Done
<1>7. QED
  BY <1>1, <1>2, <1>3, <1>4, <1>5, <1>6 DEF Acts, Upload, Fail

\* Of the objects a step changes those of its own worker only.
LEMMA ObjectsKeep ==
    ASSUME Typed, NEW w \in Workers, Acts(w)
    PROVE  /\ \A c \in blobs : c \in blobs' \/ (pc[w] = "cleaning" /\ c = content[w])
           /\ \A n \in Numbers : \/ shots'[n] = shots[n]
                                 \/ pc[w] \in {"shooting", "cleaning"} /\ n = number[w]
<1> USE DEF objects, Typed, TableType
<1>1. CASE Start(w)
  BY <1>1, StartKinds DEF Create, AddVersion, MakeCurrent
<1>2. CASE FindSame(w) \/ ReadLast(w) \/ InsertDocument(w) \/ InsertVersion(w)
             \/ PointCurrent(w) \/ RaiseInserting(w) \/ RaisePointing(w)
  BY <1>2 DEF FindSame, ReadLast, InsertDocument, InsertVersion, PointCurrent,
     RaiseInserting, RaisePointing
<1>3. CASE UploadContent(w) \/ RaiseEarly(w)
  BY <1>3 DEF UploadContent, RaiseEarly
<1>4. CASE UploadShots(w) \/ RaiseShooting(w)
  BY <1>4 DEF UploadShots, RaiseShooting
<1>5. CASE CleanUp(w)
  BY <1>5 DEF CleanUp, ShotsLeft
<1>6. CASE Stop(w)
  BY <1>6 DEF Stop, ShotsLeft
<1>7. QED
  BY <1>1, <1>2, <1>3, <1>4, <1>5, <1>6 DEF Acts, Upload, Fail

\* What is known of a worker that stores.
LEMMA StoringWork ==
    ASSUME Typed, NEW w \in Workers
    PROVE  /\ Storing(w) => content[w] \in Contents
           /\ Numbered(w) => number[w] \in Numbers
           /\ pc[w] \in {"shooting", "registering", "inserting", "cleaning"} =>
                Storing(w) /\ Numbered(w) /\ ~asked[w]
<1>1. HasWork(w)
  BY DEF Typed, WorkType
<1>2. QED
  BY <1>1 DEF HasWork, Storing, Numbered

LEMMA RowApartOwn ==
    ASSUME Typed, Typed', WholeInv, NEW w \in Workers, Acts(w)
    PROVE  RowApart(w)'
<1>1. RowApart(w) /\ Fresh
  BY DEF WholeInv
<1>2. /\ UNCHANGED <<versions, pictured>> \/ Inserts(w)
      /\ spoiled \subseteq spoiled'
      /\ pc[w] = "pointing" /\ pc'[w] # "idle" => number[w] \in spoiled'
  BY RowsKeep
<1>3. ASSUME NEW c \in Contents, NEW p \in BOOLEAN, Create(w, c, p), NEW n \in Numbers
      PROVE  versions'[n] = None
  BY <1>1, <1>3 DEF Create, rows, Fresh, Row
<1>4. ASSUME NEW n \in Numbers, Storing(w)', versions'[n] = content'[w]
      PROVE  n \in spoiled' \/ Own(w, n)'
  <2>1. content'[w] \in Contents /\ pc'[w] # "idle"
    BY <1>4, StoringWork DEF Storing, Typed, WorkType, HasWork
  <2>2. CASE Storing(w) /\ content'[w] = content[w]
    <3>1. CASE UNCHANGED <<versions, pictured>>
      <4>1. n \in spoiled \/ Own(w, n)
        BY <1>1, <1>4, <2>2, <3>1 DEF RowApart
      <4>2. QED
        BY <1>2, <2>1, <4>1 DEF Own
    <3>2. CASE Inserts(w)
      <4>1. CASE n = number[w]
        BY <3>2, <4>1 DEF Inserts, Own
      <4>2. CASE n # number[w]
        <5>1. versions'[n] = versions[n]
          BY <3>2, <4>2 DEF Inserts, Store, Typed, TableType
        <5>2. QED
          BY <1>4, <2>2, <3>2, <5>1 DEF Inserts, Storable, Named
      <4>3. QED
        BY <4>1, <4>2
    <3>3. QED
      BY <1>2, <3>1, <3>2
  <2>3. CASE FindSame(w) /\ pc'[w] = "numbering"
    <3>1. ~Named(content[w]) /\ UNCHANGED <<versions, content>>
      BY <2>3 DEF FindSame, Goto, rows, Typed, CallType
    <3>2. QED
      BY <1>4, <3>1 DEF Named
  <2>4. ASSUME NEW c \in Contents, NEW p \in BOOLEAN, Create(w, c, p)
        PROVE  FALSE
    BY <1>3, <1>4, <2>1, <2>4
  <2>5. QED
    BY <1>4, <2>2, <2>3, <2>4, StoringBegins
<1>5. ASSUME Numbered(w)', Row(number[w])'
      PROVE  number'[w] \in spoiled' \/ Own(w, number[w])'
  <2>1. number'[w] \in Numbers /\ pc'[w] # "idle"
    BY <1>5 DEF Numbered, Storing, Typed, WorkType, HasWork
  <2>2. CASE Numbered(w) /\ number'[w] = number[w]
    <3>1. CASE UNCHANGED <<versions, pictured>>
      <4>1. number[w] \in spoiled \/ Own(w, number[w])
        BY <1>1, <1>5, <2>2, <3>1 DEF RowApart, Row
      <4>2. QED
        BY <1>2, <2>1, <2>2, <4>1 DEF Own
    <3>2. CASE Inserts(w)
      BY <2>2, <3>2 DEF Inserts, Own
    <3>3. QED
      BY <1>2, <3>1, <3>2
  <2>3. CASE ReadLast(w)
    <3>1. PICK n \in 0..MaxVersions : IsLast(n) /\ number' = [number EXCEPT ![w] = n + 1]
      BY <2>3 DEF ReadLast
    <3>2. number'[w] = n + 1 /\ UNCHANGED versions
      BY <2>3, <3>1 DEF ReadLast, rows, Typed, CallType
    <3>3. ~Row(n + 1)
      BY <2>1, <3>1, <3>2 DEF IsLast
    <3>4. QED
      BY <1>5, <3>2, <3>3 DEF Row
  <2>4. ASSUME NEW c \in Contents, NEW p \in BOOLEAN, Create(w, c, p)
        PROVE  FALSE
    BY <1>3, <1>5, <2>1, <2>4 DEF Row
  <2>5. QED
    BY <1>5, <2>2, <2>3, <2>4, NumberBegins
<1>6. QED
  BY <1>4, <1>5 DEF RowApart

LEMMA RowApartOthers ==
    ASSUME Typed, WholeInv, NEW w \in Workers, Acts(w), NEW k \in Workers, k # w
    PROVE  RowApart(k)'
<1>1. RowApart(k) /\ Aware
  BY DEF WholeInv
<1>2. (UNCHANGED <<versions, pictured>> \/ Inserts(w)) /\ spoiled \subseteq spoiled'
  BY RowsKeep
<1>3. /\ pc'[k] = pc[k] /\ content'[k] = content[k] /\ number'[k] = number[k]
      /\ asked'[k] = asked[k]
  BY OthersKeep DEF Typed
<1>4. CASE UNCHANGED <<versions, pictured>>
  BY <1>1, <1>2, <1>3, <1>4 DEF RowApart, Storing, Numbered, Own, Row
<1>5. CASE Inserts(w)
  <2>1. Storing(w) /\ Numbered(w) /\ number[w] \in Numbers
    BY <1>5, StoringWork DEF Inserts
  <2>2. /\ versions'[number[w]] = content[w]
        /\ \A n \in Numbers : n # number[w] => versions'[n] = versions[n]
    BY <1>5, <2>1 DEF Inserts, Store, Typed, TableType
  <2>3. Storing(k) /\ content[k] = content[w] => number[w] \in spoiled'
    BY <1>1, <1>5, <2>1 DEF Aware, Inserts
  <2>4. Numbered(k) /\ number[k] = number[w] => number[w] \in spoiled'
    BY <1>1, <1>5, <2>1 DEF Aware, Inserts
  <2>5. ASSUME NEW n \in Numbers, Storing(k), versions'[n] = content[k]
        PROVE  n \in spoiled' \/ Own(k, n)
    BY <1>1, <1>2, <2>2, <2>3, <2>5 DEF RowApart
  <2>6. ASSUME Numbered(k), versions'[number[k]] # None
        PROVE  number[k] \in spoiled' \/ Own(k, number[k])
    <3>1. number[k] \in Numbers
      BY <2>6, StoringWork
    <3>2. QED
      BY <1>1, <1>2, <2>2, <2>4, <2>6, <3>1 DEF RowApart, Row
  <2>7. QED
    BY <1>3, <2>5, <2>6 DEF RowApart, Storing, Numbered, Own, Row
<1>6. QED
  BY <1>2, <1>4, <1>5

LEMMA UploadedOwn ==
    ASSUME Typed, WholeInv, NEW w \in Workers, Acts(w)
    PROVE  Uploaded(w)'
<1> USE DEF Typed, CallType, TableType
<1>1. Uploaded(w)
  BY DEF WholeInv
<1>2. CASE UploadContent(w)
  <2>1. blobs' = blobs \cup {content[w]} /\ UNCHANGED <<content, picture>>
    BY <1>2 DEF UploadContent, local
  <2>2. picture[w] => pc'[w] = "shooting"
    BY <1>2 DEF UploadContent, Goto
  <2>3. QED
    BY <2>1, <2>2 DEF Uploaded
<1>3. CASE UploadShots(w)
  <2>1. number[w] \in Numbers
    BY <1>3, StoringWork DEF UploadShots
  <2>2. pc[w] = "shooting" /\ UNCHANGED <<blobs, content, number, met>>
    BY <1>3 DEF UploadShots, local, ghosts
  <2>3. shots'[number[w]] = content[w]
    BY <1>3, <2>1 DEF UploadShots
  <2>4. QED
    BY <1>1, <2>2, <2>3 DEF Uploaded
<1>4. CASE InsertDocument(w)
  <2>1. pc[w] = "registering" /\ UNCHANGED <<blobs, shots, content, number, picture, met>>
    BY <1>4 DEF InsertDocument, objects, local, ghosts
  <2>2. QED
    BY <1>1, <2>1 DEF Uploaded
<1>5. ASSUME pc'[w] \notin {"shooting", "registering", "inserting"}
      PROVE  Uploaded(w)'
  BY <1>5 DEF Uploaded
<1>6. CASE Start(w) \/ FindSame(w) \/ ReadLast(w)
  <2>1. pc'[w] \in {"uploading", "matching", "pointing", "numbering"}
    BY <1>6, StartKinds DEF Create, AddVersion, MakeCurrent, FindSame, ReadLast, Goto
  <2>2. QED
    BY <1>5, <2>1
<1>7. CASE InsertVersion(w) \/ PointCurrent(w) \/ CleanUp(w) \/ Fail(w)
  <2>1. pc'[w] \in {"pointing", "cleaning", "idle"}
    BY <1>7 DEF InsertVersion, PointCurrent, CleanUp, Fail, RaiseEarly, RaiseShooting,
       RaiseInserting, RaisePointing, Stop, Done, Goto
  <2>2. QED
    BY <1>5, <2>1
<1>8. QED
  BY <1>2, <1>3, <1>4, <1>6, <1>7 DEF Acts, Upload

LEMMA UploadedOthers ==
    ASSUME Typed, WholeInv, NEW w \in Workers, Acts(w), NEW k \in Workers, k # w
    PROVE  Uploaded(k)'
<1> SUFFICES ASSUME ~met'[k], pc'[k] \in {"shooting", "registering", "inserting"}
             PROVE  /\ content'[k] \in blobs'
                    /\ pc'[k] # "shooting" /\ picture'[k] => shots'[number'[k]] = content'[k]
  BY DEF Uploaded
<1>1. /\ pc'[k] = pc[k] /\ content'[k] = content[k] /\ number'[k] = number[k]
      /\ picture'[k] = picture[k] /\ ~met[k]
  BY OthersKeep DEF Typed
<1>2. Storing(k) /\ Numbered(k) /\ number[k] \in Numbers
  BY <1>1, StoringWork
<1>3. Storing(w) => content[w] # content[k]
  BY <1>1, <1>2 DEF WholeInv, Aware
<1>4. Numbered(w) => number[w] # number[k]
  BY <1>1, <1>2 DEF WholeInv, Aware
<1>5. /\ content[k] \in blobs
      /\ pc[k] # "shooting" /\ picture[k] => shots[number[k]] = content[k]
  BY <1>1 DEF WholeInv, Uploaded
<1>6. content[k] \in blobs'
  BY <1>3, <1>5, ObjectsKeep, StoringWork
<1>7. shots'[number[k]] = shots[number[k]]
  BY <1>2, <1>4, ObjectsKeep, StoringWork
<1>8. QED
  BY <1>1, <1>5, <1>6, <1>7

\* Neither a clean-up nor an upload gets at the objects of an unspoiled row.
LEMMA WholeStep ==
    ASSUME Typed, WholeInv, NEW w \in Workers, Acts(w)
    PROVE  VersionsWhole' /\ \A n \in pictured' : Row(n)'
<1>1. RowApart(w) /\ Uploaded(w) /\ VersionsWhole /\ (\A n \in pictured : Row(n))
  BY DEF WholeInv
<1>2. (UNCHANGED <<versions, pictured>> \/ Inserts(w)) /\ spoiled \subseteq spoiled'
  BY RowsKeep
<1>3. CASE UNCHANGED <<versions, pictured>>
  <2>1. ASSUME NEW n \in Numbers, Row(n), n \notin spoiled'
        PROVE  /\ versions[n] \in blobs'
               /\ n \in pictured => shots'[n] = versions[n]
    <3>1. n \notin spoiled
      BY <1>2, <2>1
    <3>2. versions[n] \in blobs /\ (n \in pictured => shots[n] = versions[n])
      BY <1>1, <2>1, <3>1 DEF VersionsWhole
    <3>3. ASSUME pc[w] = "cleaning"
          PROVE  versions[n] # content[w] /\ n # number[w]
      BY <1>1, <2>1, <3>1, <3>3, StoringWork DEF RowApart, Own
    <3>4. ASSUME pc[w] = "shooting"
          PROVE  n # number[w]
      BY <1>1, <2>1, <3>1, <3>4, StoringWork DEF RowApart, Own
    <3>5. QED
      BY <2>1, <3>2, <3>3, <3>4, ObjectsKeep
  <2>2. QED
    BY <1>1, <1>3, <2>1 DEF VersionsWhole, Row
<1>4. CASE Inserts(w)
  <2>1. number[w] \in Numbers /\ content[w] \in Contents /\ pc[w] = "inserting"
    BY <1>4, StoringWork DEF Inserts
  <2>2. /\ versions'[number[w]] = content[w]
        /\ \A n \in Numbers : n # number[w] => versions'[n] = versions[n]
        /\ UNCHANGED objects
    BY <1>4, <2>1 DEF Inserts, Store, Typed, TableType, objects
  <2>3. pictured' \subseteq pictured \cup {number[w]}
        /\ (picture[w] \/ number[w] \notin pictured')
    BY <1>1, <1>4 DEF Inserts, Store, Storable
  <2>4. number[w] \notin spoiled' =>
          /\ content[w] \in blobs
          /\ picture[w] => shots[number[w]] = content[w]
    BY <1>1, <1>4, <2>1 DEF Inserts, Uploaded
  <2>5. ASSUME NEW n \in Numbers, Row(n)', n \notin spoiled'
        PROVE  /\ versions'[n] \in blobs'
               /\ n \in pictured' => shots'[n] = versions'[n]
    <3>1. CASE n = number[w]
      BY <2>2, <2>3, <2>4, <2>5, <3>1 DEF objects
    <3>2. CASE n # number[w]
      <4>1. versions'[n] = versions[n] /\ Row(n) /\ n \notin spoiled
        BY <1>2, <2>2, <2>5, <3>2 DEF Row
      <4>2. QED
        BY <1>1, <2>2, <2>3, <3>2, <4>1 DEF VersionsWhole, objects
    <3>3. QED
      BY <3>1, <3>2
  <2>6. ASSUME NEW n \in pictured'
        PROVE  Row(n)'
    <3>1. n = number[w] \/ (n \in pictured /\ n \in Numbers /\ Row(n))
      BY <1>1, <2>3, <2>6 DEF Typed, TableType
    <3>2. content[w] # None
      BY <2>1
    <3>3. QED
      BY <2>2, <3>1, <3>2 DEF Row
  <2>7. QED
    BY <2>5, <2>6 DEF VersionsWhole
<1>5. QED
  BY <1>2, <1>3, <1>4

LEMMA WholeInvStep ==
    ASSUME Typed, Typed', WholeInv, [Next]_vars
    PROVE  WholeInv'
<1>1. CASE Next
  <2>1. PICK w \in Workers : Acts(w)
    BY <1>1, StepActs
  <2>2. Fresh' /\ Aware'
    BY <2>1, FreshStep, AwareStep DEF WholeInv
  <2>3. ASSUME NEW k \in Workers
        PROVE  RowApart(k)' /\ Uploaded(k)'
    BY <2>1, RowApartOwn, RowApartOthers, UploadedOwn, UploadedOthers
  <2>4. QED
    BY <2>1, <2>2, <2>3, WholeStep DEF WholeInv
<1>2. CASE UNCHANGED vars
  BY <1>2 DEF vars, rows, objects, local, ghosts, WholeInv, Fresh, Aware, RowApart,
     Uploaded, Storing, Numbered, Own, Row, VersionsWhole
<1>3. QED
  BY <1>1, <1>2

LEMMA WholeInit ==
    ASSUME Init
    PROVE  WholeInv
BY DEF Init, WholeInv, Fresh, Aware, RowApart, Uploaded, Storing, Numbered, Row,
   VersionsWhole

\* What the row of a version names is in storage and is what was uploaded for it,
\* unless the upload met another or raised after its row.
THEOREM VersionsWholeHolds == Spec => []VersionsWhole
<1>1. Init => WholeInv
  BY WholeInit
<1>2. Typed /\ Typed' /\ WholeInv /\ [Next]_vars => WholeInv'
  BY WholeInvStep
<1>3. WholeInv => VersionsWhole
  BY DEF WholeInv
<1>4. QED
  BY TypedHolds, <1>1, <1>2, <1>3, PTL DEF Spec

-------------------------------------------------------------------------------
(* The newest version is current                                           *)

\* w has stored a row it has not made current.
Pointer(w) == pc[w] = "pointing" /\ ~asked[w]

\* Numbers have no gaps, and a worker that has a number has the next one, or
\* one that was taken since.
NoGaps ==
    /\ \A n, k \in Numbers : Row(n) /\ k <= n => Row(k)
    /\ \A w \in Workers, k \in Numbers : Numbered(w) /\ k < number[w] => Row(k)

Latest(w) == Pointer(w) /\ ~passed[w] => IsLast(number[w])

NewestInv ==
    /\ Fresh
    /\ NoGaps
    /\ \A w \in Workers : Latest(w)
    /\ aside = {} /\ (\A w \in Workers : ~Pointer(w)) => IsLast(current)

LEMMA GapsStep ==
    ASSUME Typed, Typed', Fresh, NoGaps, NEW w \in Workers, Acts(w)
    PROVE  NoGaps'
<1> USE DEF NoGaps, Row
<1>1. UNCHANGED <<versions, pictured>> \/ Inserts(w)
  BY RowsKeep
<1>2. ASSUME NEW n \in Numbers, Row(n)
      PROVE  Row(n)'
    BY <1>1, <1>2 DEF Inserts, Store, Storable, Typed, TableType
<1>3. ASSUME NEW n \in Numbers, NEW k \in Numbers, Row(n)', k <= n
      PROVE  Row(k)'
  <2>1. CASE UNCHANGED <<versions, pictured>>
    BY <1>3, <2>1
  <2>2. CASE Inserts(w)
    <3>1. Numbered(w) /\ number[w] \in Numbers /\ content[w] \in Contents
      BY <2>2, StoringWork DEF Inserts
    <3>2. /\ versions'[number[w]] = content[w]
          /\ \A m \in Numbers : m # number[w] => versions'[m] = versions[m]
      BY <2>2, <3>1 DEF Inserts, Store, Typed, TableType
    <3>3. CASE n = number[w]
      <4>1. k = number[w] \/ k < number[w]
        BY <1>3, <3>3 DEF Numbers
      <4>2. QED
        BY <1>2, <3>1, <3>2, <4>1
    <3>4. CASE n # number[w]
      BY <1>2, <1>3, <3>2, <3>4
    <3>5. QED
      BY <3>3, <3>4
  <2>3. QED
    BY <1>1, <2>1, <2>2
<1>4. ASSUME NEW k \in Numbers, Numbered(w)', k < number'[w]
      PROVE  Row(k)'
  <2>1. CASE Numbered(w) /\ number'[w] = number[w]
    BY <1>2, <1>4, <2>1
  <2>2. CASE ReadLast(w)
    <3>1. PICK n \in 0..MaxVersions : IsLast(n) /\ number' = [number EXCEPT ![w] = n + 1]
      BY <2>2 DEF ReadLast
    <3>2. number'[w] = n + 1 /\ UNCHANGED versions
      BY <2>2, <3>1 DEF ReadLast, rows, Typed, CallType
    <3>3. k <= n /\ n \in Numbers
      BY <1>4, <3>2 DEF Numbers
    <3>4. Row(n)
      BY <3>1, <3>3 DEF IsLast, Numbers
    <3>5. QED
      BY <1>2, <3>3, <3>4
  <2>3. ASSUME NEW c \in Contents, NEW p \in BOOLEAN, Create(w, c, p)
        PROVE  FALSE
    <3>1. number'[w] = 1
      BY <2>3 DEF Create, Typed, CallType
    <3>2. QED
      BY <1>4, <3>1 DEF Numbers
  <2>4. QED
    BY <1>4, <2>1, <2>2, <2>3, NumberBegins
<1>5. ASSUME NEW j \in Workers, j # w, NEW k \in Numbers, Numbered(j)', k < number'[j]
      PROVE  Row(k)'
  <2>1. Numbered(j) /\ number'[j] = number[j]
    BY <1>5, OthersKeep DEF Numbered, Storing, Typed
  <2>2. QED
    BY <1>2, <1>5, <2>1
<1>6. QED
  BY <1>3, <1>4, <1>5

\* Nothing but an INSERT makes another version the last.
LEMMA LastStays ==
    ASSUME UNCHANGED <<versions, pictured>>, NEW n
    PROVE  IsLast(n) => IsLast(n)'
BY DEF IsLast, Row

\* A worker makes a row current only after its own INSERT.
LEMMA PointerBegins ==
    ASSUME Typed, NEW w \in Workers, Acts(w), Pointer(w)'
    PROVE  InsertVersion(w) /\ Inserts(w) /\ ~passed'[w]
<1> USE DEF Pointer, Typed, CallType, Goto, Done, local
<1>1. CASE Start(w)
  <2>1. ASSUME NEW c \in Contents, NEW p \in BOOLEAN, Create(w, c, p) \/ AddVersion(w, c, p)
        PROVE  FALSE
    BY <2>1 DEF Create, AddVersion
  <2>2. ASSUME NEW n \in Numbers, MakeCurrent(w, n)
        PROVE  FALSE
    BY <2>2 DEF MakeCurrent
  <2>3. QED
    BY <1>1, <2>1, <2>2, StartKinds
<1>2. CASE FindSame(w)
  BY <1>2 DEF FindSame
<1>3. CASE ReadLast(w) \/ UploadContent(w) \/ UploadShots(w) \/ InsertDocument(w)
  BY <1>3 DEF ReadLast, UploadContent, UploadShots, InsertDocument
<1>4. CASE InsertVersion(w)
  <2>1. Storable(w) /\ Store(w)
    BY <1>4 DEF InsertVersion
  <2>2. ~passed'[w]
    BY <2>1 DEF Store
  <2>3. UNCHANGED <<versions, pictured>> \/ Inserts(w)
    BY RowsKeep
  <2>4. Inserts(w)
    BY <1>4, <2>1 DEF InsertVersion, Inserts, objects
  <2>5. QED
    BY <1>4, <2>2, <2>4
<1>5. CASE PointCurrent(w) \/ CleanUp(w) \/ RaiseEarly(w) \/ Stop(w)
  BY <1>5 DEF PointCurrent, CleanUp, RaiseEarly, Stop
<1>6. CASE RaiseShooting(w) \/ RaiseInserting(w) \/ RaisePointing(w)
  BY <1>6 DEF RaiseShooting, RaiseInserting, RaisePointing
<1>7. QED
  BY <1>1, <1>2, <1>3, <1>4, <1>5, <1>6 DEF Acts, Upload, Fail

LEMMA LatestStep ==
    ASSUME Typed, Typed', NewestInv, NEW w \in Workers, Acts(w)
    PROVE  \A k \in Workers : Latest(k)'
<1>1. NoGaps /\ \A k \in Workers : Latest(k)
  BY DEF NewestInv
<1>2. CASE Pointer(w)'
  <2>1. InsertVersion(w) /\ Inserts(w)
    BY <1>2, PointerBegins
  <2>2. Numbered(w) /\ number[w] \in Numbers /\ content[w] \in Contents
    BY <2>1, StoringWork DEF Inserts
  <2>3. /\ versions'[number[w]] = content[w]
        /\ \A n \in Numbers : n # number[w] => versions'[n] = versions[n]
        /\ number'[w] = number[w]
    BY <2>1, <2>2 DEF Inserts, Store, Typed, TableType
  <2>4. ASSUME NEW n \in Numbers, Row(n)
        PROVE  n <= number[w]
    <3>1. ~Row(number[w])
      BY <2>1 DEF Inserts, Storable
    <3>2. QED
      BY <1>1, <2>2, <2>4, <3>1 DEF NoGaps, Numbers
  <2>5. IsLast(number[w])'
    <3>1. ASSUME NEW n \in Numbers, Row(n)'
          PROVE  n <= number[w]
      <4>1. n = number[w] \/ Row(n)
        BY <2>3, <3>1 DEF Row
      <4>2. QED
        BY <2>2, <2>4, <4>1 DEF Numbers
    <3>2. QED
      BY <2>2, <2>3, <3>1 DEF IsLast, Row
  <2>6. ASSUME NEW k \in Workers, k # w, Pointer(k)'
        PROVE  passed'[k]
    <3>1. pc[k] = "pointing"
      BY <2>6, OthersKeep DEF Pointer, Typed
    <3>2. QED
      BY <2>1, <2>6, <3>1 DEF Inserts, Store
  <2>7. QED
    BY <2>5, <2>6 DEF Latest
<1>3. CASE ~Pointer(w)'
  <2>1. ASSUME NEW k \in Workers, k # w
        PROVE  Latest(k)'
    <3>1. /\ Pointer(k)' <=> Pointer(k)
          /\ number'[k] = number[k] /\ (passed[k] => passed'[k])
      BY <2>1, OthersKeep DEF Pointer, Typed
    <3>2. CASE UNCHANGED <<versions, pictured>>
      BY <1>1, <3>1, <3>2, LastStays DEF Latest
    <3>3. CASE Inserts(w)
      BY <2>1, <3>1, <3>3 DEF Latest, Inserts, Store, Pointer
    <3>4. QED
      BY <3>2, <3>3, RowsKeep
  <2>2. QED
    BY <1>3, <2>1 DEF Latest
<1>4. QED
  BY <1>2, <1>3

\* Where the rows, the pointers and current are left alone, so is what is current.
LEMMA NewestStep ==
    ASSUME Typed, NewestInv, NEW w \in Workers, Acts(w),
           aside' = {}, \A k \in Workers : ~Pointer(k)'
    PROVE  IsLast(current)'
<1> USE DEF Typed, CallType
<1>1. \A k \in Workers : k # w => ~Pointer(k)
  BY OthersKeep DEF Pointer
<1>2. ASSUME ~Pointer(w), aside = {}, UNCHANGED <<versions, pictured, current>>
      PROVE  IsLast(current)'
  <2>1. IsLast(current)
    BY <1>1, <1>2 DEF NewestInv
  <2>2. QED
    BY <1>2, <2>1, LastStays
<1>3. CASE PointCurrent(w)
  <2>1. ~asked[w] /\ ~passed[w] /\ pc[w] = "pointing"
    BY <1>3 DEF PointCurrent
  <2>2. IsLast(number[w])
    BY <2>1 DEF NewestInv, Latest, Pointer
  <2>3. current' = number[w] /\ UNCHANGED versions
    BY <1>3 DEF PointCurrent, Pointed
  <2>4. QED
    BY <2>2, <2>3 DEF IsLast, Row
<1>4. CASE Start(w)
  <2>1. pc[w] = "idle" /\ aside = {} /\ UNCHANGED rows
    BY <1>4, StartKinds DEF Create, AddVersion, MakeCurrent, Begin, ghosts
  <2>2. QED
    BY <1>2, <2>1 DEF Pointer, rows
<1>5. CASE FindSame(w) \/ ReadLast(w) \/ UploadContent(w) \/ UploadShots(w)
             \/ InsertDocument(w) \/ CleanUp(w) \/ RaiseEarly(w) \/ RaiseShooting(w)
  <2>1. pc[w] # "pointing" /\ aside = {} /\ UNCHANGED <<versions, pictured, current>>
    BY <1>5 DEF FindSame, ReadLast, UploadContent, UploadShots, InsertDocument, CleanUp,
       RaiseEarly, RaiseShooting, ghosts, rows
  <2>2. QED
    BY <1>2, <2>1 DEF Pointer
<1>6. CASE InsertVersion(w)
  <2>1. CASE Goto(w, "pointing")
    <3>1. pc'[w] = "pointing" /\ asked'[w] = asked[w] /\ ~asked[w]
      BY <1>6, <2>1, StoringWork DEF InsertVersion, local, Goto
    <3>2. QED
      BY <3>1 DEF Pointer
  <2>2. CASE UNCHANGED <<versions, pictured>>
    <3>1. pc[w] # "pointing" /\ aside = {} /\ UNCHANGED current
      BY <1>6 DEF InsertVersion
    <3>2. QED
      BY <1>2, <2>2, <3>1 DEF Pointer
  <2>3. QED
    BY <1>6, <2>1, <2>2 DEF InsertVersion
<1>7. CASE RaiseInserting(w)
  <2>1. pc[w] # "pointing" /\ aside = {} /\ UNCHANGED <<versions, pictured, current>>
    BY <1>7 DEF RaiseInserting, rows
  <2>2. QED
    BY <1>2, <2>1 DEF Pointer
<1>8. CASE RaisePointing(w)
  <2>1. asked[w] /\ aside = {} /\ UNCHANGED <<versions, pictured, current>>
    BY <1>8 DEF RaisePointing
  <2>2. QED
    BY <1>2, <2>1 DEF Pointer
<1>9. CASE Stop(w)
  <2>1. ~Pointer(w) /\ aside = {} /\ UNCHANGED <<versions, pictured, current>>
    BY <1>9 DEF Stop, rows, Pointer
  <2>2. QED
    BY <1>2, <2>1
<1>10. QED
  BY <1>3, <1>4, <1>5, <1>6, <1>7, <1>8, <1>9 DEF Acts, Upload, Fail

LEMMA NewestInvStep ==
    ASSUME Typed, Typed', NewestInv, [Next]_vars
    PROVE  NewestInv'
<1>1. CASE Next
  <2>1. PICK w \in Workers : Acts(w)
    BY <1>1, StepActs
  <2>2. Fresh' /\ NoGaps' /\ \A k \in Workers : Latest(k)'
    BY <2>1, FreshStep, GapsStep, LatestStep DEF NewestInv
  <2>3. aside' = {} /\ (\A k \in Workers : ~Pointer(k)') => IsLast(current)'
    BY <2>1, NewestStep
  <2>4. QED
    BY <2>2, <2>3 DEF NewestInv
<1>2. CASE UNCHANGED vars
  BY <1>2 DEF vars, rows, local, ghosts, NewestInv, Fresh, NoGaps, Latest, Pointer,
     Numbered, Storing, IsLast, Row
<1>3. QED
  BY <1>1, <1>2

LEMMA NewestInit ==
    ASSUME Init
    PROVE  NewestInv
<1>1. Fresh /\ NoGaps /\ \A w \in Workers : Latest(w)
  BY DEF Init, Fresh, NoGaps, Latest, Pointer, Numbered, Storing, Row
<1>2. current = 0 /\ \A k \in Numbers : ~Row(k)
  BY DEF Init, Row
<1>3. IsLast(current)
  BY <1>2 DEF IsLast
<1>4. QED
  BY <1>1, <1>3 DEF NewestInv

\* Once those that stored a row have pointed at it the newest version is current,
\* unless another was chosen, an upload was overtaken, or one ended in between.
THEOREM NewestIsCurrentHolds == Spec => []NewestIsCurrent
<1>1. Init => NewestInv
  BY NewestInit
<1>2. Typed /\ Typed' /\ NewestInv /\ [Next]_vars => NewestInv'
  BY NewestInvStep
<1>3. NewestInv => NewestIsCurrent
  BY DEF NewestInv, NewestIsCurrent, Pointer
<1>4. QED
  BY TypedHolds, <1>1, <1>2, <1>3, PTL DEF Spec

-------------------------------------------------------------------------------
(* Nothing is orphaned                                                     *)

\* An object is kept for a row or by an upload at work.
ContentKept(c) ==
    \/ Named(c)
    \/ \E w \in Workers : (Holds(w) \/ pc[w] = "shooting") /\ content[w] = c

ShotsKept(n) ==
    \/ n \in pictured
    \/ \E w \in Workers : Holds(w) /\ picture[w] /\ number[w] = n

LEMMA OrphansMeans ==
    NoOrphans <=> (causes = {} => /\ \A c \in blobs : ContentKept(c)
                                  /\ \A n \in Numbers : shots[n] # None => ShotsKept(n))
BY DEF NoOrphans, ContentKept, ShotsKept

\* What a row names it names for good.
LEMMA NamedStays ==
    ASSUME Typed, NEW w \in Workers, Acts(w)
    PROVE  /\ \A c \in Contents : Named(c) => Named(c)'
           /\ pictured \subseteq pictured'
<1>1. CASE UNCHANGED <<versions, pictured>>
  BY <1>1 DEF Named
<1>2. CASE Inserts(w)
  <2>1. \A n \in Numbers : Row(n) => versions'[n] = versions[n]
    BY <1>2 DEF Inserts, Store, Storable, Typed, TableType
  <2>2. pictured \subseteq pictured'
    BY <1>2 DEF Inserts, Store
  <2>3. QED
    BY <2>1, <2>2 DEF Named, Row
<1>3. QED
  BY <1>1, <1>2, RowsKeep

\* A step of w that takes nothing of its own out of storage, and leaves it held
\* or named, leaves everything else as it was.
LEMMA KeptByOthers ==
    ASSUME Typed, NEW w \in Workers, Acts(w)
    PROVE  /\ \A c \in Contents : ContentKept(c) =>
                \/ ContentKept(c)'
                \/ (Holds(w) \/ pc[w] = "shooting") /\ content[w] = c
           /\ \A n \in Numbers : ShotsKept(n) =>
                \/ ShotsKept(n)'
                \/ Holds(w) /\ picture[w] /\ number[w] = n
<1>1. ASSUME NEW k \in Workers, k # w
      PROVE  /\ Holds(k)' <=> Holds(k)
             /\ pc'[k] = pc[k] /\ content'[k] = content[k]
             /\ picture'[k] = picture[k] /\ number'[k] = number[k]
  BY <1>1, OthersKeep DEF Holds, Typed
<1>2. ASSUME NEW c \in Contents, ContentKept(c),
             ~((Holds(w) \/ pc[w] = "shooting") /\ content[w] = c)
      PROVE  ContentKept(c)'
  BY <1>1, <1>2, NamedStays DEF ContentKept
<1>3. ASSUME NEW n \in Numbers, ShotsKept(n), ~(Holds(w) /\ picture[w] /\ number[w] = n)
      PROVE  ShotsKept(n)'
  BY <1>1, <1>3, NamedStays DEF ShotsKept
<1>4. QED
  BY <1>2, <1>3

\* What w itself held it still holds, or a row names it, or it is gone.
LEMMA KeptByOwn ==
    ASSUME Typed, NEW w \in Workers, Acts(w), causes' = {}
    PROVE  /\ \A c \in blobs' :
                (Holds(w) \/ pc[w] = "shooting") /\ content[w] = c => ContentKept(c)'
           /\ \A n \in Numbers :
                Holds(w) /\ picture[w] /\ number[w] = n /\ shots'[n] # None => ShotsKept(n)'
<1> DEFINE Goal ==
      /\ \A c \in blobs' :
           (Holds(w) \/ pc[w] = "shooting") /\ content[w] = c => ContentKept(c)'
      /\ \A n \in Numbers :
           Holds(w) /\ picture[w] /\ number[w] = n /\ shots'[n] # None => ShotsKept(n)'
<1> USE DEF Typed, CallType
<1>1. ASSUME Holds(w)', content'[w] = content[w], number'[w] = number[w],
             Holds(w) => picture'[w] = picture[w]
      PROVE  Goal
  BY <1>1 DEF ContentKept, ShotsKept
<1>2. CASE UploadShots(w) \/ InsertDocument(w)
  <2>1. UNCHANGED local
    BY <1>2 DEF UploadShots, InsertDocument
  <2>2. Holds(w)'
    BY <1>2 DEF UploadShots, InsertDocument, Holds, Goto
  <2>3. QED
    BY <1>1, <2>1, <2>2 DEF local
<1>3. CASE InsertVersion(w)
  <2>1. UNCHANGED local
    BY <1>3 DEF InsertVersion
  <2>2. CASE Goto(w, "cleaning")
    BY <1>1, <2>1, <2>2 DEF local, Holds, Goto
  <2>3. CASE Store(w)
    <3>1. number[w] \in Numbers
      BY <1>3, StoringWork DEF InsertVersion
    <3>2. versions'[number[w]] = content[w] /\ (picture[w] => number[w] \in pictured')
      BY <2>3, <3>1 DEF Store, TableType
    <3>3. ASSUME NEW c, c = content[w]
          PROVE  ContentKept(c)'
      BY <3>1, <3>2, <3>3 DEF ContentKept, Named
    <3>4. ASSUME NEW n \in Numbers, picture[w], n = number[w]
          PROVE  ShotsKept(n)'
      BY <3>2, <3>4 DEF ShotsKept
    <3>5. QED
      BY <3>3, <3>4
  <2>4. QED
    BY <1>3, <2>2, <2>3 DEF InsertVersion
<1>4. CASE CleanUp(w)
  <2>1. content[w] \notin blobs' /\ number[w] \in Numbers
    BY <1>4, StoringWork DEF CleanUp
  <2>2. picture[w] => shots'[number[w]] = None
    BY <1>4, <2>1 DEF CleanUp, ShotsLeft, TableType
  <2>3. QED
    BY <2>1, <2>2
<1>5. CASE RaiseShooting(w)
  <2>1. Holds(w)' /\ ~Holds(w) /\ UNCHANGED <<content, number>>
    BY <1>5 DEF RaiseShooting, Holds, Goto
  <2>2. QED
    BY <1>1, <2>1
<1>6. CASE RaiseInserting(w)
  <2>1. Holds(w)' /\ UNCHANGED local
    BY <1>6 DEF RaiseInserting, Holds, Goto
  <2>2. QED
    BY <1>1, <2>1 DEF local
<1>7. CASE Start(w) \/ FindSame(w) \/ ReadLast(w) \/ UploadContent(w) \/ PointCurrent(w)
             \/ RaiseEarly(w) \/ RaisePointing(w)
  <2>1. pc[w] \in {"idle", "matching", "numbering", "uploading", "pointing"}
    BY <1>7, StartKinds DEF Create, AddVersion, MakeCurrent, Begin, FindSame, ReadLast,
       UploadContent, PointCurrent, RaiseEarly, RaisePointing
  <2>2. QED
    BY <2>1 DEF Holds
<1>8. CASE Stop(w)
  BY <1>8 DEF Stop
<1>9. QED
  BY <1>2, <1>3, <1>4, <1>5, <1>6, <1>7, <1>8 DEF Acts, Upload, Fail

\* What a step puts into storage its worker holds.
LEMMA ObjectsHeld ==
    ASSUME Typed, NEW w \in Workers, Acts(w), causes' = {}
    PROVE  /\ causes = {}
           /\ \A c \in blobs' : c \in blobs \/ ContentKept(c)'
           /\ \A n \in Numbers : shots'[n] # None => shots[n] # None \/ ShotsKept(n)'
<1> DEFINE Goal ==
      /\ causes = {}
      /\ \A c \in blobs' : c \in blobs \/ ContentKept(c)'
      /\ \A n \in Numbers : shots'[n] # None => shots[n] # None \/ ShotsKept(n)'
<1> USE DEF Typed, CallType, objects, ghosts
<1>1. CASE Start(w)
  BY <1>1, StartKinds DEF Create, AddVersion, MakeCurrent
<1>2. CASE FindSame(w) \/ ReadLast(w) \/ InsertDocument(w) \/ InsertVersion(w)
             \/ PointCurrent(w) \/ RaiseInserting(w) \/ RaisePointing(w)
  BY <1>2 DEF FindSame, ReadLast, InsertDocument, InsertVersion, PointCurrent,
     RaiseInserting, RaisePointing
<1>3. CASE UploadContent(w)
  <2>1. /\ blobs' = blobs \cup {content[w]} /\ UNCHANGED <<shots, causes, content>>
        /\ pc'[w] \in {"shooting", "registering", "inserting"}
    BY <1>3 DEF UploadContent, Goto, local
  <2>2. ContentKept(content[w])'
    BY <2>1 DEF ContentKept, Holds
  <2>3. QED
    BY <2>1, <2>2
<1>4. CASE UploadShots(w)
  <2>1. /\ shots' = [shots EXCEPT ![number[w]] = content[w]]
        /\ UNCHANGED <<blobs, causes, number, picture>>
        /\ pc'[w] \in {"registering", "inserting"}
    BY <1>4 DEF UploadShots, Goto, local
  <2>2. picture[w] /\ number[w] \in Numbers
    BY <1>4, StoringWork DEF UploadShots, WorkType, HasWork
  <2>3. ShotsKept(number[w])'
    BY <2>1, <2>2 DEF ShotsKept, Holds
  <2>4. QED
    BY <2>1, <2>3 DEF TableType
<1>5. CASE RaiseEarly(w)
  BY <1>5 DEF RaiseEarly
<1>6. CASE RaiseShooting(w)
  <2>1. picture[w] /\ number[w] \in Numbers
    BY <1>6, StoringWork DEF RaiseShooting, WorkType, HasWork
  <2>2. /\ shots' \in {shots, [shots EXCEPT ![number[w]] = content[w]]}
        /\ UNCHANGED <<blobs, number>> /\ pc'[w] = "cleaning"
        /\ causes = {} /\ (picture' = picture \/ shots' = shots)
    BY <1>6 DEF RaiseShooting, Goto
  <2>3. CASE shots' = shots
    BY <2>2, <2>3
  <2>4. CASE picture' = picture
    <3>1. ShotsKept(number[w])'
      BY <2>1, <2>2, <2>4 DEF ShotsKept, Holds
    <3>2. QED
      BY <2>2, <3>1 DEF TableType
  <2>5. QED
    BY <2>2, <2>3, <2>4
<1>7. CASE CleanUp(w)
  BY <1>7 DEF CleanUp, ShotsLeft, TableType
<1>8. CASE Stop(w)
  BY <1>8 DEF Stop
<1>9. QED
  BY <1>1, <1>2, <1>3, <1>4, <1>5, <1>6, <1>7, <1>8 DEF Acts, Upload, Fail

LEMMA OrphansStep ==
    ASSUME Typed, NoOrphans, [Next]_vars
    PROVE  NoOrphans'
<1>1. CASE Next
  <2>1. PICK w \in Workers : Acts(w)
    BY <1>1, StepActs
  <2> SUFFICES ASSUME causes' = {}
               PROVE  /\ \A c \in blobs' : ContentKept(c)'
                      /\ \A n \in Numbers : shots'[n] # None => ShotsKept(n)'
    BY DEF NoOrphans, ContentKept, ShotsKept
  <2>2. /\ \A c \in blobs : ContentKept(c)
        /\ \A n \in Numbers : shots[n] # None => ShotsKept(n)
    BY <2>1, ObjectsHeld, OrphansMeans
  <2>3. ASSUME NEW c \in blobs'
        PROVE  ContentKept(c)'
    <3>1. CASE c \in blobs
      <4>1. c \in Contents /\ ContentKept(c)
        BY <2>2, <3>1 DEF Typed, TableType
      <4>2. \/ ContentKept(c)'
            \/ (Holds(w) \/ pc[w] = "shooting") /\ content[w] = c
        BY <2>1, <4>1, KeptByOthers
      <4>3. QED
        BY <2>1, <2>3, <4>2, KeptByOwn
    <3>2. CASE c \notin blobs
      BY <2>1, <2>3, <3>2, ObjectsHeld
    <3>3. QED
      BY <3>1, <3>2
  <2>4. ASSUME NEW n \in Numbers, shots'[n] # None
        PROVE  ShotsKept(n)'
    <3>1. CASE shots[n] # None
      <4>1. \/ ShotsKept(n)'
            \/ Holds(w) /\ picture[w] /\ number[w] = n
        BY <2>1, <2>2, <3>1, KeptByOthers
      <4>2. QED
        BY <2>1, <2>4, <4>1, KeptByOwn
    <3>2. CASE shots[n] = None
      BY <2>1, <2>4, <3>2, ObjectsHeld
    <3>3. QED
      BY <3>1, <3>2
  <2>5. QED
    BY <2>3, <2>4
<1>2. CASE UNCHANGED vars
  BY <1>2 DEF vars, rows, objects, local, ghosts, NoOrphans, Named, Holds
<1>3. QED
  BY <1>1, <1>2

\* An object belongs to a row or to an upload at work, unless an upload ended
\* before it cleaned up.
THEOREM NoOrphansHolds == Spec => []NoOrphans
<1>1. Init => NoOrphans
  BY DEF Init, NoOrphans
<1>2. Typed /\ NoOrphans /\ [Next]_vars => NoOrphans'
  BY OrphansStep
<1>3. QED
  BY TypedHolds, <1>1, <1>2, PTL DEF Spec

-------------------------------------------------------------------------------
(* The versions implement the log                                          *)

\* The version a worker makes current has its row.
RowThere(w) == pc[w] = "pointing" => Row(number[w])

LogInv ==
    /\ Fresh
    /\ NoGaps
    /\ \A w \in Workers : RowThere(w)

\* A row stays.
LEMMA RowStays ==
    ASSUME Typed, NEW w \in Workers, Acts(w), NEW n \in Numbers, Row(n)
    PROVE  Row(n)'
<1>1. UNCHANGED <<versions, pictured>> \/ Inserts(w)
  BY RowsKeep
<1>2. QED
  BY <1>1 DEF Row, Inserts, Store, Storable, Typed, TableType

\* Its own row is there when a worker is about to point at it.
LEMMA RowThereOwn ==
    ASSUME Typed, Typed', NEW w \in Workers, RowThere(w), Acts(w)
    PROVE  RowThere(w)'
<1> SUFFICES ASSUME pc'[w] = "pointing"
             PROVE  Row(number[w])'
  BY DEF RowThere
<1> USE DEF Typed, CallType, local, Goto, Done
<1>1. CASE Start(w)
  <2>1. ASSUME NEW c \in Contents, NEW p \in BOOLEAN, Create(w, c, p) \/ AddVersion(w, c, p)
        PROVE  FALSE
    BY <2>1 DEF Create, AddVersion
  <2>2. ASSUME NEW n \in Numbers, MakeCurrent(w, n)
        PROVE  Row(number[w])'
    BY <2>2 DEF MakeCurrent, rows, Row
  <2>3. QED
    BY <1>1, <2>1, <2>2, StartKinds
<1>2. CASE FindSame(w)
  <2>1. PICK n \in Numbers : versions[n] = content[w] /\ number'[w] = n
    BY <1>2 DEF FindSame
  <2>2. content[w] \in Contents /\ UNCHANGED versions
    BY <1>2 DEF FindSame, rows, WorkType, HasWork
  <2>3. QED
    BY <2>1, <2>2 DEF Row
<1>3. CASE InsertVersion(w)
  <2>1. Store(w) /\ UNCHANGED number
    BY <1>3 DEF InsertVersion
  <2>2. number[w] \in Numbers /\ content[w] \in Contents
    BY <1>3, StoringWork DEF InsertVersion
  <2>3. QED
    BY <2>1, <2>2 DEF Store, Row, TableType
<1>4. CASE ReadLast(w) \/ UploadContent(w) \/ UploadShots(w) \/ InsertDocument(w)
  BY <1>4 DEF ReadLast, UploadContent, UploadShots, InsertDocument
<1>5. CASE PointCurrent(w) \/ CleanUp(w) \/ RaiseEarly(w) \/ RaiseShooting(w)
             \/ RaiseInserting(w) \/ RaisePointing(w) \/ Stop(w)
  BY <1>5 DEF PointCurrent, CleanUp, RaiseEarly, RaiseShooting, RaiseInserting,
     RaisePointing, Stop
<1>6. QED
  BY <1>1, <1>2, <1>3, <1>4, <1>5 DEF Acts, Upload, Fail

LEMMA LogInvStep ==
    ASSUME Typed, Typed', LogInv, [Next]_vars
    PROVE  LogInv'
<1>1. CASE Next
  <2>1. PICK w \in Workers : Acts(w)
    BY <1>1, StepActs
  <2>2. Fresh' /\ NoGaps'
    BY <2>1, FreshStep, GapsStep DEF LogInv
  <2>3. ASSUME NEW k \in Workers
        PROVE  RowThere(k)'
    <3>1. CASE k = w
      BY <2>1, <3>1, RowThereOwn DEF LogInv
    <3>2. CASE k # w
      <4>1. pc'[k] = pc[k] /\ number'[k] = number[k]
        BY <2>1, <3>2, OthersKeep DEF Typed
      <4>2. pc[k] = "pointing" => number[k] \in Numbers
        BY DEF Typed, WorkType, HasWork
      <4>3. pc[k] = "pointing" => Row(number[k])'
        BY <2>1, <4>1, <4>2, RowStays DEF LogInv, RowThere, Row
      <4>4. QED
        BY <4>1, <4>3 DEF RowThere
    <3>3. QED
      BY <3>1, <3>2
  <2>4. QED
    BY <2>2, <2>3 DEF LogInv
<1>2. CASE UNCHANGED vars
  BY <1>2 DEF vars, rows, local, ghosts, LogInv, Fresh, NoGaps, RowThere, Numbered,
     Storing, Row
<1>3. QED
  BY <1>1, <1>2

\* The current version moves only to one that has a row, while the rows stay.
LEMMA CurrentMoves ==
    ASSUME Typed, LogInv, NEW w \in Workers, Acts(w)
    PROVE  \/ UNCHANGED current
           \/ /\ Row(number[w]) /\ number[w] \in Numbers
              /\ current' = number[w] /\ UNCHANGED versions
<1> USE DEF rows
<1>1. CASE PointCurrent(w) \/ RaisePointing(w)
  <2>1. pc[w] = "pointing" /\ UNCHANGED versions /\ current' \in {current, number[w]}
    BY <1>1 DEF PointCurrent, RaisePointing, Pointed
  <2>2. number[w] \in Numbers /\ Row(number[w])
    BY <2>1 DEF LogInv, RowThere, Typed, WorkType, HasWork
  <2>3. QED
    BY <2>1, <2>2
<1>2. CASE Start(w)
  BY <1>2, StartKinds DEF Create, AddVersion, MakeCurrent
<1>3. CASE FindSame(w) \/ ReadLast(w) \/ UploadContent(w) \/ UploadShots(w)
             \/ InsertDocument(w) \/ InsertVersion(w) \/ CleanUp(w)
  BY <1>3 DEF FindSame, ReadLast, UploadContent, UploadShots, InsertDocument,
     InsertVersion, CleanUp
<1>4. CASE RaiseEarly(w) \/ RaiseShooting(w) \/ RaiseInserting(w) \/ Stop(w)
  BY <1>4 DEF RaiseEarly, RaiseShooting, RaiseInserting, Stop
<1>5. QED
  BY <1>1, <1>2, <1>3, <1>4 DEF Acts, Upload, Fail

LEMMA LogInit == Init => Log!Init
BY DEF Init, Log!Init

LEMMA LogStep ==
    ASSUME Typed, LogInv, [Next]_vars
    PROVE  [Log!Next]_(Log!vars)
<1>1. CASE Next
  <2>1. PICK w \in Workers : Acts(w)
    BY <1>1, StepActs
  <2>2. UNCHANGED <<versions, pictured>> \/ Inserts(w)
    BY <2>1, RowsKeep
  <2>3. CASE UNCHANGED versions /\ UNCHANGED current
    BY <2>3 DEF Log!vars
  <2>4. CASE UNCHANGED versions /\ current' # current
    <3>1. Log!Select(number[w]) /\ number[w] \in Numbers
      BY <2>1, <2>4, CurrentMoves DEF Row, Log!Select
    <3>2. QED
      BY <3>1 DEF Log!Next
  <2>5. CASE Inserts(w) /\ versions' # versions
    <3>1. number[w] \in Numbers /\ content[w] \in Contents /\ Numbered(w)
      BY <2>5, StoringWork DEF Inserts
    <3>2. \A k \in Numbers : versions[k] # content[w]
      BY <2>5 DEF Inserts, Storable, Named
    <3>3. /\ versions[number[w]] = None
          /\ \A k \in Numbers : k < number[w] => versions[k] # None
      BY <2>5, <3>1 DEF Inserts, Storable, LogInv, NoGaps, Row
    <3>4. versions' = [versions EXCEPT ![number[w]] = content[w]]
      BY <2>5 DEF Inserts, Store
    <3>5. UNCHANGED current
      BY <2>1, <2>5, CurrentMoves
    <3>6. Log!Append(content[w])
      BY <3>1, <3>2, <3>3, <3>4, <3>5 DEF Log!Append
    <3>7. QED
      BY <3>1, <3>6 DEF Log!Next
  <2>6. QED
    BY <2>2, <2>3, <2>4, <2>5
<1>2. CASE UNCHANGED vars
  BY <1>2 DEF vars, rows, Log!vars
<1>3. QED
  BY <1>1, <1>2

\* The history of a document is a log: each version goes to the first free number
\* with a file the others do not have, stays, and only what is in the list can be
\* current, however uploads race and fail.
THEOREM ImplementsLog == Spec => LogSpec
<1>1. Init => Log!Init
  BY LogInit
<1>2. Init => LogInv
  BY NewestInit DEF NewestInv, LogInv, Init, RowThere
<1>3. Typed /\ LogInv /\ [Next]_vars => [Log!Next]_(Log!vars)
  BY LogStep
<1>4. Typed /\ Typed' /\ LogInv /\ [Next]_vars => LogInv'
  BY LogInvStep
<1>5. QED
  BY TypedHolds, <1>1, <1>2, <1>3, <1>4, PTL DEF Spec, LogSpec, Log!Spec

\* What every log keeps.
LEMMA LogKeeps ==
    ASSUME Typed, HistorySound, [Log!Next]_(Log!vars)
    PROVE  /\ \A n \in Numbers : Row(n) => versions'[n] = versions[n]
           /\ HistorySound'
<1> USE DEF Typed, TableType, Row, HistorySound
<1>1. ASSUME NEW c \in Contents, Log!Append(c)
      PROVE  /\ \A n \in Numbers : Row(n) => versions'[n] = versions[n]
             /\ HistorySound'
  <2>1. PICK n \in Numbers : /\ versions[n] = None
                             /\ \A k \in Numbers : k < n => versions[k] # None
                             /\ versions' = [versions EXCEPT ![n] = c]
    BY <1>1 DEF Log!Append
  <2>2. /\ versions'[n] = c /\ UNCHANGED current
        /\ \A k \in Numbers : k # n => versions'[k] = versions[k]
    BY <1>1, <2>1 DEF Log!Append
  <2>3. \A k \in Numbers : Row(k) => k # n /\ versions'[k] = versions[k]
    BY <2>1, <2>2
  <2>4. ASSUME NEW m \in Numbers, NEW k \in Numbers, Row(m)', k <= m
        PROVE  Row(k)'
    <3>1. CASE k = n
      BY <2>2, <3>1
    <3>2. CASE k # n
      <4>1. CASE m = n
        BY <2>1, <2>2, <2>4, <3>2, <4>1 DEF Numbers
      <4>2. CASE m # n
        BY <2>2, <2>4, <3>2, <4>2
      <4>3. QED
        BY <4>1, <4>2
    <3>3. QED
      BY <3>1, <3>2
  <2>5. \A k \in Numbers : versions[k] # c
    BY <1>1 DEF Log!Append
  <2>6. ASSUME NEW m \in Numbers, NEW k \in Numbers, Row(m)', versions'[m] = versions'[k]
        PROVE  m = k
    BY <2>2, <2>5, <2>6
  <2>7. current' # 0 => current' \in Numbers /\ Row(current)'
    BY <2>2, <2>3
  <2>8. QED
    BY <2>3, <2>4, <2>6, <2>7
<1>2. ASSUME NEW n \in Numbers, Log!Select(n)
      PROVE  /\ \A k \in Numbers : Row(k) => versions'[k] = versions[k]
             /\ HistorySound'
  BY <1>2 DEF Log!Select
<1>3. CASE UNCHANGED Log!vars
  BY <1>3 DEF Log!vars
<1>4. QED
  BY <1>1, <1>2, <1>3 DEF Log!Next

\* Whatever uploads race or fail, the numbers of a document have no gaps, no two
\* versions are the same file, and the current version is one of them.
THEOREM HistorySoundHolds == Spec => []HistorySound
<1>1. Log!Init => HistorySound
  BY DEF Log!Init, HistorySound, Row
<1>2. Typed /\ HistorySound /\ [Log!Next]_(Log!vars) => HistorySound'
  BY LogKeeps
<1>3. QED
  BY <1>1, <1>2, ImplementsLog, TypedHolds, PTL DEF LogSpec, Log!Spec

\* A version is never rewritten, nor its number used again: what fails cleans up
\* objects and no rows.
THEOREM HistoryKeptHolds == Spec => HistoryKept
<1>1. Typed /\ HistorySound /\ [Log!Next]_(Log!vars)
        => [\A n \in Numbers : Row(n) => versions'[n] = versions[n]]_vars
  BY LogKeeps
<1>2. QED
  BY <1>1, ImplementsLog, TypedHolds, HistorySoundHolds, PTL
     DEF LogSpec, Log!Spec, HistoryKept
===============================================================================
