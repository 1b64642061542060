------------------------------- MODULE Documents -------------------------------
(***************************************************************************)
(* One document, its versions and the objects they name                    *)
(* (backend/app/features/documents/service.py).  Creating a document or    *)
(* adding a version uploads the content, and the camera shots if there are *)
(* any, then inserts the row that names them and makes it current; when    *)
(* one of those calls raises, what was uploaded is deleted again.  The     *)
(* content is stored under its hash and the shots under the number of the  *)
(* version, so two uploads may meet in one object.                         *)
(*                                                                         *)
(* A worker is a process of the API: its handlers do not yield, so it has  *)
(* one call under way at a time, and it may end at any point.  A step is   *)
(* one call to the database or to storage.  The raw and the normalized     *)
(* object of a content are one object here, and so are the shots of a      *)
(* version; thumbnails and deleted_at, which no step here reads, are left  *)
(* out.                                                                    *)
(*                                                                         *)
(* Ghost variables: met, passed, spoiled, aside and causes record history  *)
(* and guard nothing; calls and failures bound what happens in a           *)
(* behaviour.                                                              *)
(***************************************************************************)
EXTENDS Integers

CONSTANTS
    Contents,     \* files, told apart by the hash of the normalized content
    Workers,
    MaxVersions,  \* bound: version numbers
    MaxCalls,     \* bound: calls begun
    MaxFailures,  \* bound: calls that raise and workers that end
    None          \* no row, no object, no content

ASSUME ConstantsAssumption ==
    /\ None \notin Contents
    /\ MaxVersions \in Nat \ {0}
    /\ MaxCalls \in Nat
    /\ MaxFailures \in Nat

Numbers == 1..MaxVersions

VARIABLES
    document,   \* its row exists
    current,    \* the number of current_version_id, 0 for NULL
    versions,   \* number: the content its row names
    pictured,   \* the numbers whose row names shots
    blobs,      \* the contents in storage
    shots,      \* number: the content whose shots are stored under it
    pc,
    content,    \* worker: the file it handles
    picture,    \* worker: the request carries shots
    number,     \* worker: the version it makes, or makes current
    asked,      \* worker: it makes a version current that was there before
    met,        \* worker: another upload had its content or its number
    passed,     \* worker: a row went in after its own
    spoiled,    \* numbers whose upload met another, or raised after its row
    aside,      \* why the current version may not be the newest
    causes,     \* "ended": an upload stopped before it cleaned up
    calls,
    failures

rows    == <<document, current, versions, pictured>>
objects == <<blobs, shots>>
local   == <<content, picture, number, asked>>
ghosts  == <<met, passed, spoiled, aside, causes>>
vars    == <<rows, objects, pc, local, ghosts, calls, failures>>

States == {"idle", "matching", "numbering", "uploading", "shooting", "registering",
           "inserting", "pointing", "cleaning"}

TypeOK ==
    /\ document \in BOOLEAN
    /\ current \in 0..MaxVersions
    /\ versions \in [Numbers -> Contents \cup {None}]
    /\ pictured \subseteq Numbers
    /\ blobs \subseteq Contents
    /\ shots \in [Numbers -> Contents \cup {None}]
    /\ pc \in [Workers -> States]
    /\ content \in [Workers -> Contents \cup {None}]
    /\ picture \in [Workers -> BOOLEAN]
    /\ number \in [Workers -> 0..MaxVersions]
    /\ asked \in [Workers -> BOOLEAN]
    /\ \A w \in Workers : asked[w] => pc[w] = "pointing"
    /\ \A w \in Workers : pc[w] # "idle" /\ ~asked[w] => content[w] \in Contents
    /\ \A w \in Workers :
         pc[w] \notin {"idle", "matching", "numbering"} => number[w] \in Numbers
    /\ met \in [Workers -> BOOLEAN]
    /\ passed \in [Workers -> BOOLEAN]
    /\ spoiled \subseteq Numbers
    /\ aside \subseteq {"chosen", "overtaken", "ended"}
    /\ causes \subseteq {"ended"}
    /\ calls \in 0..MaxCalls
    /\ failures \in 0..MaxFailures

Init ==
    /\ document = FALSE
    /\ current = 0
    /\ versions = [n \in Numbers |-> None]
    /\ pictured = {}
    /\ blobs = {}
    /\ shots = [n \in Numbers |-> None]
    /\ pc = [w \in Workers |-> "idle"]
    /\ content = [w \in Workers |-> None]
    /\ picture = [w \in Workers |-> FALSE]
    /\ number = [w \in Workers |-> 0]
    /\ asked = [w \in Workers |-> FALSE]
    /\ met = [w \in Workers |-> FALSE]
    /\ passed = [w \in Workers |-> FALSE]
    /\ spoiled = {}
    /\ aside = {}
    /\ causes = {}
    /\ calls = 0
    /\ failures = 0

-------------------------------------------------------------------------------
(* Helpers                                                                 *)

Goto(w, to) == pc' = [pc EXCEPT ![w] = to]

Row(n) == versions[n] # None

\* n is the highest version number there is, 0 if there is none.
IsLast(n) ==
    /\ n = 0 \/ (n \in Numbers /\ Row(n))
    /\ \A k \in Numbers : Row(k) => k <= n

Named(c) == \E n \in Numbers : versions[n] = c

\* The call is over and its variables are gone.
Done(w) ==
    /\ Goto(w, "idle")
    /\ content' = [content EXCEPT ![w] = None]
    /\ picture' = [picture EXCEPT ![w] = FALSE]
    /\ number' = [number EXCEPT ![w] = 0]
    /\ asked' = [asked EXCEPT ![w] = FALSE]
    /\ met' = [met EXCEPT ![w] = FALSE]
    /\ passed' = [passed EXCEPT ![w] = FALSE]

\* w looked for its content and found none, and has not ended since.
Storing(w) ==
    \/ pc[w] \in {"numbering", "uploading", "shooting", "registering", "inserting",
                  "cleaning"}
    \/ pc[w] = "pointing" /\ ~asked[w]

\* Two uploads find out neither is stored: each meets the other.
Meet(w, others) ==
    met' = [k \in Workers |-> \/ met[k]
                              \/ k \in others
                              \/ k = w /\ others # {}]

\* Mistakes the runs must notice: a hash that is not looked up, a clean-up that
\* forgets the shots, a version made current only when there is none, one unique
\* index out of two, a version that takes the last number and not the next.
FindNothing(w) ==
    /\ pc[w] = "matching"
    /\ Goto(w, "numbering")
    /\ UNCHANGED <<rows, objects, local, ghosts, calls, failures>>
KeepShots(w) == shots
FirstStays(n) == IF current = 0 THEN n ELSE current
NumberFree(w) == ~Row(number[w])
TakeLast(w) ==
    /\ pc[w] = "numbering"
    /\ \E n \in 0..MaxVersions : IsLast(n) /\ number' = [number EXCEPT ![w] = n]
    /\ Goto(w, "uploading")
    /\ UNCHANGED <<rows, objects, content, picture, asked, ghosts, calls, failures>>

\* What is left of the shots when w cleans up, and what current becomes.
ShotsLeft(w) == IF picture[w] THEN [shots EXCEPT ![number[w]] = None] ELSE shots
Pointed(n) == n

Begin(w) == pc[w] = "idle" /\ calls < MaxCalls /\ calls' = calls + 1

Failing == failures < MaxFailures /\ failures' = failures + 1

-------------------------------------------------------------------------------
(* create_document_with_first_version and add_version                      *)

\* A new document has an id of its own, so nobody else can be at it.
Create(w, c, p) ==
    /\ calls = 0
    /\ Begin(w)
    /\ Goto(w, "uploading")
    /\ content' = [content EXCEPT ![w] = c]
    /\ picture' = [picture EXCEPT ![w] = p]
    /\ number' = [number EXCEPT ![w] = 1]
    /\ UNCHANGED <<rows, objects, asked, ghosts, failures>>

\* The document is found, also when it was deleted; otherwise a 404.
AddVersion(w, c, p) ==
    /\ Begin(w)
    /\ document
    /\ Goto(w, "matching")
    /\ content' = [content EXCEPT ![w] = c]
    /\ picture' = [picture EXCEPT ![w] = p]
    /\ UNCHANGED <<rows, objects, number, asked, ghosts, failures>>

\* restore_original_from_version: the original of a version, if storage still
\* has it, is added like a file.
RestoreOriginal(w, c) == Named(c) /\ c \in blobs /\ AddVersion(w, c, FALSE)

\* A version with this hash becomes current again; a new one needs a number.
FindSame(w) ==
    /\ pc[w] = "matching"
    /\ \/ \E n \in Numbers :
            /\ versions[n] = content[w]
            /\ Goto(w, "pointing")
            /\ number' = [number EXCEPT ![w] = n]
            /\ asked' = [asked EXCEPT ![w] = TRUE]
            /\ UNCHANGED met
       \/ /\ ~Named(content[w])
          /\ Goto(w, "numbering")
          /\ Meet(w, {k \in Workers \ {w} : Storing(k) /\ content[k] = content[w]})
          /\ UNCHANGED <<number, asked>>
    /\ UNCHANGED <<rows, objects, content, picture, passed, spoiled, aside, causes,
                   calls, failures>>

\* Numbers end at the bound.
ReadLast(w) ==
    /\ pc[w] = "numbering"
    /\ \E n \in 0..MaxVersions :
         /\ IsLast(n)
         /\ n < MaxVersions
         /\ number' = [number EXCEPT ![w] = n + 1]
         /\ Meet(w, {k \in Workers \ {w} : /\ Storing(k) /\ pc[k] # "numbering"
                                           /\ number[k] = n + 1})
    /\ Goto(w, "uploading")
    /\ UNCHANGED <<rows, objects, content, picture, asked, passed, spoiled, aside,
                   causes, calls, failures>>

\* Uploads overwrite.
UploadContent(w) ==
    /\ pc[w] = "uploading"
    /\ blobs' = blobs \cup {content[w]}
    /\ Goto(w, IF picture[w] THEN "shooting"
               ELSE IF document THEN "inserting" ELSE "registering")
    /\ UNCHANGED <<rows, shots, local, ghosts, calls, failures>>

UploadShots(w) ==
    /\ pc[w] = "shooting"
    /\ shots' = [shots EXCEPT ![number[w]] = content[w]]
    /\ Goto(w, IF document THEN "inserting" ELSE "registering")
    /\ UNCHANGED <<rows, blobs, local, ghosts, calls, failures>>

\* The row of a new document goes in before that of its version.
InsertDocument(w) ==
    /\ pc[w] = "registering"
    /\ document' = TRUE
    /\ Goto(w, "inserting")
    /\ UNCHANGED <<current, versions, pictured, objects, local, ghosts, calls, failures>>

\* The row of the version; those that came before it have been passed.
Store(w) ==
    /\ versions' = [versions EXCEPT ![number[w]] = content[w]]
    /\ pictured' = IF picture[w] THEN pictured \cup {number[w]} ELSE pictured
    /\ passed' = [k \in Workers |-> k # w /\ (passed[k] \/ pc[k] = "pointing")]

\* UNIQUE (document_id, version_number) and UNIQUE (document_id, sha256).
Storable(w) == ~Row(number[w]) /\ ~Named(content[w])

InsertVersion(w) ==
    /\ pc[w] = "inserting"
    /\ \/ /\ Storable(w)
          /\ Store(w)
          /\ Goto(w, "pointing")
          /\ spoiled' = IF met[w] THEN spoiled \cup {number[w]} ELSE spoiled
       \/ /\ ~Storable(w)
          /\ Goto(w, "cleaning")
          /\ UNCHANGED <<versions, pictured, passed, spoiled>>
    /\ UNCHANGED <<document, current, objects, local, met, aside, causes, calls,
                   failures>>

\* The UPDATE of current_version_id, by the id of the document.
PointCurrent(w) ==
    /\ pc[w] = "pointing"
    /\ current' = Pointed(number[w])
    /\ Done(w)
    /\ aside' = IF asked[w] THEN {"chosen"}
                ELSE IF passed[w] THEN {"overtaken"} ELSE {}
    /\ UNCHANGED <<document, versions, pictured, objects, spoiled, causes, calls,
                   failures>>

\* What was uploaded is deleted, whoever names it.
CleanUp(w) ==
    /\ pc[w] = "cleaning"
    /\ blobs' = blobs \ {content[w]}
    /\ shots' = ShotsLeft(w)
    /\ Done(w)
    /\ UNCHANGED <<rows, spoiled, aside, causes, calls, failures>>

\* set_current_version, once the version was found: versions are not deleted.
MakeCurrent(w, n) ==
    /\ Begin(w)
    /\ Row(n)
    /\ Goto(w, "pointing")
    /\ number' = [number EXCEPT ![w] = n]
    /\ asked' = [asked EXCEPT ![w] = TRUE]
    /\ UNCHANGED <<rows, objects, content, picture, ghosts, failures>>

-------------------------------------------------------------------------------
(* Failures                                                                *)

\* A read or the upload of the content raises: nothing is cleaned up, and the
\* content may be in storage.
RaiseEarly(w) ==
    /\ pc[w] \in {"matching", "numbering", "uploading"}
    /\ Failing
    /\ \/ UNCHANGED <<blobs, causes>>
       \/ /\ pc[w] = "uploading"
          /\ blobs' = blobs \cup {content[w]}
          /\ causes' = {"ended"}
    /\ Done(w)
    /\ UNCHANGED <<rows, shots, spoiled, aside, calls>>

\* The upload of a shot raises: the one that raised is not cleaned up, and may
\* be in storage; those before it, if there are any, are.
RaiseShooting(w) ==
    /\ pc[w] = "shooting"
    /\ Failing
    /\ Goto(w, "cleaning")
    /\ \/ /\ shots' \in {shots, [shots EXCEPT ![number[w]] = content[w]]}
          /\ UNCHANGED <<picture, causes>>
       \/ /\ picture' = [picture EXCEPT ![w] = FALSE]
          /\ UNCHANGED <<shots, causes>>
       \/ /\ picture' = [picture EXCEPT ![w] = FALSE]
          /\ shots' = [shots EXCEPT ![number[w]] = content[w]]
          /\ causes' = {"ended"}
    /\ UNCHANGED <<rows, blobs, content, number, asked, met, passed, spoiled, aside,
                   calls>>

\* An INSERT raises: it was done or it was not.
RaiseInserting(w) ==
    /\ pc[w] \in {"registering", "inserting"}
    /\ Failing
    /\ Goto(w, "cleaning")
    /\ \/ UNCHANGED <<rows, passed, spoiled, aside>>
       \/ /\ pc[w] = "registering"
          /\ document' = TRUE
          /\ UNCHANGED <<current, versions, pictured, passed, spoiled, aside>>
       \/ /\ pc[w] = "inserting"
          /\ Storable(w)
          /\ Store(w)
          /\ spoiled' = spoiled \cup {number[w]}
          /\ aside' = aside \cup {"ended"}
          /\ UNCHANGED <<document, current>>
    /\ UNCHANGED <<objects, local, met, causes, calls>>

\* The UPDATE raises, done or not.  After an INSERT of this call the objects of
\* the row are then deleted.
RaisePointing(w) ==
    /\ pc[w] = "pointing"
    /\ Failing
    /\ current' \in {current, number[w]}
    /\ \/ /\ asked[w]
          /\ Done(w)
          /\ aside' = IF current' = current THEN aside ELSE {"chosen"}
          /\ UNCHANGED spoiled
       \/ /\ ~asked[w]
          /\ Goto(w, "cleaning")
          /\ spoiled' = spoiled \cup {number[w]}
          /\ aside' = aside \cup {"ended"}
          /\ UNCHANGED <<local, met, passed>>
    /\ UNCHANGED <<document, versions, pictured, objects, causes, calls>>

\* A deletion raises, which is logged, or the process ends.
Stop(w) ==
    /\ pc[w] # "idle"
    /\ Failing
    /\ \/ UNCHANGED objects
       \/ /\ pc[w] = "cleaning"
          /\ \/ blobs' = blobs \ {content[w]} /\ UNCHANGED shots
             \/ shots' = ShotsLeft(w) /\ UNCHANGED blobs
    /\ Done(w)
    /\ causes' = {"ended"}
    /\ aside' = IF pc[w] = "pointing" /\ ~asked[w] THEN aside \cup {"ended"} ELSE aside
    /\ UNCHANGED <<rows, spoiled, calls>>

-------------------------------------------------------------------------------
Upload(w) ==
    \/ FindSame(w) \/ ReadLast(w)
    \/ UploadContent(w) \/ UploadShots(w)
    \/ InsertDocument(w) \/ InsertVersion(w)
    \/ PointCurrent(w) \/ CleanUp(w)

Start(w) ==
    \/ \E c \in Contents, p \in BOOLEAN : Create(w, c, p) \/ AddVersion(w, c, p)
    \/ \E c \in Contents : RestoreOriginal(w, c)
    \/ \E n \in Numbers : MakeCurrent(w, n)

Fail(w) ==
    \/ RaiseEarly(w) \/ RaiseShooting(w) \/ RaiseInserting(w) \/ RaisePointing(w)
    \/ Stop(w)

Next == \E w \in Workers : Start(w) \/ Upload(w) \/ Fail(w)

Spec == Init /\ [][Next]_vars

-------------------------------------------------------------------------------
(* Properties                                                              *)

\* What the row of a version names is in storage, and is what was uploaded for
\* it, although clean-ups delete by path; unless its own upload met another of
\* the same content or number before its row was in, or raised after it.
VersionsWhole ==
    \A n \in Numbers : Row(n) /\ n \notin spoiled =>
        /\ versions[n] \in blobs
        /\ n \in pictured => shots[n] = versions[n]

\* The current version is the newest, once those that stored a row have pointed
\* at it; unless a person or a known hash chose another, an upload was overtaken
\* between its two writes, or one ended there.
NewestIsCurrent ==
    aside = {} /\ (\A w \in Workers : ~(pc[w] = "pointing" /\ ~asked[w])) =>
        IsLast(current)

\* An object no row names belongs to an upload at work: what fails is cleaned up,
\* unless the process ended, the content itself failed to upload or a deletion
\* failed.
Holds(w) == pc[w] \in {"registering", "inserting", "cleaning"}
NoOrphans ==
    causes = {} =>
        /\ \A c \in blobs :
             \/ Named(c)
             \/ \E w \in Workers : (Holds(w) \/ pc[w] = "shooting") /\ content[w] = c
        /\ \A n \in Numbers : shots[n] # None =>
             \/ n \in pictured
             \/ \E w \in Workers : Holds(w) /\ picture[w] /\ number[w] = n

\* service.py:552, "Cleanup orphaned blobs": what is deleted is named by no row.
CleansOnlyOrphans ==
    [][ \A c \in Contents : c \in blobs /\ c \notin blobs' => ~Named(c)' ]_vars

Log == INSTANCE VersionLog WITH log <- versions

\* The versions of a document are an append-only list of distinct files, and the
\* current version is one of them, although the next number is read and then
\* inserted, uploads race, and what fails is cleaned up.
LogSpec == Log!Spec

\* What the log keeps: numbers without gaps, no file twice, a current version
\* that is there ...
HistorySound ==
    /\ \A n, k \in Numbers : Row(n) /\ k <= n => Row(k)
    /\ \A n, k \in Numbers : Row(n) /\ versions[n] = versions[k] => n = k
    /\ current # 0 => current \in Numbers /\ Row(current)

\* ... and versions that are never rewritten or taken back.
HistoryKept == [][\A n \in Numbers : Row(n) => versions'[n] = versions[n]]_vars
===============================================================================
