--------------------------------- MODULE Deals ---------------------------------
(***************************************************************************)
(* One deal, the pipeline it follows and the file it gets                  *)
(* (backend/app/features/opportunities, and the catalogues of              *)
(* backend/app/features/settings that it is validated against and filled   *)
(* from).  update_opportunity checks a move against the declared           *)
(* transitions, writes the row, books the commission of a deal that is won *)
(* and, on agreement, copies the tenant's checklist into the deal.  An     *)
(* administrator meanwhile replaces transitions and checklist items, each  *)
(* by a DELETE and an INSERT.                                              *)
(*                                                                         *)
(* A worker is a process of the API: its handlers do not yield, so it has  *)
(* one call under way at a time, and it may end at any point.  A step is   *)
(* one call to the database.  No caller passes by_agent, so requires_human *)
(* refuses nothing and is left out; so is deleted_at, which neither the    *)
(* update nor the search for a commission reads.                           *)
(*                                                                         *)
(* Ghost variables: late, saved, torn, owed and causes record history and  *)
(* guard nothing; calls and failures bound what happens in a behaviour.    *)
(***************************************************************************)
EXTENDS Integers

CONSTANTS
    Stages,
    Agreement,    \* AGREEMENT_STAGES
    Patches,      \* the bodies of PATCH /opportunities/{id}
    RuleSets,     \* the transitions an administrator saves
    Workers,
    MaxCalls,     \* bound: calls begun
    MaxFailures,  \* bound: calls that raise and workers that end
    Unset,        \* a field the body leaves out
    Anywhere      \* from_stage NULL

Statuses == {"OPEN", "WON", "LOST"}
Rows     == [stage : Stages, status : Statuses, valued : BOOLEAN]
Rules    == [from : Stages \cup {Anywhere}, to : Stages]

ASSUME ConstantsAssumption ==
    /\ Agreement \subseteq Stages
    /\ Unset \notin Stages /\ Unset \notin Statuses /\ Unset \notin BOOLEAN
    /\ Anywhere \notin Stages
    /\ Patches \subseteq [stage : Stages \cup {Unset}, status : Statuses \cup {Unset},
                          valued : BOOLEAN \cup {Unset}]
    /\ RuleSets \subseteq SUBSET Rules
    /\ MaxCalls \in Nat
    /\ MaxFailures \in Nat

VARIABLES
    deal,         \* the row of opportunities
    piped,        \* its pipeline exists
    rules,        \* pipeline_transitions
    template,     \* "absent", "present", "deleted": the checklist template
    items,        \* the template has items
    receivables,  \* transactions that name the deal
    checklist,    \* "none", "bare", "full": the file of the deal
    pc,
    patch,        \* worker: the body of its update
    from,         \* worker: the stage it read
    payload,      \* worker: the transitions it is saving
    late,         \* worker: what it decided from has changed, or was torn
    saved,        \* the transitions of the last edit to begin
    torn,         \* why the rules may be others, if they may
    owed,         \* what the updates so far had to leave behind
    causes,       \* why it may be missing or doubled
    calls,
    failures

catalogue == <<piped, rules, template, items>>
books     == <<receivables, checklist>>
local     == <<patch, from, payload>>
ghosts    == <<saved, torn, owed, causes>>
vars      == <<deal, catalogue, books, pc, local, late, ghosts, calls, failures>>

States == {"idle", "checking", "writing", "billing", "booking", "listing",
           "picking", "creating", "copying", "filling", "ruling", "itemizing"}

\* A patch that moves nothing.
Blank == [stage |-> Unset, status |-> Unset, valued |-> Unset]

TypeOK ==
    /\ deal \in Rows
    /\ piped \in BOOLEAN
    /\ rules \in SUBSET Rules
    /\ template \in {"absent", "present", "deleted"}
    /\ items \in BOOLEAN
    /\ receivables \in Nat
    /\ checklist \in {"none", "bare", "full"}
    /\ pc \in [Workers -> States]
    /\ patch \in [Workers -> Patches \cup {Blank}]
    /\ \A w \in Workers : pc[w] = "checking" => patch[w].stage \in Stages
    /\ from \in [Workers -> Stages \cup {Unset}]
    /\ payload \in [Workers -> SUBSET Rules]
    /\ late \in [Workers -> BOOLEAN]
    /\ saved \in SUBSET Rules
    /\ torn \subseteq {"overlap", "ended"}
    /\ owed \subseteq {"receivable", "file"}
    /\ causes \subseteq {"overlap", "ended", "blank"}
    /\ calls \in 0..MaxCalls
    /\ failures \in 0..MaxFailures

\* A deal that was created open, and catalogues as an administrator saved them.
Init ==
    /\ deal \in [stage : Stages \ Agreement, status : {"OPEN"}, valued : BOOLEAN]
    /\ piped \in BOOLEAN
    /\ rules \in IF piped THEN RuleSets ELSE {{}}
    /\ template \in {"absent", "present"}
    /\ items \in IF template = "present" THEN BOOLEAN ELSE {FALSE}
    /\ receivables = 0
    /\ checklist = "none"
    /\ pc = [w \in Workers |-> "idle"]
    /\ patch = [w \in Workers |-> Blank]
    /\ from = [w \in Workers |-> Unset]
    /\ payload = [w \in Workers |-> {}]
    /\ late = [w \in Workers |-> FALSE]
    /\ saved = rules
    /\ torn = {}
    /\ owed = {}
    /\ causes = {}
    /\ calls = 0
    /\ failures = 0

-------------------------------------------------------------------------------
(* Helpers                                                                 *)

Goto(w, to) == pc' = [pc EXCEPT ![w] = to]

\* A request arrives at an idle worker.
Begin(w) == pc[w] = "idle" /\ calls < MaxCalls /\ calls' = calls + 1

\* The call is over and its variables are gone.
Done(w) ==
    /\ Goto(w, "idle")
    /\ patch' = [patch EXCEPT ![w] = Blank]
    /\ from' = [from EXCEPT ![w] = Unset]
    /\ payload' = [payload EXCEPT ![w] = {}]

\* The call goes on from to, or is over.
Proceed(w, p, to) ==
    /\ Goto(w, to)
    /\ patch' = [patch EXCEPT ![w] = IF to = "idle" THEN Blank ELSE p]
    /\ from' = [from EXCEPT ![w] = Unset]
    /\ UNCHANGED payload

\* Mistakes the runs must notice: a body that clears what it leaves out, a sale
\* forgotten at agreement, a file forgotten at a sale, the check with its stages
\* swapped, a commission nobody looked for, an edit without its DELETE.
GivenAlways(new, old) == new
FileUnlessWon(p) ==
    IF p.stage \in Agreement /\ p.status # "WON" THEN "listing" ELSE "idle"
FollowOne(p, row) ==
    IF p.stage \in Agreement THEN "listing"
    ELSE IF p.status = "WON" /\ row.valued THEN "billing" ELSE "idle"
CheckSwapped(w) ==
    LET ok == patch[w].stage = from[w] \/ rules = {} \/ \E r \in rules :
                r.to = from[w] /\ r.from \in {patch[w].stage, Anywhere} IN
    /\ pc[w] = "checking"
    /\ ok /\ Goto(w, "writing") /\ UNCHANGED local
    /\ late' = [late EXCEPT ![w] = @ \/ rules # saved]
    /\ UNCHANGED <<deal, catalogue, books, ghosts, calls, failures>>
FindNothing(w) ==
    /\ pc[w] = "billing"
    /\ Goto(w, "booking")
    /\ UNCHANGED <<deal, catalogue, books, local, late, ghosts, calls, failures>>
ClearNothing(w, rs) ==
    /\ Begin(w)
    /\ piped
    /\ Goto(w, IF rs = {} THEN "idle" ELSE "ruling")
    /\ payload' = [payload EXCEPT ![w] = rs]
    /\ saved' = rs
    /\ torn' = IF \E k \in Workers : pc[k] = "ruling" THEN torn \cup {"overlap"}
               ELSE {}
    /\ UNCHANGED <<deal, catalogue, books, patch, from, late, owed, causes, failures>>

Given(new, old) == IF new = Unset THEN old ELSE new

\* What an update to the deal or its rules does to the others that have read
\* them; and a new commission to those that have looked for one.
Overtake(w, held) ==
    late' = [k \in Workers |->
               IF k = w THEN FALSE ELSE late[k] \/ pc[k] \in held]

\* assert_allowed, for a person.
Legal(rs, a, b) ==
    \/ a = b
    \/ rs = {}
    \/ \E r \in rs : r.to = b /\ r.from \in {a, Anywhere}

\* UNIQUE (pipeline_id, from_stage, to_stage) takes no two NULLs for equal.
Collides(rs) == \E r \in rs \cap rules : r.from # Anywhere

\* Where an update goes once its row is written, or its commission settled.
File(p) == IF p.stage \in Agreement THEN "listing" ELSE "idle"
Follow(p, row) ==
    IF p.status = "WON" /\ row.valued THEN "billing" ELSE File(p)

Failing == failures < MaxFailures /\ failures' = failures + 1

-------------------------------------------------------------------------------
(* update_opportunity                                                      *)

\* A body with a stage: the row is read, so that the move can be checked.
ReadDeal(w, p) ==
    LET checked == piped /\ deal.stage # p.stage IN
    /\ Begin(w)
    /\ p.stage # Unset
    /\ Goto(w, IF checked THEN "checking" ELSE "writing")
    /\ patch' = [patch EXCEPT ![w] = p]
    /\ from' = [from EXCEPT ![w] = deal.stage]
    /\ UNCHANGED <<deal, catalogue, books, payload, late, ghosts, failures>>

\* assert_allowed reads the transitions; a move it refuses is a 409.
CheckMove(w) ==
    LET ok == Legal(rules, from[w], patch[w].stage) IN
    /\ pc[w] = "checking"
    /\ \/ ok /\ Goto(w, "writing") /\ UNCHANGED local
       \/ ~ok /\ Done(w)
    /\ late' = [late EXCEPT ![w] = ok /\ (@ \/ rules # saved)]
    /\ UNCHANGED <<deal, catalogue, books, ghosts, calls, failures>>

\* The UPDATE, by id alone, of the fields the body has.
WriteDeal(w, p) ==
    LET row == [stage  |-> Given(p.stage, deal.stage),
                status |-> Given(p.status, deal.status),
                valued |-> Given(p.valued, deal.valued)] IN
    /\ \/ pc[w] = "writing" /\ p = patch[w] /\ UNCHANGED calls
       \/ Begin(w) /\ p.stage = Unset
    /\ deal' = row
    /\ Proceed(w, p, Follow(p, row))
    /\ IF row.stage = deal.stage
       THEN late' = [late EXCEPT ![w] = FALSE]
       ELSE Overtake(w, {"checking", "writing"})
    /\ owed' = owed
         \cup (IF p.status = "WON" /\ row.valued THEN {"receivable"} ELSE {})
         \cup (IF p.stage \in Agreement THEN {"file"} ELSE {})
    /\ UNCHANGED <<catalogue, books, saved, torn, causes, failures>>

\* _spawn_commission_receivable looks for a transaction that names the deal ...
FindReceivable(w) ==
    /\ pc[w] = "billing"
    /\ \/ receivables = 0 /\ Goto(w, "booking") /\ UNCHANGED local
       \/ receivables > 0 /\ Proceed(w, patch[w], File(patch[w]))
    /\ UNCHANGED <<deal, catalogue, books, late, ghosts, calls, failures>>

\* ... and inserts one if there was none.
Book(w) ==
    /\ pc[w] = "booking"
    /\ receivables' = receivables + 1
    /\ Proceed(w, patch[w], File(patch[w]))
    /\ Overtake(w, {"booking"})
    /\ causes' = IF late[w] THEN causes \cup {"overlap"} ELSE causes
    /\ UNCHANGED <<deal, catalogue, checklist, saved, torn, owed, calls, failures>>

\* _instantiate_checklist: a deal that has its file keeps it ...
FindChecklist(w) ==
    /\ pc[w] = "listing"
    /\ \/ checklist = "none" /\ Goto(w, "picking") /\ UNCHANGED local
       \/ checklist # "none" /\ Done(w)
    /\ UNCHANGED <<deal, catalogue, books, late, ghosts, calls, failures>>

PickTemplate(w) ==
    LET found == template = "present" IN
    /\ pc[w] = "picking"
    /\ \/ found /\ Goto(w, "creating") /\ UNCHANGED local
       \/ ~found /\ Done(w)
    /\ causes' = IF found THEN causes ELSE causes \cup {"blank"}
    /\ UNCHANGED <<deal, catalogue, books, late, saved, torn, owed, calls, failures>>

\* ... UNIQUE (opportunity_id) turns the second INSERT into an error, as the
\* foreign key does one that names a template that is gone ...
CreateChecklist(w) ==
    LET stored == checklist = "none" /\ template = "present" IN
    /\ pc[w] = "creating"
    /\ \/ /\ stored
          /\ Goto(w, "copying")
          /\ checklist' = "bare"
          /\ UNCHANGED local
       \/ ~stored /\ Done(w) /\ UNCHANGED checklist
    /\ causes' = IF template = "present" THEN causes ELSE causes \cup {"blank"}
    /\ UNCHANGED <<deal, catalogue, receivables, late, saved, torn, owed, calls,
                   failures>>

\* ... and the items follow, those the template has at that moment.
ReadItems(w) ==
    /\ pc[w] = "copying"
    /\ \/ items /\ Goto(w, "filling") /\ UNCHANGED local
       \/ ~items /\ Done(w)
    /\ causes' = IF items THEN causes ELSE causes \cup {"blank"}
    /\ UNCHANGED <<deal, catalogue, books, late, saved, torn, owed, calls, failures>>

FillChecklist(w) ==
    /\ pc[w] = "filling"
    /\ Done(w)
    /\ checklist' = "full"
    /\ UNCHANGED <<deal, catalogue, receivables, late, ghosts, calls, failures>>

-------------------------------------------------------------------------------
(* The catalogues                                                          *)

\* update_pipeline, once the pipeline was found: _replace_transitions deletes
\* what there is ...
ClearRules(w, rs) ==
    /\ Begin(w)
    /\ piped
    /\ rules' = {}
    /\ Goto(w, IF rs = {} THEN "idle" ELSE "ruling")
    /\ payload' = [payload EXCEPT ![w] = rs]
    /\ Overtake(w, {"checking", "writing"})
    /\ saved' = rs
    /\ torn' = IF \E k \in Workers : pc[k] = "ruling" THEN torn \cup {"overlap"}
               ELSE {}
    /\ UNCHANGED <<deal, piped, template, items, books, patch, from, owed, causes,
                   failures>>

\* ... and inserts the new ones, all or none: a constraint may refuse them.
InsertRules(w) ==
    /\ pc[w] = "ruling"
    /\ Done(w)
    /\ rules' = IF piped /\ ~Collides(payload[w]) THEN rules \cup payload[w]
                ELSE rules
    /\ Overtake(w, {"checking", "writing"})
    /\ UNCHANGED <<deal, piped, template, items, books, ghosts, calls, failures>>

\* delete_pipeline: transitions go with it, the deal is left without one.
DeletePipeline(w) ==
    /\ Begin(w)
    /\ piped
    /\ piped' = FALSE
    /\ rules' = {}
    /\ saved' = {}
    /\ Overtake(w, {"checking", "writing"})
    /\ UNCHANGED <<deal, template, items, books, pc, local, torn, owed, causes,
                   failures>>

\* create_checklist_template, and update_checklist_template up to the DELETE of
\* _replace_items: until the INSERT the template has no items.
ClearItems(w) ==
    /\ Begin(w)
    /\ template \in {"absent", "present"}
    /\ template' = "present"
    /\ items' = FALSE
    /\ \E to \in {"idle", "itemizing"} : Goto(w, to)
    /\ UNCHANGED <<deal, piped, rules, books, local, late, ghosts, failures>>

\* Positions are 1..n and unique, so nothing is added to items that are there.
InsertItems(w) ==
    /\ pc[w] = "itemizing"
    /\ Done(w)
    /\ items' = (template = "present")
    /\ UNCHANGED <<deal, piped, rules, template, books, late, ghosts, calls, failures>>

DeleteTemplate(w) ==
    /\ Begin(w)
    /\ template = "present"
    /\ template' = "deleted"
    /\ items' = FALSE
    /\ UNCHANGED <<deal, piped, rules, books, pc, local, late, ghosts, failures>>

-------------------------------------------------------------------------------
\* A call to the database raises, or the process ends: the rest is not done.
Fail(w) ==
    /\ pc[w] # "idle"
    /\ Failing
    /\ Done(w)
    /\ late' = [late EXCEPT ![w] = FALSE]
    /\ torn' = IF pc[w] = "ruling" THEN torn \cup {"ended"} ELSE torn
    /\ causes' = IF pc[w] \in {"ruling", "itemizing"} THEN causes
                 ELSE causes \cup {"ended"}
    /\ UNCHANGED <<deal, catalogue, books, saved, owed, calls>>

Update(w) ==
    \/ \E p \in Patches : ReadDeal(w, p) \/ WriteDeal(w, p)
    \/ CheckMove(w)
    \/ FindReceivable(w) \/ Book(w)
    \/ FindChecklist(w) \/ PickTemplate(w) \/ CreateChecklist(w)
    \/ ReadItems(w) \/ FillChecklist(w)

Administer(w) ==
    \/ \E rs \in RuleSets : ClearRules(w, rs)
    \/ InsertRules(w) \/ DeletePipeline(w)
    \/ ClearItems(w) \/ InsertItems(w) \/ DeleteTemplate(w)

Next == \E w \in Workers : Update(w) \/ Administer(w) \/ Fail(w)

Spec == Init /\ [][Next]_vars

-------------------------------------------------------------------------------
(* Properties                                                              *)

\* service.py:199 and transitions.py: a deal moves only along a transition the
\* tenant declared last, however moves and edits of the pipeline interleave;
\* unless stage or transitions changed between the check and the write, or the
\* check read transitions that were being replaced.
MovesDeclared ==
    [][ deal'.stage # deal.stage =>
          \E w \in Workers : /\ pc[w] = "writing" /\ pc'[w] # "writing"
                             /\ \/ late[w]
                                \/ ~piped
                                \/ Legal(saved, deal.stage, deal'.stage) ]_vars

\* The transitions in force are those of one edit, the last to begin, except
\* while one is at work and after edits that overlapped or ended half-way: an
\* edit that lost its INSERT leaves the pipeline without any constraint.
RulesWhole ==
    torn = {} /\ (\A w \in Workers : pc[w] # "ruling") => rules = saved

\* A deal with a value that an update won has its commission receivable, or
\* the update that won it is about to book it, unless one ended half-way.
WonIsBooked ==
    "receivable" \in owed /\ "ended" \notin causes =>
        \/ receivables > 0
        \/ \E w \in Workers : pc[w] \in {"billing", "booking"}

\* A deal has two receivables only if two updates both looked before either
\* inserted.
BookedOnce == receivables > 1 => "overlap" \in causes

\* A deal that was won owes one commission, however its updates raced: it is
\* booked or about to be, and once, but for the two causes above.
CommissionRight == WonIsBooked /\ BookedOnce

\* A worker that has the file of the deal still before it.
Ahead(w) ==
    \/ pc[w] \in {"listing", "picking", "creating"}
    \/ pc[w] \in {"billing", "booking"} /\ patch[w].stage \in Agreement

\* A deal that an update brought to agreement has its file with its items, or
\* an update is about to write what is missing; unless one ended half-way, or
\* found no template or no items: the file is never filled later.
AgreedDealHasFile ==
    "file" \in owed /\ causes \cap {"ended", "blank"} = {} =>
        \/ checklist = "full"
        \/ checklist = "bare" /\ \E w \in Workers : pc[w] \in {"copying", "filling"}
        \/ checklist = "none" /\ \E w \in Workers : Ahead(w)
===============================================================================
