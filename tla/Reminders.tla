------------------------------ MODULE Reminders -------------------------------
(***************************************************************************)
(* The job that delivers reminders (backend/app/features/jobs/service.py): *)
(* recover what an earlier run left in SENDING, claim a batch of due rows, *)
(* push each one to the devices of its user, write the outcome.            *)
(*                                                                         *)
(* Cloud Scheduler fires the job every five minutes and delivers at least  *)
(* once; a fire is served by any instance.  A runner is one such call; it  *)
(* may be slow, and it may die.  A step is one call to the database, or    *)
(* one call of send_push: its pushes touch nothing the other steps read.   *)
(* Reminders are numbered in the order of remind_at.  One may be created   *)
(* at any time, when it is due already included, and a person's devices    *)
(* come and go.                                                            *)
(*                                                                         *)
(* Ghost variables: pushed, repeated and lost record history and guard     *)
(* nothing; crashes bounds the deaths of a behaviour.                      *)
(***************************************************************************)
EXTENDS Integers, FiniteSets

CONSTANTS
    Count,       \* number of reminders
    Runners,     \* calls of the job that may run at the same time
    DevicesOf,   \* DevicesOf[m]: the push subscriptions of the user of m
    Batch,       \* CLAIM_BATCH
    Attempts,    \* SEND_ATTEMPTS
    MaxCrashes,  \* bound: how many runners die
    NoReminder

Reminders == 1..Count

Devices == UNION {DevicesOf[m] : m \in Reminders}

ASSUME ConstantsAssumption ==
    /\ Count \in Nat
    /\ DOMAIN DevicesOf = Reminders
    /\ Batch \in Nat \ {0}
    /\ Attempts \in Nat \ {0}
    /\ MaxCrashes \in Nat
    /\ NoReminder \notin 1..Count

VARIABLES
    status, deleted,  \* the reminders table
    made,             \* the reminders that exist
    stale,            \* updated_at is older than STUCK_AFTER_MINUTES
    clock,            \* reminders 1..clock are due, once they exist
    subs,             \* notification_subscriptions
    pc,
    picked,           \* runner: the ids its select returned
    todo,             \* runner: claimed and not yet settled
    cur,              \* runner: the reminder it is sending
    attempt,          \* runner: attempts of cur that raised
    lost,             \* runner: rows of todo that a recovery took from it
    pushed,           \* pushed[m][d]: how often, up to 2, d was sent m
    repeated,         \* reminders recovered, or pushed again after an exception
    crashes

table == <<status, deleted, made, stale>>
world == <<clock, subs>>
local == <<picked, todo, cur, attempt>>
ghost == <<lost, pushed, repeated, crashes>>
vars  == <<table, world, pc, local, ghost>>

Statuses  == {"PENDING", "SENDING", "SENT", "FAILED"}
Settled   == {"SENT", "FAILED"}

TypeOK ==
    /\ status \in [Reminders -> Statuses]
    /\ deleted \in [Reminders -> BOOLEAN]
    /\ made \subseteq Reminders
    /\ stale \in [Reminders -> BOOLEAN]
    /\ clock \in 0..Count
    /\ subs \subseteq Devices
    /\ pc \in [Runners -> {"idle", "selecting", "claiming", "sending",
                           "sent", "failed"}]
    /\ picked \in [Runners -> SUBSET Reminders]
    /\ todo \in [Runners -> SUBSET Reminders]
    /\ cur \in [Runners -> Reminders \cup {NoReminder}]
    /\ \A n \in Runners :
         /\ cur[n] # NoReminder => cur[n] \in todo[n]
         /\ pc[n] \in {"idle", "selecting", "claiming"} => cur[n] = NoReminder
    /\ attempt \in [Runners -> 0..Attempts]
    /\ \A n \in Runners :
         /\ cur[n] = NoReminder => attempt[n] = 0
         /\ pc[n] = "sending" => attempt[n] < Attempts
    /\ lost \in [Runners -> SUBSET Reminders]
    /\ pushed \in [Reminders -> [Devices -> 0..2]]
    /\ repeated \subseteq Reminders
    /\ crashes \in 0..MaxCrashes

Init ==
    /\ status = [m \in Reminders |-> "PENDING"]
    /\ deleted = [m \in Reminders |-> FALSE]
    /\ made = {}
    /\ stale = [m \in Reminders |-> FALSE]
    /\ clock = 0
    /\ subs = {}
    /\ pc = [n \in Runners |-> "idle"]
    /\ picked = [n \in Runners |-> {}]
    /\ todo = [n \in Runners |-> {}]
    /\ cur = [n \in Runners |-> NoReminder]
    /\ attempt = [n \in Runners |-> 0]
    /\ lost = [n \in Runners |-> {}]
    /\ pushed = [m \in Reminders |-> [d \in Devices |-> 0]]
    /\ repeated = {}
    /\ crashes = 0

-------------------------------------------------------------------------------
(* Helpers                                                                 *)

Goto(n, from, to) ==
    /\ pc[n] = from
    /\ pc' = [pc EXCEPT ![n] = to]

\* An UPDATE of the rows S; the trigger touches updated_at.
SetStatus(S, to) ==
    /\ status' = [m \in Reminders |-> IF m \in S THEN to ELSE status[m]]
    /\ stale' = [m \in Reminders |-> m \notin S /\ stale[m]]

\* Mistakes the runs must notice: a select that forgets the deleted, a claim
\* that forgets the status, no recovery, one attempt too many.
DueOrDeleted      == {m \in made : status[m] = "PENDING" /\ m <= clock}
ClaimAnyStatus(S) == S
NeverStuck        == {}
PastLast(k)       == k > Attempts

\* The rows the select of _claim_due may return, and the batch it does return:
\* the oldest of them.
Due == {m \in made : status[m] = "PENDING" /\ m <= clock /\ ~deleted[m]}

DueBatch == {m \in Due : Cardinality({k \in Due : k < m}) < Batch}

\* The rows the filtered UPDATE of _claim_due flips, out of those selected.
Claimable(S) == {m \in S : status[m] = "PENDING"}

\* The rows _recover_stuck returns to the queue.
Stuck == {m \in Reminders : status[m] = "SENDING" /\ stale[m] /\ ~deleted[m]}

\* No attempt is left once this many have raised.
LastAttempt(k) == k = Attempts

-------------------------------------------------------------------------------
(* The runner                                                              *)

\* The scheduler fires; _recover_stuck is the first call.
RecoverStuck(n) ==
    /\ Goto(n, "idle", "selecting")
    /\ SetStatus(Stuck, "PENDING")
    /\ lost' = [k \in Runners |-> lost[k] \cup (todo[k] \cap Stuck)]
    /\ repeated' = repeated \cup Stuck
    /\ UNCHANGED <<deleted, made, world, local, pushed, crashes>>

SelectDue(n) ==
    /\ \/ DueBatch # {} /\ Goto(n, "selecting", "claiming")
       \/ DueBatch = {} /\ Goto(n, "selecting", "idle")
    /\ picked' = [picked EXCEPT ![n] = DueBatch]
    /\ UNCHANGED <<table, world, todo, cur, attempt, ghost>>

\* The next reminder of the batch, or the answer to the scheduler; from there
\* on the name of the runner stands for a later fire.
Continue(n) ==
    pc' = [pc EXCEPT ![n] = IF todo'[n] = {} THEN "idle" ELSE "sending"]

\* The claim that trusts the rows of the select and not those it flipped.
ClaimSelected(n) ==
    /\ pc[n] = "claiming"
    /\ todo' = [todo EXCEPT ![n] = picked[n]]
    /\ SetStatus(Claimable(picked[n]), "SENDING")
    /\ Continue(n)
    /\ picked' = [picked EXCEPT ![n] = {}]
    /\ UNCHANGED <<deleted, made, world, cur, attempt, ghost>>

\* The UPDATE repeats the status filter and not the filter on deleted_at.
ClaimDue(n) ==
    /\ pc[n] = "claiming"
    /\ todo' = [todo EXCEPT ![n] = Claimable(picked[n])]
    /\ SetStatus(Claimable(picked[n]), "SENDING")
    /\ Continue(n)
    /\ picked' = [picked EXCEPT ![n] = {}]
    /\ UNCHANGED <<deleted, made, world, cur, attempt, ghost>>

\* One more device was sent m.
Served(m, D) ==
    pushed' = [pushed EXCEPT ![m] =
        [d \in Devices |-> IF d \in D /\ @[d] < 2 THEN @[d] + 1 ELSE @[d]]]

\* The reminder n attempts next: the one it is at, or any other of its batch.
Attempting(n, m) ==
    /\ pc[n] = "sending"
    /\ m \in todo[n]
    /\ cur[n] \in {NoReminder, m}
    /\ cur' = [cur EXCEPT ![n] = m]

\* send_push returns.  WebPushException is only logged, so any of the devices
\* may have been served; those that answered 404/410 are unsubscribed.
PushReturns(n, m) ==
    /\ Attempting(n, m)
    /\ \E served \in SUBSET (subs \cap DevicesOf[m]) :
       \E gone \in SUBSET ((subs \cap DevicesOf[m]) \ served) :
           Served(m, served) /\ subs' = subs \ gone
    /\ pc' = [pc EXCEPT ![n] = "sent"]
    /\ UNCHANGED <<table, clock, picked, todo, attempt, lost, repeated, crashes>>

\* Another exception leaves send_push (a timeout of the push service that may
\* have served the device all the same, a database error).  The next attempt
\* reads the subscriptions anew and starts over with all of them.
PushRaises(n, m) ==
    /\ Attempting(n, m)
    /\ \E served \in SUBSET (subs \cap DevicesOf[m]) : Served(m, served)
    /\ attempt' = [attempt EXCEPT ![n] = @ + 1]
    /\ pc' = [pc EXCEPT ![n] = IF LastAttempt(attempt'[n])
                               THEN "failed" ELSE @]
    /\ repeated' = repeated \cup {m}
    /\ UNCHANGED <<table, world, picked, todo, lost, crashes>>

\* The send of cur is over for n.
Forget(n) ==
    /\ cur' = [cur EXCEPT ![n] = NoReminder]
    /\ attempt' = [attempt EXCEPT ![n] = 0]

\* The outcome is written by id, whatever the row has become.
Settle(n, from, to) ==
    /\ pc[n] = from
    /\ SetStatus({cur[n]}, to)
    /\ todo' = [todo EXCEPT ![n] = @ \ {cur[n]}]
    /\ lost' = [lost EXCEPT ![n] = @ \ {cur[n]}]
    /\ Continue(n)
    /\ Forget(n)
    /\ UNCHANGED <<deleted, made, world, picked, pushed, repeated, crashes>>

SettleSent(n)   == Settle(n, "sent", "SENT")
SettleFailed(n) == Settle(n, "failed", "FAILED")

\* Deploy, out of memory, or an exception out of a database call: what the
\* runner had not settled stays as it is.
Crash(n) ==
    /\ crashes < MaxCrashes
    /\ pc[n] # "idle"
    /\ Goto(n, pc[n], "idle")
    /\ crashes' = crashes + 1
    /\ picked' = [picked EXCEPT ![n] = {}]
    /\ todo' = [todo EXCEPT ![n] = {}]
    /\ lost' = [lost EXCEPT ![n] = {}]
    /\ Forget(n)
    /\ UNCHANGED <<table, world, pushed, repeated>>

-------------------------------------------------------------------------------
(* The surroundings                                                        *)

Tick ==
    /\ clock < Count
    /\ clock' = clock + 1
    /\ UNCHANGED <<table, subs, pc, local, ghost>>

\* STUCK_AFTER_MINUTES pass without a write to the row; its runner may be gone
\* or only slow.
Age(m) ==
    /\ status[m] = "SENDING"
    /\ ~stale[m]
    /\ stale' = [stale EXCEPT ![m] = TRUE]
    /\ UNCHANGED <<status, deleted, made, world, pc, local, ghost>>

\* ReminderService.create_reminder: PENDING, with any time to remind at.
Create(m) ==
    /\ m \notin made
    /\ made' = made \cup {m}
    /\ UNCHANGED <<status, deleted, stale, world, pc, local, ghost>>

\* save_subscription, an upsert by endpoint, and delete_subscription.
Subscribe(d) ==
    /\ d \notin subs
    /\ subs' = subs \cup {d}
    /\ UNCHANGED <<table, clock, pc, local, ghost>>

Unsubscribe(d) ==
    /\ d \in subs
    /\ subs' = subs \ {d}
    /\ UNCHANGED <<table, clock, pc, local, ghost>>

\* ReminderService.delete_reminder, at any moment.
Delete(m) ==
    /\ m \in made /\ ~deleted[m]
    /\ deleted' = [deleted EXCEPT ![m] = TRUE]
    /\ stale' = [stale EXCEPT ![m] = FALSE]
    /\ UNCHANGED <<status, made, world, pc, local, ghost>>

Run(n) ==
    \/ RecoverStuck(n) \/ SelectDue(n) \/ ClaimDue(n)
    \/ \E m \in Reminders : PushReturns(n, m) \/ PushRaises(n, m)
    \/ SettleSent(n) \/ SettleFailed(n)

Next ==
    \/ \E n \in Runners : Run(n) \/ Crash(n)
    \/ \E m \in Reminders : Create(m) \/ Age(m) \/ Delete(m)
    \/ \E d \in Devices : Subscribe(d) \/ Unsubscribe(d)
    \/ Tick

\* The scheduler keeps firing, a runner that does not die proceeds, and time
\* passes for a row nobody writes.
Fairness ==
    /\ \A n \in Runners : WF_vars(Run(n))
    /\ \A m \in Reminders : WF_vars(Age(m))

Spec == Init /\ [][Next]_vars /\ Fairness

-------------------------------------------------------------------------------
(* Properties                                                              *)

\* Two runners hold the same reminder only if a recovery took it from one of
\* them: however many fires overlap, the claim alone never shares a row.
OneOwner ==
    \A n, k \in Runners :
        n # k => todo[n] \cap todo[k] \subseteq lost[n] \cup lost[k]

\* A device is sent the same reminder twice only if the reminder was recovered
\* or an attempt raised half-way: overlapping fires alone never repeat it.
RepeatHasCause ==
    \A m \in Reminders, d \in Devices : pushed[m][d] = 2 => m \in repeated

\* Nobody is about to send m, and its owner has deleted it.
Dropped(m) == deleted[m] /\ \A n \in Runners : m \notin picked[n] \cup todo[n]

\* Once a deleted reminder is in no runner's hands no runner takes it up again,
\* not even through the recovery of stuck rows.
DroppedStaysDropped ==
    [][\A m \in Reminders : Dropped(m) => Dropped(m)']_vars

\* A due reminder is eventually settled or deleted, whatever runner died with
\* it, as long as deaths come to an end.
DueSettles ==
    \A m \in Reminders :
        m \in made /\ m <= clock ~> (status[m] \in Settled \/ deleted[m])

\* A row as the lease sees it.
Phase(to) == CASE to = "PENDING" -> "free"
               [] to = "SENDING" -> "taken"
               [] to \in Settled -> "settled"

State == [m \in Reminders |-> Phase(status[m])]

Leases == INSTANCE Lease WITH state <- State, held <- todo, late <- lost

\* The job implements the lease: a runner claims only what nobody has claimed
\* since it last returned to the queue, and a reminder that was settled, by a
\* runner whose rows were taken from it included, never returns to the queue.
LeaseSpec == Leases!Spec

\* What was settled stays settled, although outcomes are written by id, whatever
\* the row has become, and a recovery looks at no runner.
SettledForGood ==
    [][\A m \in Reminders : status[m] \in Settled => status'[m] \in Settled]_vars
===============================================================================
