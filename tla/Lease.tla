-------------------------------- MODULE Lease ----------------------------------
(***************************************************************************)
(* What the reminder job promises about who may send a reminder.  A        *)
(* runner takes reminders that are free; a lease that grows old expires,   *)
(* and the runner that had it is late but does not know; whoever holds a   *)
(* reminder, late or not, may settle it, and a settled reminder is never   *)
(* free again.                                                             *)
(***************************************************************************)
CONSTANTS
    Reminders,
    Runners

VARIABLES
    state,  \* reminder: "free", "taken" or "settled"
    held,   \* runner: the reminders it means to send
    late    \* runner: those of them whose lease has expired

vars == <<state, held, late>>

In(S, to) == [m \in Reminders |-> IF m \in S THEN to ELSE state[m]]

Init ==
    /\ state = [m \in Reminders |-> "free"]
    /\ held = [n \in Runners |-> {}]
    /\ late = [n \in Runners |-> {}]

\* n, who holds nothing, takes the reminders S: all of them are free.
Take(n, S) ==
    /\ held[n] = {}
    /\ \A m \in S : state[m] = "free"
    /\ state' = In(S, "taken")
    /\ held' = [held EXCEPT ![n] = S]
    /\ UNCHANGED late

\* The leases of S expire.
Expire(S) ==
    /\ \A m \in S : state[m] = "taken"
    /\ state' = In(S, "free")
    /\ late' = [n \in Runners |-> late[n] \cup (held[n] \cap S)]
    /\ UNCHANGED held

\* n settles m; only a late runner may settle what is free again.
Settle(n, m) ==
    /\ m \in held[n]
    /\ state[m] # "free" \/ m \in late[n]
    /\ state' = In({m}, "settled")
    /\ held' = [held EXCEPT ![n] = @ \ {m}]
    /\ late' = [late EXCEPT ![n] = @ \ {m}]

\* n ends, and what it held stays as it is.
Vanish(n) ==
    /\ held' = [held EXCEPT ![n] = {}]
    /\ late' = [late EXCEPT ![n] = {}]
    /\ UNCHANGED state

Next ==
    \/ \E n \in Runners : \/ \E S \in SUBSET Reminders : Take(n, S)
                          \/ \E m \in Reminders : Settle(n, m)
                          \/ Vanish(n)
    \/ \E S \in SUBSET Reminders : Expire(S)

Spec == Init /\ [][Next]_vars
===============================================================================
