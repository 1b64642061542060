-------------------------------- MODULE Intake ---------------------------------
(***************************************************************************)
(* What the mail job promises, without runs, batches or lookups.  A mail   *)
(* that has arrived is stored once; a lead is then shown on the timeline   *)
(* once or given up, and it never comes back; and the cursor stands only   *)
(* where every mail up to it is stored.                                    *)
(***************************************************************************)
EXTENDS Integers

CONSTANTS
    Mailbox,   \* Mailbox[u]: the message with UID u
    Leads,     \* the messages the timeline should show
    Writers    \* who may show one

VARIABLES
    arrived,
    cursor,
    stored,
    waiting,   \* leads stored and neither shown nor given up
    shown,     \* <<lead, writer>>: the entries of the timeline
    dropped    \* leads given up, in error if they are shown as well

vars == <<arrived, cursor, stored, waiting, shown, dropped>>

Init ==
    /\ arrived = 0
    /\ cursor = 0
    /\ stored = {}
    /\ waiting = {}
    /\ shown = {}
    /\ dropped = {}

Arrive ==
    /\ arrived' = arrived + 1
    /\ UNCHANGED <<cursor, stored, waiting, shown, dropped>>

\* Mail u is stored; a lead then waits, or is given up at once.
Store(u) ==
    LET i == Mailbox[u]
        lead == {i} \cap Leads
    IN
    /\ i \notin stored
    /\ stored' = stored \cup {i}
    /\ \/ waiting' = waiting \cup lead /\ UNCHANGED dropped
       \/ dropped' = dropped \cup lead /\ UNCHANGED waiting
    /\ UNCHANGED <<arrived, cursor, shown>>

\* A lead leaves the wait, with an entry or given up.
Show(i, w) ==
    /\ i \in waiting
    /\ waiting' = waiting \ {i}
    /\ shown' = shown \cup {<<i, w>>}
    /\ dropped' \in {dropped, dropped \cup {i}}
    /\ UNCHANGED <<arrived, cursor, stored>>

GiveUp(i) ==
    /\ i \in waiting
    /\ waiting' = waiting \ {i}
    /\ dropped' = dropped \cup {i}
    /\ UNCHANGED <<arrived, cursor, stored, shown>>

\* The cursor may go forward or back.
Move(c) ==
    /\ \A u \in 1..c : Mailbox[u] \in stored
    /\ cursor' = c
    /\ UNCHANGED <<arrived, stored, waiting, shown, dropped>>

Next ==
    \/ Arrive
    \/ \E u \in 1..arrived : Store(u)
    \/ \E i \in waiting : GiveUp(i) \/ \E w \in Writers : Show(i, w)
    \/ \E c \in 0..arrived : Move(c)

Spec == Init /\ [][Next]_vars
===============================================================================
