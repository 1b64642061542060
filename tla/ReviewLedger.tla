----------------------------- MODULE ReviewLedger -----------------------------
(***************************************************************************)
(* What the review queue promises, without saying how.  A proposal enters  *)
(* the queue, may be written into the CRM, and may enter the queue again   *)
(* (undone, reopened, released after a failed write).  Each period in the  *)
(* queue is a stay, numbered from 1; stay 0 is the time before, when the   *)
(* assistant may try to write the action by itself.  One stay yields at    *)
(* most one write, whatever number of clicks, tabs and retries ask for it. *)
(***************************************************************************)
EXTENDS Naturals

CONSTANTS
    Proposals,
    Writers    \* who may write: the requests of the queue

VARIABLES
    stay,     \* stay[p]: how many times p has entered the queue
    written   \* written[p]: the writes of p into the CRM, by whom, in which stay

vars == <<stay, written>>

Init ==
    /\ stay = [p \in Proposals |-> 1]
    /\ written = [p \in Proposals |-> {}]

\* The proposal returns to the queue.
Enter(p) ==
    /\ stay' = [stay EXCEPT ![p] = @ + 1]
    /\ UNCHANGED written

\* w writes p, in a stay that nobody has written yet.
Write(p, w) ==
    \E s \in 0..stay[p] :
        /\ \A e \in written[p] : e.stay # s
        /\ written' = [written EXCEPT ![p] = @ \cup {[by |-> w, stay |-> s]}]
        /\ UNCHANGED stay

Next == \E p \in Proposals : Enter(p) \/ \E w \in Writers : Write(p, w)

Spec == Init /\ [][Next]_vars
===============================================================================
