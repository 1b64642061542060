---------------------------- MODULE Correspondence -----------------------------
(***************************************************************************)
(* What the channel promises a person who writes, without threads, calls   *)
(* or instances.  An event that was claimed is open until its message has  *)
(* been received, is found to have been, or the work on it raised, unless  *)
(* who claimed it was refused; a message is received once and answered at  *)
(* most once, never before; and who said no is only brought back by a      *)
(* broker's grant.                                                         *)
(***************************************************************************)
CONSTANTS
    Messages,
    Events,
    MessageOf,   \* MessageOf[e]: the message an event carries
    Brokers

VARIABLES
    claimed,     \* the events that will not be taken up again
    open,        \* those whose message is still to be received
    raised,      \* those the work on which ended in an error
    refused,     \* those claimed by a call that was refused
    received,
    queued,      \* the messages with an answer on its way ...
    sent,        \* ... and those whose answer is known to be sent
    consent,     \* "none", "in" or "out"
    granting     \* the brokers about to record a consent

events  == <<claimed, open, raised, refused>>
answers == <<queued, sent>>
person  == <<consent, granting>>
vars    == <<events, received, answers, person>>

Init ==
    /\ claimed = {}
    /\ open = {}
    /\ raised = {}
    /\ refused = {}
    /\ received = {}
    /\ queued = {}
    /\ sent = {}
    /\ consent \in {"none", "in"}
    /\ granting = {}

Claim(e) ==
    /\ e \notin claimed
    /\ claimed' = claimed \cup {e}
    /\ open' = open \cup {e}
    /\ UNCHANGED <<raised, refused, received, answers, person>>

\* No work follows: e is claimed and lost.
TurnAway(e) ==
    /\ e \notin claimed
    /\ claimed' = claimed \cup {e}
    /\ refused' = refused \cup {e}
    /\ UNCHANGED <<open, raised, received, answers, person>>

Receive(e) ==
    /\ e \in open
    /\ MessageOf[e] \notin received
    /\ open' = open \ {e}
    /\ received' = received \cup {MessageOf[e]}
    /\ UNCHANGED <<claimed, raised, refused, answers, person>>

\* Another event brought the message.
Skip(e) ==
    /\ e \in open
    /\ MessageOf[e] \in received
    /\ open' = open \ {e}
    /\ UNCHANGED <<claimed, raised, refused, received, answers, person>>

\* Whatever is left to do for e is not done.
Raise(e) ==
    /\ e \in claimed
    /\ open' = open \ {e}
    /\ raised' = raised \cup {e}
    /\ UNCHANGED <<claimed, refused, received, answers, person>>

Answer(m) ==
    /\ m \in received \ (queued \cup sent)
    /\ queued' = queued \cup {m}
    /\ UNCHANGED <<events, received, sent, person>>

Confirm(m) ==
    /\ m \in queued
    /\ queued' = queued \ {m}
    /\ sent' = sent \cup {m}
    /\ UNCHANGED <<events, received, person>>

\* A first message is a consent.
Agree ==
    /\ consent = "none"
    /\ consent' = "in"
    /\ UNCHANGED <<events, received, answers, granting>>

Refuse ==
    /\ consent' = "out"
    /\ UNCHANGED <<events, received, answers, granting>>

BeginGrant(b) ==
    /\ granting' = granting \cup {b}
    /\ UNCHANGED <<events, received, answers, consent>>

\* It may be turned away.
Grant(b) ==
    /\ b \in granting
    /\ granting' = granting \ {b}
    /\ consent' \in {consent, "in"}
    /\ UNCHANGED <<events, received, answers>>

Next ==
    \/ \E e \in Events : Claim(e) \/ TurnAway(e) \/ Receive(e) \/ Skip(e) \/ Raise(e)
    \/ \E m \in Messages : Answer(m) \/ Confirm(m)
    \/ Agree \/ Refuse
    \/ \E b \in Brokers : BeginGrant(b) \/ Grant(b)

Spec == Init /\ [][Next]_vars
===============================================================================
