---------------------------- MODULE MCClientAgent -----------------------------
(* Instances of ClientAgent for TLC: a message that opts out, and another     *)
(* one that two events carry.                                                 *)
EXTENDS ClientAgent, TLC

CONSTANTS stop, chat, e1, e2, e3

MCMessageOf == e1 :> stop @@ e2 :> chat @@ e3 :> chat

\* Deliveries are interchangeable, and so are the two events of one message.
Symmetric ==
    {ds @@ es : ds \in Permutations(Deliveries), es \in Permutations({e2, e3})}
===============================================================================
