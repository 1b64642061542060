------------------------------- MODULE MCDeals -------------------------------
(* Two workers, three stages: a lead, an offer and an agreement, which only   *)
(* the offer leads to.                                                        *)
EXTENDS Deals, TLC

CONSTANTS lead, offer, agreed, w1, w2

MCSymmetry == Permutations({w1, w2})

Rule(a, b) == [from |-> a, to |-> b]

\* Forward one by one; the same with a way back to the start from anywhere.
MCRuleSets ==
    { {},
      {Rule(lead, offer), Rule(offer, agreed)},
      {Rule(offer, agreed), Rule(Anywhere, lead)} }

Body(a, b, c) == [stage |-> a, status |-> b, valued |-> c]

\* Two moves, an agreement that is also a sale, a sale, and a value.
MCPatches ==
    { Body(lead, Unset, Unset), Body(offer, "OPEN", Unset),
      Body(agreed, "WON", Unset), Body(Unset, "WON", Unset),
      Body(Unset, Unset, TRUE) }
==============================================================================
