--------------------------- MODULE MCAccessControl ---------------------------
(* Two workers, two workspaces and two roles.                               *)
EXTENDS AccessControl, TLC

CONSTANTS ws1, ws2, agent, admin, w1, w2

\* Workers, workspaces and roles are interchangeable.
MCSymmetry ==
    Permutations({w1, w2}) \cup Permutations({ws1, ws2})
    \cup Permutations({agent, admin})
==============================================================================
