-------------------------- MODULE MCPendingProposals --------------------------
(* Instances of PendingProposals for TLC: requests are interchangeable.     *)
EXTENDS PendingProposals, TLC

RequestSymmetry == Permutations(Requests)

\* The application runs one audited write ahead of the database: undo finds the
\* accept's own write not newer, and a later edit newer.
MCSkews == {1}

\* Both clocks agree.
NoSkew == {0}
===============================================================================
