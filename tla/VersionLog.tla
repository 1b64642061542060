------------------------------ MODULE VersionLog -------------------------------
(***************************************************************************)
(* What the history of a document promises, without uploads, objects or    *)
(* workers.  The versions are a list of distinct files that only grows at  *)
(* its end: no number is skipped, given twice or taken back, and the       *)
(* current version is one of the list.                                     *)
(***************************************************************************)
EXTENDS Integers

CONSTANTS
    Contents,
    Numbers,   \* version numbers, from 1 on
    None

VARIABLES
    log,       \* number: the file of that version, or None
    current    \* the number of the current version, 0 if there is none

vars == <<log, current>>

Init ==
    /\ log = [n \in Numbers |-> None]
    /\ current = 0

\* A file the list does not have goes to its end.
Append(c) ==
    /\ \A k \in Numbers : log[k] # c
    /\ \E n \in Numbers :
         /\ log[n] = None
         /\ \A k \in Numbers : k < n => log[k] # None
         /\ log' = [log EXCEPT ![n] = c]
    /\ UNCHANGED current

\* A version of the list becomes the current one.
Select(n) ==
    /\ log[n] # None
    /\ current' = n
    /\ UNCHANGED log

Next ==
    \/ \E c \in Contents : Append(c)
    \/ \E n \in Numbers : Select(n)

Spec == Init /\ [][Next]_vars
===============================================================================
