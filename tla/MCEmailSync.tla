----------------------------- MODULE MCEmailSync ------------------------------
(* An instance of EmailSync for TLC: a lead, a mail without a date from      *)
(* somebody who gives only a name, a second lead of the first person, and a  *)
(* mail that is a batch away from the one that is refused for good.          *)
EXTENDS EmailSync

CONSTANTS i1, i2, i3, i4, ana, eva

MCMailbox  == <<i1, i2, i3, i4>>
MCSenderOf == [i \in Messages |->
                 CASE i \in Leads -> ana [] i = i2 -> eva [] OTHER -> None]
MCRootOf   == [i \in Messages |-> IF i = i4 THEN i4 ELSE i1]
===============================================================================
