----------------------------- MODULE MCReminders ------------------------------
(* Instances of Reminders for TLC: the user of the first reminder has a     *)
(* device, the user of the second has none.                                 *)
EXTENDS Reminders

CONSTANT d1

MCDevicesOf == <<{d1}, {}>>

MCOneReminder == <<{d1}>>
===============================================================================
