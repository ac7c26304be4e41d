------------------------------ MODULE MCReminders ------------------------------
(* Reminders for TLC: reminders r1 over Slack and r2 over both channels, of *)
(* one rep.                                                                 *)
EXTENDS Reminders

CONSTANTS r1, r2, p1

MCOwner == [r \in Reminder |-> p1]
MCVia == [r \in Reminder |-> IF r = r1 THEN {"slack"} ELSE Channel]
================================================================================
