--------------------------- MODULE MCReminderSweep ---------------------------
(* An instance of ReminderSweep for TLC. *)
EXTENDS ReminderSweep, TLC

CONSTANTS m1, m2

\* One date inside the three days of a run, one beyond.
TwoDays == {1, 4}
Owner == [d \in Deadlines |-> m2]
Lead == [h \in Hearings |-> m1]
Team == [h \in Hearings |-> {m1}]
=============================================================================
