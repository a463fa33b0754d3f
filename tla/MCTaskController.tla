-------------------------- MODULE MCTaskController --------------------------
EXTENDS TaskController

\* A tick is 30 seconds; the hour before deletion is three ticks, which is
\* longer than every other delay.
OneTimeTask == [schedule |-> FALSE, runTime |-> NoTime, offset |-> 2,
                persistant |-> FALSE, unconditional |-> FALSE, targets |-> TRUE]
AtTime == [OneTimeTask EXCEPT !.runTime = 2]
Ahead == [OneTimeTask EXCEPT !.runTime = 6, !.offset = -3]
Cron == [OneTimeTask EXCEPT !.schedule = TRUE]
CronUntil == [Cron EXCEPT !.runTime = 5, !.offset = -1]
Kept == [OneTimeTask EXCEPT !.persistant = TRUE, !.unconditional = TRUE]
NoTarget == [OneTimeTask EXCEPT !.targets = FALSE]

MCEdits == {AtTime, Kept}
AllSpecs == {OneTimeTask, AtTime, Ahead, Cron, CronUntil, Kept, NoTarget}
=============================================================================
