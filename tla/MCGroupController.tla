-------------------------- MODULE MCGroupController -------------------------
EXTENDS GroupController

\* robot1 has a pod, robot2 has none yet.  The targets are what the commands
\* --addGroup and --removeGroup of the CLI write.
MCEntities == {"robot1", "robot2"}
MCProvisioned == {"robot1"}
TwoTargets == {[members |-> MCEntities, add |-> TRUE], [members |-> {"robot1"}, add |-> FALSE]}

\* One robot and its pod, which are two places for the label.
OneEntity == {"robot1"}
OnOff == [members : {OneEntity}, add : BOOLEAN]
=============================================================================
