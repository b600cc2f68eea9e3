------------------------- MODULE MCCommandAdmission -------------------------
EXTENDS CommandAdmission, TLC

CONSTANT plan

\* A configuration plan: the kind whose first payload hash was incomplete.
Kinds == [c \in Cmds |-> IF c = plan THEN "config_plan" ELSE "mutation"]

OwnersAlike == Permutations(Owners)
=============================================================================
