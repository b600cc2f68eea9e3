--------------------------- MODULE MCAgentExecutor ---------------------------
(* An instance of AgentExecutor: the creation of a user and the rotation of *)
(* its password that follows.                                               *)
EXTENDS AgentExecutor, TLC
CONSTANTS first, second, alice, s1, s2

UserMutations ==
  [c \in Commands |-> IF c = first THEN "user_create" ELSE "user_password_rotate"]
MCUser == [c \in Commands |-> alice]
MCRevision == [c \in Commands |-> IF c = first THEN 1 ELSE 2]

Symmetry == Permutations(Slots)
=============================================================================
