------------------------ MODULE MCOperationDispatch ------------------------
(* Instance of OperationDispatch: one command of a node through every delay, *)
(* loss and takeover.                                                        *)
EXTENDS OperationDispatch
CONSTANTS command, node1

MCNode == [c \in Commands |-> node1]
MCKind == [c \in Commands |-> "user_password_rotate"]
MCPrior == [c \in Commands |-> {}]
=============================================================================
