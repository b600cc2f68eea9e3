------------------------ MODULE MCTransportSessions ------------------------
(***************************************************************************)
(* One node with one endpoint key, two connections of it and two owner     *)
(* terms.                                                                  *)
(***************************************************************************)
EXTENDS TransportSessions

CONSTANTS node, e1, c1, c2, cmd

OneNode == [e \in Endpoints |-> node]
TwoTerms == {[epoch |-> 1, id |-> "a"], [epoch |-> 2, id |-> "b"]}
=============================================================================
