------------------------- MODULE MCTransportEvents -------------------------
(***************************************************************************)
(* Two retained events, one frame of slack in every bucket, and more events*)
(* than retention or queue can hold.                                       *)
(***************************************************************************)
EXTENDS TransportEvents
=============================================================================
