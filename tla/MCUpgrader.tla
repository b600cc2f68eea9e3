----------------------------- MODULE MCUpgrader -----------------------------
(* Two operations, two packages beside the installed one; see the cfg files. *)
EXTENDS Upgrader, TLC

CONSTANTS o1, o2

MCRank == o1 :> 1 @@ o2 :> 2
=============================================================================
