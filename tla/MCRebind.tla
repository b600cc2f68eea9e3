------------------------------ MODULE MCRebind ------------------------------
\* Transfers of one node, each to a Controller of its own.
EXTENDS Rebind
=============================================================================
