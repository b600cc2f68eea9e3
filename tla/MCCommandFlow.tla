---------------------------- MODULE MCCommandFlow ----------------------------
\* Every kind of command, with every flaw of its payload.
EXTENDS CommandFlow
=============================================================================
