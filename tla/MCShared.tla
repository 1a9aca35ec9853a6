------------------------------ MODULE MCShared ------------------------------
EXTENDS RogoCommands
=============================================================================
