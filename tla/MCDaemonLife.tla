---------------------------- MODULE MCDaemonLife ----------------------------
EXTENDS DaemonLife
=============================================================================
