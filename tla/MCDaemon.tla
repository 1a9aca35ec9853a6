------------------------------ MODULE MCDaemon ------------------------------
EXTENDS DaemonServer
=============================================================================
