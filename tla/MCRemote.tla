------------------------------ MODULE MCRemote ------------------------------
EXTENDS RemoteSession
=============================================================================
