------------------------------ MODULE MCDrive ------------------------------
EXTENDS DifferentialDrive
=============================================================================
