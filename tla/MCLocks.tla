------------------------------ MODULE MCLocks ------------------------------
EXTENDS Locks
AllCommands == DOMAIN Script \ {"tick"}
Unnested    == AllCommands \ {"capability_reprobe"}
=============================================================================
