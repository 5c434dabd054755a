----------------------------- MODULE MCSyncDevices -----------------------------
EXTENDS SyncDevices

\* Process 12 is the second of device 1.
MCHome == [p \in Process |-> p \div 10]
=============================================================================
