---------------------------- MODULE MCSyncRunner ----------------------------
(* The daemon and one "sync now" at a time, each of which may run again.   *)
EXTENDS SyncRunner, TLC

CONSTANTS d, m
=============================================================================
