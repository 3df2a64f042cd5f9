------------------------------ MODULE MCSyncBag ------------------------------
(***************************************************************************)
(* TLC instances of SyncBag: one or two recordings, one or two devices.    *)
(***************************************************************************)
EXTENDS SyncBag, TLC

CONSTANTS b1, b2, d1, d2

NoMd5 == [d \in Device |-> {}]
=============================================================================
