---------------------------- MODULE MCHandshake ----------------------------
(* Handshake for TLC: one text each way, uids that wrap after UID_MOD sends. *)
EXTENDS Handshake
=============================================================================
