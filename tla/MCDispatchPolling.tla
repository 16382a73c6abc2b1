-------------------------- MODULE MCDispatchPolling --------------------------
(* Small instances of DispatchPolling for TLC. *)
EXTENDS DispatchPolling
=============================================================================
