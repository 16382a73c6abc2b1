---------------------------- MODULE MCAuditChain ----------------------------
(* Small instances of AuditChain for TLC; the constants are given by the    *)
(* configurations.                                                          *)
EXTENDS AuditChain
=============================================================================
