-------------------------- MODULE MCProtocolServer --------------------------
(* ProtocolServer for TLC: two workers serve one client. *)
EXTENDS ProtocolServer
=============================================================================
