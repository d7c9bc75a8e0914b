-------------------------- MODULE MCSocketClients --------------------------
(* Configuration for TLC: two texts or packages of two bytes leave; the    *)
(* bytes that arrive are a text of one byte, one of two and the beginning  *)
(* of a third, or two packages, the second one with some content.          *)
EXTENDS SocketClients

MCPackageEnds == <<2, 5>>
=============================================================================
