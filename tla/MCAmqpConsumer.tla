--------------------------- MODULE MCAmqpConsumer ---------------------------
(***************************************************************************)
(* Instances of AmqpConsumer for TLC: model values for the messages.  The  *)
(* runs check action properties and liveness, so no symmetry is declared.  *)
(***************************************************************************)
EXTENDS AmqpConsumer

CONSTANTS m1, m2
=============================================================================
