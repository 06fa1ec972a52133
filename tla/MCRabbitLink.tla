---------------------------- MODULE MCRabbitLink ----------------------------
(* Small instances of RabbitLink for TLC. *)
EXTENDS RabbitLink, TLC
=============================================================================
