--------------------------- MODULE MCConnectors ---------------------------
(* Instances of Connectors for TLC. *)
EXTENDS Connectors
=============================================================================
