------------------------------- MODULE MCPgPool -------------------------------
(* PgPool on small sets for TLC. *)
EXTENDS PgPool, TLC
=============================================================================
