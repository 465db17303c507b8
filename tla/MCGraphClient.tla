----------------------------- MODULE MCGraphClient -----------------------------
(* Three calls at a time share the breaker.                                  *)
EXTENDS GraphClient

CONSTANTS c1, c2, c3
================================================================================
