------------------------------ MODULE MCEscalation ------------------------------
(* One contact, two jobs and two requests of operators at a time.            *)
EXTENDS Escalation, TLC

CONSTANTS t1, t2, o1, o2

(* Jobs, and requests, are interchangeable.                                  *)
Symmetry == Permutations({t1, t2}) \cup Permutations({o1, o2})
=================================================================================
