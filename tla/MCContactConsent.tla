---------------------------- MODULE MCContactConsent ----------------------------
(* One contact served by one or two jobs at a time.                          *)
EXTENDS ContactConsent, TLC

CONSTANTS t1, t2

(* Jobs are interchangeable; used in a safety run only.                     *)
Symmetry == Permutations({t1, t2})
=================================================================================
