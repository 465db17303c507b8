------------------------------ MODULE MCSendGate ------------------------------
(* A day of three units, two contacts, and four contents of the files: the    *)
(* night across midnight, a window within a day, a window of no length with  *)
(* a template become MARKETING, and a template no longer approved.           *)
EXTENDS SendGate

CONSTANTS a, b

Template(s, k, r) == [language |-> "en", status |-> s, category |-> k, requires |-> r]
Quiet(s, e)       == [enabled |-> TRUE, start |-> s, end |-> e]
Files(q, t)       == [quiet |-> q, campaigns |-> TRUE, languages |-> {"en"}, templates |-> <<t>>]

MCFirstConfig == Files(Quiet(2, 1), Template("APPROVED", "UTILITY", TRUE))
MCConfigs ==
  {MCFirstConfig,
   Files(Quiet(1, 2), Template("APPROVED", "UTILITY", FALSE)),
   Files(Quiet(2, 2), Template("APPROVED", "MARKETING", TRUE)),
   Files(Quiet(0, 2), Template("PAUSED", "UTILITY", TRUE))}

(* A row as PENDING leaves what one as SUPPRESSED does: a status, no entry.  *)
MCRows ==
  [phone : {a, b}, consent : {"OPTED_IN", "OPTED_OUT", "SUPPRESSED", "other"}, at : {"past"}]
    \cup [phone : {a, b, "missing"}, consent : {"OPTED_IN"}, at : {"future"}]

(* The contacts are interchangeable.                                         *)
Symmetry == Permutations({a, b})
================================================================================
