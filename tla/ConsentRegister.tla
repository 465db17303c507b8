---------------------------- MODULE ConsentRegister ----------------------------
(***************************************************************************)
(* What the jobs of a contact promise about its consent, with no jobs,     *)
(* snapshots, row locks, failures or pauses: a register in which the       *)
(* contact's words are entered one by one.                                 *)
(*                                                                         *)
(* A word that withdraws always leaves the contact listed.  Only a word    *)
(* that subscribes may take it off the list.  Jobs that have overlapped    *)
(* may leave a status as it was where a word asks for another; but unless  *)
(* the contact has ever subscribed, a withdrawal withdraws.  While they    *)
(* take turns, and take messages in order, a word is later than all those  *)
(* entered.  ContactConsent is shown to implement this specification.      *)
(***************************************************************************)
EXTENDS Naturals

CONSTANT Messages      \* numbered as they were sent

VARIABLES
  status, listed,      \* the contact, and whether it is on the list
  given,               \* words entered: <<message, status it asks for>>
  mixed, disordered    \* jobs have overlapped; a message was overtaken

registerVars == <<status, listed, given, mixed, disordered>>

Withdrawn == {"OPTED_OUT", "SUPPRESSED"}

RegisterInit ==
  /\ status \in {"UNKNOWN", "OPTED_IN"}
  /\ listed = FALSE /\ given = {}
  /\ mixed = FALSE /\ disordered = FALSE

Enter(m, word) ==
  /\ \A g \in given : g[1] # m
  /\ ~ mixed /\ ~ disordered => \A g \in given : g[1] < m
  /\ given' = given \cup {<<m, word>>}
  /\ UNCHANGED <<mixed, disordered>>

Becomes(s) == status' = s \/ (mixed /\ UNCHANGED status)

Withdraw(m) ==
  /\ Enter(m, "OPTED_OUT")
  /\ Becomes("OPTED_OUT")
  /\ (\A g \in given : g[2] # "OPTED_IN") => status' \in Withdrawn
  /\ listed' = TRUE

(* An operator may have listed the contact since the word was read.        *)
Subscribe(m) ==
  /\ Enter(m, "OPTED_IN")
  /\ Becomes("OPTED_IN")
  /\ listed' \in {FALSE, listed}

(* The number cannot be reached: never said over a withdrawal in turn.     *)
Unreachable ==
  /\ Becomes("SUPPRESSED")
  /\ listed' = TRUE \/ (mixed /\ UNCHANGED listed)
  /\ ~ mixed => status # "OPTED_OUT"
  /\ UNCHANGED <<given, mixed, disordered>>

List ==
  /\ listed' = TRUE
  /\ UNCHANGED <<status, given, mixed, disordered>>

Overlap ==
  /\ mixed' \in {mixed, TRUE} /\ disordered' \in {disordered, TRUE}
  /\ UNCHANGED <<status, listed, given>>

RegisterNext ==
  \/ \E m \in Messages : Withdraw(m) \/ Subscribe(m)
  \/ Unreachable \/ List \/ Overlap

RegisterSpec == RegisterInit /\ [][RegisterNext]_registerVars
================================================================================
