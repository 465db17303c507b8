----------------------------- MODULE CampaignBooks -----------------------------
(***************************************************************************)
(* What the runs of a campaign promise about its recipients, with no       *)
(* executors, transactions, row locks, batches, thresholds or deadlocks.   *)
(*                                                                         *)
(* A campaign is launched once, with the recipients that are due.  A       *)
(* recipient that is due is sent to at most once before the books of the   *)
(* campaign are closed on it: all the open sends are kept together, or are *)
(* lost together, which leaves the recipients due.  Nobody becomes due     *)
(* again, a kept send stays kept, and a campaign that is completed has     *)
(* nobody due and is never reopened.  CampaignRun is shown to implement    *)
(* this specification.                                                     *)
(***************************************************************************)
EXTENDS Naturals

CONSTANTS Campaigns, Contacts

VARIABLES
  launched, completed,   \* campaigns
  due, open, kept,       \* per campaign: contacts
  got, lost              \* per campaign and contact: calls that left a template

booksVars == <<launched, completed, due, open, kept, got, lost>>

BooksInit ==
  /\ launched = {} /\ completed = {}
  /\ due = [c \in Campaigns |-> {}]
  /\ open = [c \in Campaigns |-> {}]
  /\ kept = [c \in Campaigns |-> {}]
  /\ got = [c \in Campaigns |-> [k \in Contacts |-> 0]]
  /\ lost = [c \in Campaigns |-> [k \in Contacts |-> 0]]

Launch(c, chosen) ==
  /\ c \notin launched
  /\ launched' = launched \cup {c}
  /\ due' = [due EXCEPT ![c] = chosen]
  /\ UNCHANGED <<completed, open, kept, got, lost>>

Give(c, k) ==
  /\ k \in due[c] \ open[c]
  /\ open' = [open EXCEPT ![c] = @ \cup {k}]
  /\ got' = [got EXCEPT ![c][k] = @ + 1]
  /\ UNCHANGED <<launched, completed, due, kept, lost>>

(* The open sends are kept, and some recipients turned down or failed.     *)
Keep(c, refused) ==
  /\ c \in launched
  /\ refused \subseteq due[c] \ open[c]
  /\ kept' = [kept EXCEPT ![c] = @ \cup open[c]]
  /\ due' = [due EXCEPT ![c] = @ \ (open[c] \cup refused)]
  /\ open' = [open EXCEPT ![c] = {}]
  /\ \/ completed' = completed
     \/ completed' = completed \cup {c} /\ due'[c] = {}
  /\ UNCHANGED <<launched, got, lost>>

Lose(c) ==
  /\ lost' = [lost EXCEPT ![c] =
                [k \in Contacts |-> IF k \in open[c] THEN @[k] + 1 ELSE @[k]]]
  /\ open' = [open EXCEPT ![c] = {}]
  /\ UNCHANGED <<launched, completed, due, kept, got>>

BooksNext ==
  \E c \in Campaigns :
    \/ \E chosen \in SUBSET Contacts : Launch(c, chosen)
    \/ \E k \in Contacts : Give(c, k)
    \/ \E refused \in SUBSET Contacts : Keep(c, refused)
    \/ Lose(c)

BooksSpec == BooksInit /\ [][BooksNext]_booksVars
================================================================================
