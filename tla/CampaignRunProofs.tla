---------------------------- MODULE CampaignRunProofs ----------------------------
(***************************************************************************)
(* Proofs about CampaignRun, for any campaigns and contacts, any number of *)
(* executors, batch size, failure threshold, runs and aborts.              *)
(***************************************************************************)
EXTENDS CampaignRun, FiniteSetTheorems, WellFoundedInduction, TLAPS

Active(x) == pc[x] \notin {"idle", "guarded"}

(* A run at work holds its campaign's row, and so is its only run; one     *)
(* that is not has written nothing.                                        *)
RowHeld ==
  /\ \A x \in Executors : Active(x) => campaignLock[Mine(x)] = x
  /\ \A x \in Executors : ~ Active(x) => wr[x] = Nobody
  /\ \A c \in Campaigns : campaignLock[c] # Free => Mine(campaignLock[c]) = c

(* Recipients exist with their campaign, and runs only of one that exists. *)
StagedFirst ==
  /\ \A c \in Campaigns : status[c] = "NONE" => rcp[c] = Nobody
  /\ \A x \in Executors : pc[x] # "idle" => status[Mine(x)] # "NONE"

(* A run writes recipients who were ELIGIBLE, each once.                   *)
OnceEach ==
  \A x \in Executors : Active(x) =>
    /\ \A k \in left[x] : rcp[Mine(x)][k] = "ELIGIBLE" /\ wr[x][k] = "NONE"
    /\ \A k \in Contacts : wr[x][k] # "NONE" => rcp[Mine(x)][k] = "ELIGIBLE"
    /\ pc[x] \in InCall => cur[x] \in left[x]

RunInv == TypeOK /\ RowHeld /\ StagedFirst /\ OnceEach

USE DEF InCall
----------------------------------------------------------------------------------
(* A set of naturals that is not empty has a least.                        *)
LEMMA LeastNatural ==
  ASSUME NEW T \in SUBSET Nat, T # {}
  PROVE  \E m \in T : \A n \in T : m <= n
<1>1. PICK m \in T : \A n \in T : ~ (<<n, m>> \in OpToRel(<, Nat))
  BY NatLessThanWellFounded, WFMin
<1>2. \A n \in T : ~ (n < m)
  BY <1>1 DEF OpToRel
<1> QED
  BY <1>2

(* The next recipient is one of those left.                                *)
LEMMA FirstIsLeft ==
  ASSUME TypeOK, NEW x \in Executors, left[x] # {}
  PROVE  FirstLeft(x) \in left[x]
<1> DEFINE P(k) == Position[Mine(x)][k]
           T == {P(k) : k \in left[x]}
<1>1. \A k \in left[x] : P(k) \in Nat
  BY CampaignAssumption DEF TypeOK, Mine
<1>2. PICK m \in T : \A n \in T : m <= n
  <2>1. T \in SUBSET Nat /\ T # {}
    BY <1>1
  <2> HIDE DEF T
  <2> QED
    BY <2>1, LeastNatural
<1>3. PICK k \in left[x] : \A j \in left[x] : P(k) <= P(j)
  BY <1>2
<1> QED
  BY <1>3 DEF FirstLeft

(* What a run sees of its recipients.                                      *)
LEMMA ViewHasType ==
  ASSUME TypeOK, NEW x \in Executors
  PROVE  /\ View(x) \in [Contacts -> RecipientStatus]
         /\ \A k \in Contacts : View(x)[k] = IF wr[x][k] = "NONE" THEN rcp[Mine(x)][k] ELSE wr[x][k]
         /\ \A k \in EligibleFor(x) :
              k \in Contacts /\ wr[x][k] = "NONE" /\ rcp[Mine(x)][k] = "ELIGIBLE"
         /\ Batch(x, EligibleFor(x)) \subseteq EligibleFor(x)
<1>1. wr[x] \in [Contacts -> RecipientStatus \ {"ELIGIBLE"}]
  BY DEF TypeOK
<1>2. rcp[Mine(x)] \in [Contacts -> RecipientStatus]
  BY CampaignAssumption DEF TypeOK, Mine
<1>3. \A k \in Contacts : View(x)[k] = IF wr[x][k] = "NONE" THEN rcp[Mine(x)][k] ELSE wr[x][k]
  BY DEF View
<1>4. View(x) \in [Contacts -> RecipientStatus]
  BY <1>1, <1>2 DEF View
<1>5. \A k \in EligibleFor(x) :
         k \in Contacts /\ wr[x][k] = "NONE" /\ rcp[Mine(x)][k] = "ELIGIBLE"
  BY <1>1, <1>3 DEF EligibleFor
<1> QED
  BY <1>3, <1>4, <1>5 DEF Batch

(* A step inside run x, which may write recipient k: it keeps its row, and *)
(* what it has left is what it had, less what it wrote.                    *)
StepsTo(x, l, L, W) ==
  /\ Active(x)
  /\ l \in PC \ {"idle", "guarded"} /\ pc' = [pc EXCEPT ![x] = l]
  /\ L \in SUBSET Contacts /\ left' = [left EXCEPT ![x] = L]
  /\ W \in [Contacts -> RecipientStatus \ {"ELIGIBLE"}] /\ wr' = [wr EXCEPT ![x] = W]
  /\ \A k \in L : rcp[Mine(x)][k] = "ELIGIBLE" /\ W[k] = "NONE"
  /\ \A k \in Contacts : W[k] # "NONE" => rcp[Mine(x)][k] = "ELIGIBLE"
  /\ l \in InCall => cur'[x] \in L
  /\ UNCHANGED <<status, rcp, suppressed, campaignLock, runs, aborts, undone>>

(* Such a step keeps the invariant.                                        *)
LEMMA StepInsideRun ==
  ASSUME RunInv, NEW x \in Executors, NEW l, NEW L, NEW W, StepsTo(x, l, L, W),
         cur' \in [Executors -> Contacts \cup {Free}],
         \A y \in Executors \ {x} : cur'[y] = cur[y],
         sent' \in [Executors -> Nat], failed' \in [Executors -> Nat],
         contactLock' \in [Contacts -> Executors \cup {Free}],
         wire' \in [Campaigns -> [Contacts -> Nat]], late' \in [Contacts -> Nat],
         stray' \in [Campaigns -> SUBSET Contacts]
  PROVE  RunInv'
<1> USE DEF StepsTo
<1>1. TypeOK'
  <2>1. /\ pc' \in [Executors -> PC] /\ left' \in [Executors -> SUBSET Contacts]
        /\ wr' \in [Executors -> [Contacts -> RecipientStatus \ {"ELIGIBLE"}]]
    BY DEF RunInv, TypeOK
  <2>2. \A y \in Executors : pc'[y] \in InCall => cur'[y] \in Contacts
    BY DEF RunInv, TypeOK
  <2>3. \A c \in Campaigns :
          campaignLock'[c] # Free => pc'[campaignLock'[c]] \notin {"idle", "guarded"}
    BY DEF RunInv, TypeOK
  <2> QED
    BY <2>1, <2>2, <2>3 DEF RunInv, TypeOK, db
<1>2. RowHeld' /\ StagedFirst'
  BY DEF RunInv, TypeOK, RowHeld, StagedFirst, Active, Mine, db
<1>3. OnceEach'
  <2> SUFFICES ASSUME NEW y \in Executors, Active(y)'
               PROVE  /\ \A k \in left'[y] : rcp'[Mine(y)][k] = "ELIGIBLE" /\ wr'[y][k] = "NONE"
                      /\ \A k \in Contacts : wr'[y][k] # "NONE" => rcp'[Mine(y)][k] = "ELIGIBLE"
                      /\ pc'[y] \in InCall => cur'[y] \in left'[y]
    BY DEF OnceEach, Mine
  <2>1. CASE y = x
    BY <2>1 DEF RunInv, TypeOK, db
  <2>2. CASE y # x
    BY <2>2 DEF RunInv, TypeOK, OnceEach, Active, db
  <2> QED
    BY <2>1, <2>2
<1> QED
  BY <1>1, <1>2, <1>3 DEF RunInv

(* The end of run x, by commit or rollback, frees its row.                 *)
LEMMA EndOfRun ==
  ASSUME RunInv, NEW x \in Executors, pc[x] # "idle", Unlock(x), Forget(x),
         rcp' \in [Campaigns -> [Contacts -> RecipientStatus]],
         \A c \in Campaigns :
           \/ status'[c] = status[c] /\ rcp'[c] = rcp[c]
           \/ c = Mine(x) /\ Active(x) /\ status'[c] # "NONE",
         status' \in [Campaigns -> CampaignStatus],
         undone' \in [Campaigns -> [Contacts -> Nat]], aborts' \in Nat,
         stray' \in [Campaigns -> SUBSET Contacts],
         UNCHANGED <<suppressed, sent, failed, runs, wire, late>>
  PROVE  RunInv'
<1>1. /\ pc' = [pc EXCEPT ![x] = "idle"] /\ left' = [left EXCEPT ![x] = {}]
      /\ cur' = [cur EXCEPT ![x] = Free] /\ wr' = [wr EXCEPT ![x] = Nobody]
      /\ Nobody \in [Contacts -> RecipientStatus \ {"ELIGIBLE"}]
  BY DEF Forget, Nobody, RecipientStatus
<1>2. /\ campaignLock' = [c \in Campaigns |-> IF campaignLock[c] = x THEN Free ELSE campaignLock[c]]
      /\ contactLock' \in [Contacts -> Executors \cup {Free}]
  BY DEF Unlock, RunInv, TypeOK
<1>3. TypeOK'
  <2>1. /\ pc' \in [Executors -> PC] /\ left' \in [Executors -> SUBSET Contacts]
        /\ cur' \in [Executors -> Contacts \cup {Free}]
        /\ wr' \in [Executors -> [Contacts -> RecipientStatus \ {"ELIGIBLE"}]]
    BY <1>1 DEF RunInv, TypeOK, PC
  <2>2. campaignLock' \in [Campaigns -> Executors \cup {Free}]
    BY <1>2 DEF RunInv, TypeOK
  <2>3. \A y \in Executors : pc'[y] \in InCall => cur'[y] \in Contacts
    BY <1>1 DEF RunInv, TypeOK
  <2>4. \A c \in Campaigns :
          campaignLock'[c] # Free => pc'[campaignLock'[c]] \notin {"idle", "guarded"}
    BY <1>1, <1>2 DEF RunInv, TypeOK
  <2> QED
    BY <1>2, <2>1, <2>2, <2>3, <2>4 DEF RunInv, TypeOK
<1>4. RowHeld'
  <2>1. \A y \in Executors : Active(y)' => y # x /\ Active(y)
    BY <1>1 DEF Active, RunInv, TypeOK
  <2>2. \A y \in Executors : ~ Active(y)' => wr'[y] = Nobody
    BY <1>1 DEF Active, RunInv, RowHeld, TypeOK
  <2>3. \A y \in Executors : Active(y)' => campaignLock'[Mine(y)] = y
    BY <1>2, <2>1, CampaignAssumption DEF RunInv, RowHeld, Mine
  <2>4. \A c \in Campaigns : campaignLock'[c] # Free => Mine(campaignLock'[c]) = c
    BY <1>2 DEF RunInv, RowHeld
  <2> QED
    BY <2>2, <2>3, <2>4 DEF RowHeld, Mine
<1>5. \A c \in Campaigns : status[c] # "NONE" => status'[c] # "NONE"
  OBVIOUS
<1>6. StagedFirst'
  <2>1. \A c \in Campaigns : status'[c] = "NONE" => rcp'[c] = Nobody
    BY <1>5 DEF RunInv, StagedFirst
  <2>2. \A y \in Executors : pc'[y] # "idle" => status'[Mine(y)] # "NONE"
    BY <1>1, <1>5, CampaignAssumption DEF RunInv, StagedFirst, Mine, TypeOK
  <2> QED
    BY <2>1, <2>2 DEF StagedFirst, Mine
<1>7. OnceEach'
  <2> SUFFICES ASSUME NEW y \in Executors, Active(y)'
               PROVE  /\ \A k \in left'[y] : rcp'[Mine(y)][k] = "ELIGIBLE" /\ wr'[y][k] = "NONE"
                      /\ \A k \in Contacts : wr'[y][k] # "NONE" => rcp'[Mine(y)][k] = "ELIGIBLE"
                      /\ pc'[y] \in InCall => cur'[y] \in left'[y]
    BY DEF OnceEach, Mine
  <2>1. y # x /\ Active(y)
    BY <1>1 DEF Active, RunInv, TypeOK
  <2>2. /\ left'[y] = left[y] /\ wr'[y] = wr[y] /\ pc'[y] = pc[y] /\ cur'[y] = cur[y]
    BY <1>1, <2>1 DEF RunInv, TypeOK
  <2>3. rcp'[Mine(y)] = rcp[Mine(y)]
    <3>1. Mine(y) \in Campaigns
      BY CampaignAssumption DEF Mine
    <3>2. campaignLock[Mine(y)] = y
      BY <2>1 DEF RunInv, RowHeld
    <3>3. Active(x) => Mine(y) # Mine(x)
      BY <2>1, <3>2 DEF RunInv, RowHeld
    <3> QED
      BY <3>1, <3>3
  <2> QED
    BY <2>1, <2>2, <2>3 DEF RunInv, OnceEach
<1> QED
  BY <1>3, <1>4, <1>6, <1>7 DEF RunInv

(* Giving a run up is such an end.                                         *)
LEMMA RollbackKeeps ==
  ASSUME RunInv, NEW x \in Executors, pc[x] # "idle", Rollback(x), aborts' \in Nat
  PROVE  RunInv'
<1>1. undone' \in [Campaigns -> [Contacts -> Nat]]
  <2> DEFINE u == [k \in Contacts |-> IF k \in SentBy(x) THEN undone[Mine(x)][k] + 1
                                                         ELSE undone[Mine(x)][k]]
  <2>1. undone[Mine(x)] \in [Contacts -> Nat]
    BY CampaignAssumption DEF RunInv, TypeOK, Mine
  <2>2. u \in [Contacts -> Nat]
    BY <2>1
  <2>3. undone' = [undone EXCEPT ![Mine(x)] = u]
    BY DEF Rollback
  <2> HIDE DEF u
  <2> QED
    BY <2>2, <2>3 DEF RunInv, TypeOK
<1>2. /\ Unlock(x) /\ Forget(x) /\ UNCHANGED <<db, sent, failed, runs, wire, late>>
      /\ stray' \in [Campaigns -> SUBSET Contacts]
  BY CampaignAssumption DEF Rollback, RunInv, TypeOK, Mine
<1>3. /\ UNCHANGED <<status, rcp, suppressed>> /\ rcp' \in [Campaigns -> [Contacts -> RecipientStatus]]
      /\ status' \in [Campaigns -> CampaignStatus]
  BY <1>2 DEF db, RunInv, TypeOK
<1> QED
  BY <1>1, <1>2, <1>3, EndOfRun

(* A victim of a deadlock was waiting.                                     *)
LEMMA VictimWaits ==
  ASSUME NEW x \in Executors, DeadlockVictim(x)
  PROVE  pc[x] # "idle" /\ Rollback(x) /\ UNCHANGED aborts
  BY DEF DeadlockVictim, WaitsFor

(* A run holds its campaign's row, and writes eligible recipients once.    *)
LEMMA RunInvariant == Spec => []RunInv
<1>1. Init => RunInv
  <2> SUFFICES ASSUME Init
               PROVE  RunInv
    OBVIOUS
  <2>1. TypeOK
    BY CampaignAssumption
    DEF Init, TypeOK, Nobody, Zeroes, CampaignStatus, RecipientStatus, PC
  <2> QED
    BY <2>1, CampaignAssumption
    DEF Init, RunInv, RowHeld, StagedFirst, OnceEach, Active, Nobody, Mine
<1>2. RunInv /\ [Next]_vars => RunInv'
  <2> SUFFICES ASSUME RunInv, [Next]_vars
               PROVE  RunInv'
    OBVIOUS
  <2>1. ASSUME NEW c \in Campaigns, NEW rejected \in SUBSET Contacts, Stage(c, rejected)
        PROVE  RunInv'
    <3>1. /\ status' = [status EXCEPT ![c] = "DRAFT"] /\ status[c] = "NONE"
          /\ rcp' \in [Campaigns -> [Contacts -> RecipientStatus]]
          /\ \A d \in Campaigns \ {c} : rcp'[d] = rcp[d]
          /\ UNCHANGED <<suppressed, locks, run, aborts, history>>
      BY <2>1 DEF Stage, RunInv, TypeOK, RecipientStatus
    <3>2. \A x \in Executors : pc[x] # "idle" => Mine(x) # c /\ Mine(x) \in Campaigns
      BY <3>1, CampaignAssumption DEF RunInv, StagedFirst, Mine
    <3>3. TypeOK'
      BY <3>1 DEF RunInv, TypeOK, CampaignStatus, locks, run, history
    <3>4. RowHeld'
      BY <3>1 DEF RunInv, RowHeld, Active, Mine, locks, run
    <3>5. StagedFirst'
      BY <3>1, <3>2 DEF RunInv, TypeOK, StagedFirst, Mine, run
    <3>6. OnceEach'
      BY <3>1, <3>2 DEF RunInv, OnceEach, Active, Mine, run
    <3> QED
      BY <3>3, <3>4, <3>5, <3>6 DEF RunInv
  <2>2. ASSUME NEW k \in Contacts, Suppress(k)
        PROVE  RunInv'
    BY <2>2 DEF Suppress, RunInv, TypeOK, RowHeld, StagedFirst, OnceEach, Active, Mine, locks,
                run, history
  <2>3. ASSUME NEW x \in Executors, Begin(x)
        PROVE  RunInv'
    <3>1. /\ pc' = [pc EXCEPT ![x] = "guarded"] /\ pc[x] = "idle"
          /\ status[Mine(x)] # "NONE"
          /\ runs' \in [Executors -> Nat]
          /\ UNCHANGED <<db, locks, left, cur, wr, sent, failed, aborts, history>>
      BY <2>3 DEF Begin, RunInv, TypeOK
    <3>2. TypeOK'
      BY <3>1 DEF RunInv, TypeOK, PC, db, locks, history
    <3> QED
      BY <3>1, <3>2 DEF RunInv, TypeOK, RowHeld, StagedFirst, OnceEach, Active, Mine, db, locks
  <2>4. ASSUME NEW x \in Executors, Enter(x)
        PROVE  RunInv'
    <3>1. /\ pc[x] = "guarded" /\ campaignLock[Mine(x)] = Free /\ Mine(x) \in Campaigns
          /\ campaignLock' = [campaignLock EXCEPT ![Mine(x)] = x]
          /\ left' = [left EXCEPT ![x] = Batch(x, EligibleFor(x))]
          /\ sent' \in [Executors -> Nat] /\ failed' \in [Executors -> Nat]
          /\ pc' = [pc EXCEPT ![x] = "running"]
          /\ UNCHANGED <<db, contactLock, cur, wr, runs, aborts, history>>
      BY <2>4, CampaignAssumption DEF Enter, RowFree, RunInv, TypeOK, Mine
    <3>2. /\ Batch(x, EligibleFor(x)) \subseteq Contacts
          /\ \A k \in Batch(x, EligibleFor(x)) :
               wr[x][k] = "NONE" /\ rcp[Mine(x)][k] = "ELIGIBLE"
      BY ViewHasType DEF RunInv
    <3>3. \A k \in Contacts : wr[x][k] = "NONE"
      BY <3>1 DEF RunInv, RowHeld, Active, Nobody
    <3>4. \A y \in Executors \ {x} : Active(y) => Mine(y) # Mine(x)
      BY <3>1, CampaignAssumption DEF RunInv, RowHeld
    <3>5. TypeOK'
      <4>1. \A c \in Campaigns :
              campaignLock'[c] # Free => pc'[campaignLock'[c]] \notin {"idle", "guarded"}
        BY <3>1 DEF RunInv, TypeOK
      <4>2. /\ pc' \in [Executors -> PC] /\ left' \in [Executors -> SUBSET Contacts]
            /\ campaignLock' \in [Campaigns -> Executors \cup {Free}]
            /\ \A y \in Executors : pc'[y] \in InCall => cur'[y] \in Contacts
        BY <3>1, <3>2 DEF RunInv, TypeOK, PC
      <4> QED
        BY <3>1, <4>1, <4>2 DEF RunInv, TypeOK, db, history
    <3>6. RowHeld'
      BY <3>1, <3>4, CampaignAssumption DEF RunInv, TypeOK, RowHeld, Active, Mine
    <3>7. StagedFirst'
      BY <3>1 DEF RunInv, TypeOK, StagedFirst, Mine, db
    <3>8. OnceEach'
      BY <3>1, <3>2, <3>3 DEF RunInv, TypeOK, OnceEach, Active, Mine, db
    <3> QED
      BY <3>5, <3>6, <3>7, <3>8 DEF RunInv
  <2>5. ASSUME NEW x \in Executors, Check(x)
        PROVE  RunInv'
    <3> DEFINE k == FirstLeft(x)
    <3>1. /\ pc[x] = "running" /\ k \in left[x] /\ Active(x)
          /\ UNCHANGED <<db, locks, sent, runs, aborts, history>>
      BY <2>5, FirstIsLeft DEF Check, RunInv, Active
    <3>2. /\ left[x] \in SUBSET Contacts
          /\ wr[x] \in [Contacts -> RecipientStatus \ {"ELIGIBLE"}]
          /\ \A j \in left[x] : rcp[Mine(x)][j] = "ELIGIBLE" /\ wr[x][j] = "NONE"
          /\ \A j \in Contacts : wr[x][j] # "NONE" => rcp[Mine(x)][j] = "ELIGIBLE"
      BY <3>1 DEF RunInv, TypeOK, OnceEach
    <3>3. ASSUME NEW v \in {"REJECTED", "FAILED"}, wr' = [wr EXCEPT ![x][k] = v],
                 left' = [left EXCEPT ![x] = @ \ {k}],
                 failed' \in [Executors -> Nat], UNCHANGED <<pc, cur>>
          PROVE  RunInv'
      <4> DEFINE W == [wr[x] EXCEPT ![k] = v]
                 L == left[x] \ {k}
      <4>1. /\ W \in [Contacts -> RecipientStatus \ {"ELIGIBLE"}]
            /\ \A j \in Contacts : W[j] # "NONE" => rcp[Mine(x)][j] = "ELIGIBLE"
            /\ \A j \in L : rcp[Mine(x)][j] = "ELIGIBLE" /\ W[j] = "NONE"
        BY <3>1, <3>2 DEF RecipientStatus
      <4>2. wr' = [wr EXCEPT ![x] = W] /\ left' = [left EXCEPT ![x] = L]
        BY <3>3
      <4>3. wr'[x] = W /\ L \in SUBSET Contacts
        BY <3>2, <4>2 DEF RunInv, TypeOK
      <4>4. "running" \in PC \ {"idle", "guarded"} /\ pc' = [pc EXCEPT ![x] = "running"]
        BY <3>1, <3>3 DEF PC, RunInv, TypeOK
      <4>5. StepsTo(x, "running", L, W)
        <5> HIDE DEF W, L, k
        <5> QED
          BY <3>1, <3>3, <4>1, <4>2, <4>3, <4>4 DEF StepsTo, db, locks, history
      <4>6. UNCHANGED <<cur, sent, contactLock, wire, late, stray>>
        BY <3>1, <3>3 DEF locks, history
      <4>7. /\ cur' \in [Executors -> Contacts \cup {Free}]
            /\ \A y \in Executors \ {x} : cur'[y] = cur[y]
            /\ sent' \in [Executors -> Nat]
            /\ contactLock' \in [Contacts -> Executors \cup {Free}]
            /\ wire' \in [Campaigns -> [Contacts -> Nat]] /\ late' \in [Contacts -> Nat]
            /\ stray' \in [Campaigns -> SUBSET Contacts]
        BY <4>6 DEF RunInv, TypeOK
      <4> HIDE DEF W, L
      <4> QED
        BY <3>3, <4>5, <4>7, StepInsideRun
    <3>4. CASE /\ cur' = [cur EXCEPT ![x] = k] /\ pc' = [pc EXCEPT ![x] = "sending"]
               /\ UNCHANGED <<wr, failed, left>>
      <4>1. "sending" \in PC \ {"idle", "guarded"}
        BY DEF PC
      <4>2. /\ left' = [left EXCEPT ![x] = left[x]] /\ wr' = [wr EXCEPT ![x] = wr[x]]
            /\ cur' \in [Executors -> Contacts \cup {Free}] /\ cur'[x] \in left[x]
            /\ \A y \in Executors \ {x} : cur'[y] = cur[y]
        BY <3>1, <3>2, <3>4 DEF RunInv, TypeOK
      <4>3. StepsTo(x, "sending", left[x], wr[x])
        BY <3>1, <3>2, <3>4, <4>1, <4>2 DEF StepsTo, db, locks, history
      <4>4. UNCHANGED <<sent, failed, contactLock, wire, late, stray>>
        BY <3>1, <3>4 DEF locks, history
      <4>5. /\ sent' \in [Executors -> Nat] /\ failed' \in [Executors -> Nat]
            /\ contactLock' \in [Contacts -> Executors \cup {Free}]
            /\ wire' \in [Campaigns -> [Contacts -> Nat]] /\ late' \in [Contacts -> Nat]
            /\ stray' \in [Campaigns -> SUBSET Contacts]
        BY <4>4 DEF RunInv, TypeOK
      <4> QED
        BY <4>2, <4>3, <4>5, StepInsideRun
    <3>5. failed' = failed \/ failed' = [failed EXCEPT ![x] = @ + 1]
                   => failed' \in [Executors -> Nat]
      BY DEF RunInv, TypeOK
    <3>6. \/ RejectSuppressed(x, k) /\ UNCHANGED <<pc, cur>>
          \/ FailUndecryptable(x, k) /\ UNCHANGED <<pc, cur>>
          \/ /\ cur' = [cur EXCEPT ![x] = k] /\ pc' = [pc EXCEPT ![x] = "sending"]
             /\ UNCHANGED <<wr, failed, left>>
      BY <2>5 DEF Check
    <3> HIDE DEF k
    <3> QED
      BY <3>3, <3>4, <3>5, <3>6 DEF RejectSuppressed, FailUndecryptable
  <2>6. ASSUME NEW x \in Executors, Send(x)
        PROVE  RunInv'
    <3>1. /\ wire' \in [Campaigns -> [Contacts -> Nat]] /\ late' \in [Contacts -> Nat]
          /\ stray' \in [Campaigns -> SUBSET Contacts]
      <4>1. cur[x] \in Contacts /\ Mine(x) \in Campaigns
        BY <2>6, CampaignAssumption DEF Send, RunInv, TypeOK, Mine
      <4> QED
        BY <2>6, <4>1 DEF Send, RunInv, TypeOK
    <3>0. PICK l \in {"accepted", "lost"} : pc' = [pc EXCEPT ![x] = l]
      BY <2>6 DEF Send
    <3>2. /\ Active(x) /\ l \in PC \ {"idle", "guarded"}
          /\ cur[x] \in left[x] /\ left[x] \in SUBSET Contacts
          /\ wr[x] \in [Contacts -> RecipientStatus \ {"ELIGIBLE"}]
          /\ \A j \in left[x] : rcp[Mine(x)][j] = "ELIGIBLE" /\ wr[x][j] = "NONE"
          /\ \A j \in Contacts : wr[x][j] # "NONE" => rcp[Mine(x)][j] = "ELIGIBLE"
      BY <2>6 DEF Send, PC, Active, RunInv, TypeOK, OnceEach
    <3>3. /\ left' = [left EXCEPT ![x] = left[x]] /\ wr' = [wr EXCEPT ![x] = wr[x]]
          /\ wr'[x] = wr[x]
      BY <2>6 DEF Send, RunInv, TypeOK
    <3>4. StepsTo(x, l, left[x], wr[x])
      BY <2>6, <3>0, <3>2, <3>3 DEF Send, StepsTo, db, locks
    <3>5. UNCHANGED <<cur, sent, failed, contactLock>>
      BY <2>6 DEF Send, locks
    <3>6. /\ cur' \in [Executors -> Contacts \cup {Free}]
          /\ \A y \in Executors \ {x} : cur'[y] = cur[y]
          /\ sent' \in [Executors -> Nat] /\ failed' \in [Executors -> Nat]
          /\ contactLock' \in [Contacts -> Executors \cup {Free}]
      BY <3>5 DEF RunInv, TypeOK
    <3> QED
      BY <3>1, <3>4, <3>6, StepInsideRun
  <2>7. ASSUME NEW x \in Executors, Record(x) \/ SendRejected(x)
        PROVE  RunInv'
    <3> DEFINE k == cur[x]
    <3>1. PICK v \in {"SENT", "FAILED"} : wr' = [wr EXCEPT ![x][k] = v]
      BY <2>7 DEF Record, SendRejected
    <3>2. /\ Active(x) /\ k \in left[x] /\ left[x] \in SUBSET Contacts
          /\ wr[x] \in [Contacts -> RecipientStatus \ {"ELIGIBLE"}]
          /\ \A j \in left[x] : rcp[Mine(x)][j] = "ELIGIBLE" /\ wr[x][j] = "NONE"
          /\ \A j \in Contacts : wr[x][j] # "NONE" => rcp[Mine(x)][j] = "ELIGIBLE"
      BY <2>7 DEF Record, SendRejected, Active, RunInv, TypeOK, OnceEach
    <3> DEFINE W == [wr[x] EXCEPT ![k] = v]
               L == left[x] \ {k}
    <3>3. /\ W \in [Contacts -> RecipientStatus \ {"ELIGIBLE"}]
          /\ \A j \in Contacts : W[j] # "NONE" => rcp[Mine(x)][j] = "ELIGIBLE"
          /\ \A j \in L : rcp[Mine(x)][j] = "ELIGIBLE" /\ W[j] = "NONE"
          /\ L \in SUBSET Contacts
      BY <3>2 DEF RecipientStatus
    <3>4. wr' = [wr EXCEPT ![x] = W] /\ wr'[x] = W
      BY <3>1 DEF RunInv, TypeOK
    <3>5. left' = [left EXCEPT ![x] = L]
      BY <2>7 DEF Record, SendRejected, AfterAttempt
    <3>6. PICK l \in {"pausing", "running"} : pc' = [pc EXCEPT ![x] = l]
      BY <2>7 DEF Record, SendRejected, AfterAttempt
    <3>7. /\ sent' \in [Executors -> Nat] /\ failed' \in [Executors -> Nat]
          /\ contactLock' \in [Contacts -> Executors \cup {Free}]
          /\ UNCHANGED <<db, campaignLock, cur, runs, aborts, wire, undone, late>>
          /\ stray' \in [Campaigns -> SUBSET Contacts]
      <4>1. CASE Record(x)
        <5>1. k \in Contacts
          BY <3>2
        <5> QED
          BY <4>1, <5>1 DEF Record, RunInv, TypeOK, history
      <4>2. CASE SendRejected(x)
        <5>1. k \in Contacts /\ Mine(x) \in Campaigns
          BY <3>2, CampaignAssumption DEF Mine
        <5> QED
          BY <4>2, <5>1 DEF SendRejected, RunInv, TypeOK, locks
      <4> QED
        BY <2>7, <4>1, <4>2
    <3>8. l \in PC \ {"idle", "guarded"} /\ l \notin InCall
      BY <3>6 DEF PC
    <3>9. /\ wire' \in [Campaigns -> [Contacts -> Nat]] /\ late' \in [Contacts -> Nat]
          /\ cur' \in [Executors -> Contacts \cup {Free}]
          /\ \A y \in Executors \ {x} : cur'[y] = cur[y]
      BY <3>7 DEF RunInv, TypeOK
    <3>10. StepsTo(x, l, L, W)
      <4> HIDE DEF W, L, k
      <4> QED
        BY <3>2, <3>3, <3>4, <3>5, <3>6, <3>7, <3>8 DEF StepsTo, db
    <3> HIDE DEF W, L, k
    <3> QED
      BY <3>7, <3>9, <3>10, StepInsideRun
  <2>8. ASSUME NEW x \in Executors, NextBatch(x)
        PROVE  RunInv'
    <3> DEFINE L == Batch(x, EligibleFor(x))
               l == IF EligibleFor(x) = {} THEN "completing" ELSE "running"
    <3>1. /\ L \in SUBSET Contacts
          /\ \A k \in L : wr[x][k] = "NONE" /\ rcp[Mine(x)][k] = "ELIGIBLE"
      BY ViewHasType DEF RunInv
    <3>2. /\ Active(x)
          /\ wr[x] \in [Contacts -> RecipientStatus \ {"ELIGIBLE"}]
          /\ \A j \in Contacts : wr[x][j] # "NONE" => rcp[Mine(x)][j] = "ELIGIBLE"
      BY <2>8 DEF NextBatch, Active, RunInv, TypeOK, OnceEach
    <3>3. /\ left' = [left EXCEPT ![x] = L] /\ wr' = [wr EXCEPT ![x] = wr[x]] /\ wr'[x] = wr[x]
          /\ pc' = [pc EXCEPT ![x] = l]
          /\ UNCHANGED <<db, locks, cur, sent, failed, runs, aborts, history>>
      BY <2>8 DEF NextBatch, RunInv, TypeOK
    <3>4. l \in PC \ {"idle", "guarded"} /\ l \notin InCall
      BY DEF PC
    <3>5. /\ wire' \in [Campaigns -> [Contacts -> Nat]] /\ late' \in [Contacts -> Nat]
          /\ stray' \in [Campaigns -> SUBSET Contacts]
          /\ sent' \in [Executors -> Nat] /\ failed' \in [Executors -> Nat]
          /\ contactLock' \in [Contacts -> Executors \cup {Free}]
          /\ cur' \in [Executors -> Contacts \cup {Free}]
          /\ \A y \in Executors \ {x} : cur'[y] = cur[y]
          /\ UNCHANGED <<db, campaignLock, runs, aborts, undone>>
      BY <3>3 DEF RunInv, TypeOK, locks, history
    <3> HIDE DEF L, l
    <3>6. StepsTo(x, l, L, wr[x])
      BY <3>1, <3>2, <3>3, <3>4, <3>5 DEF StepsTo, db
    <3> QED
      BY <3>5, <3>6, StepInsideRun
  <2>9. ASSUME NEW x \in Executors, Commit(x)
        PROVE  RunInv'
    <3>1. /\ Active(x) /\ pc[x] # "idle" /\ Mine(x) \in Campaigns
          /\ FinalStatus(x) \in CampaignStatus \ {"NONE"}
      BY <2>9, CampaignAssumption DEF Commit, Active, FinalStatus, CampaignStatus, Mine
    <3>2. /\ status' \in [Campaigns -> CampaignStatus]
          /\ rcp' \in [Campaigns -> [Contacts -> RecipientStatus]]
          /\ status'[Mine(x)] # "NONE"
          /\ \A c \in Campaigns \ {Mine(x)} : status'[c] = status[c] /\ rcp'[c] = rcp[c]
      BY <2>9, <3>1, ViewHasType DEF Commit, RunInv, TypeOK
    <3>3. /\ undone' \in [Campaigns -> [Contacts -> Nat]] /\ aborts' \in Nat
          /\ stray' \in [Campaigns -> SUBSET Contacts]
          /\ UNCHANGED <<suppressed, sent, failed, runs, wire, late>>
          /\ Unlock(x) /\ Forget(x)
      BY <2>9 DEF Commit, RunInv, TypeOK, history
    <3> QED
      BY <3>1, <3>2, <3>3, EndOfRun
  <2>10. ASSUME NEW x \in Executors, Abort(x) \/ DeadlockVictim(x)
         PROVE  RunInv'
    <3>1. pc[x] # "idle" /\ Rollback(x) /\ aborts' \in Nat
      BY <2>10, VictimWaits DEF Abort, RunInv, TypeOK
    <3> QED
      BY <3>1, RollbackKeeps
  <2>11. CASE UNCHANGED vars
    BY <2>11 DEF vars, db, locks, run, history, RunInv, TypeOK, RowHeld, StagedFirst, OnceEach,
                 Active, Mine
  <2> QED
    BY <2>1, <2>2, <2>3, <2>4, <2>5, <2>6, <2>7, <2>8, <2>9, <2>10, <2>11 DEF Next, RunStep
<1> QED
  BY <1>1, <1>2, PTL DEF Spec

(* Rows, locks, an executor's transaction and the counts keep their types: *)
(* whatever execute_campaign writes, a rollback or a restart leaves the    *)
(* columns with values the code can read back.                             *)
THEOREM RunsAreTyped == Spec => []TypeOK
<1>1. RunInv => TypeOK
  BY DEF RunInv
<1> QED
  BY <1>1, RunInvariant, PTL

----------------------------------------------------------------------------------
(***************************************************************************)
(* Every template is accounted for.                                        *)
(***************************************************************************)
Open(c, k) == IF InFlight(c, k) = {} THEN 0 ELSE 1

Accounted ==
  \A c \in Campaigns, k \in Contacts :
    wire[c][k] = undone[c][k] + Recorded(c, k) + Open(c, k)

(* Who has sent is at work, alone on its campaign, and its recipient is    *)
(* still ELIGIBLE to others.                                               *)
LEMMA SendersAreAlone ==
  ASSUME RunInv
  PROVE  /\ \A x \in Executors, k \in Contacts :
              k \in SentBy(x) => Active(x) /\ rcp[Mine(x)][k] = "ELIGIBLE"
         /\ \A x, y \in Executors : Active(x) /\ Active(y) /\ Mine(x) = Mine(y) => x = y
<1>1. ASSUME NEW x \in Executors, NEW k \in Contacts, k \in SentBy(x)
      PROVE  Active(x) /\ rcp[Mine(x)][k] = "ELIGIBLE"
  <2>1. Active(x)
    BY <1>1 DEF SentBy, Active, RunInv, RowHeld, Nobody
  <2>2. CASE wr[x][k] = "SENT"
    BY <2>1, <2>2 DEF RunInv, OnceEach
  <2>3. CASE pc[x] \in {"accepted", "lost"} /\ cur[x] = k
    BY <2>1, <2>3 DEF RunInv, OnceEach
  <2>4. CASE wr[x][k] = "FAILED"
    BY <2>1, <2>4 DEF RunInv, OnceEach
  <2> QED
    BY <1>1, <2>1, <2>2, <2>3, <2>4 DEF SentBy
<1>2. \A x, y \in Executors : Active(x) /\ Active(y) /\ Mine(x) = Mine(y) => x = y
  BY DEF RunInv, RowHeld
<1> QED
  BY <1>1, <1>2

(* A recipient whose answer was lost is FAILED, by a commit or in a run.   *)
StrayIsFailed ==
  \A c \in Campaigns : \A k \in stray[c] :
    rcp[c][k] = "FAILED" \/ \E x \in Executors : Mine(x) = c /\ wr[x][k] = "FAILED"

(* Whom a run may still decide has not lost an answer.                     *)
LEMMA UndecidedIsNotStray ==
  ASSUME RunInv, StrayIsFailed, NEW x \in Executors, Active(x), NEW k \in Contacts,
         rcp[Mine(x)][k] = "ELIGIBLE", wr[x][k] = "NONE"
  PROVE  k \notin stray[Mine(x)]
<1> SUFFICES ASSUME k \in stray[Mine(x)]
             PROVE  FALSE
  OBVIOUS
<1>1. PICK y \in Executors : Mine(y) = Mine(x) /\ wr[y][k] = "FAILED"
  BY CampaignAssumption DEF StrayIsFailed, Mine
<1>2. Active(y)
  BY <1>1 DEF RunInv, RowHeld, Nobody
<1> QED
  BY <1>1, <1>2, SendersAreAlone

(* A call that raises with its answer lost marks its recipient FAILED, and *)
(* only a rollback takes that back, with the mark.                         *)
LEMMA StrayInvariant == Spec => []StrayIsFailed
<1>1. Init => StrayIsFailed
  BY DEF Init, StrayIsFailed
<1>2. RunInv /\ StrayIsFailed /\ [Next]_vars => StrayIsFailed'
  <2> SUFFICES ASSUME RunInv, StrayIsFailed, [Next]_vars
               PROVE  StrayIsFailed'
    OBVIOUS
  <2>1. ASSUME NEW c \in Campaigns, NEW rejected \in SUBSET Contacts, Stage(c, rejected)
        PROVE  StrayIsFailed'
    <3>1. /\ UNCHANGED <<stray, wr>> /\ \A d \in Campaigns \ {c} : rcp'[d] = rcp[d]
          /\ rcp[c] = Nobody /\ status[c] = "NONE"
      BY <2>1 DEF Stage, run, history, RunInv, TypeOK, StagedFirst
    <3>2. \A x \in Executors, k \in Contacts : Mine(x) = c => wr[x][k] = "NONE"
      BY <3>1 DEF RunInv, StagedFirst, RowHeld, Active, Nobody
    <3>3. \A k \in stray[c] : k \in Contacts
      BY DEF RunInv, TypeOK
    <3>4. stray[c] = {}
      BY <3>1, <3>2, <3>3 DEF StrayIsFailed, Nobody
    <3> QED
      BY <3>1, <3>4 DEF StrayIsFailed, Mine
  <2>2. ASSUME \/ UNCHANGED vars
               \/ \E k \in Contacts : Suppress(k)
               \/ \E x \in Executors : Begin(x) \/ Enter(x) \/ Send(x) \/ NextBatch(x)
        PROVE  StrayIsFailed'
    <3>1. UNCHANGED <<rcp, wr, stray>>
      BY <2>2 DEF vars, Suppress, Begin, Enter, Send, NextBatch, db, run, history
    <3> QED
      BY <3>1 DEF StrayIsFailed, Mine
  <2>3. ASSUME NEW x \in Executors, Check(x) \/ Record(x) \/ SendRejected(x)
        PROVE  StrayIsFailed'
    <3>1. /\ UNCHANGED rcp
          /\ \/ wr' = wr
             \/ \E k \in left[x], v \in {"REJECTED", "SENT", "FAILED"} :
                  Active(x) /\ wr' = [wr EXCEPT ![x][k] = v]
      BY <2>3, FirstIsLeft
      DEF Check, Record, SendRejected, RejectSuppressed, FailUndecryptable, db, Active, RunInv,
          OnceEach
    <3>2. \A y \in Executors, k \in Contacts : wr[y][k] = "FAILED" => wr'[y][k] = "FAILED"
      <4>1. CASE wr' = wr
        BY <4>1
      <4>2. ASSUME NEW j \in left[x], NEW v \in {"REJECTED", "SENT", "FAILED"}, Active(x),
                   wr' = [wr EXCEPT ![x][j] = v]
            PROVE  \A y \in Executors, k \in Contacts :
                     wr[y][k] = "FAILED" => wr'[y][k] = "FAILED"
        <5>1. wr[x][j] = "NONE" /\ wr \in [Executors -> [Contacts -> RecipientStatus \ {"ELIGIBLE"}]]
          BY <4>2 DEF RunInv, TypeOK, OnceEach
        <5> QED
          BY <4>2, <5>1
      <4> QED
        BY <3>1, <4>1, <4>2
    <3>3. \/ stray' = stray
          \/ /\ stray' = [stray EXCEPT ![Mine(x)] = @ \cup {cur[x]}]
             /\ wr'[x][cur[x]] = "FAILED"
      BY <2>3 DEF Check, Record, SendRejected, history, RunInv, TypeOK
    <3>4. \A c \in Campaigns : \A k \in stray[c] : k \in Contacts
      BY DEF RunInv, TypeOK
    <3>5. ASSUME NEW c \in Campaigns, NEW k \in stray[c]
          PROVE  rcp'[c][k] = "FAILED" \/ \E y \in Executors : Mine(y) = c /\ wr'[y][k] = "FAILED"
      BY <3>1, <3>2, <3>4, <3>5 DEF StrayIsFailed
    <3>6. ASSUME NEW c \in Campaigns, NEW k \in stray'[c], k \notin stray[c]
          PROVE  c = Mine(x) /\ wr'[x][k] = "FAILED"
      BY <3>3, <3>6 DEF RunInv, TypeOK
    <3> QED
      BY <3>5, <3>6 DEF StrayIsFailed, Mine
  <2>4. ASSUME NEW x \in Executors, Commit(x)
        PROVE  StrayIsFailed'
    <3>1. /\ UNCHANGED stray /\ Active(x) /\ Mine(x) \in Campaigns
          /\ rcp' = [rcp EXCEPT ![Mine(x)] = View(x)]
          /\ wr' = [wr EXCEPT ![x] = Nobody]
      BY <2>4, CampaignAssumption DEF Commit, Forget, Active, Mine, history
    <3>2. \A k \in Contacts :
            /\ wr[x][k] # "NONE" => rcp[Mine(x)][k] = "ELIGIBLE"
            /\ rcp'[Mine(x)][k] = IF wr[x][k] = "NONE" THEN rcp[Mine(x)][k] ELSE wr[x][k]
      BY <3>1, ViewHasType DEF RunInv, TypeOK, OnceEach
    <3>3. ASSUME NEW c \in Campaigns, NEW k \in stray[c]
          PROVE  rcp'[c][k] = "FAILED" \/ \E y \in Executors : Mine(y) = c /\ wr'[y][k] = "FAILED"
      <4>1. k \in Contacts
        BY DEF RunInv, TypeOK
      <4>2. CASE rcp[c][k] = "FAILED"
        BY <3>1, <3>2, <4>1, <4>2 DEF RunInv, TypeOK
      <4>3. ASSUME NEW y \in Executors, Mine(y) = c, wr[y][k] = "FAILED"
            PROVE  rcp'[c][k] = "FAILED" \/ wr'[y][k] = "FAILED"
        BY <3>1, <3>2, <4>1, <4>3 DEF RunInv, TypeOK
      <4> QED
        BY <4>2, <4>3 DEF StrayIsFailed
    <3> QED
      BY <3>1, <3>3 DEF StrayIsFailed, Mine
  <2>5. ASSUME NEW x \in Executors, Rollback(x)
        PROVE  StrayIsFailed'
    <3>1. /\ UNCHANGED rcp /\ wr' = [wr EXCEPT ![x] = Nobody]
          /\ stray' = [stray EXCEPT ![Mine(x)] = @ \ {k \in Contacts : wr[x][k] = "FAILED"}]
      BY <2>5 DEF Rollback, Forget, db
    <3>2. ASSUME NEW c \in Campaigns, NEW k \in stray'[c]
          PROVE  k \in Contacts /\ k \in stray[c] /\ (c = Mine(x) => wr[x][k] # "FAILED")
      BY <3>1, <3>2 DEF RunInv, TypeOK
    <3>3. \A y \in Executors \ {x} : wr'[y] = wr[y]
      BY <3>1 DEF RunInv, TypeOK
    <3> QED
      BY <3>1, <3>2, <3>3 DEF StrayIsFailed, Mine
  <2> QED
    BY <2>1, <2>2, <2>3, <2>4, <2>5 DEF Next, RunStep, Abort, DeadlockVictim
<1> QED
  BY <1>1, <1>2, RunInvariant, PTL DEF Spec

(* A step that sends, undoes and records nothing.                          *)
SendsNothing ==
  /\ UNCHANGED <<wire, undone>>
  /\ \A c \in Campaigns : Settled(c)' = Settled(c)
  /\ \A x \in Executors : SentBy(x)' = SentBy(x)

(* A step that sends and records nothing keeps the account.                *)
LEMMA SendsNothingKeeps ==
  ASSUME Accounted, SendsNothing
  PROVE  Accounted'
<1>1. \A c, k : InFlight(c, k)' = InFlight(c, k)
  BY DEF InFlight, SendsNothing, Mine
<1> QED
  BY <1>1 DEF Accounted, SendsNothing, Recorded, Open

(* A step that neither sends nor ends a run.                               *)
QuietStep ==
  \/ UNCHANGED vars
  \/ \E c \in Campaigns, rejected \in SUBSET Contacts : Stage(c, rejected)
  \/ \E k \in Contacts : Suppress(k)
  \/ \E x \in Executors :
       Begin(x) \/ Enter(x) \/ NextBatch(x) \/ Check(x) \/ Record(x) \/ SendRejected(x)

(* Such a step leaves who has been sent to as it is.                       *)
LEMMA QuietSteps ==
  ASSUME RunInv, StrayIsFailed, QuietStep
  PROVE  SendsNothing
<1>1. ASSUME NEW c \in Campaigns, NEW rejected \in SUBSET Contacts, Stage(c, rejected)
      PROVE  SendsNothing
  <2>1. /\ \A k \in Contacts : rcp[c][k] \notin {"SENT", "FAILED"}
        /\ \A k \in Contacts : rcp'[c][k] \notin {"SENT", "FAILED"}
        /\ \A d \in Campaigns \ {c} : rcp'[d] = rcp[d]
        /\ UNCHANGED <<wire, undone, stray, pc, cur, wr>>
    BY <1>1 DEF Stage, RunInv, TypeOK, StagedFirst, Nobody, run, history
  <2>2. Settled(c) = {} /\ Settled(c)' = {}
    BY <2>1 DEF Settled
  <2>3. \A d \in Campaigns : Settled(d)' = Settled(d)
    BY <2>1, <2>2 DEF Settled
  <2>4. \A x \in Executors : SentBy(x)' = SentBy(x)
    BY <2>1 DEF SentBy, Mine
  <2> QED
    BY <2>1, <2>3, <2>4 DEF SendsNothing
<1>2. ASSUME \/ UNCHANGED vars
             \/ \E k \in Contacts : Suppress(k)
             \/ \E x \in Executors : Begin(x) \/ Enter(x) \/ NextBatch(x)
      PROVE  SendsNothing
  <2>1. UNCHANGED <<rcp, wire, undone, stray, wr, cur>>
    BY <1>2 DEF vars, Suppress, Begin, Enter, NextBatch, db, run, history
  <2>2. \A x \in Executors : pc'[x] \in {"accepted", "lost"} <=> pc[x] \in {"accepted", "lost"}
    BY <1>2 DEF vars, Suppress, Begin, Enter, NextBatch, run, RunInv, TypeOK
  <2>3. \A c \in Campaigns : Settled(c)' = Settled(c)
    BY <2>1 DEF Settled
  <2>4. \A x \in Executors : SentBy(x)' = SentBy(x)
    BY <2>1, <2>2 DEF SentBy, Mine
  <2> QED
    BY <2>1, <2>3, <2>4 DEF SendsNothing
<1>3. ASSUME NEW x \in Executors, Check(x) \/ Record(x) \/ SendRejected(x)
      PROVE  SendsNothing
  <2>1. UNCHANGED <<rcp, wire, undone>>
    BY <1>3 DEF Check, Record, SendRejected, db, history
  <2>2. \A y \in Executors \ {x} : wr'[y] = wr[y] /\ pc'[y] = pc[y] /\ cur'[y] = cur[y]
    BY <1>3 DEF Check, RejectSuppressed, FailUndecryptable, Record, SendRejected, AfterAttempt,
                RunInv, TypeOK
  <2>3. PICK k \in left[x] :
          /\ Active(x) /\ pc'[x] \notin {"accepted", "lost"}
          /\ \/ /\ pc[x] = "running" /\ stray' = stray
                /\ \/ wr' = wr
                   \/ \E v \in {"REJECTED", "FAILED"} : wr' = [wr EXCEPT ![x][k] = v]
             \/ /\ pc[x] = "sending" /\ stray' = stray
                /\ wr' = [wr EXCEPT ![x][k] = "FAILED"]
             \/ /\ pc[x] = "lost" /\ cur[x] = k
                /\ wr' = [wr EXCEPT ![x][k] = "FAILED"]
                /\ stray' = [stray EXCEPT ![Mine(x)] = @ \cup {k}]
             \/ /\ pc[x] = "accepted" /\ cur[x] = k /\ stray' = stray
                /\ wr' = [wr EXCEPT ![x][k] = "SENT"]
    <3>1. CASE Check(x)
      <4>1. /\ FirstLeft(x) \in left[x] /\ Active(x) /\ pc'[x] \notin {"accepted", "lost"}
            /\ pc[x] = "running" /\ stray' = stray
        BY <3>1, FirstIsLeft DEF Check, history, Active, RunInv, TypeOK
      <4>2. \/ wr' = wr
            \/ \E v \in {"REJECTED", "FAILED"} : wr' = [wr EXCEPT ![x][FirstLeft(x)] = v]
        BY <3>1 DEF Check, RejectSuppressed, FailUndecryptable
      <4> QED
        BY <4>1, <4>2
    <3>2. CASE Record(x) \/ SendRejected(x)
      <4>1. cur[x] \in left[x] /\ Active(x)
        BY <3>2 DEF Record, SendRejected, Active, RunInv, OnceEach
      <4>2. pc'[x] \notin {"accepted", "lost"}
        BY <3>2 DEF Record, SendRejected, AfterAttempt, RunInv, TypeOK
      <4>3. \/ /\ pc[x] = "accepted" /\ stray' = stray
               /\ wr' = [wr EXCEPT ![x][cur[x]] = "SENT"]
            \/ /\ pc[x] = "sending" /\ stray' = stray
               /\ wr' = [wr EXCEPT ![x][cur[x]] = "FAILED"]
            \/ /\ pc[x] = "lost" /\ stray' = [stray EXCEPT ![Mine(x)] = @ \cup {cur[x]}]
               /\ wr' = [wr EXCEPT ![x][cur[x]] = "FAILED"]
        BY <3>2 DEF Record, SendRejected, history
      <4> QED
        BY <4>1, <4>2, <4>3
    <3> QED
      BY <1>3, <3>1, <3>2
  <2>4. /\ k \in Contacts /\ wr[x][k] = "NONE" /\ rcp[Mine(x)][k] = "ELIGIBLE"
        /\ k \notin stray[Mine(x)] /\ Mine(x) \in Campaigns
    <3>1. k \in Contacts /\ wr[x][k] = "NONE" /\ rcp[Mine(x)][k] = "ELIGIBLE"
      BY <2>3 DEF RunInv, TypeOK, OnceEach
    <3> QED
      BY <2>3, <3>1, UndecidedIsNotStray, CampaignAssumption DEF Mine
  <2>5. /\ \A j \in Contacts \ {k} :
             /\ wr'[x][j] = wr[x][j]
             /\ j \in stray'[Mine(x)] <=> j \in stray[Mine(x)]
        /\ \A c \in Campaigns \ {Mine(x)} : stray'[c] = stray[c]
    BY <2>3, <2>4 DEF RunInv, TypeOK
  <2>6. SentBy(x)' = SentBy(x)
    <3>1. \A j \in Contacts \ {k} : j \in SentBy(x)' <=> j \in SentBy(x)
      BY <2>3, <2>5 DEF SentBy, Mine
    <3>2. k \in SentBy(x)' <=> k \in SentBy(x)
      BY <2>3, <2>4 DEF SentBy, Mine, RunInv, TypeOK
    <3>3. SentBy(x) \subseteq Contacts /\ SentBy(x)' \subseteq Contacts
      BY DEF SentBy
    <3> QED
      BY <3>1, <3>2, <3>3
  <2>7. \A y \in Executors \ {x} : SentBy(y)' = SentBy(y)
    <3> SUFFICES ASSUME NEW y \in Executors \ {x}
                 PROVE  SentBy(y)' = SentBy(y)
      OBVIOUS
    <3>1. CASE Mine(y) # Mine(x)
      <4>1. Mine(y) \in Campaigns
        BY CampaignAssumption DEF Mine
      <4> QED
        BY <2>2, <2>5, <3>1, <4>1 DEF SentBy, Mine
    <3>2. CASE Mine(y) = Mine(x)
      <4>1. ~ Active(y)
        BY <2>3, <3>2, SendersAreAlone
      <4>2. wr[y] = Nobody /\ pc[y] \notin {"accepted", "lost"}
        BY <4>1 DEF RunInv, RowHeld, Active
      <4> QED
        BY <2>2, <4>2 DEF SentBy, Nobody
    <3> QED
      BY <3>1, <3>2
  <2>8. \A c \in Campaigns : Settled(c)' = Settled(c)
    <3>1. \A c \in Campaigns \ {Mine(x)} : Settled(c)' = Settled(c)
      BY <2>1, <2>5 DEF Settled
    <3>2. \A j \in Contacts : j \in Settled(Mine(x))' <=> j \in Settled(Mine(x))
      BY <2>1, <2>4, <2>5 DEF Settled, Mine
    <3>3. Settled(Mine(x))' = Settled(Mine(x))
      BY <3>2 DEF Settled
    <3> QED
      BY <3>1, <3>3
  <2> QED
    BY <2>1, <2>6, <2>7, <2>8 DEF SendsNothing
<1> QED
  BY <1>1, <1>2, <1>3 DEF QuietStep

(* A send opens the one recipient that nobody has sent to.                 *)
LEMMA SendOpens ==
  ASSUME RunInv, NEW x \in Executors, Send(x)
  PROVE  /\ Mine(x) \in Campaigns /\ cur[x] \in Contacts
         /\ rcp[Mine(x)][cur[x]] = "ELIGIBLE"
         /\ InFlight(Mine(x), cur[x]) = {} /\ InFlight(Mine(x), cur[x])' # {}
         /\ \A c \in Campaigns, k \in Contacts :
              c # Mine(x) \/ k # cur[x] => InFlight(c, k)' = InFlight(c, k)
<1>1. /\ pc[x] = "sending" /\ Active(x) /\ cur[x] \in left[x] /\ cur[x] \in Contacts
      /\ Mine(x) \in Campaigns
  <2>1. pc[x] = "sending" /\ Active(x) /\ Mine(x) \in Campaigns
    BY CampaignAssumption DEF Send, Active, Mine
  <2>2. cur[x] \in left[x] /\ cur[x] \in Contacts
    BY <2>1 DEF RunInv, TypeOK, OnceEach
  <2> QED
    BY <2>1, <2>2
<1>2. wr[x][cur[x]] = "NONE" /\ rcp[Mine(x)][cur[x]] = "ELIGIBLE"
  BY <1>1 DEF RunInv, OnceEach
<1>3. /\ SentBy(x)' = SentBy(x) \cup {cur[x]} /\ cur[x] \notin SentBy(x)
      /\ \A y \in Executors \ {x} : SentBy(y)' = SentBy(y)
      /\ cur' = cur
  BY <1>1, <1>2 DEF Send, SentBy, RunInv, TypeOK
<1>4. InFlight(Mine(x), cur[x]) = {} /\ x \in InFlight(Mine(x), cur[x])'
  <2>1. x \in InFlight(Mine(x), cur[x])'
    BY <1>3 DEF InFlight, Mine
  <2>2. ASSUME NEW y \in InFlight(Mine(x), cur[x])
        PROVE  FALSE
    <3>1. y \in Executors /\ Mine(y) = Mine(x) /\ cur[x] \in SentBy(y)
      BY <2>2 DEF InFlight
    <3>2. Active(y)
      BY <1>1, <3>1, SendersAreAlone
    <3>3. y = x
      BY <1>1, <3>1, <3>2, SendersAreAlone
    <3> QED
      BY <1>3, <3>1, <3>3
  <2> QED
    BY <2>1, <2>2
<1>5. \A c \in Campaigns, k \in Contacts :
        c # Mine(x) \/ k # cur[x] => InFlight(c, k)' = InFlight(c, k)
  BY <1>3 DEF InFlight, Mine
<1> QED
  BY <1>1, <1>2, <1>4, <1>5

(* A run that ends takes back the lost answers it wrote down, or none.     *)
StrayAfter(x) ==
  \/ stray' = stray
  \/ stray' = [stray EXCEPT ![Mine(x)] = @ \ {k \in Contacts : wr[x][k] = "FAILED"}]

(* The end of a run closes the recipients it has sent to, and no others.   *)
LEMMA EndCloses ==
  ASSUME RunInv, NEW x \in Executors, Forget(x), StrayAfter(x),
         NEW c \in Campaigns, NEW k \in Contacts
  PROVE  \/ /\ c = Mine(x) /\ k \in SentBy(x)
            /\ InFlight(c, k) # {} /\ InFlight(c, k)' = {}
         \/ /\ ~ (c = Mine(x) /\ k \in SentBy(x))
            /\ InFlight(c, k)' = InFlight(c, k)
<1>1. SentBy(x)' = {} /\ \A y \in Executors \ {x} : SentBy(y)' = SentBy(y)
  <2>1. /\ wr'[x] = Nobody /\ pc'[x] = "idle"
        /\ \A y \in Executors \ {x} : wr'[y] = wr[y] /\ pc'[y] = pc[y] /\ cur'[y] = cur[y]
    BY DEF Forget, RunInv, TypeOK
  <2>2. SentBy(x)' = {}
    BY <2>1 DEF SentBy, Nobody
  <2>3. ASSUME NEW y \in Executors \ {x}, NEW j \in Contacts, wr[y][j] = "FAILED"
        PROVE  j \in stray'[Mine(y)] <=> j \in stray[Mine(y)]
    <3>1. Active(y) /\ Mine(y) \in Campaigns
      BY <2>3, CampaignAssumption DEF RunInv, RowHeld, Nobody, Mine
    <3>2. Mine(y) = Mine(x) => wr[x][j] = "NONE"
      BY <3>1, SendersAreAlone DEF RunInv, RowHeld, Nobody
    <3> QED
      BY <3>1, <3>2 DEF StrayAfter, RunInv, TypeOK
  <2>4. ASSUME NEW y \in Executors \ {x}
        PROVE  SentBy(y)' = SentBy(y)
    <3>1. \A j \in Contacts : j \in SentBy(y)' <=> j \in SentBy(y)
      BY <2>1, <2>3 DEF SentBy, Mine
    <3> QED
      BY <3>1 DEF SentBy
  <2> QED
    BY <2>2, <2>4
<1>2. CASE c = Mine(x) /\ k \in SentBy(x)
  <2>1. x \in InFlight(c, k) /\ InFlight(c, k)' = {}
    BY <1>1, <1>2, SendersAreAlone DEF InFlight, Mine
  <2> QED
    BY <1>2, <2>1
<1>3. CASE ~ (c = Mine(x) /\ k \in SentBy(x))
  <2>1. InFlight(c, k)' = InFlight(c, k)
    BY <1>1, <1>3 DEF InFlight, Mine
  <2> QED
    BY <1>3, <2>1
<1> QED
  BY <1>2, <1>3

(* Giving a run up changes nothing that is settled.                        *)
LEMMA RollbackSettles ==
  ASSUME RunInv, NEW x \in Executors, Rollback(x), NEW c \in Campaigns
  PROVE  Settled(c)' = Settled(c)
<1>1. /\ UNCHANGED rcp
      /\ stray' = [stray EXCEPT ![Mine(x)] = @ \ {k \in Contacts : wr[x][k] = "FAILED"}]
  BY DEF Rollback, db
<1>2. ASSUME NEW k \in Contacts, rcp[c][k] = "FAILED"
      PROVE  k \in stray'[c] <=> k \in stray[c]
  <2>1. c = Mine(x) => wr[x][k] # "FAILED"
    BY <1>2 DEF RunInv, RowHeld, OnceEach, Nobody
  <2> QED
    BY <1>1, <2>1 DEF RunInv, TypeOK
<1>3. \A k \in Contacts : k \in Settled(c)' <=> k \in Settled(c)
  BY <1>1, <1>2 DEF Settled
<1> QED
  BY <1>3 DEF Settled

(* Every template is recorded, in flight, or of a run rolled back.         *)
LEMMA AccountInvariant == Spec => []Accounted
<1>1. Init => Accounted
  <2> SUFFICES ASSUME Init, NEW c \in Campaigns, NEW k \in Contacts
               PROVE  wire[c][k] = undone[c][k] + Recorded(c, k) + Open(c, k)
    BY DEF Accounted
  <2>1. InFlight(c, k) = {}
    BY DEF Init, InFlight, SentBy, Nobody
  <2>2. Recorded(c, k) = 0 /\ wire[c][k] = 0 /\ undone[c][k] = 0
    BY DEF Init, Recorded, Settled, Nobody, Zeroes
  <2> QED
    BY <2>1, <2>2 DEF Open
<1>2. RunInv /\ StrayIsFailed /\ Accounted /\ [Next]_vars => Accounted'
  <2> SUFFICES ASSUME RunInv, StrayIsFailed, Accounted, [Next]_vars
               PROVE  Accounted'
    OBVIOUS
  <2>1. CASE QuietStep
    BY <2>1, QuietSteps, SendsNothingKeeps
  <2>2. ASSUME NEW x \in Executors, Send(x)
        PROVE  Accounted'
    <3>1. Mine(x) \in Campaigns /\ cur[x] \in Contacts
      BY <2>2, SendOpens
    <3>2. /\ UNCHANGED <<rcp, undone, stray>>
          /\ \A c \in Campaigns, k \in Contacts :
               wire'[c][k] = IF c = Mine(x) /\ k = cur[x] THEN wire[c][k] + 1 ELSE wire[c][k]
      BY <2>2, <3>1 DEF Send, db, RunInv, TypeOK
    <3>3. ASSUME NEW c \in Campaigns, NEW k \in Contacts
          PROVE  Open(c, k)' = IF c = Mine(x) /\ k = cur[x] THEN Open(c, k) + 1 ELSE Open(c, k)
      <4>1. CASE c = Mine(x) /\ k = cur[x]
        <5>1. InFlight(c, k) = {} /\ InFlight(c, k)' # {}
          <6>1. InFlight(Mine(x), cur[x]) = {} /\ InFlight(Mine(x), cur[x])' # {}
            BY <2>2, SendOpens
          <6>2. cur' = cur
            BY <2>2 DEF Send
          <6> QED
            BY <4>1, <6>1, <6>2 DEF Mine
        <5> QED
          BY <4>1, <5>1 DEF Open
      <4>2. CASE ~ (c = Mine(x) /\ k = cur[x])
        <5>1. InFlight(c, k)' = InFlight(c, k)
          BY <2>2, <4>2, SendOpens
        <5> QED
          BY <4>2, <5>1 DEF Open
      <4> QED
        BY <4>1, <4>2
    <3>4. \A c \in Campaigns, k \in Contacts :
            Recorded(c, k)' = Recorded(c, k) /\ Recorded(c, k) \in Nat /\ Open(c, k) \in Nat
              /\ undone[c][k] \in Nat
      BY <3>2 DEF Recorded, Settled, Open, RunInv, TypeOK
    <3> QED
      BY <3>2, <3>3, <3>4 DEF Accounted
  <2>3. ASSUME NEW x \in Executors, Forget(x), UNCHANGED wire, Mine(x) \in Campaigns,
               StrayAfter(x),
               \A c \in Campaigns, k \in Contacts :
                 undone'[c][k] + Recorded(c, k)' =
                   undone[c][k] + Recorded(c, k)
                     + (IF c = Mine(x) /\ k \in SentBy(x) THEN 1 ELSE 0)
        PROVE  Accounted'
    <3>1. ASSUME NEW c \in Campaigns, NEW k \in Contacts
          PROVE  Open(c, k) = Open(c, k)' + (IF c = Mine(x) /\ k \in SentBy(x) THEN 1 ELSE 0)
      <4>1. \/ /\ c = Mine(x) /\ k \in SentBy(x)
               /\ InFlight(c, k) # {} /\ InFlight(c, k)' = {}
            \/ /\ ~ (c = Mine(x) /\ k \in SentBy(x))
               /\ InFlight(c, k)' = InFlight(c, k)
        BY <2>3, EndCloses
      <4> QED
        BY <4>1 DEF Open
    <3>2. \A c \in Campaigns, k \in Contacts : Open(c, k) \in Nat /\ Open(c, k)' \in Nat
      BY DEF Open
    <3>3. ASSUME NEW c \in Campaigns, NEW k \in Contacts
          PROVE  wire'[c][k] = undone'[c][k] + Recorded(c, k)' + Open(c, k)'
      <4>1. /\ wire'[c][k] = undone[c][k] + Recorded(c, k) + Open(c, k)
            /\ undone[c][k] \in Nat /\ Recorded(c, k) \in Nat
        BY <2>3 DEF Accounted, Recorded, RunInv, TypeOK
      <4>2. undone'[c][k] + Recorded(c, k)' =
              undone[c][k] + Recorded(c, k) + (IF c = Mine(x) /\ k \in SentBy(x) THEN 1 ELSE 0)
        BY <2>3
      <4> QED
        BY <3>1, <3>2, <4>1, <4>2
    <3> QED
      BY <3>3 DEF Accounted
  <2>4. ASSUME NEW x \in Executors, Commit(x)
        PROVE  Accounted'
    <3>1. /\ pc[x] \in {"pausing", "completing"} /\ Mine(x) \in Campaigns
          /\ Forget(x) /\ UNCHANGED <<wire, undone, stray>> /\ StrayAfter(x)
          /\ rcp' = [rcp EXCEPT ![Mine(x)] = View(x)]
      BY <2>4, CampaignAssumption DEF Commit, history, Mine, StrayAfter
    <3>2. ASSUME NEW c \in Campaigns, NEW k \in Contacts
          PROVE  Recorded(c, k)' =
                   Recorded(c, k) + (IF c = Mine(x) /\ k \in SentBy(x) THEN 1 ELSE 0)
      <4>1. CASE c = Mine(x)
        <5>1. rcp'[c][k] = IF wr[x][k] = "NONE" THEN rcp[c][k] ELSE wr[x][k]
          BY <3>1, <4>1, ViewHasType DEF RunInv, TypeOK
        <5>2. k \in SentBy(x) <=>
                wr[x][k] = "SENT" \/ (wr[x][k] = "FAILED" /\ k \in stray[c])
          BY <3>1, <4>1 DEF SentBy
        <5>3. wr[x][k] # "NONE" => rcp[c][k] = "ELIGIBLE"
          BY <3>1, <4>1 DEF RunInv, OnceEach, Active
        <5> QED
          BY <3>1, <4>1, <5>1, <5>2, <5>3 DEF Recorded, Settled
      <4>2. CASE c # Mine(x)
        BY <3>1, <4>2 DEF Recorded, Settled, RunInv, TypeOK
      <4> QED
        BY <4>1, <4>2
    <3>3. \A c \in Campaigns, k \in Contacts :
            Recorded(c, k) \in Nat /\ undone[c][k] \in Nat
      BY DEF Recorded, RunInv, TypeOK
    <3>4. ASSUME NEW c \in Campaigns, NEW k \in Contacts
          PROVE  undone'[c][k] + Recorded(c, k)' =
                   undone[c][k] + Recorded(c, k)
                     + (IF c = Mine(x) /\ k \in SentBy(x) THEN 1 ELSE 0)
      BY <3>1, <3>2, <3>3
    <3> QED
      BY <2>3, <3>1, <3>4
  <2>5. ASSUME NEW x \in Executors, Rollback(x)
        PROVE  Accounted'
    <3>1. /\ Mine(x) \in Campaigns /\ Forget(x) /\ UNCHANGED <<rcp, wire>> /\ StrayAfter(x)
          /\ stray' = [stray EXCEPT ![Mine(x)] = @ \ {k \in Contacts : wr[x][k] = "FAILED"}]
      BY <2>5, CampaignAssumption DEF Rollback, db, Mine, StrayAfter
    <3>2. ASSUME NEW c \in Campaigns, NEW k \in Contacts
          PROVE  undone'[c][k] =
                   undone[c][k] + (IF c = Mine(x) /\ k \in SentBy(x) THEN 1 ELSE 0)
      <4>1. undone[c][k] \in Nat
        BY DEF RunInv, TypeOK
      <4>2. undone'[c][k] = IF c = Mine(x) /\ k \in SentBy(x) THEN undone[c][k] + 1
                                                            ELSE undone[c][k]
        BY <2>5, <3>1 DEF Rollback, RunInv, TypeOK
      <4> QED
        BY <4>1, <4>2
    <3>3. \A c \in Campaigns, k \in Contacts :
            /\ Recorded(c, k)' = Recorded(c, k) /\ Recorded(c, k) \in Nat
            /\ undone[c][k] \in Nat
      BY <2>5, <3>1, RollbackSettles DEF Recorded, RunInv, TypeOK
    <3>4. ASSUME NEW c \in Campaigns, NEW k \in Contacts
          PROVE  undone'[c][k] + Recorded(c, k)' =
                   undone[c][k] + Recorded(c, k)
                     + (IF c = Mine(x) /\ k \in SentBy(x) THEN 1 ELSE 0)
      BY <3>2, <3>3
    <3> QED
      BY <2>3, <3>1, <3>4
  <2> QED
    BY <2>1, <2>2, <2>4, <2>5 DEF QuietStep, Next, RunStep, Abort, DeadlockVictim
<1> QED
  BY <1>1, <1>2, RunInvariant, StrayInvariant, PTL DEF Spec

(* A set whose members are all the same has at most one.                   *)
LEMMA AtMostOne ==
  ASSUME NEW S, \A x, y \in S : x = y
  PROVE  Cardinality(S) = IF S = {} THEN 0 ELSE 1
<1>1. CASE S = {}
  BY <1>1, FS_EmptySet
<1>2. CASE S # {}
  <2>1. PICK x \in S : S = {x}
    BY <1>2
  <2> QED
    BY <1>2, <2>1, FS_Singleton
<1> QED
  BY <1>1, <1>2

(* What a run has sent and not committed is in flight.                     *)
LEMMA OpenIsInFlight ==
  ASSUME RunInv, NEW c \in Campaigns, NEW k \in Contacts
  PROVE  Cardinality(InFlight(c, k)) = Open(c, k)
<1>1. \A x, y \in InFlight(c, k) : x = y
  BY SendersAreAlone DEF InFlight
<1> QED
  BY <1>1, AtMostOne DEF Open

(* Every call that left a template is recorded as SENT, or as FAILED for   *)
(* want of its answer, or is in an open run or rolled back: execute_campaign*)
(* writes a recipient in the transaction that sends.                       *)
THEOREM TemplatesAreAccounted == Spec => []SendsAccounted
<1>1. RunInv /\ StrayIsFailed /\ Accounted => SendsAccounted
  BY OpenIsInFlight DEF SendsAccounted, StrayIsFailed, Accounted, RunInv
<1> QED
  BY <1>1, RunInvariant, StrayInvariant, AccountInvariant, PTL

(* One more call leaves a recipient a template for each rolled-back one at *)
(* most, whatever executors share the campaign and whether the calls       *)
(* returned: the row lock of set_status, and FAILED is not tried again.    *)
THEOREM RepeatsNeedRollback == Spec => []SecondSendNeedsRollback
<1>1. RunInv /\ Accounted => SecondSendNeedsRollback
  <2> SUFFICES ASSUME RunInv, Accounted, NEW c \in Campaigns, NEW k \in Contacts
               PROVE  wire[c][k] <= 1 + undone[c][k]
    BY DEF SecondSendNeedsRollback
  <2>1. undone[c][k] \in Nat /\ wire[c][k] = undone[c][k] + Recorded(c, k) + Open(c, k)
    BY DEF Accounted, RunInv, TypeOK
  <2>2. InFlight(c, k) # {} => Recorded(c, k) = 0
    BY SendersAreAlone DEF InFlight, Recorded, Settled
  <2> QED
    BY <2>1, <2>2 DEF Open, Recorded
<1> QED
  BY <1>1, RunInvariant, AccountInvariant, PTL
----------------------------------------------------------------------------------
(***************************************************************************)
(* Suppressions, the failure threshold and completion.                     *)
(***************************************************************************)

(* The campaigns that have cleared contact k and not yet sent to it.       *)
Cleared(k) ==
  {c \in Campaigns : \E x \in Executors : Mine(x) = c /\ pc[x] = "sending" /\ cur[x] = k}

(* Late templates and those that may still be are one per campaign.        *)
LatePaid ==
  \A k \in Contacts :
    IF k \in suppressed THEN late[k] + Cardinality(Cleared(k)) <= Cardinality(Campaigns)
                        ELSE late[k] = 0

(* The campaigns that have cleared a contact are finitely many.            *)
LEMMA ClearedCount ==
  ASSUME NEW S \in SUBSET Campaigns, NEW T \in SUBSET S
  PROVE  /\ IsFiniteSet(S) /\ Cardinality(T) \in Nat /\ Cardinality(S) \in Nat
         /\ Cardinality(Campaigns) \in Nat
         /\ Cardinality(T) <= Cardinality(S) /\ Cardinality(S) <= Cardinality(Campaigns)
<1>1. IsFiniteSet(S) /\ Cardinality(S) <= Cardinality(Campaigns)
  BY CampaignAssumption, FS_Subset
<1>2. IsFiniteSet(T) /\ Cardinality(T) <= Cardinality(S)
  BY <1>1, FS_Subset
<1> QED
  BY <1>1, <1>2, CampaignAssumption, FS_CardinalityType

(* A step after which no more campaigns have cleared a suppressed contact. *)
ClearsNobodyListed ==
  /\ UNCHANGED <<late, suppressed>>
  /\ \A k \in suppressed : Cleared(k)' \subseteq Cleared(k)

(* A step that clears nobody on the list keeps the account of late sends.  *)
LEMMA ClearsNobodyListedKeeps ==
  ASSUME RunInv, LatePaid, ClearsNobodyListed
  PROVE  LatePaid'
<1> SUFFICES ASSUME NEW k \in Contacts
             PROVE  IF k \in suppressed THEN late[k] + Cardinality(Cleared(k)') <= Cardinality(Campaigns)
                                        ELSE late[k] = 0
  BY DEF LatePaid, ClearsNobodyListed
<1>1. CASE k \in suppressed
  <2>1. Cleared(k) \in SUBSET Campaigns /\ Cleared(k)' \in SUBSET Cleared(k)
    BY <1>1 DEF Cleared, ClearsNobodyListed
  <2>2. /\ Cardinality(Cleared(k)') \in Nat /\ Cardinality(Cleared(k)) \in Nat
        /\ Cardinality(Cleared(k)') <= Cardinality(Cleared(k)) /\ Cardinality(Campaigns) \in Nat
    BY <2>1, ClearedCount
  <2>3. late[k] \in Nat /\ late[k] + Cardinality(Cleared(k)) <= Cardinality(Campaigns)
    BY <1>1 DEF LatePaid, RunInv, TypeOK
  <2> QED
    BY <1>1, <2>2, <2>3
<1>2. CASE k \notin suppressed
  BY <1>2 DEF LatePaid
<1> QED
  BY <1>1, <1>2

(* A late template is one of a campaign that cleared the contact before.   *)
LEMMA LateInvariant == Spec => []LatePaid
<1>1. Init => LatePaid
  BY DEF Init, LatePaid
<1>2. RunInv /\ LatePaid /\ [Next]_vars => LatePaid'
  <2> SUFFICES ASSUME RunInv, LatePaid, [Next]_vars
               PROVE  LatePaid'
    OBVIOUS
  <2>1. ASSUME UNCHANGED <<late, suppressed>>,
               \A x \in Executors : pc'[x] = "sending" =>
                 pc[x] = "sending" /\ cur'[x] = cur[x]
        PROVE  ClearsNobodyListed
    BY <2>1 DEF ClearsNobodyListed, Cleared, Mine
  <2>2. ASSUME \/ UNCHANGED vars
               \/ \E c \in Campaigns, rejected \in SUBSET Contacts : Stage(c, rejected)
        PROVE  ClearsNobodyListed
    BY <2>1, <2>2 DEF vars, db, run, history, Stage
  <2>3. ASSUME NEW x \in Executors,
               Begin(x) \/ Enter(x) \/ Record(x) \/ SendRejected(x) \/ NextBatch(x)
        PROVE  ClearsNobodyListed
    BY <2>1, <2>3 DEF Begin, Enter, Record, SendRejected, NextBatch, AfterAttempt, db, history,
                      RunInv, TypeOK
  <2>4. ASSUME NEW x \in Executors, Commit(x) \/ Rollback(x)
        PROVE  ClearsNobodyListed
    BY <2>1, <2>4 DEF Commit, Rollback, Forget, db, history, RunInv, TypeOK
  <2>5. ASSUME NEW x \in Executors, Check(x)
        PROVE  ClearsNobodyListed
    <3>1. /\ UNCHANGED <<late, suppressed>>
          /\ \/ UNCHANGED <<pc, cur>>
             \/ /\ FirstLeft(x) \notin suppressed
                /\ cur' = [cur EXCEPT ![x] = FirstLeft(x)]
                /\ pc' = [pc EXCEPT ![x] = "sending"]
      BY <2>5 DEF Check, MustReject, db, history
    <3>2. CASE UNCHANGED <<pc, cur>>
      BY <2>1, <3>1, <3>2
    <3>3. CASE /\ FirstLeft(x) \notin suppressed
               /\ cur' = [cur EXCEPT ![x] = FirstLeft(x)]
               /\ pc' = [pc EXCEPT ![x] = "sending"]
      <4>1. \A y \in Executors, k \in suppressed :
              pc'[y] = "sending" /\ cur'[y] = k => pc[y] = "sending" /\ cur[y] = k
        BY <3>3 DEF RunInv, TypeOK
      <4> QED
        BY <3>1, <4>1 DEF ClearsNobodyListed, Cleared, Mine
    <3> QED
      BY <3>1, <3>2, <3>3
  <2>6. ASSUME NEW j \in Contacts, Suppress(j)
        PROVE  LatePaid'
    <3>1. /\ j \notin suppressed /\ suppressed' = suppressed \cup {j}
          /\ UNCHANGED <<late, pc, cur>>
      BY <2>6 DEF Suppress, run, history
    <3>2. \A k : Cleared(k)' = Cleared(k)
      BY <3>1 DEF Cleared, Mine
    <3>3. Cardinality(Cleared(j)) <= Cardinality(Campaigns) /\ Cardinality(Cleared(j)) \in Nat
      <4>1. Cleared(j) \in SUBSET Campaigns
        BY DEF Cleared
      <4> QED
        BY <4>1, ClearedCount
    <3> QED
      BY <3>1, <3>2, <3>3 DEF LatePaid
  <2>7. ASSUME NEW x \in Executors, Send(x)
        PROVE  LatePaid'
    <3>0. PICK l \in {"accepted", "lost"} : pc' = [pc EXCEPT ![x] = l]
      BY <2>7 DEF Send
    <3>1. /\ pc[x] = "sending" /\ pc' = [pc EXCEPT ![x] = l] /\ l # "sending"
          /\ cur[x] \in Contacts
          /\ UNCHANGED <<suppressed, cur>> /\ Mine(x) \in Campaigns
          /\ late' = IF cur[x] \in suppressed THEN [late EXCEPT ![cur[x]] = @ + 1] ELSE late
      <4>1. Mine(x) \in Campaigns
        BY CampaignAssumption DEF Mine
      <4> QED
        BY <2>7, <3>0, <4>1 DEF Send, db, RunInv, TypeOK
    <3>2. \A k : Cleared(k)' \subseteq Cleared(k)
      BY <3>1 DEF Cleared, Mine, RunInv, TypeOK
    <3>3. CASE cur[x] \notin suppressed
      BY <3>1, <3>2, <3>3, ClearsNobodyListedKeeps DEF ClearsNobodyListed
    <3>4. CASE cur[x] \in suppressed
      <4> SUFFICES ASSUME NEW k \in Contacts
                   PROVE  IF k \in suppressed
                          THEN late'[k] + Cardinality(Cleared(k)') <= Cardinality(Campaigns)
                          ELSE late'[k] = 0
        BY <3>1 DEF LatePaid
      <4>1. /\ Cleared(k) \in SUBSET Campaigns /\ Cleared(k)' \in SUBSET Cleared(k)
            /\ late[k] \in Nat
            /\ late'[k] = IF k = cur[x] THEN late[k] + 1 ELSE late[k]
        BY <3>1, <3>2, <3>4 DEF Cleared, RunInv, TypeOK
      <4>2. /\ Cardinality(Cleared(k)') \in Nat /\ Cardinality(Cleared(k)) \in Nat
            /\ Cardinality(Cleared(k)') <= Cardinality(Cleared(k))
            /\ Cardinality(Campaigns) \in Nat /\ IsFiniteSet(Cleared(k))
        BY <4>1, ClearedCount
      <4>3. CASE k = cur[x]
        <5>1. Mine(x) \in Cleared(k) /\ Mine(x) \notin Cleared(k)'
          <6>1. Mine(x) \in Cleared(k)
            BY <3>1, <4>3 DEF Cleared
          <6>2. ASSUME NEW y \in Executors, Mine(y) = Mine(x), pc'[y] = "sending", cur'[y] = k
                PROVE  FALSE
            <7>1. y # x /\ Active(y) /\ Active(x)
              BY <3>1, <6>2 DEF Active, RunInv, TypeOK
            <7> QED
              BY <6>2, <7>1, SendersAreAlone
          <6> QED
            BY <6>1, <6>2 DEF Cleared, Mine
        <5>2. Cleared(k)' \subseteq Cleared(k) \ {Mine(x)}
          BY <4>1, <5>1
        <5>3. Cardinality(Cleared(k) \ {Mine(x)}) = Cardinality(Cleared(k)) - 1
          BY <4>2, <5>1, FS_RemoveElement
        <5>4. Cardinality(Cleared(k)') <= Cardinality(Cleared(k) \ {Mine(x)})
          <6>1. Cleared(k) \ {Mine(x)} \in SUBSET Campaigns
            BY <4>1
          <6> QED
            BY <5>2, <6>1, ClearedCount
        <5>5. late[k] + Cardinality(Cleared(k)) <= Cardinality(Campaigns)
          BY <3>4, <4>3 DEF LatePaid
        <5> QED
          BY <3>4, <4>1, <4>2, <4>3, <5>3, <5>4, <5>5
      <4>4. CASE k # cur[x]
        BY <4>1, <4>2, <4>4 DEF LatePaid
      <4> QED
        BY <4>3, <4>4
    <3> QED
      BY <3>3, <3>4
  <2> QED
    BY <2>2, <2>3, <2>4, <2>5, <2>6, <2>7, ClearsNobodyListedKeeps
    DEF Next, RunStep, Abort, DeadlockVictim
<1> QED
  BY <1>1, <1>2, RunInvariant, PTL DEF Spec

(* A suppressed contact gets one more template per campaign at most: the   *)
(* one a run had cleared, by the final check of execute_campaign.          *)
THEOREM LateSendsAreFew == Spec => []FewLateSends
<1>1. RunInv /\ LatePaid => FewLateSends
  <2> SUFFICES ASSUME RunInv, LatePaid, NEW k \in Contacts
               PROVE  late[k] <= Cardinality(Campaigns)
    BY DEF FewLateSends
  <2>1. Cleared(k) \in SUBSET Campaigns /\ late[k] \in Nat
    BY DEF Cleared, RunInv, TypeOK
  <2>2. Cardinality(Cleared(k)) \in Nat /\ Cardinality(Campaigns) \in Nat
    BY <2>1, ClearedCount
  <2>3. late[k] = 0 \/ late[k] + Cardinality(Cleared(k)) <= Cardinality(Campaigns)
    BY DEF LatePaid
  <2> QED
    BY <2>1, <2>2, <2>3
<1> QED
  BY <1>1, RunInvariant, LateInvariant, PTL

(* A run about to complete sees nobody left.                               *)
NobodyLeft == \A x \in Executors : pc[x] = "completing" => EligibleFor(x) = {}

(* A step that changes no recipient of a run that is about to complete.    *)
LeavesRecipients ==
  /\ \A c \in Campaigns : status'[c] = "COMPLETED" => status[c] = "COMPLETED" /\ rcp'[c] = rcp[c]
  /\ \A x \in Executors : pc'[x] = "completing" =>
       pc[x] = "completing" /\ wr'[x] = wr[x] /\ rcp'[Mine(x)] = rcp[Mine(x)]

(* A step that touches no recipient leaves a completed campaign complete.  *)
LEMMA LeavesRecipientsKeeps ==
  ASSUME NobodyLeft, CompletedIsDone, LeavesRecipients
  PROVE  NobodyLeft' /\ CompletedIsDone'
<1>1. CompletedIsDone'
  BY DEF CompletedIsDone, LeavesRecipients
<1>2. ASSUME NEW x \in Executors, pc'[x] = "completing"
      PROVE  EligibleFor(x)' = {}
  <2>1. EligibleFor(x) = {} /\ wr'[x] = wr[x] /\ rcp'[Mine(x)] = rcp[Mine(x)]
    BY <1>2 DEF NobodyLeft, LeavesRecipients
  <2>2. View(x)' = View(x)
    BY <2>1 DEF View, Mine
  <2> QED
    BY <2>1, <2>2 DEF EligibleFor
<1> QED
  BY <1>1, <1>2 DEF NobodyLeft

(* A run completes its campaign when nobody eligible is left.              *)
LEMMA CompletionInvariant == Spec => [](NobodyLeft /\ CompletedIsDone)
<1> DEFINE Inv == NobodyLeft /\ CompletedIsDone
<1>1. Init => Inv
  BY DEF Init, NobodyLeft, CompletedIsDone
<1>2. RunInv /\ Inv /\ [Next]_vars => Inv'
  <2> SUFFICES ASSUME RunInv, NobodyLeft, CompletedIsDone, [Next]_vars
               PROVE  Inv'
    OBVIOUS
  <2>1. ASSUME NEW c \in Campaigns, NEW rejected \in SUBSET Contacts, Stage(c, rejected)
        PROVE  LeavesRecipients
    <3>1. /\ status' = [status EXCEPT ![c] = "DRAFT"] /\ status[c] = "NONE"
          /\ \A d \in Campaigns \ {c} : rcp'[d] = rcp[d]
          /\ UNCHANGED <<pc, wr>>
      BY <2>1 DEF Stage, run, RunInv, TypeOK
    <3>2. \A x \in Executors : pc[x] # "idle" => Mine(x) # c /\ Mine(x) \in Campaigns
      BY <3>1, CampaignAssumption DEF RunInv, StagedFirst, Mine
    <3> QED
      BY <3>1, <3>2 DEF LeavesRecipients, Mine, RunInv, TypeOK
  <2>2. ASSUME \/ UNCHANGED vars
               \/ \E k \in Contacts : Suppress(k)
               \/ \E x \in Executors : Begin(x) \/ Enter(x) \/ Send(x)
        PROVE  LeavesRecipients
    <3>1. UNCHANGED <<status, rcp, wr>>
      BY <2>2 DEF vars, Suppress, Begin, Enter, Send, db, run
    <3>2. \A x \in Executors : pc'[x] = "completing" => pc[x] = "completing"
      BY <2>2 DEF vars, Suppress, Begin, Enter, Send, run, RunInv, TypeOK
    <3> QED
      BY <3>1, <3>2 DEF LeavesRecipients, Mine
  <2>3. ASSUME NEW x \in Executors, Check(x) \/ Record(x) \/ SendRejected(x)
        PROVE  LeavesRecipients
    <3>1. UNCHANGED <<status, rcp>> /\ pc[x] # "completing"
      BY <2>3 DEF Check, Record, SendRejected, db
    <3>2. /\ pc'[x] # "completing"
          /\ \A y \in Executors \ {x} : wr'[y] = wr[y] /\ pc'[y] = pc[y]
      BY <2>3, <3>1 DEF Check, RejectSuppressed, FailUndecryptable, Record, SendRejected,
                        AfterAttempt, RunInv, TypeOK
    <3> QED
      BY <3>1, <3>2 DEF LeavesRecipients, Mine
  <2>4. ASSUME NEW x \in Executors, Rollback(x)
        PROVE  LeavesRecipients
    BY <2>4 DEF Rollback, Forget, db, LeavesRecipients, Mine, RunInv, TypeOK
  <2>5. ASSUME NEW x \in Executors, NextBatch(x)
        PROVE  Inv'
    <3>1. UNCHANGED <<status, rcp, wr>>
      BY <2>5 DEF NextBatch, db
    <3>2. \A y : EligibleFor(y)' = EligibleFor(y)
      BY <3>1 DEF EligibleFor, View, Mine
    <3>3. \A y \in Executors : pc'[y] = "completing" => pc[y] = "completing" \/ EligibleFor(y) = {}
      BY <2>5 DEF NextBatch, RunInv, TypeOK
    <3> QED
      BY <3>1, <3>2, <3>3 DEF NobodyLeft, CompletedIsDone
  <2>6. ASSUME NEW x \in Executors, Commit(x)
        PROVE  Inv'
    <3>1. /\ pc[x] \in {"pausing", "completing"} /\ Mine(x) \in Campaigns /\ Active(x)
          /\ status' = [status EXCEPT ![Mine(x)] = FinalStatus(x)]
          /\ rcp' = [rcp EXCEPT ![Mine(x)] = View(x)]
          /\ wr' = [wr EXCEPT ![x] = Nobody] /\ pc' = [pc EXCEPT ![x] = "idle"]
      BY <2>6, CampaignAssumption DEF Commit, Forget, Active, Mine
    <3>2. CompletedIsDone'
      <4>1. FinalStatus(x) = "COMPLETED" => \A k \in Contacts : View(x)[k] # "ELIGIBLE"
        BY <3>1 DEF FinalStatus, NobodyLeft, EligibleFor
      <4> QED
        BY <3>1, <4>1 DEF CompletedIsDone, RunInv, TypeOK
    <3>3. ASSUME NEW y \in Executors, pc'[y] = "completing"
          PROVE  EligibleFor(y)' = {}
      <4>1. /\ y # x /\ pc[y] = "completing" /\ wr'[y] = wr[y] /\ Active(y)
            /\ Mine(y) \in Campaigns
        BY <3>1, <3>3, CampaignAssumption DEF RunInv, TypeOK, Active, Mine
      <4>2. rcp'[Mine(y)] = rcp[Mine(y)]
        BY <3>1, <4>1, SendersAreAlone
      <4>3. View(y)' = View(y)
        BY <4>1, <4>2 DEF View, Mine
      <4> QED
        BY <4>1, <4>3 DEF EligibleFor, NobodyLeft
    <3> QED
      BY <3>2, <3>3 DEF NobodyLeft
  <2> QED
    BY <2>1, <2>2, <2>3, <2>4, <2>5, <2>6, LeavesRecipientsKeeps
    DEF Next, RunStep, Abort, DeadlockVictim
<1> QED
  BY <1>1, <1>2, RunInvariant, PTL DEF Spec

(* A completed campaign has nobody left to send to, in spite of executors  *)
(* that passed the status guard before it completed: the batch loop.       *)
THEOREM CompletionIsFinal == Spec => []CompletedIsDone
  BY CompletionInvariant, PTL

(* A run that goes on has not reached the failure rate.                    *)
BelowLimit ==
  \A x \in Executors :
    pc[x] \in {"running", "sending", "accepted", "lost"} => ~ ThresholdHit(sent[x], failed[x])

(* The failure rate stops a run before its next send; numbers that do not  *)
(* decrypt are counted without the comparison, so there are to be none.    *)
THEOREM RunsStopAtThreshold ==
  ASSUME Undecryptable = {}
  PROVE  Spec => []StopsAtThreshold
<1>1. Init => BelowLimit
  BY DEF Init, BelowLimit
<1>2. RunInv /\ BelowLimit /\ [Next]_vars => BelowLimit'
  <2> SUFFICES ASSUME RunInv, BelowLimit, [Next]_vars
               PROVE  BelowLimit'
    OBVIOUS
  <2>1. ASSUME UNCHANGED <<sent, failed>>,
               \A x \in Executors : pc'[x] \in {"running", "sending", "accepted", "lost"} =>
                 pc[x] \in {"running", "sending", "accepted", "lost"}
        PROVE  BelowLimit'
    BY <2>1 DEF BelowLimit, ThresholdHit
  <2>2. ASSUME \/ UNCHANGED vars
               \/ \E c \in Campaigns, rejected \in SUBSET Contacts : Stage(c, rejected)
               \/ \E k \in Contacts : Suppress(k)
        PROVE  BelowLimit'
    BY <2>1, <2>2 DEF vars, Stage, Suppress, run
  <2>3. ASSUME NEW x \in Executors,
               Begin(x) \/ Send(x) \/ NextBatch(x) \/ Commit(x) \/ Rollback(x)
        PROVE  BelowLimit'
    BY <2>1, <2>3 DEF Begin, Send, NextBatch, Commit, Rollback, Forget, RunInv, TypeOK
  <2>4. ASSUME NEW x \in Executors, Enter(x)
        PROVE  BelowLimit'
    <3>1. /\ sent' = [sent EXCEPT ![x] = 0] /\ failed' = [failed EXCEPT ![x] = 0]
          /\ pc' = [pc EXCEPT ![x] = "running"]
      BY <2>4 DEF Enter
    <3>2. ~ ThresholdHit(0, 0)
      BY CampaignAssumption DEF ThresholdHit
    <3> QED
      BY <3>1, <3>2 DEF BelowLimit, RunInv, TypeOK
  <2>5. ASSUME NEW x \in Executors, Check(x)
        PROVE  BelowLimit'
    <3>1. UNCHANGED <<sent, failed>>
      BY <2>5 DEF Check, RejectSuppressed
    <3>2. \A y \in Executors : pc'[y] \in {"running", "sending", "accepted", "lost"} =>
            pc[y] \in {"running", "sending", "accepted", "lost"}
      BY <2>5 DEF Check, RunInv, TypeOK
    <3> QED
      BY <2>1, <3>1, <3>2
  <2>6. ASSUME NEW x \in Executors, Record(x) \/ SendRejected(x)
        PROVE  BelowLimit'
    <3>1. PICK s \in {sent[x], sent[x] + 1}, f \in {failed[x], failed[x] + 1} :
            /\ sent' = [sent EXCEPT ![x] = s] /\ failed' = [failed EXCEPT ![x] = f]
            /\ pc' = [pc EXCEPT ![x] = IF ThresholdHit(s, f) THEN "pausing" ELSE "running"]
      BY <2>6 DEF Record, SendRejected, AfterAttempt, RunInv, TypeOK
    <3> QED
      BY <3>1 DEF BelowLimit, RunInv, TypeOK
  <2> QED
    BY <2>2, <2>3, <2>4, <2>5, <2>6 DEF Next, RunStep, Abort, DeadlockVictim
<1>3. BelowLimit => StopsAtThreshold
  BY DEF BelowLimit, StopsAtThreshold
<1> QED
  BY <1>1, <1>2, <1>3, RunInvariant, PTL DEF Spec
----------------------------------------------------------------------------------
(***************************************************************************)
(* The runs implement the books of their campaigns.                        *)
(***************************************************************************)

(* A run that is to pause has decided a recipient, so its campaign was not *)
(* complete.                                                               *)
PausesAfterWork ==
  \A x \in Executors : pc[x] = "pausing" => \E k \in Contacts : wr[x][k] # "NONE"

(* A run pauses only after an attempt, which it has written down.          *)
LEMMA PauseInvariant == Spec => []PausesAfterWork
<1>1. Init => PausesAfterWork
  BY DEF Init, PausesAfterWork
<1>2. RunInv /\ PausesAfterWork /\ [Next]_vars => PausesAfterWork'
  <2> SUFFICES ASSUME RunInv, PausesAfterWork, [Next]_vars
               PROVE  PausesAfterWork'
    OBVIOUS
  <2>1. ASSUME \A x \in Executors :
                 pc'[x] = "pausing" => pc[x] = "pausing" /\ wr'[x] = wr[x]
        PROVE  PausesAfterWork'
    BY <2>1 DEF PausesAfterWork
  <2>2. ASSUME \/ UNCHANGED vars
               \/ \E c \in Campaigns, rejected \in SUBSET Contacts : Stage(c, rejected)
               \/ \E k \in Contacts : Suppress(k)
               \/ \E x \in Executors : Begin(x) \/ Enter(x) \/ Send(x) \/ NextBatch(x)
        PROVE  PausesAfterWork'
    BY <2>1, <2>2 DEF vars, Stage, Suppress, Begin, Enter, Send, NextBatch, run, RunInv, TypeOK
  <2>3. ASSUME NEW x \in Executors, Check(x)
        PROVE  PausesAfterWork'
    <3>1. \A y \in Executors : pc'[y] = "pausing" => y # x /\ pc[y] = "pausing"
      BY <2>3 DEF Check, RunInv, TypeOK
    <3>2. \A y \in Executors \ {x} : wr'[y] = wr[y]
      BY <2>3 DEF Check, RejectSuppressed, FailUndecryptable, RunInv, TypeOK
    <3> QED
      BY <2>1, <3>1, <3>2
  <2>4. ASSUME NEW x \in Executors, Record(x) \/ SendRejected(x)
        PROVE  PausesAfterWork'
    <3>1. /\ \A y \in Executors \ {x} : wr'[y] = wr[y] /\ pc'[y] = pc[y]
          /\ cur[x] \in Contacts
      BY <2>4 DEF Record, SendRejected, AfterAttempt, RunInv, TypeOK
    <3>2. wr'[x][cur[x]] # "NONE"
      BY <2>4, <3>1 DEF Record, SendRejected, RunInv, TypeOK
    <3> QED
      BY <3>1, <3>2 DEF PausesAfterWork
  <2>5. ASSUME NEW x \in Executors, Commit(x) \/ Rollback(x)
        PROVE  PausesAfterWork'
    BY <2>1, <2>5 DEF Commit, Rollback, Forget, RunInv, TypeOK
  <2> QED
    BY <2>2, <2>3, <2>4, <2>5 DEF Next, RunStep, Abort, DeadlockVictim
<1> QED
  BY <1>1, <1>2, RunInvariant, PTL DEF Spec

(* What the books say of campaign c and contact k.                         *)
Due(c)  == {k \in Contacts : rcp[c][k] = "ELIGIBLE"}
Given(c) == {k \in Contacts : InFlight(c, k) # {}}
Kept(c) == Settled(c)

(* A step that leaves the rows and the open sends leaves the books.        *)
LEMMA BooksStutter ==
  ASSUME UNCHANGED <<status, rcp, wire, undone>>,
         \A c \in Campaigns : Settled(c)' = Settled(c),
         \A x \in Executors : SentBy(x)' = SentBy(x)
  PROVE  UNCHANGED Books!booksVars
<1>1. \A c, k : InFlight(c, k)' = InFlight(c, k)
  BY DEF InFlight, Mine
<1> QED
  BY <1>1 DEF Books!booksVars

(* Staging launches the campaign, with those the gate let pass as due.     *)
LEMMA StagingLaunches ==
  ASSUME RunInv, StrayIsFailed, NEW c \in Campaigns, NEW rejected \in SUBSET Contacts, Stage(c, rejected)
  PROVE  Books!Launch(c, Contacts \ rejected)
<1>1. /\ status[c] = "NONE" /\ status' = [status EXCEPT ![c] = "DRAFT"]
      /\ rcp' = [rcp EXCEPT ![c] =
                   [k \in Contacts |-> IF k \in rejected THEN "REJECTED" ELSE "ELIGIBLE"]]
      /\ UNCHANGED <<wire, undone>>
  BY DEF Stage, history
<1>2. SendsNothing
  BY QuietSteps DEF QuietStep
<1>3. \A d, k : InFlight(d, k)' = InFlight(d, k)
  BY <1>2 DEF InFlight, SendsNothing, Mine
<1>4. /\ {d \in Campaigns : status'[d] # "NONE"} = {d \in Campaigns : status[d] # "NONE"} \cup {c}
      /\ {d \in Campaigns : status'[d] = "COMPLETED"} = {d \in Campaigns : status[d] = "COMPLETED"}
  BY <1>1 DEF RunInv, TypeOK
<1>5. /\ Due(c)' = Contacts \ rejected
      /\ \A d \in Campaigns \ {c} : Due(d)' = Due(d)
  BY <1>1 DEF Due, RunInv, TypeOK
<1>6. \A d \in Campaigns : Kept(d)' = Kept(d)
  BY <1>2 DEF Kept, SendsNothing
<1>7. [d \in Campaigns |-> Due(d)'] = [[d \in Campaigns |-> Due(d)] EXCEPT ![c] = Contacts \ rejected]
  BY <1>5
<1> QED
  BY <1>1, <1>3, <1>4, <1>6, <1>7 DEF Books!Launch, Due, Kept

(* A template that Meta accepts is given to a recipient who is due.        *)
LEMMA SendGives ==
  ASSUME RunInv, NEW x \in Executors, Send(x)
  PROVE  Books!Give(Mine(x), cur[x])
<1>1. /\ Mine(x) \in Campaigns /\ cur[x] \in Contacts
      /\ rcp[Mine(x)][cur[x]] = "ELIGIBLE"
      /\ InFlight(Mine(x), cur[x]) = {} /\ InFlight(Mine(x), cur[x])' # {}
  BY SendOpens
<1>2. \A c \in Campaigns, k \in Contacts :
        c # Mine(x) \/ k # cur[x] => InFlight(c, k)' = InFlight(c, k)
  BY SendOpens
<1>3. /\ UNCHANGED <<status, rcp, undone, stray, cur>>
      /\ wire' = [wire EXCEPT ![Mine(x)][cur[x]] = @ + 1]
  BY DEF Send, db
<1>4. /\ Given(Mine(x))' = Given(Mine(x)) \cup {cur[x]}
      /\ \A c \in Campaigns \ {Mine(x)} : Given(c)' = Given(c)
  BY <1>1, <1>2, <1>3 DEF Given, Mine
<1>5. [c \in Campaigns |-> Given(c)'] =
        [[c \in Campaigns |-> Given(c)] EXCEPT ![Mine(x)] = @ \cup {cur[x]}]
  BY <1>1, <1>4
<1> QED
  BY <1>1, <1>3, <1>5 DEF Books!Give, Given, Settled

(* A commit keeps every open send, and completes a campaign with nobody    *)
(* due; one that is complete already has nothing to pause for.             *)
LEMMA CommitKeeps ==
  ASSUME RunInv, NobodyLeft, CompletedIsDone, PausesAfterWork,
         NEW x \in Executors, Commit(x)
  PROVE  \E refused \in SUBSET Contacts : Books!Keep(Mine(x), refused)
<1> DEFINE c == Mine(x)
<1>0. PICK refused \in SUBSET Contacts :
        refused = {k \in Contacts : wr[x][k] \in {"FAILED", "REJECTED"} /\ k \notin SentBy(x)}
  OBVIOUS
<1>1. /\ pc[x] \in {"pausing", "completing"} /\ Active(x) /\ c \in Campaigns
      /\ status' = [status EXCEPT ![c] = FinalStatus(x)]
      /\ rcp' = [rcp EXCEPT ![c] = View(x)]
      /\ Forget(x) /\ UNCHANGED <<wire, undone, stray>> /\ StrayAfter(x)
  BY CampaignAssumption DEF Commit, Active, Mine, history, StrayAfter
<1>2. \A k \in Contacts :
        /\ wr[x][k] \in {"NONE", "SENT", "FAILED", "REJECTED"}
        /\ wr[x][k] # "NONE" => rcp[c][k] = "ELIGIBLE"
        /\ rcp'[c][k] = IF wr[x][k] = "NONE" THEN rcp[c][k] ELSE wr[x][k]
  <2>1. \A k \in Contacts : wr[x][k] \in RecipientStatus \ {"ELIGIBLE"}
    BY DEF RunInv, TypeOK
  <2>2. \A k \in Contacts : wr[x][k] # "NONE" => rcp[c][k] = "ELIGIBLE"
    BY <1>1 DEF RunInv, OnceEach
  <2>3. \A k \in Contacts : rcp'[c][k] = IF wr[x][k] = "NONE" THEN rcp[c][k] ELSE wr[x][k]
    BY <1>1, ViewHasType DEF RunInv, TypeOK
  <2> QED
    BY <2>1, <2>2, <2>3 DEF RecipientStatus
<1>3. \A k \in Contacts :
        k \in SentBy(x) <=> wr[x][k] = "SENT" \/ (wr[x][k] = "FAILED" /\ k \in stray[c])
  BY <1>1 DEF SentBy
<1>4. \A k \in Contacts : InFlight(c, k) # {} <=> k \in SentBy(x)
  <2> SUFFICES ASSUME NEW k \in Contacts PROVE InFlight(c, k) # {} <=> k \in SentBy(x)
    OBVIOUS
  <2>1. k \in SentBy(x) => x \in InFlight(c, k)
    BY DEF InFlight
  <2>2. ASSUME NEW y \in InFlight(c, k)
        PROVE  y = x /\ k \in SentBy(x)
    <3>1. y \in Executors /\ Mine(y) = Mine(x) /\ k \in SentBy(y)
      BY <2>2 DEF InFlight
    <3> QED
      BY <1>1, <3>1, SendersAreAlone
  <2> QED
    BY <2>1, <2>2
<1>5. /\ \A k \in Contacts : InFlight(c, k)' = {}
      /\ \A d \in Campaigns \ {c}, k \in Contacts : InFlight(d, k)' = InFlight(d, k)
  <2>1. \A k \in Contacts : InFlight(c, k)' = {}
    BY <1>1, <1>4, EndCloses
  <2>2. \A d \in Campaigns \ {c}, k \in Contacts : InFlight(d, k)' = InFlight(d, k)
    BY <1>1, EndCloses
  <2> QED
    BY <2>1, <2>2
<1>6. /\ Given(c) = {k \in Contacts : k \in SentBy(x)}
      /\ Given(c)' = {} /\ \A d \in Campaigns \ {c} : Given(d)' = Given(d)
  BY <1>4, <1>5 DEF Given, Mine
<1>7. /\ Due(c)' = Due(c) \ (Given(c) \cup refused)
      /\ Kept(c)' = Kept(c) \cup Given(c)
      /\ refused \subseteq Due(c) \ Given(c)
  BY <1>0, <1>1, <1>2, <1>3, <1>6 DEF Due, Kept, Settled, Mine
<1>8. \A d \in Campaigns \ {c} : Due(d)' = Due(d) /\ Kept(d)' = Kept(d)
  BY <1>1 DEF Due, Kept, Settled, RunInv, TypeOK
<1>9. status[c] # "NONE" /\ FinalStatus(x) \in {"PAUSED", "COMPLETED"}
  BY <1>1 DEF RunInv, StagedFirst, FinalStatus
<1>10. {d \in Campaigns : status'[d] # "NONE"} = {d \in Campaigns : status[d] # "NONE"}
  BY <1>1, <1>9 DEF RunInv, TypeOK
<1>11. LET done == {d \in Campaigns : status[d] = "COMPLETED"}
           done1 == {d \in Campaigns : status'[d] = "COMPLETED"}
       IN  done1 = done \/ (done1 = done \cup {c} /\ Due(c)' = {})
  <2>1. CASE pc[x] = "pausing"
    <3>1. PICK k \in Contacts : wr[x][k] # "NONE"
      BY <2>1 DEF PausesAfterWork
    <3>2. status[c] # "COMPLETED"
      BY <1>1, <1>2, <3>1 DEF CompletedIsDone
    <3>3. FinalStatus(x) = "PAUSED"
      BY <2>1 DEF FinalStatus
    <3> QED
      BY <1>1, <3>2, <3>3 DEF RunInv, TypeOK
  <2>2. CASE pc[x] = "completing"
    <3>1. Due(c)' = {}
      BY <1>1, <2>2 DEF NobodyLeft, EligibleFor, Due, RunInv, TypeOK, Mine
    <3>2. FinalStatus(x) = "COMPLETED"
      BY <2>2 DEF FinalStatus
    <3> QED
      BY <1>1, <3>1, <3>2 DEF RunInv, TypeOK
  <2> QED
    BY <1>1, <2>1, <2>2
<1>12. /\ [d \in Campaigns |-> Kept(d)'] = [[d \in Campaigns |-> Kept(d)] EXCEPT ![c] = @ \cup Given(c)]
       /\ [d \in Campaigns |-> Due(d)'] =
            [[d \in Campaigns |-> Due(d)] EXCEPT ![c] = @ \ (Given(c) \cup refused)]
       /\ [d \in Campaigns |-> Given(d)'] = [[d \in Campaigns |-> Given(d)] EXCEPT ![c] = {}]
  BY <1>1, <1>6, <1>7, <1>8
<1>13. Books!Keep(c, refused)
  BY <1>1, <1>7, <1>9, <1>10, <1>11, <1>12 DEF Books!Keep, Due, Given, Kept
<1> QED
  BY <1>13

(* A rollback loses every open send of the campaign; that of a run not yet *)
(* at work loses nothing, even while another is.                           *)
LEMMA RollbackLoses ==
  ASSUME RunInv, NEW x \in Executors, Rollback(x)
  PROVE  Books!Lose(Mine(x)) \/ UNCHANGED Books!booksVars
<1> DEFINE c == Mine(x)
<1>1. /\ c \in Campaigns /\ Forget(x) /\ UNCHANGED <<status, rcp, wire>> /\ StrayAfter(x)
      /\ undone' = [undone EXCEPT ![c] =
                      [k \in Contacts |-> IF k \in SentBy(x) THEN @[k] + 1 ELSE @[k]]]
  BY CampaignAssumption DEF Rollback, Mine, db, StrayAfter
<1>0. \A d \in Campaigns : Settled(d)' = Settled(d)
  BY RollbackSettles
<1>2. CASE Active(x)
  <2>1. \A k \in Contacts : InFlight(c, k) # {} <=> k \in SentBy(x)
    <3> SUFFICES ASSUME NEW k \in Contacts PROVE InFlight(c, k) # {} <=> k \in SentBy(x)
      OBVIOUS
    <3>1. k \in SentBy(x) => x \in InFlight(c, k)
      BY DEF InFlight
    <3>2. ASSUME NEW y \in InFlight(c, k)
          PROVE  k \in SentBy(x)
      <4>1. y \in Executors /\ Mine(y) = Mine(x) /\ k \in SentBy(y)
        BY <3>2 DEF InFlight
      <4> QED
        BY <1>2, <4>1, SendersAreAlone
    <3> QED
      BY <3>1, <3>2
  <2>2. /\ Given(c) = {k \in Contacts : k \in SentBy(x)} /\ Given(c)' = {}
        /\ \A d \in Campaigns \ {c} : Given(d)' = Given(d)
    BY <1>1, <2>1, EndCloses DEF Given, Mine
  <2>3. [d \in Campaigns |-> Given(d)'] = [[d \in Campaigns |-> Given(d)] EXCEPT ![c] = {}]
    BY <1>1, <2>2
  <2>4. undone' = [undone EXCEPT ![c] =
                     [k \in Contacts |-> IF k \in Given(c) THEN @[k] + 1 ELSE @[k]]]
    BY <1>1, <2>2
  <2>5. Books!Lose(c)
    BY <1>0, <1>1, <2>3, <2>4 DEF Books!Lose, Given
  <2> QED
    BY <2>5
<1>3. CASE ~ Active(x)
  <2>1. SentBy(x) = {}
    BY <1>3 DEF SentBy, Active, RunInv, RowHeld, Nobody
  <2>2. \A d \in Campaigns, k \in Contacts : InFlight(d, k)' = InFlight(d, k)
    BY <1>1, <2>1, EndCloses
  <2>3. undone' = undone
    BY <1>1, <2>1 DEF RunInv, TypeOK
  <2> QED
    BY <1>0, <1>1, <2>2, <2>3 DEF Books!booksVars
<1> QED
  BY <1>2, <1>3

(* Runs of a campaign, however its executors interleave, abort and wait,   *)
(* implement its books: one transaction per run, behind one row lock.      *)
THEOREM RunsImplementBooks == Spec => ImplementsCampaignBooks
<1>1. Init => Books!BooksInit
  <2> SUFFICES ASSUME Init PROVE Books!BooksInit
    OBVIOUS
  <2>1. \A c \in Campaigns, k \in Contacts : InFlight(c, k) = {}
    BY DEF Init, InFlight, SentBy, Nobody
  <2> QED
    BY <2>1 DEF Init, Nobody, Zeroes, Settled, Books!BooksInit
<1> DEFINE Inv == RunInv /\ StrayIsFailed /\ NobodyLeft /\ CompletedIsDone /\ PausesAfterWork
<1>2. Inv /\ [Next]_vars => [Books!BooksNext]_(Books!booksVars)
  <2> SUFFICES ASSUME RunInv, StrayIsFailed, NobodyLeft, CompletedIsDone, PausesAfterWork,
                      [Next]_vars
               PROVE  Books!BooksNext \/ UNCHANGED Books!booksVars
    OBVIOUS
  <2>1. ASSUME NEW c \in Campaigns, NEW rejected \in SUBSET Contacts, Stage(c, rejected)
        PROVE  Books!BooksNext
    BY <2>1, StagingLaunches DEF Books!BooksNext
  <2>2. CASE QuietStep /\ UNCHANGED <<status, rcp>>
    BY <2>2, QuietSteps, BooksStutter DEF SendsNothing
  <2>3. ASSUME NEW x \in Executors, Send(x)
        PROVE  Books!BooksNext
    BY <2>3, SendGives, SendOpens DEF Books!BooksNext
  <2>4. ASSUME NEW x \in Executors, Commit(x)
        PROVE  Books!BooksNext
    BY <2>4, CommitKeeps, CampaignAssumption DEF Books!BooksNext, Mine
  <2>5. ASSUME NEW x \in Executors, Rollback(x)
        PROVE  Books!BooksNext \/ UNCHANGED Books!booksVars
    BY <2>5, RollbackLoses, CampaignAssumption DEF Books!BooksNext, Mine
  <2>6. ASSUME \/ UNCHANGED vars
               \/ \E k \in Contacts : Suppress(k)
               \/ \E x \in Executors :
                    Begin(x) \/ Enter(x) \/ NextBatch(x) \/ Check(x) \/ Record(x) \/ SendRejected(x)
        PROVE  QuietStep /\ UNCHANGED <<status, rcp>>
    BY <2>6 DEF QuietStep, vars, Suppress, Begin, Enter, NextBatch, Check, Record, SendRejected, db
  <2> QED
    BY <2>1, <2>2, <2>3, <2>4, <2>5, <2>6 DEF Next, RunStep, Abort, DeadlockVictim
<1> QED
  BY <1>1, <1>2, RunInvariant, StrayInvariant, CompletionInvariant, PauseInvariant, PTL
  DEF Spec, ImplementsCampaignBooks, Books!BooksSpec
----------------------------------------------------------------------------------
(***************************************************************************)
(* The books are promise enough.  Here they are as the rows make them.     *)
(***************************************************************************)
Launched  == {c \in Campaigns : status[c] # "NONE"}
Completed == {c \in Campaigns : status[c] = "COMPLETED"}
DueNow    == [c \in Campaigns |-> Due(c)]
GivenNow  == [c \in Campaigns |-> Given(c)]
KeptNow   == [c \in Campaigns |-> Kept(c)]

books == <<Launched, Completed, DueNow, GivenNow, KeptNow, wire, undone>>

Templates == [Campaigns -> [Contacts -> Nat]]

(* Every template is lost, recorded or open; only who is due has an open   *)
(* one; nobody is due in a campaign not launched yet, or completed.        *)
BooksBalance ==
  /\ wire \in Templates /\ undone \in Templates
  /\ \A c \in Campaigns, k \in Contacts :
       /\ wire[c][k] = IF k \in GivenNow[c] \cup KeptNow[c] THEN undone[c][k] + 1
                       ELSE undone[c][k]
       /\ k \in GivenNow[c] => k \in DueNow[c]
       /\ k \in DueNow[c] \cup KeptNow[c] => c \in Launched
       /\ c \in Completed => k \notin DueNow[c]

(* By the rows alone a recipient is not due and recorded at once.          *)
LEMMA BooksHaveTypes ==
  /\ DueNow \in [Campaigns -> SUBSET Contacts]
  /\ GivenNow \in [Campaigns -> SUBSET Contacts]
  /\ KeptNow \in [Campaigns -> SUBSET Contacts]
  /\ Completed \subseteq Launched /\ Launched \subseteq Campaigns
  /\ \A c \in Campaigns, k \in Contacts : k \in KeptNow[c] => k \notin DueNow[c]
  BY DEF DueNow, GivenNow, KeptNow, Completed, Launched, Due, Given, Kept, Settled

(* The actions of the books, in these terms.                               *)
LEMMA BooksActions ==
  ASSUME NEW c \in Campaigns
  PROVE  /\ \A chosen : Books!Launch(c, chosen) =>
              /\ c \notin Launched /\ Launched' = Launched \cup {c}
              /\ DueNow' = [DueNow EXCEPT ![c] = chosen]
              /\ UNCHANGED <<Completed, GivenNow, KeptNow, wire, undone>>
         /\ \A k : Books!Give(c, k) =>
              /\ k \in DueNow[c] \ GivenNow[c]
              /\ GivenNow' = [GivenNow EXCEPT ![c] = @ \cup {k}]
              /\ wire' = [wire EXCEPT ![c][k] = @ + 1]
              /\ UNCHANGED <<Launched, Completed, DueNow, KeptNow, undone>>
         /\ \A refused : Books!Keep(c, refused) =>
              /\ c \in Launched
              /\ KeptNow' = [KeptNow EXCEPT ![c] = @ \cup GivenNow[c]]
              /\ DueNow' = [DueNow EXCEPT ![c] = @ \ (GivenNow[c] \cup refused)]
              /\ GivenNow' = [GivenNow EXCEPT ![c] = {}]
              /\ Completed' = Completed \/ (Completed' = Completed \cup {c} /\ DueNow'[c] = {})
              /\ UNCHANGED <<Launched, wire, undone>>
         /\ Books!Lose(c) =>
              /\ undone' = [undone EXCEPT ![c] =
                   [k \in Contacts |-> IF k \in GivenNow[c] THEN @[k] + 1 ELSE @[k]]]
              /\ GivenNow' = [GivenNow EXCEPT ![c] = {}]
              /\ UNCHANGED <<Launched, Completed, DueNow, KeptNow, wire>>
<1> USE DEF Launched, Completed, DueNow, GivenNow, KeptNow, Due, Given, Kept
<1>1. ASSUME NEW chosen, Books!Launch(c, chosen)
      PROVE  /\ c \notin Launched /\ Launched' = Launched \cup {c}
             /\ DueNow' = [DueNow EXCEPT ![c] = chosen]
             /\ UNCHANGED <<Completed, GivenNow, KeptNow, wire, undone>>
  BY <1>1 DEF Books!Launch
<1>2. ASSUME NEW k, Books!Give(c, k)
      PROVE  /\ k \in DueNow[c] \ GivenNow[c]
             /\ GivenNow' = [GivenNow EXCEPT ![c] = @ \cup {k}]
             /\ wire' = [wire EXCEPT ![c][k] = @ + 1]
             /\ UNCHANGED <<Launched, Completed, DueNow, KeptNow, undone>>
  BY <1>2 DEF Books!Give
<1>3. ASSUME NEW refused, Books!Keep(c, refused)
      PROVE  /\ c \in Launched
             /\ KeptNow' = [KeptNow EXCEPT ![c] = @ \cup GivenNow[c]]
             /\ DueNow' = [DueNow EXCEPT ![c] = @ \ (GivenNow[c] \cup refused)]
             /\ GivenNow' = [GivenNow EXCEPT ![c] = {}]
             /\ Completed' = Completed \/ (Completed' = Completed \cup {c} /\ DueNow'[c] = {})
             /\ UNCHANGED <<Launched, wire, undone>>
  BY <1>3 DEF Books!Keep
<1>4. ASSUME Books!Lose(c)
      PROVE  /\ undone' = [undone EXCEPT ![c] =
                   [k \in Contacts |-> IF k \in GivenNow[c] THEN @[k] + 1 ELSE @[k]]]
             /\ GivenNow' = [GivenNow EXCEPT ![c] = {}]
             /\ UNCHANGED <<Launched, Completed, DueNow, KeptNow, wire>>
  BY <1>4 DEF Books!Lose
<1> HIDE DEF Launched, Completed, DueNow, GivenNow, KeptNow
<1> QED
  BY <1>1, <1>2, <1>3, <1>4

(* Every entry keeps the balance.                                          *)
LEMMA BooksStayBalanced == ImplementsCampaignBooks => []BooksBalance
<1>1. Books!BooksInit => BooksBalance
  <2> SUFFICES ASSUME Books!BooksInit
               PROVE  BooksBalance
    OBVIOUS
  <2>1. /\ Launched = {} /\ Completed = {}
        /\ DueNow = [c \in Campaigns |-> {}] /\ GivenNow = [c \in Campaigns |-> {}]
        /\ KeptNow = [c \in Campaigns |-> {}]
        /\ wire = [c \in Campaigns |-> [k \in Contacts |-> 0]]
        /\ undone = [c \in Campaigns |-> [k \in Contacts |-> 0]]
    BY DEF Books!BooksInit, Launched, Completed, DueNow, GivenNow, KeptNow, Due, Given, Kept
  <2> QED
    BY <2>1 DEF BooksBalance, Templates
<1>2. BooksBalance /\ [Books!BooksNext]_(Books!booksVars) => BooksBalance'
  <2> SUFFICES ASSUME BooksBalance, [Books!BooksNext]_(Books!booksVars)
               PROVE  BooksBalance'
    OBVIOUS
  <2> USE BooksHaveTypes DEF BooksBalance, Templates
  <2>1. CASE UNCHANGED Books!booksVars
    <3>1. UNCHANGED books
      BY <2>1 DEF Books!booksVars, books, Launched, Completed, DueNow, GivenNow, KeptNow,
                  Due, Given, Kept
    <3> QED
      BY <3>1 DEF books
  <2>2. ASSUME NEW c \in Campaigns, NEW chosen \in SUBSET Contacts, Books!Launch(c, chosen)
        PROVE  BooksBalance'
    <3>1. /\ c \notin Launched /\ Launched' = Launched \cup {c}
          /\ DueNow' = [DueNow EXCEPT ![c] = chosen]
          /\ UNCHANGED <<Completed, GivenNow, KeptNow, wire, undone>>
      BY <2>2, BooksActions
    <3> QED
      BY <3>1
  <2>3. ASSUME NEW c \in Campaigns, NEW k \in Contacts, Books!Give(c, k)
        PROVE  BooksBalance'
    <3>1. /\ k \in DueNow[c] \ GivenNow[c]
          /\ GivenNow' = [GivenNow EXCEPT ![c] = @ \cup {k}]
          /\ wire' = [wire EXCEPT ![c][k] = @ + 1]
          /\ UNCHANGED <<Launched, Completed, DueNow, KeptNow, undone>>
      BY <2>3, BooksActions
    <3> QED
      BY <3>1
  <2>4. ASSUME NEW c \in Campaigns, NEW refused \in SUBSET Contacts, Books!Keep(c, refused)
        PROVE  BooksBalance'
    <3>1. /\ c \in Launched
          /\ KeptNow' = [KeptNow EXCEPT ![c] = @ \cup GivenNow[c]]
          /\ DueNow' = [DueNow EXCEPT ![c] = @ \ (GivenNow[c] \cup refused)]
          /\ GivenNow' = [GivenNow EXCEPT ![c] = {}]
          /\ Completed' = Completed \/ (Completed' = Completed \cup {c} /\ DueNow'[c] = {})
          /\ UNCHANGED <<Launched, wire, undone>>
      BY <2>4, BooksActions
    <3> QED
      BY <3>1
  <2>5. ASSUME NEW c \in Campaigns, Books!Lose(c)
        PROVE  BooksBalance'
    <3>1. /\ undone' = [undone EXCEPT ![c] =
                [k \in Contacts |-> IF k \in GivenNow[c] THEN @[k] + 1 ELSE @[k]]]
          /\ GivenNow' = [GivenNow EXCEPT ![c] = {}]
          /\ UNCHANGED <<Launched, Completed, DueNow, KeptNow, wire>>
      BY <2>5, BooksActions
    <3> QED
      BY <3>1
  <2> QED
    BY <2>1, <2>2, <2>3, <2>4, <2>5 DEF Books!BooksNext
<1> QED
  BY <1>1, <1>2, PTL DEF ImplementsCampaignBooks, Books!BooksSpec

(* Whatever implements the books sends nobody a second template of a       *)
(* campaign unless the first was lost, and has nobody due when completed.  *)
THEOREM BooksKeepSends ==
  ImplementsCampaignBooks => [](SecondSendNeedsRollback /\ CompletedIsDone)
<1>1. BooksBalance => SecondSendNeedsRollback /\ CompletedIsDone
  <2> SUFFICES ASSUME BooksBalance, NEW c \in Campaigns, NEW k \in Contacts
               PROVE  /\ wire[c][k] <= 1 + undone[c][k]
                      /\ status[c] = "COMPLETED" => rcp[c][k] # "ELIGIBLE"
    BY DEF SecondSendNeedsRollback, CompletedIsDone
  <2>1. wire[c][k] <= 1 + undone[c][k]
    <3>1. undone[c][k] \in Nat
      BY DEF BooksBalance, Templates
    <3> QED
      BY <3>1 DEF BooksBalance
  <2>2. status[c] = "COMPLETED" => rcp[c][k] # "ELIGIBLE"
    BY DEF BooksBalance, Completed, DueNow, Due
  <2> QED
    BY <2>1, <2>2
<1> QED
  BY <1>1, BooksStayBalanced, PTL
==================================================================================
