-------------------------- MODULE WalletSendProofs --------------------------
(* Theorems about WalletSend, for every set of sends, deposits, providers  *)
(* and concurrent refreshes.                                               *)
EXTENDS WalletSend, TLAPS

USE DEF sendVars, walletVars, networkVars, history

(* The initial state has the declared types.                               *)
LEMMA TypeInit == Init => TypeOK
  BY ConstantsAssumption DEF Init, TypeOK, Coin, Phase, EmptyCache, Idle

LEMMA TypeMarkSpent ==
  ASSUME TypeOK, NEW s \in Sends, NEW c \in Coin, MarkSpent(s, c)
  PROVE  owner' \in [Coin -> Sends \cup {NoSend}] /\ stale' \in SUBSET Coin
  BY DEF MarkSpent, TypeOK

LEMMA TypeUnlock ==
  ASSUME TypeOK, NEW S \in SUBSET Coin, Unlock(S)
  PROVE  /\ owner' \in [Coin -> Sends \cup {NoSend}]
         /\ stale' \in SUBSET Coin
         /\ released' \in SUBSET (Coin \X Sends)
  BY DEF Unlock, TypeOK

(* Every step keeps the types.                                             *)
LEMMA TypeStep == TypeOK /\ [Next]_vars => TypeOK'
<1> SUFFICES ASSUME TypeOK, [Next]_vars PROVE TypeOK'
  OBVIOUS
<1> USE DEF Phase
<1>1. ASSUME NEW s \in Sends, SendStart(s) PROVE TypeOK'
  BY <1>1 DEF TypeOK, SendStart
<1>2. ASSUME NEW s \in Sends, SendSnapshot(s) PROVE TypeOK'
  BY <1>2 DEF TypeOK, SendSnapshot, Spendable
<1>3. ASSUME NEW s \in Sends, SendSelect(s) PROVE TypeOK'
  <2>0. PICK S \in SUBSET snapshot[s], change \in BOOLEAN : \E c \in S :
           /\ inputs' = [inputs EXCEPT ![s] = S]
           /\ hasChange' = [hasChange EXCEPT ![s] = change]
           /\ todo' = [todo EXCEPT ![s] = S \ {c}]
           /\ MarkSpent(s, c)
    BY <1>3 DEF SendSelect
  <2>1. PICK c \in S :
           /\ inputs' = [inputs EXCEPT ![s] = S]
           /\ hasChange' = [hasChange EXCEPT ![s] = change]
           /\ todo' = [todo EXCEPT ![s] = S \ {c}]
           /\ MarkSpent(s, c)
    BY <2>0
  <2>2. S \subseteq Coin /\ c \in Coin
    BY DEF TypeOK
  <2>3. owner' \in [Coin -> Sends \cup {NoSend}] /\ stale' \in SUBSET Coin
    BY <2>1, <2>2, TypeMarkSpent
  <2> QED
    BY <1>3, <2>1, <2>2, <2>3 DEF TypeOK, SendSelect
<1>4. ASSUME NEW s \in Sends, SendRefused(s) PROVE TypeOK'
  BY <1>4 DEF TypeOK, SendRefused
<1>5. ASSUME NEW s \in Sends, SendLock(s) PROVE TypeOK'
  <2>1. PICK c \in todo[s] : todo' = [todo EXCEPT ![s] = @ \ {c}] /\ MarkSpent(s, c)
    BY <1>5 DEF SendLock
  <2>2. c \in Coin
    BY DEF TypeOK
  <2>3. owner' \in [Coin -> Sends \cup {NoSend}] /\ stale' \in SUBSET Coin
    BY <2>1, <2>2, TypeMarkSpent
  <2> QED
    BY <1>5, <2>1, <2>3 DEF TypeOK, SendLock
<1>6. ASSUME NEW s \in Sends, SendBroadcast(s) PROVE TypeOK'
  BY <1>6 DEF TypeOK, SendBroadcast
<1>7. ASSUME NEW s \in Sends, SendSucceeds(s) PROVE TypeOK'
  BY <1>7 DEF TypeOK, SendSucceeds, Coin
<1>8. ASSUME NEW s \in Sends, SendFails(s) PROVE TypeOK'
  <2>1. PICK c \in inputs[s] : todo' = [todo EXCEPT ![s] = inputs[s] \ {c}] /\ Unlock({c} \cap cached)
    BY <1>8 DEF SendFails
  <2>2. {c} \cap cached \in SUBSET Coin
    BY DEF TypeOK
  <2> QED
    BY <1>8, <2>1, <2>2, TypeUnlock DEF TypeOK, SendFails
<1>9. ASSUME NEW s \in Sends, SendUnlock(s) PROVE TypeOK'
  <2>1. PICK c \in todo[s] : todo' = [todo EXCEPT ![s] = @ \ {c}] /\ Unlock({c} \cap cached)
    BY <1>9 DEF SendUnlock
  <2>2. {c} \cap cached \in SUBSET Coin
    BY DEF TypeOK
  <2> QED
    BY <1>9, <2>1, <2>2, TypeUnlock DEF TypeOK, SendUnlock
<1>10. ASSUME NEW s \in Sends, SendRethrow(s) PROVE TypeOK'
  BY <1>10 DEF TypeOK, SendRethrow
<1>11. ASSUME NEW s \in Sends, TrackerConfirms(s) PROVE TypeOK'
  BY <1>11 DEF TypeOK, TrackerConfirms
<1>12. ASSUME NEW s \in Sends, TrackerGivesUp(s) PROVE TypeOK'
  <2>1. {c \in cached : owner[c] = s} \in SUBSET Coin
    BY DEF TypeOK
  <2>2. Unlock({c \in cached : owner[c] = s})
    BY <1>12 DEF TrackerGivesUp
  <2>3. /\ owner' \in [Coin -> Sends \cup {NoSend}]
        /\ stale' \in SUBSET Coin
        /\ released' \in SUBSET (Coin \X Sends)
    BY <2>1, <2>2, TypeUnlock
  <2> QED
    BY <1>12, <2>1, <2>2, <2>3 DEF TypeOK, TrackerGivesUp
<1>13. ASSUME NEW s \in Sends, NetworkStep(s) PROVE TypeOK'
  BY <1>13 DEF TypeOK, NetworkStep, NetworkAccepts, NetworkMines, ProviderIndexes
<1>14. ASSUME NEW r \in Refreshes, NEW p \in Providers, RefreshAsks(r, p) PROVE TypeOK'
  BY <1>14 DEF TypeOK, RefreshAsks, Unspent, Coin
<1>15. ASSUME NEW r \in Refreshes, RefreshMerge(r) PROVE TypeOK'
  BY <1>15 DEF TypeOK, RefreshMerge, MergedOwner, Idle
<1>16. ASSUME NEW r \in Refreshes, RefreshSkip(r) PROVE TypeOK'
  BY <1>16 DEF TypeOK, RefreshSkip, Idle
<1>17. ASSUME NEW c \in Coin, LockAges(c) PROVE TypeOK'
  BY <1>17 DEF TypeOK, LockAges
<1>18. CASE Restart
  BY <1>18, ConstantsAssumption DEF TypeOK, Restart, Idle
<1>19. CASE UNCHANGED vars
  BY <1>19 DEF TypeOK, vars
<1> QED
  BY <1>1, <1>2, <1>3, <1>4, <1>5, <1>6, <1>7, <1>8, <1>9, <1>10, <1>11, <1>12, <1>13,
     <1>14, <1>15, <1>16, <1>17, <1>18, <1>19 DEF Next, SendContinues, RefreshStep

(* The type invariant holds in every reachable state.                      *)
THEOREM TypeCorrect == Spec => []TypeOK
  BY TypeInit, TypeStep, PTL DEF Spec

-----------------------------------------------------------------------------
(* Excuses *)

(* No step forgets how a lock was lost, or what a send has signed for.     *)
LEMMA HistoryGrows ==
  ASSUME TypeOK, NoEarlyInputs, [Next]_vars
  PROVE  /\ released \subseteq released'
         /\ resurfaced \subseteq resurfaced'
         /\ \A s \in Sends : open[s] \subseteq open'[s] /\ inputs[s] \subseteq inputs'[s]
<1> DEFINE P == /\ released \subseteq released'
                /\ resurfaced \subseteq resurfaced'
                /\ \A s \in Sends : open[s] \subseteq open'[s] /\ inputs[s] \subseteq inputs'[s]
<1>1. ASSUME NEW s \in Sends, SendStart(s) PROVE P
  BY <1>1 DEF SendStart
<1>2. ASSUME NEW s \in Sends, SendSnapshot(s) PROVE P
  BY <1>2 DEF TypeOK, SendSnapshot
<1>3. ASSUME NEW s \in Sends, SendSelect(s) PROVE P
  <2>1. inputs[s] = {}
    BY <1>3 DEF SendSelect, NoEarlyInputs
  <2>2. /\ \A t \in Sends : t # s => inputs'[t] = inputs[t]
        /\ UNCHANGED history
    BY <1>3 DEF SendSelect, TypeOK
  <2> QED
    BY <2>1, <2>2
<1>4. ASSUME NEW s \in Sends, SendRefused(s) PROVE P
  BY <1>4 DEF SendRefused
<1>5. ASSUME NEW s \in Sends, SendLock(s) PROVE P
  BY <1>5 DEF SendLock
<1>6. ASSUME NEW s \in Sends, SendBroadcast(s) PROVE P
  BY <1>6 DEF SendBroadcast
<1>7. ASSUME NEW s \in Sends, SendSucceeds(s) PROVE P
  BY <1>7 DEF SendSucceeds
<1>8. ASSUME NEW s \in Sends, SendFails(s) PROVE P
  BY <1>8 DEF SendFails, Unlock
<1>9. ASSUME NEW s \in Sends, SendUnlock(s) PROVE P
  BY <1>9 DEF SendUnlock, Unlock
<1>10. ASSUME NEW s \in Sends, SendRethrow(s) PROVE P
  BY <1>10 DEF SendRethrow
<1>11. ASSUME NEW s \in Sends, TrackerConfirms(s) PROVE P
  BY <1>11 DEF TrackerConfirms
<1>12. ASSUME NEW s \in Sends, TrackerGivesUp(s) PROVE P
  BY <1>12 DEF TrackerGivesUp, Unlock
<1>13. ASSUME NEW s \in Sends, NetworkStep(s) PROVE P
  BY <1>13 DEF NetworkStep, NetworkAccepts, NetworkMines, ProviderIndexes
<1>14. ASSUME NEW r \in Refreshes, RefreshStep(r) PROVE P
  BY <1>14 DEF RefreshStep, RefreshAsks, RefreshMerge, RefreshSkip
<1>15. ASSUME NEW c \in Coin, LockAges(c) PROVE P
  BY <1>15 DEF LockAges
<1>16. CASE Restart
  BY <1>16 DEF Restart
<1>17. CASE UNCHANGED vars
  BY <1>17 DEF vars
<1> QED
  BY <1>1, <1>2, <1>3, <1>4, <1>5, <1>6, <1>7, <1>8, <1>9, <1>10, <1>11, <1>12, <1>13,
     <1>14, <1>15, <1>16, <1>17 DEF Next, SendContinues

(* So an overlap stays an overlap and an excuse stays an excuse.           *)
LEMMA ExcusesLast ==
  ASSUME TypeOK, NoEarlyInputs, [Next]_vars
  PROVE  /\ \A s, t \in Sends : Overlap(s, t) => Overlap(s, t)'
         /\ \A c \in Coin, s \in Sends : Excused(c, s) => Excused(c, s)'
<1>1. \A s, t \in Sends : Overlap(s, t) => Overlap(s, t)'
  BY HistoryGrows DEF Overlap
<1>2. ASSUME NEW c \in Coin, NEW s \in Sends, Excused(c, s) PROVE Excused(c, s)'
  <2>1. CASE <<c, s>> \in released \/ c \in resurfaced
    BY <2>1, HistoryGrows DEF Excused
  <2>2. CASE \E u \in Sends : Overlap(s, u) /\ c \in inputs[u]
    BY <2>2, <1>1, HistoryGrows DEF Excused
  <2> QED
    BY <1>2, <2>1, <2>2 DEF Excused
<1> QED
  BY <1>1, <1>2

-----------------------------------------------------------------------------
(* The causes of conflicts *)

(* The parts of LockInvariant that say why two sends share a coin.         *)
Causes == /\ NoEarlyInputs /\ RacersOverlap
          /\ SnapshotsHaveCause /\ LockersHaveCause /\ ConflictsHaveCause

(* A step that neither takes a snapshot nor signs disturbs none of them.   *)
LEMMA NothingNew ==
  ASSUME TypeOK, Causes, [Next]_vars,
         inputs' = inputs,
         \A s \in Sends : Signed(s)' => Signed(s),
         \A s \in Sends : phase'[s] \in {"selecting", "locking"} => phase'[s] = phase[s],
         \A s \in Sends : phase'[s] = "selecting" => snapshot'[s] = snapshot[s],
         \A s \in Sends : phase'[s] \in {"idle", "feeRate", "selecting", "refused"} =>
             phase[s] \in {"idle", "feeRate", "selecting", "refused"}
  PROVE  Causes'
<1>1. /\ \A s, t \in Sends : Overlap(s, t) => Overlap(s, t)'
      /\ \A c \in Coin, s \in Sends : Excused(c, s) => Excused(c, s)'
  BY ExcusesLast DEF Causes
<1>2. \A s \in Sends : inputs[s] \subseteq Coin
  BY DEF TypeOK
<1>3. NoEarlyInputs'
  BY DEF Causes, NoEarlyInputs
<1>4. RacersOverlap'
  BY <1>1 DEF Causes, RacersOverlap
<1>5. SnapshotsHaveCause'
  BY <1>1, <1>2 DEF Causes, SnapshotsHaveCause
<1>6. LockersHaveCause'
  BY <1>1, <1>2 DEF Causes, LockersHaveCause
<1>7. ConflictsHaveCause'
  BY <1>1, <1>2 DEF Causes, ConflictsHaveCause
<1> QED
  BY <1>3, <1>4, <1>5, <1>6, <1>7 DEF Causes

(* getSpendableUtxos() sees a coin of a signed send only if the send is    *)
(* still locking, and then the two overlap, or has lost the lock.          *)
LEMMA SnapshotStep ==
  ASSUME TypeOK, LockInvariant, NEW u \in Sends, SendSnapshot(u)
  PROVE  Causes'
<1>1. /\ \A s, t \in Sends : Overlap(s, t) => Overlap(s, t)'
      /\ \A c \in Coin, s \in Sends : Excused(c, s) => Excused(c, s)'
  BY ExcusesLast DEF LockInvariant, Next, SendContinues
<1>2. /\ phase[u] = "feeRate"
      /\ phase' = [phase EXCEPT ![u] = "selecting"]
      /\ snapshot' = [snapshot EXCEPT ![u] = Spendable]
      /\ \A t \in Sends \ {u} : phase[t] \in {"selecting", "locking"} => t \in open'[u]
      /\ inputs' = inputs
  BY DEF SendSnapshot, TypeOK
<1>3. /\ \A t \in Sends \ {u} : phase'[t] = phase[t] /\ snapshot'[t] = snapshot[t]
      /\ phase'[u] = "selecting"
      /\ snapshot'[u] = Spendable
      /\ \A s \in Sends : Signed(s)' => s # u /\ Signed(s)
  BY <1>2 DEF TypeOK, Signed, Left
<1>4. \A s \in Sends : inputs[s] \subseteq Coin
  BY DEF TypeOK
<1>5. NoEarlyInputs'
  BY <1>2, <1>3 DEF LockInvariant, NoEarlyInputs
<1>6. RacersOverlap'
  BY <1>1, <1>2, <1>3 DEF LockInvariant, RacersOverlap, Overlap
<1>7. ASSUME NEW s \in Sends, s # u, Signed(s), NEW c \in inputs[s] \cap Spendable
      PROVE  Overlap(s, u)' \/ Excused(c, s)'
  <2>1. CASE phase[s] = "locking"
    BY <1>2, <1>7, <2>1 DEF Overlap
  <2>2. CASE Left(s)
    <3>1. c \in Marked(s) \cap cached /\ owner[c] = NoSend
      BY <1>7, <2>2 DEF Marked, Spendable, Left
    <3>2. owner[c] # s
      BY <3>1, ConstantsAssumption
    <3> QED
      BY <1>1, <1>4, <1>7, <3>1, <3>2 DEF LockInvariant, HeldForItsSend
  <2> QED
    BY <1>7, <2>1, <2>2 DEF Signed
<1>8. SnapshotsHaveCause'
  <2> SUFFICES ASSUME NEW s \in Sends, NEW t \in Sends, s # t, Signed(s)', phase'[t] = "selecting",
                      NEW c \in inputs'[s] \cap snapshot'[t]
               PROVE  Overlap(s, t)' \/ Excused(c, s)'
    BY DEF SnapshotsHaveCause
  <2>1. CASE t = u
    BY <1>2, <1>3, <1>7, <2>1
  <2>2. CASE t # u
    BY <1>1, <1>2, <1>3, <1>4, <2>2 DEF LockInvariant, SnapshotsHaveCause
  <2> QED
    BY <2>1, <2>2
<1>9. LockersHaveCause'
  BY <1>1, <1>2, <1>3, <1>4 DEF LockInvariant, LockersHaveCause
<1>10. ConflictsHaveCause'
  BY <1>1, <1>2, <1>3, <1>4 DEF LockInvariant, ConflictsHaveCause
<1> QED
  BY <1>5, <1>6, <1>8, <1>9, <1>10 DEF Causes

(* selectCoins() takes coins from the snapshot, and every signed send that *)
(* shares one has its cause already; a send still selecting overlaps.      *)
LEMMA SelectStep ==
  ASSUME TypeOK, LockInvariant, NEW u \in Sends, SendSelect(u)
  PROVE  Causes'
<1>1. /\ \A s, t \in Sends : Overlap(s, t) => Overlap(s, t)'
      /\ \A c \in Coin, s \in Sends : Excused(c, s) => Excused(c, s)'
  BY ExcusesLast DEF LockInvariant, Next, SendContinues
<1>2. /\ phase[u] = "selecting" /\ phase'[u] = "locking"
      /\ inputs'[u] \subseteq snapshot[u]
      /\ \A t \in Sends \ {u} : phase'[t] = phase[t] /\ snapshot'[t] = snapshot[t]
                               /\ inputs'[t] = inputs[t]
  BY DEF SendSelect, TypeOK
<1>3. \A s \in Sends \ {u} : Signed(s)' => Signed(s)
  BY <1>2 DEF Signed, Left
<1>4. \A s \in Sends : inputs[s] \subseteq Coin /\ snapshot[s] \subseteq Coin
  BY DEF TypeOK
<1>5. \A t \in Sends : t # u /\ phase[t] \in {"selecting", "locking"} => Overlap(u, t)' /\ Overlap(t, u)'
  BY <1>1, <1>2 DEF LockInvariant, RacersOverlap, Overlap
<1>6. \A s \in Sends : s # u /\ Signed(s) =>
         \A c \in inputs[s] \cap snapshot[u] : Overlap(s, u)' \/ Excused(c, s)'
  BY <1>1, <1>2, <1>4 DEF LockInvariant, SnapshotsHaveCause
<1>7. NoEarlyInputs'
  BY <1>2 DEF LockInvariant, NoEarlyInputs
<1>8. RacersOverlap'
  BY <1>1, <1>2 DEF LockInvariant, RacersOverlap
<1>9. SnapshotsHaveCause'
  BY <1>1, <1>2, <1>3, <1>4, <1>5 DEF LockInvariant, SnapshotsHaveCause
<1>10. LockersHaveCause'
  BY <1>1, <1>2, <1>3, <1>4, <1>5, <1>6 DEF LockInvariant, LockersHaveCause
<1>11. ConflictsHaveCause'
  <2> SUFFICES ASSUME NEW s \in Sends, NEW t \in Sends, s # t, Signed(s)', Signed(t)',
                      NEW c \in inputs'[s] \cap inputs'[t]
               PROVE  Overlap(s, t)' \/ Excused(c, s)' \/ Excused(c, t)'
    BY DEF ConflictsHaveCause
  <2>1. CASE t = u
    BY <1>2, <1>3, <1>6, <2>1
  <2>2. CASE s = u
    BY <1>2, <1>3, <1>6, <2>2 DEF Overlap
  <2>3. CASE s # u /\ t # u
    BY <1>1, <1>2, <1>3, <1>4, <2>3 DEF LockInvariant, ConflictsHaveCause
  <2> QED
    BY <2>1, <2>2, <2>3
<1> QED
  BY <1>7, <1>8, <1>9, <1>10, <1>11 DEF Causes

LEMMA CausesStep ==
  ASSUME TypeOK, LockInvariant, [Next]_vars
  PROVE  Causes'
<1> Causes
  BY DEF LockInvariant, Causes
<1> USE DEF Signed, Left
<1>1. ASSUME NEW s \in Sends, SendStart(s) PROVE Causes'
  BY <1>1, NothingNew DEF SendStart, TypeOK
<1>2. ASSUME NEW s \in Sends, SendSnapshot(s) PROVE Causes'
  BY <1>2, SnapshotStep
<1>3. ASSUME NEW s \in Sends, SendSelect(s) PROVE Causes'
  BY <1>3, SelectStep
<1>4. ASSUME NEW s \in Sends, SendRefused(s) PROVE Causes'
  BY <1>4, NothingNew DEF SendRefused, TypeOK
<1>5. ASSUME NEW s \in Sends, SendLock(s) PROVE Causes'
  BY <1>5, NothingNew DEF SendLock, TypeOK
<1>6. ASSUME NEW s \in Sends, SendBroadcast(s) PROVE Causes'
  BY <1>6, NothingNew DEF SendBroadcast, TypeOK
<1>7. ASSUME NEW s \in Sends, SendSucceeds(s) PROVE Causes'
  BY <1>7, NothingNew DEF SendSucceeds, TypeOK
<1>8. ASSUME NEW s \in Sends, SendFails(s) PROVE Causes'
  BY <1>8, NothingNew DEF SendFails, TypeOK
<1>9. ASSUME NEW s \in Sends, SendUnlock(s) PROVE Causes'
  BY <1>9, NothingNew DEF SendUnlock, TypeOK
<1>10. ASSUME NEW s \in Sends, SendRethrow(s) PROVE Causes'
  BY <1>10, NothingNew DEF SendRethrow, TypeOK
<1>11. CASE UNCHANGED sendVars
  BY <1>11, NothingNew
<1>12. CASE Restart
  BY <1>12, NothingNew DEF Restart, TypeOK, Phase
<1>13. ASSUME NEW s \in Sends, TrackerConfirms(s) \/ TrackerGivesUp(s) \/ NetworkStep(s)
       PROVE  UNCHANGED sendVars
  BY <1>13 DEF TrackerConfirms, TrackerGivesUp, NetworkStep, NetworkAccepts, NetworkMines, ProviderIndexes
<1>14. ASSUME NEW r \in Refreshes, RefreshStep(r) PROVE UNCHANGED sendVars
  BY <1>14 DEF RefreshStep, RefreshAsks, RefreshMerge, RefreshSkip
<1>15. ASSUME NEW c \in Coin, LockAges(c) PROVE UNCHANGED sendVars
  BY <1>15 DEF LockAges
<1>16. UNCHANGED vars => UNCHANGED sendVars
  BY DEF vars
<1> QED
  BY <1>1, <1>2, <1>3, <1>4, <1>5, <1>6, <1>7, <1>8, <1>9, <1>10, <1>11, <1>12, <1>13,
     <1>14, <1>15, <1>16 DEF Next, SendContinues

-----------------------------------------------------------------------------
(* The locks *)

(* The markSpent() and unlockUtxo() loops stay within the inputs.          *)
LEMMA WalkStep ==
  ASSUME TypeOK, LockInvariant, [Next]_vars
  PROVE  WalkOverInputs'
<1> USE DEF LockInvariant, WalkOverInputs, TypeOK
<1>1. ASSUME NEW s \in Sends, SendStart(s) \/ SendSnapshot(s) \/ SendRefused(s) \/ SendBroadcast(s)
                              \/ SendSucceeds(s) \/ SendRethrow(s)
      PROVE  WalkOverInputs'
  BY <1>1 DEF SendStart, SendSnapshot, SendRefused, SendBroadcast, SendSucceeds, SendRethrow
<1>2. ASSUME NEW s \in Sends, SendSelect(s) PROVE WalkOverInputs'
  BY <1>2 DEF SendSelect
<1>3. ASSUME NEW s \in Sends, SendLock(s) PROVE WalkOverInputs'
  BY <1>3 DEF SendLock
<1>4. ASSUME NEW s \in Sends, SendFails(s) PROVE WalkOverInputs'
  BY <1>4 DEF SendFails
<1>5. ASSUME NEW s \in Sends, SendUnlock(s) PROVE WalkOverInputs'
  BY <1>5 DEF SendUnlock
<1>6. ASSUME NEW s \in Sends, TrackerConfirms(s) \/ TrackerGivesUp(s) \/ NetworkStep(s)
      PROVE  WalkOverInputs'
  BY <1>6 DEF TrackerConfirms, TrackerGivesUp, NetworkStep, NetworkAccepts, NetworkMines, ProviderIndexes
<1>7. ASSUME NEW r \in Refreshes, RefreshStep(r) PROVE WalkOverInputs'
  BY <1>7 DEF RefreshStep, RefreshAsks, RefreshMerge, RefreshSkip
<1>8. ASSUME NEW c \in Coin, LockAges(c) PROVE WalkOverInputs'
  BY <1>8 DEF LockAges
<1>9. CASE Restart
  BY <1>9 DEF Restart
<1>10. CASE UNCHANGED vars
  BY <1>10 DEF vars
<1> QED
  BY <1>1, <1>2, <1>3, <1>4, <1>5, <1>6, <1>7, <1>8, <1>9, <1>10 DEF Next, SendContinues

(* markSpent(c) for u takes c only from sends that are excused for it.     *)
LEMMA MarkSpentHolds ==
  ASSUME TypeOK, LockInvariant, [Next]_vars,
         NEW u \in Sends, NEW d \in Coin, MarkSpent(u, d), cached' = cached,
         \A s \in Sends : Marked(s)' \subseteq Marked(s) \cup (IF s = u THEN {d} ELSE {}),
         \A s \in Sends : s # u /\ d \in Marked(s) => Excused(d, s)'
  PROVE  HeldForItsSend'
<1>1. \A c \in Coin, s \in Sends : Excused(c, s) => Excused(c, s)'
  BY ExcusesLast DEF LockInvariant
<1> SUFFICES ASSUME NEW s \in Sends, NEW c \in Marked(s)' \cap cached'
             PROVE  owner'[c] = s \/ Excused(c, s)'
  BY DEF HeldForItsSend
<1>2. c \in Coin /\ c \in cached
  BY DEF TypeOK
<1>3. CASE c = d
  <2>1. CASE s = u
    BY <1>2, <1>3, <2>1 DEF MarkSpent, TypeOK
  <2>2. CASE s # u
    BY <1>3, <2>2
  <2> QED
    BY <2>1, <2>2
<1>4. CASE c # d
  <2>1. c \in Marked(s) \cap cached
    BY <1>2, <1>4
  <2>2. owner'[c] = owner[c]
    BY <1>2, <1>4 DEF MarkSpent, TypeOK
  <2> QED
    BY <1>1, <1>2, <2>1, <2>2 DEF LockInvariant, HeldForItsSend
<1> QED
  BY <1>3, <1>4

(* Any other step keeps a lock, or leaves an excuse for losing it.         *)
LEMMA LockKept ==
  ASSUME TypeOK, LockInvariant, [Next]_vars,
         \A s \in Sends : Marked(s)' \subseteq Marked(s),
         \A c \in cached' \cap cached : \A s \in Sends :
             owner[c] = s => owner'[c] = s \/ <<c, s>> \in released',
         \A c \in cached' \ cached : \A s \in Sends : c \in Marked(s) => c \in resurfaced'
  PROVE  HeldForItsSend'
<1>1. \A c \in Coin, s \in Sends : Excused(c, s) => Excused(c, s)'
  BY ExcusesLast DEF LockInvariant
<1> SUFFICES ASSUME NEW s \in Sends, NEW c \in Marked(s)' \cap cached'
             PROVE  owner'[c] = s \/ Excused(c, s)'
  BY DEF HeldForItsSend
<1>2. c \in Marked(s) /\ c \in Coin
  BY DEF TypeOK, Marked
<1>3. CASE c \in cached
  <2>1. owner[c] = s \/ Excused(c, s)
    BY <1>2, <1>3 DEF LockInvariant, HeldForItsSend
  <2> QED
    BY <1>1, <1>2, <1>3, <2>1 DEF Excused
<1>4. CASE c \notin cached
  BY <1>2, <1>4 DEF Excused
<1> QED
  BY <1>3, <1>4

LEMMA HeldStep ==
  ASSUME TypeOK, LockInvariant, [Next]_vars
  PROVE  HeldForItsSend'
<1>0. \A s \in Sends : Marked(s) \subseteq inputs[s] /\ (Marked(s) # {} => Signed(s))
  BY DEF Marked, Signed, Left
<1>1. ASSUME NEW s \in Sends, SendStart(s) PROVE HeldForItsSend'
  BY <1>1, LockKept DEF SendStart, TypeOK, Marked, Left
<1>2. ASSUME NEW s \in Sends, SendSnapshot(s) PROVE HeldForItsSend'
  BY <1>2, LockKept DEF SendSnapshot, TypeOK, Marked, Left
<1>3. ASSUME NEW u \in Sends, SendSelect(u) PROVE HeldForItsSend'
  <2>0. PICK S \in SUBSET snapshot[u], change \in BOOLEAN : \E d \in S :
           /\ inputs' = [inputs EXCEPT ![u] = S]
           /\ todo' = [todo EXCEPT ![u] = S \ {d}]
           /\ MarkSpent(u, d)
    BY <1>3 DEF SendSelect
  <2>1. PICK d \in S : /\ inputs' = [inputs EXCEPT ![u] = S]
                       /\ todo' = [todo EXCEPT ![u] = S \ {d}]
                       /\ MarkSpent(u, d)
    BY <2>0
  <2>2. d \in Coin /\ d \in snapshot[u] /\ d \in inputs'[u]
    BY <2>1 DEF TypeOK
  <2>3. \A s \in Sends : Marked(s)' \subseteq Marked(s) \cup (IF s = u THEN {d} ELSE {})
    BY <1>3, <2>1 DEF SendSelect, TypeOK, Marked, Left
  <2>4. ASSUME NEW s \in Sends, s # u, d \in Marked(s) PROVE Excused(d, s)'
    <3>1. Overlap(s, u) \/ Excused(d, s)
      BY <1>0, <1>3, <2>2, <2>4 DEF SendSelect, LockInvariant, SnapshotsHaveCause
    <3>2. /\ Overlap(s, u) => Overlap(s, u)'
          /\ Excused(d, s) => Excused(d, s)'
      BY <2>2, ExcusesLast DEF LockInvariant
    <3> QED
      BY <2>2, <3>1, <3>2 DEF Excused
  <2> QED
    BY <1>3, <2>1, <2>2, <2>3, <2>4, MarkSpentHolds DEF SendSelect
<1>4. ASSUME NEW s \in Sends, SendRefused(s) PROVE HeldForItsSend'
  BY <1>4, LockKept DEF SendRefused, TypeOK, Marked, Left
<1>5. ASSUME NEW u \in Sends, SendLock(u) PROVE HeldForItsSend'
  <2>1. PICK d \in todo[u] : todo' = [todo EXCEPT ![u] = @ \ {d}] /\ MarkSpent(u, d)
    BY <1>5 DEF SendLock
  <2>2. d \in Coin
    BY DEF TypeOK
  <2>3. \A s \in Sends : Marked(s)' \subseteq Marked(s) \cup (IF s = u THEN {d} ELSE {})
    BY <1>5, <2>1 DEF SendLock, TypeOK, Marked, Left
  <2>4. ASSUME NEW s \in Sends, s # u, d \in Marked(s) PROVE Excused(d, s)'
    <3>0. d \in inputs[u] /\ inputs' = inputs
      BY <1>5, <2>1 DEF SendLock, LockInvariant, WalkOverInputs
    <3>1. Overlap(s, u) \/ Excused(d, s)
      BY <1>0, <1>5, <2>4, <3>0 DEF SendLock, LockInvariant, LockersHaveCause
    <3>2. /\ Overlap(s, u) => Overlap(s, u)'
          /\ Excused(d, s) => Excused(d, s)'
      BY <2>2, ExcusesLast DEF LockInvariant
    <3> QED
      BY <3>0, <3>1, <3>2 DEF Excused
  <2> QED
    BY <1>5, <2>1, <2>2, <2>3, <2>4, MarkSpentHolds DEF SendLock
<1>6. ASSUME NEW s \in Sends, SendBroadcast(s) PROVE HeldForItsSend'
  BY <1>6, LockKept DEF SendBroadcast, TypeOK, Marked, Left
<1>7. ASSUME NEW s \in Sends, SendSucceeds(s) PROVE HeldForItsSend'
  BY <1>0, <1>7, LockKept DEF SendSucceeds, TypeOK, Marked, Left
<1>8. ASSUME NEW s \in Sends, SendFails(s) PROVE HeldForItsSend'
  BY <1>8, LockKept DEF SendFails, Unlock, TypeOK, Marked, Left
<1>9. ASSUME NEW s \in Sends, SendUnlock(s) PROVE HeldForItsSend'
  BY <1>9, LockKept DEF SendUnlock, Unlock, TypeOK, Marked, Left
<1>10. ASSUME NEW s \in Sends, SendRethrow(s) PROVE HeldForItsSend'
  BY <1>10, LockKept DEF SendRethrow, TypeOK, Marked, Left
<1>11. ASSUME NEW s \in Sends, TrackerConfirms(s) PROVE HeldForItsSend'
  BY <1>11, LockKept DEF TrackerConfirms, TypeOK, Marked, Left
<1>12. ASSUME NEW s \in Sends, TrackerGivesUp(s) PROVE HeldForItsSend'
  BY <1>12, LockKept DEF TrackerGivesUp, Unlock, TypeOK, Marked, Left
<1>13. ASSUME NEW s \in Sends, NetworkStep(s) PROVE HeldForItsSend'
  BY <1>13, LockKept DEF NetworkStep, NetworkAccepts, NetworkMines, ProviderIndexes, Marked, Left
<1>14. ASSUME NEW r \in Refreshes, NEW p \in Providers, RefreshAsks(r, p) PROVE HeldForItsSend'
  BY <1>14, LockKept DEF RefreshAsks, Marked, Left
<1>15. ASSUME NEW r \in Refreshes, RefreshMerge(r) PROVE HeldForItsSend'
  BY <1>0, <1>15, LockKept, ConstantsAssumption DEF RefreshMerge, MergedOwner, TypeOK, Marked, Left
<1>16. ASSUME NEW r \in Refreshes, RefreshSkip(r) PROVE HeldForItsSend'
  BY <1>16, LockKept DEF RefreshSkip, Marked, Left
<1>17. ASSUME NEW c \in Coin, LockAges(c) PROVE HeldForItsSend'
  BY <1>17, LockKept DEF LockAges, Marked, Left
<1>18. CASE Restart
  BY <1>0, <1>18, LockKept, ConstantsAssumption DEF Restart, TypeOK, Marked, Left
<1>19. CASE UNCHANGED vars
  BY <1>19, LockKept DEF vars, Marked, Left
<1> QED
  BY <1>1, <1>2, <1>3, <1>4, <1>5, <1>6, <1>7, <1>8, <1>9, <1>10, <1>11, <1>12, <1>13,
     <1>14, <1>15, <1>16, <1>17, <1>18, <1>19 DEF Next, SendContinues, RefreshStep

(* LockInvariant holds in every reachable state ...                        *)
THEOREM LockInvariantHolds == Spec => []LockInvariant
<1>1. Init => LockInvariant
  BY DEF Init, LockInvariant, NoEarlyInputs, RacersOverlap, SnapshotsHaveCause, LockersHaveCause,
         WalkOverInputs, HeldForItsSend, ConflictsHaveCause, Signed, Left, Marked
<1>2. TypeOK /\ LockInvariant /\ [Next]_vars => LockInvariant'
  <2> SUFFICES ASSUME TypeOK, LockInvariant, [Next]_vars PROVE LockInvariant'
    OBVIOUS
  <2> QED
    BY CausesStep, WalkStep, HeldStep DEF Causes, LockInvariant
<1> QED
  BY <1>1, <1>2, TypeCorrect, PTL DEF Spec

(* ... and with it both properties it strengthens: a lock is lost only for *)
(* one of the named causes, and two transactions of the wallet conflict    *)
(* only for one of them.                                                   *)
THEOREM LocksHeldForTheirSends == Spec => []HeldForItsSend
  BY LockInvariantHolds, PTL DEF LockInvariant

THEOREM SelfConflictsHaveCause == Spec => []ConflictsHaveCause
  BY LockInvariantHolds, PTL DEF LockInvariant

-----------------------------------------------------------------------------
(* Confirmed change *)

(* What the cache, the disk, the answers on their way and the snapshots    *)
(* call a confirmed change output has been mined.                          *)
MintedInvariant ==
    MinConfirmations >= 1 =>
        /\ confirmed \cap Sends \subseteq mined
        /\ disk.confirmed \cap Sends \subseteq mined
        /\ \A r \in Refreshes : refresh[r].confirmed \cap Sends \subseteq mined
        /\ \A s \in Sends : snapshot[s] \cap Sends \subseteq mined
        /\ \A s \in Sends : inputs[s] \cap Sends \subseteq mined

(* No send spends change of a transaction the network has not mined.       *)
THEOREM SendsBuildOnMinedChange == Spec => []InputsMinted
<1>1. Init => MintedInvariant
  BY DEF Init, MintedInvariant, EmptyCache, Idle
<1>2. TypeOK /\ MintedInvariant /\ [Next]_vars => MintedInvariant'
  <2> SUFFICES ASSUME TypeOK, MintedInvariant, [Next]_vars, MinConfirmations >= 1
               PROVE  MintedInvariant'
    BY DEF MintedInvariant
  <2> USE DEF MintedInvariant, TypeOK
  <2>1. ASSUME NEW s \in Sends, SendStart(s) \/ SendRefused(s) \/ SendLock(s) \/ SendBroadcast(s)
        PROVE  MintedInvariant'
    BY <2>1 DEF SendStart, SendRefused, SendLock, SendBroadcast
  <2>2. ASSUME NEW s \in Sends, SendSnapshot(s) PROVE MintedInvariant'
    BY <2>2 DEF SendSnapshot, Spendable
  <2>3. ASSUME NEW s \in Sends, SendSelect(s) PROVE MintedInvariant'
    <3>1. PICK S \in SUBSET snapshot[s] : inputs' = [inputs EXCEPT ![s] = S]
      BY <2>3 DEF SendSelect
    <3> QED
      BY <2>3, <3>1 DEF SendSelect
  <2>4. ASSUME NEW s \in Sends, SendSucceeds(s) PROVE MintedInvariant'
    BY <2>4 DEF SendSucceeds
  <2>5. ASSUME NEW s \in Sends, SendFails(s) \/ SendUnlock(s) \/ SendRethrow(s)
        PROVE  MintedInvariant'
    BY <2>5 DEF SendFails, SendUnlock, SendRethrow
  <2>6. ASSUME NEW s \in Sends, TrackerConfirms(s) \/ TrackerGivesUp(s) PROVE MintedInvariant'
    BY <2>6 DEF TrackerConfirms, TrackerGivesUp
  <2>7. ASSUME NEW s \in Sends, NetworkStep(s) PROVE MintedInvariant'
    BY <2>7 DEF NetworkStep, NetworkAccepts, NetworkMines, ProviderIndexes
  <2>8. ASSUME NEW r \in Refreshes, NEW p \in Providers, RefreshAsks(r, p) PROVE MintedInvariant'
    BY <2>8, ConstantsAssumption DEF RefreshAsks
  <2>9. ASSUME NEW r \in Refreshes, RefreshMerge(r) PROVE MintedInvariant'
    BY <2>9 DEF RefreshMerge, Idle
  <2>10. ASSUME NEW r \in Refreshes, RefreshSkip(r) PROVE MintedInvariant'
    BY <2>10 DEF RefreshSkip, Idle
  <2>11. ASSUME NEW c \in Coin, LockAges(c) PROVE MintedInvariant'
    BY <2>11 DEF LockAges
  <2>12. CASE Restart
    BY <2>12 DEF Restart, Idle
  <2>13. CASE UNCHANGED vars
    BY <2>13 DEF vars
  <2> QED
    BY <2>1, <2>2, <2>3, <2>4, <2>5, <2>6, <2>7, <2>8, <2>9, <2>10, <2>11, <2>12, <2>13
    DEF Next, SendContinues, RefreshStep
<1>3. MintedInvariant => InputsMinted
  BY DEF MintedInvariant, InputsMinted
<1> QED
  BY <1>1, <1>2, <1>3, TypeCorrect, PTL DEF Spec

-----------------------------------------------------------------------------
(* Owners *)

(* Every lock, in memory and on disk, names a send that spends the coin.   *)
THEOREM LocksNameTheirSend == Spec => []LocksAreOwned
<1>1. Init => LocksAreOwned
  BY DEF Init, LocksAreOwned, EmptyCache
<1>2. TypeOK /\ LockInvariant /\ LocksAreOwned /\ [Next]_vars => LocksAreOwned'
  <2> SUFFICES ASSUME TypeOK, LockInvariant, LocksAreOwned, [Next]_vars PROVE LocksAreOwned'
    OBVIOUS
  <2>0. \A s \in Sends : inputs[s] \subseteq inputs'[s]
    BY HistoryGrows DEF LockInvariant
  <2>a. ASSUME UNCHANGED <<cached, owner, stale, disk>> PROVE LocksAreOwned'
    BY <2>0, <2>a DEF LocksAreOwned, TypeOK
  <2>b. ASSUME NEW s \in Sends, NEW c \in Coin, MarkSpent(s, c), c \in inputs'[s],
               UNCHANGED <<cached, disk>>
        PROVE  LocksAreOwned'
    BY <2>0, <2>b DEF LocksAreOwned, TypeOK, MarkSpent
  <2>c. ASSUME NEW S \in SUBSET Coin, Unlock(S), UNCHANGED <<cached, disk>> PROVE LocksAreOwned'
    BY <2>0, <2>c DEF LocksAreOwned, TypeOK, Unlock
  <2>1. ASSUME NEW s \in Sends, SendStart(s) \/ SendSnapshot(s) \/ SendRefused(s) \/ SendBroadcast(s)
                                \/ SendRethrow(s) \/ TrackerConfirms(s) \/ NetworkStep(s)
        PROVE  LocksAreOwned'
    BY <2>a, <2>1 DEF SendStart, SendSnapshot, SendRefused, SendBroadcast, SendRethrow, TrackerConfirms,
         NetworkStep, NetworkAccepts, NetworkMines, ProviderIndexes
  <2>2. ASSUME NEW s \in Sends, SendSelect(s) PROVE LocksAreOwned'
    <3>1. PICK S \in SUBSET snapshot[s] : \E c \in S :
             inputs' = [inputs EXCEPT ![s] = S] /\ MarkSpent(s, c)
      BY <2>2 DEF SendSelect
    <3>2. PICK c \in S : inputs' = [inputs EXCEPT ![s] = S] /\ MarkSpent(s, c)
      BY <3>1
    <3>3. c \in Coin /\ c \in inputs'[s]
      BY <3>2 DEF TypeOK
    <3> QED
      BY <2>2, <2>b, <3>2, <3>3 DEF SendSelect
  <2>3. ASSUME NEW s \in Sends, SendLock(s) PROVE LocksAreOwned'
    <3>1. PICK c \in todo[s] : MarkSpent(s, c)
      BY <2>3 DEF SendLock
    <3>2. c \in Coin /\ c \in inputs'[s]
      BY <2>0, <3>1 DEF TypeOK, LockInvariant, WalkOverInputs
    <3> QED
      BY <2>3, <2>b, <3>1, <3>2 DEF SendLock
  <2>4. ASSUME NEW s \in Sends, SendSucceeds(s) PROVE LocksAreOwned'
    BY <2>0, <2>4 DEF SendSucceeds, LocksAreOwned, TypeOK
  <2>5. ASSUME NEW s \in Sends, SendFails(s) \/ SendUnlock(s) PROVE LocksAreOwned'
    <3>1. PICK c : Unlock({c} \cap cached)
      BY <2>5 DEF SendFails, SendUnlock
    <3>2. {c} \cap cached \in SUBSET Coin
      BY DEF TypeOK
    <3> QED
      BY <2>5, <2>c, <3>1, <3>2 DEF SendFails, SendUnlock
  <2>6. ASSUME NEW s \in Sends, TrackerGivesUp(s) PROVE LocksAreOwned'
    <3>1. {c \in cached : owner[c] = s} \in SUBSET Coin
      BY DEF TypeOK
    <3> QED
      BY <2>6, <2>c, <3>1 DEF TrackerGivesUp
  <2>7. ASSUME NEW r \in Refreshes, RefreshMerge(r) PROVE LocksAreOwned'
    <3>1. /\ cached' = refresh[r].coins
          /\ owner' = MergedOwner(refresh[r])
          /\ stale' = {}
          /\ disk' = disk \/ disk' = [cached |-> cached', owner |-> owner', confirmed |-> confirmed']
      BY <2>7 DEF RefreshMerge
    <3>2. \A c \in Coin : owner'[c] # NoSend => c \in cached' \cap inputs'[owner'[c]]
      BY <2>0, <3>1 DEF MergedOwner, LocksAreOwned, TypeOK
    <3>3. \A c \in Coin : disk'.owner[c] # NoSend => c \in disk'.cached \cap inputs'[disk'.owner[c]]
      <4>1. CASE disk' = disk
        BY <2>0, <4>1 DEF LocksAreOwned, TypeOK
      <4>2. CASE disk' = [cached |-> cached', owner |-> owner', confirmed |-> confirmed']
        BY <3>2, <4>2
      <4> QED
        BY <3>1, <4>1, <4>2
    <3> QED
      BY <3>1, <3>2, <3>3 DEF LocksAreOwned
  <2>8. ASSUME NEW r \in Refreshes, RefreshSkip(r) \/ \E p \in Providers : RefreshAsks(r, p)
        PROVE  LocksAreOwned'
    BY <2>a, <2>8 DEF RefreshSkip, RefreshAsks
  <2>9. ASSUME NEW c \in Coin, LockAges(c) PROVE LocksAreOwned'
    BY <2>0, <2>9 DEF LockAges, LocksAreOwned, TypeOK
  <2>10. CASE Restart
    BY <2>0, <2>10 DEF Restart, LocksAreOwned, TypeOK
  <2>11. CASE UNCHANGED vars
    BY <2>a, <2>11 DEF vars
  <2> QED
    BY <2>1, <2>2, <2>3, <2>4, <2>5, <2>6, <2>7, <2>8, <2>9, <2>10, <2>11
    DEF Next, SendContinues, RefreshStep
<1> QED
  BY <1>1, <1>2, TypeCorrect, LockInvariantHolds, PTL DEF Spec

-----------------------------------------------------------------------------
(* Freed locks *)

(* The lock that a step takes from coin c, which stays in the cache, is an  *)
(* old one, or goes with a restart, with the tracker giving up its owner,   *)
(* or with a failed broadcast of a transaction that spends the coin.        *)
FreedForCause(c) ==
    owner[c] # NoSend /\ c \in cached' /\ owner'[c] = NoSend =>
        \/ c \in stale
        \/ restarts' # restarts
        \/ tracked[owner[c]] = "pending" /\ tracked'[owner[c]] \in {"failed", "unverified"}
        \/ \E s \in Sends : c \in inputs[s] /\ phase'[s] = "unlocking"

(* markSpent() only changes hands; unlockUtxo() frees the coins it visits;  *)
(* and a merge frees, of the coins it keeps, the old locks alone.           *)
LEMMA FreedStep ==
  ASSUME TypeOK, LockInvariant, LocksAreOwned, [Next]_vars, NEW c \in Coin
  PROVE  FreedForCause(c)
<1> USE DEF TypeOK, FreedForCause
<1>0. ASSUME UNCHANGED owner PROVE FreedForCause(c)
  BY <1>0
<1>a. ASSUME NEW s \in Sends, NEW d \in Coin, MarkSpent(s, d) PROVE FreedForCause(c)
  BY <1>a, ConstantsAssumption DEF MarkSpent
<1>1. ASSUME NEW s \in Sends, SendStart(s) \/ SendSnapshot(s) \/ SendRefused(s) \/ SendBroadcast(s)
                              \/ SendSucceeds(s) \/ SendRethrow(s) \/ TrackerConfirms(s)
                              \/ NetworkStep(s)
      PROVE  FreedForCause(c)
  <2> UNCHANGED owner
    BY <1>1 DEF SendStart, SendSnapshot, SendRefused, SendBroadcast, SendSucceeds, SendRethrow,
                TrackerConfirms, NetworkStep, NetworkAccepts, NetworkMines, ProviderIndexes
  <2> QED
    BY <1>0
<1>2. ASSUME NEW s \in Sends, SendSelect(s) PROVE FreedForCause(c)
  <2>1. PICK S \in SUBSET snapshot[s] : \E d \in S : MarkSpent(s, d)
    BY <1>2 DEF SendSelect
  <2>2. PICK d \in S : MarkSpent(s, d)
    BY <2>1
  <2>3. d \in Coin
    OBVIOUS
  <2> QED
    BY <1>a, <2>2, <2>3
<1>3. ASSUME NEW s \in Sends, SendLock(s) PROVE FreedForCause(c)
  <2>1. PICK d \in todo[s] : MarkSpent(s, d)
    BY <1>3 DEF SendLock
  <2>2. d \in Coin
    OBVIOUS
  <2> QED
    BY <1>a, <2>1, <2>2
<1>4. ASSUME NEW s \in Sends, SendFails(s) \/ SendUnlock(s) PROVE FreedForCause(c)
  <2>1. phase'[s] = "unlocking"
    BY <1>4 DEF SendFails, SendUnlock
  <2>2. PICK d \in inputs[s] : Unlock({d} \cap cached)
    BY <1>4 DEF SendFails, SendUnlock, LockInvariant, WalkOverInputs
  <2>3. owner'[c] = NoSend /\ owner[c] # NoSend => c = d
    BY <2>2 DEF Unlock
  <2> QED
    BY <2>1, <2>3
<1>5. ASSUME NEW s \in Sends, TrackerGivesUp(s) PROVE FreedForCause(c)
  <2>1. owner'[c] = NoSend /\ owner[c] # NoSend => owner[c] = s
    BY <1>5 DEF TrackerGivesUp, Unlock
  <2>2. tracked[s] = "pending" /\ tracked'[s] \in {"failed", "unverified"}
    BY <1>5 DEF TrackerGivesUp
  <2> QED
    BY <2>1, <2>2
<1>6. ASSUME NEW r \in Refreshes, RefreshMerge(r) PROVE FreedForCause(c)
  <2>1. cached' = refresh[r].coins /\ owner' = MergedOwner(refresh[r])
    BY <1>6 DEF RefreshMerge
  <2>2. owner[c] # NoSend => c \in cached
    BY DEF LocksAreOwned
  <2> QED
    BY <2>1, <2>2 DEF MergedOwner
<1>7. ASSUME NEW r \in Refreshes, RefreshSkip(r) \/ \E p \in Providers : RefreshAsks(r, p)
      PROVE  FreedForCause(c)
  BY <1>0, <1>7 DEF RefreshSkip, RefreshAsks
<1>8. ASSUME NEW d \in Coin, LockAges(d) PROVE FreedForCause(c)
  BY <1>0, <1>8 DEF LockAges
<1>9. CASE Restart
  BY <1>9 DEF Restart
<1>10. CASE UNCHANGED vars
  BY <1>0, <1>10 DEF vars
<1> QED
  BY <1>1, <1>2, <1>3, <1>4, <1>5, <1>6, <1>7, <1>8, <1>9, <1>10
  DEF Next, SendContinues, RefreshStep

(* A refresh, a success or another send never frees a lock.                 *)
THEOREM LocksFreedForCauseHolds == Spec => LocksFreedForCause
<1>1. TypeOK /\ LockInvariant /\ LocksAreOwned /\ [Next]_vars
      => [\A c \in Coin : FreedForCause(c)]_vars
  BY FreedStep
<1>2. Spec => [][\A c \in Coin : FreedForCause(c)]_vars
  BY <1>1, TypeCorrect, LockInvariantHolds, LocksNameTheirSend, PTL DEF Spec
<1> QED
  BY <1>2, PTL DEF LocksFreedForCause, FreedForCause
=============================================================================
