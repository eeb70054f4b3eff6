-------------------------- MODULE TxTrackerProofs --------------------------
(***************************************************************************)
(* Proofs about TxTracker, for any number of transactions, overlapping     *)
(* polls and restarts.  The argument: an entry that no two polls ever held *)
(* together is held by at most one, and only while it is active; so a poll *)
(* that ends it finds it active, with nothing announced, and leaves nobody *)
(* holding it.                                                             *)
(***************************************************************************)
EXTENDS TxTracker, FiniteSetTheorems, TLAPS

Final == {"confirmed", "failed", "unverified"}

HeldOnce ==
    \A t \in Txs \ overlapped :
        /\ \A p \in Polls : t \in Holds(p) => IsActive(status[t])
        /\ \A p, q \in Polls : t \in Holds(p) /\ t \in Holds(q) => p = q

Announced ==
    \A t \in Txs \ (overlapped \cup reverted) :
        outcomes[t] = IF status[t] \in Final THEN {status[t]} ELSE {}

TrackerInv == TrackerTypeOK /\ HeldOnce /\ Announced /\ PollingWhileActive

-----------------------------------------------------------------------------
(* What one answered request does to an entry *)

StatusUpdate(t) ==
    \/ UNCHANGED <<status, outcomes>>
    \/ status' = [status EXCEPT ![t] = "confirming"] /\ UNCHANGED outcomes
    \/ \E s \in Final : Announce(t, s)

LEMMA FoundUpdates ==
    ASSUME NEW t, NEW n, Found(t, n)
    PROVE  StatusUpdate(t)
BY DEF Found, StatusUpdate, Final

LEMMA GivesUpUpdates ==
    ASSUME NEW t, NEW f, GivesUp(t, f)
    PROVE  StatusUpdate(t)
BY DEF GivesUp, StatusUpdate, Final

LEMMA HoldsAfter ==
    ASSUME TrackerTypeOK, NEW p \in Polls, NEW t \in Txs, Advance(p, t)
    PROVE  /\ poll' \in [Polls -> [todo : SUBSET Txs, at : Txs \cup {NoTx}, degraded : BOOLEAN]]
           /\ Holds(p)' \subseteq Holds(p) \ {t}
           /\ \A q \in Polls : q # p => Holds(q)' = Holds(q)
<1>1. poll' = [poll EXCEPT ![p] = [todo |-> poll[p].todo \ {t}, at |-> NoTx, degraded |-> FALSE]]
  BY DEF Advance, Polling
<1>2. poll'[p] = [todo |-> poll[p].todo \ {t}, at |-> NoTx, degraded |-> FALSE]
  BY <1>1 DEF TrackerTypeOK
<1> QED BY <1>1, <1>2, TrackerAssumption DEF TrackerTypeOK, Holds

LEMMA SavedEntries ==
    ASSUME TrackerTypeOK, status' \in [Txs -> Status], failures' \in [Txs -> 0 .. MaxFailures],
           Save \/ UNCHANGED saved
    PROVE  saved' \in Entries \X Entries
BY DEF TrackerTypeOK, Save, entries, Entries

LEMMA PollTimer ==
    ASSUME TrackerTypeOK, IncreasePollInterval \/ ResetPollInterval \/ UNCHANGED <<backoff, timer>>
    PROVE  /\ timer' \in BOOLEAN /\ backoff' \in 0 .. MaxBackoff
           /\ timer /\ Active # {} => timer'
<1>1. backoff \in 0 .. MaxBackoff /\ timer \in BOOLEAN /\ MaxBackoff \in Nat
  BY TrackerAssumption DEF TrackerTypeOK
<1>2. backoff' \in 0 .. MaxBackoff
  BY <1>1 DEF IncreasePollInterval, ResetPollInterval
<1>3. timer' = timer \/ timer' = (timer /\ Active # {})
  BY DEF IncreasePollInterval, ResetPollInterval, RestartPolling
<1> QED BY <1>1, <1>2, <1>3, Zenon

(* An answered request keeps the invariant.                                *)
LEMMA AnswerInv ==
    ASSUME TrackerInv, NEW p \in Polls, NEW t \in Txs, t \in Holds(p),
           StatusUpdate(t), Advance(p, t),
           failures' \in [Txs -> 0 .. MaxFailures],
           IncreasePollInterval \/ ResetPollInterval \/ UNCHANGED <<backoff, timer>>,
           UNCHANGED <<network, restarts, overlapped, reverted>>
    PROVE  TrackerInv'
<1> USE DEF TrackerInv
<1>1. \A u \in Txs : u # t => status'[u] = status[u] /\ outcomes'[u] = outcomes[u]
  BY DEF StatusUpdate, Announce, TrackerTypeOK
<1>2. status' \in [Txs -> Status] /\ outcomes' \in [Txs -> SUBSET Final]
  <2>1. status \in [Txs -> Status] /\ outcomes \in [Txs -> SUBSET Final]
    BY DEF TrackerTypeOK, Final
  <2>2. CASE status' = [status EXCEPT ![t] = "confirming"] /\ UNCHANGED outcomes
    BY <2>1, <2>2 DEF Status
  <2>3. CASE \E s \in Final : Announce(t, s)
    BY <2>1, <2>3 DEF Announce, Status, Final
  <2> QED BY <2>1, <2>2, <2>3 DEF StatusUpdate
<1>3. TrackerTypeOK'
  <2>1. saved' \in Entries \X Entries
    BY <1>2, SavedEntries DEF Advance
  <2> QED BY <1>2, <2>1, HoldsAfter, PollTimer DEF TrackerTypeOK, network, Final
<1>4. HeldOnce'
  BY <1>1, HoldsAfter DEF HeldOnce
<1>5. Announced'
  <2> SUFFICES ASSUME NEW u \in Txs \ (overlapped \cup reverted)
               PROVE  outcomes'[u] = IF status'[u] \in Final THEN {status'[u]} ELSE {}
    BY DEF Announced
  <2>1. CASE u # t
    BY <1>1, <2>1 DEF Announced
  <2>2. CASE u = t
    <3>1. IsActive(status[t]) /\ outcomes[t] = {}
      BY <2>2 DEF HeldOnce, Announced, IsActive, Final
    <3> QED BY <2>2, <3>1, ZenonT(60) DEF StatusUpdate, Announce, TrackerTypeOK, IsActive, Final
  <2> QED BY <2>1, <2>2
<1>6. PollingWhileActive'
  <2> SUFFICES ASSUME NEW u \in Active', u \notin overlapped PROVE timer'
    BY DEF PollingWhileActive
  <2>1. u \in Active
    BY <1>1 DEF Active, HeldOnce
  <2> QED BY <2>1, PollTimer DEF PollingWhileActive
<1> QED BY <1>3, <1>4, <1>5, <1>6

-----------------------------------------------------------------------------
(* The actions *)

LEMMA CountType == \A n \in 0 .. MaxFailures : Count(n) \in 0 .. MaxFailures
BY TrackerAssumption DEF Count

LEMMA InitInv == TrackerInit => TrackerInv
<1> SUFFICES ASSUME TrackerInit PROVE TrackerInv
  OBVIOUS
<1>1. TrackerTypeOK
  <2>1. entries \in Entries /\ saved \in Entries \X Entries
    BY TrackerAssumption DEF TrackerInit, entries, Entries, Status
  <2>2. poll \in [Polls -> [todo : SUBSET Txs, at : Txs \cup {NoTx}, degraded : BOOLEAN]]
    BY DEF TrackerInit, Idle, Polling
  <2>3. MaxDepth \in Nat
    BY TrackerAssumption DEF MaxDepth
  <2>4. status \in [Txs -> Status] /\ failures \in [Txs -> 0 .. MaxFailures]
    BY TrackerAssumption DEF TrackerInit, Status
  <2>5. old \in [Txs -> BOOLEAN] /\ depth \in [Txs -> -1 .. MaxDepth]
    BY <2>3 DEF TrackerInit
  <2>6. outcomes \in [Txs -> SUBSET {"confirmed", "failed", "unverified"}]
    BY DEF TrackerInit
  <2>7. timer \in BOOLEAN
    BY Zenon DEF TrackerInit
  <2>8. backoff \in 0 .. MaxBackoff /\ restarts \in 0 .. MaxRestarts
        /\ overlapped \subseteq Txs /\ reverted \subseteq Txs
    BY TrackerAssumption DEF TrackerInit
  <2> QED BY <2>1, <2>2, <2>4, <2>5, <2>6, <2>7, <2>8 DEF TrackerTypeOK
<1>2. \A p \in Polls : Holds(p) = {}
  BY TrackerAssumption DEF TrackerInit, Holds, Idle, Polling
<1>3. HeldOnce /\ Announced /\ PollingWhileActive
  BY <1>2 DEF TrackerInit, HeldOnce, Announced, PollingWhileActive, Final, Active, IsActive
<1> QED BY <1>1, <1>3 DEF TrackerInv

LEMMA TrackInv ==
    ASSUME NEW t \in Txs
    PROVE  TrackerInv /\ Track(t) => TrackerInv'
<1> SUFFICES ASSUME TrackerInv, Track(t) PROVE TrackerInv'
  OBVIOUS
<1> USE DEF TrackerInv
<1>1. TrackerTypeOK'
  <2>1. status' \in [Txs -> Status] /\ failures' \in [Txs -> 0 .. MaxFailures]
    BY DEF Track, TrackerTypeOK, Status
  <2>2. saved' \in Entries \X Entries
    BY <2>1, SavedEntries DEF Track
  <2> QED BY <2>1, <2>2 DEF Track, TrackerTypeOK, network
<1>2. HeldOnce'
  BY DEF Track, HeldOnce, Holds, TrackerTypeOK, IsActive
<1>3. Announced'
  BY DEF Track, Announced, TrackerTypeOK, Final
<1>4. PollingWhileActive'
  BY DEF Track, PollingWhileActive
<1> QED BY <1>1, <1>2, <1>3, <1>4

LEMMA PollStartInv ==
    ASSUME NEW p \in Polls
    PROVE  TrackerInv /\ PollStart(p) => TrackerInv'
<1> SUFFICES ASSUME TrackerInv, PollStart(p) PROVE TrackerInv'
  OBVIOUS
<1> USE DEF TrackerInv
<1>1. poll' = [poll EXCEPT ![p] = [todo |-> Active, at |-> NoTx, degraded |-> FALSE]]
  BY DEF PollStart, Polling
<1>2. /\ Holds(p) = {} /\ Holds(p)' = Active
      /\ \A q \in Polls : q # p => Holds(q)' = Holds(q)
  BY <1>1, TrackerAssumption DEF PollStart, Holds, TrackerTypeOK, Idle, Polling
<1>3. TrackerTypeOK'
  <2>1. poll' \in [Polls -> [todo : SUBSET Txs, at : Txs \cup {NoTx}, degraded : BOOLEAN]]
    BY <1>1 DEF TrackerTypeOK, Active
  <2>2. timer' \in BOOLEAN /\ overlapped' \subseteq Txs
    BY DEF PollStart, TrackerTypeOK, Active
  <2> QED BY <2>1, <2>2 DEF PollStart, TrackerTypeOK, entries, network
<1>4. HeldOnce'
  BY <1>2 DEF PollStart, HeldOnce, Active, entries
<1>5. Announced' /\ PollingWhileActive'
  BY DEF PollStart, Announced, PollingWhileActive, Active, entries
<1> QED BY <1>3, <1>4, <1>5

LEMMA PrimaryFindsInv ==
    ASSUME NEW p \in Polls, NEW t \in Txs
    PROVE  TrackerInv /\ PrimaryFinds(p, t) => TrackerInv'
<1> SUFFICES ASSUME TrackerInv, PrimaryFinds(p, t) PROVE TrackerInv'
  OBVIOUS
<1>1. t \in Holds(p) /\ StatusUpdate(t)
  BY FoundUpdates DEF PrimaryFinds, Holds
<1>2. failures' \in [Txs -> 0 .. MaxFailures]
  BY TrackerAssumption DEF PrimaryFinds, TrackerInv, TrackerTypeOK
<1> QED BY <1>1, <1>2, AnswerInv DEF PrimaryFinds

LEMMA PrimaryThrowsInv ==
    ASSUME NEW p \in Polls, NEW t \in Txs
    PROVE  TrackerInv /\ PrimaryThrows(p, t) => TrackerInv'
<1> SUFFICES ASSUME TrackerInv, PrimaryThrows(p, t) PROVE TrackerInv'
  OBVIOUS
<1> USE DEF TrackerInv
<1>1. PICK d \in BOOLEAN :
          poll' = [poll EXCEPT ![p] = [todo |-> poll[p].todo \ {t}, at |-> t, degraded |-> d]]
  BY DEF PrimaryThrows
<1>2. Holds(p)' = Holds(p) /\ \A q \in Polls : q # p => Holds(q)' = Holds(q)
  <2>1. poll[p].at = NoTx /\ t \in poll[p].todo /\ NoTx \notin Txs
    BY TrackerAssumption DEF PrimaryThrows
  <2>2. poll'[p] = [todo |-> poll[p].todo \ {t}, at |-> t, degraded |-> d]
    BY <1>1 DEF TrackerTypeOK
  <2>3. Holds(p)' = (poll[p].todo \ {t}) \cup {t}
    BY <2>2 DEF Holds
  <2>4. Holds(p) = poll[p].todo
    BY <2>1 DEF Holds
  <2>5. \A q \in Polls : q # p => Holds(q)' = Holds(q)
    BY <1>1 DEF Holds, TrackerTypeOK
  <2> QED BY <2>1, <2>3, <2>4, <2>5
<1>3. TrackerTypeOK'
  BY <1>1 DEF PrimaryThrows, TrackerTypeOK, entries, network
<1>4. HeldOnce'
  BY <1>2 DEF PrimaryThrows, HeldOnce, entries
<1>5. Announced' /\ PollingWhileActive'
  BY DEF PrimaryThrows, Announced, PollingWhileActive, Active, entries
<1> QED BY <1>3, <1>4, <1>5

LEMMA FallbackFindsInv ==
    ASSUME NEW p \in Polls
    PROVE  TrackerInv /\ FallbackFinds(p) => TrackerInv'
<1> SUFFICES ASSUME TrackerInv, FallbackFinds(p) PROVE TrackerInv'
  OBVIOUS
<1> DEFINE t == poll[p].at
<1>1. t \in Txs /\ t \in Holds(p) /\ StatusUpdate(t)
  BY FoundUpdates DEF FallbackFinds, Holds, TrackerInv, TrackerTypeOK
<1>2. failures' \in [Txs -> 0 .. MaxFailures]
  BY TrackerAssumption DEF FallbackFinds, TrackerInv, TrackerTypeOK
<1>3. /\ Advance(p, t) /\ (ResetPollInterval \/ UNCHANGED <<backoff, timer>>)
      /\ UNCHANGED <<network, restarts, overlapped, reverted>>
  BY DEF FallbackFinds
<1> QED BY <1>1, <1>2, <1>3, AnswerInv

LEMMA FallbackFailsInv ==
    ASSUME NEW p \in Polls
    PROVE  TrackerInv /\ FallbackFails(p) => TrackerInv'
<1> SUFFICES ASSUME TrackerInv, FallbackFails(p) PROVE TrackerInv'
  OBVIOUS
<1> DEFINE t == poll[p].at
<1>1. t \in Txs /\ t \in Holds(p) /\ StatusUpdate(t)
  BY GivesUpUpdates DEF FallbackFails, Holds, TrackerInv, TrackerTypeOK
<1>2. failures' \in [Txs -> 0 .. MaxFailures]
  BY <1>1, CountType DEF FallbackFails, TrackerInv, TrackerTypeOK
<1>3. /\ Advance(p, t) /\ (IncreasePollInterval \/ UNCHANGED <<backoff, timer>>)
      /\ UNCHANGED <<network, restarts, overlapped, reverted>>
  BY DEF FallbackFails
<1> QED BY <1>1, <1>2, <1>3, AnswerInv

LEMMA RestartInv == TrackerInv /\ Restart => TrackerInv'
<1> SUFFICES ASSUME TrackerInv, Restart PROVE TrackerInv'
  OBVIOUS
<1> USE DEF TrackerInv
<1>1. PICK e \in {saved[1], saved[2], NoEntries} :
          /\ status' = e[1] /\ failures' = e[2]
          /\ reverted' = reverted \cup {t \in Txs : e[1][t] # status[t]}
          /\ saved' = <<e, e>>
          /\ timer' = (\E t \in Txs : IsActive(e[1][t]))
  BY DEF Restart
<1>2. e \in Entries
  BY TrackerAssumption DEF TrackerTypeOK, Entries, NoEntries, Status
<1>3. poll' = [p \in Polls |-> [todo |-> {}, at |-> NoTx, degraded |-> FALSE]]
  BY DEF Restart, Idle, Polling
<1>4. TrackerTypeOK'
  <2>1. /\ status' \in [Txs -> Status] /\ failures' \in [Txs -> 0 .. MaxFailures]
        /\ saved' \in Entries \X Entries /\ timer' \in BOOLEAN /\ reverted' \subseteq Txs
    BY <1>1, <1>2 DEF Entries, TrackerTypeOK
  <2>2. poll' \in [Polls -> [todo : SUBSET Txs, at : Txs \cup {NoTx}, degraded : BOOLEAN]]
    BY <1>3
  <2>3. backoff' \in 0 .. MaxBackoff /\ restarts' \in 0 .. MaxRestarts
    BY TrackerAssumption DEF Restart, TrackerTypeOK
  <2> QED BY <2>1, <2>2, <2>3 DEF Restart, TrackerTypeOK, network
<1>5. HeldOnce'
  <2>1. \A p \in Polls : Holds(p)' = {}
    BY <1>3, TrackerAssumption DEF Holds
  <2> QED BY <2>1 DEF HeldOnce
<1>6. Announced'
  BY <1>1 DEF Restart, Announced
<1>7. PollingWhileActive'
  BY <1>1 DEF PollingWhileActive, Active
<1> QED BY <1>4, <1>5, <1>6, <1>7

LEMMA EnvironmentInv ==
    ASSUME NEW t \in Txs
    PROVE  TrackerInv /\ (Ages(t) \/ MempoolChanges(t) \/ BlockArrives(t)) => TrackerInv'
<1> SUFFICES ASSUME TrackerInv, Ages(t) \/ MempoolChanges(t) \/ BlockArrives(t)
             PROVE TrackerInv'
  OBVIOUS
<1>1. UNCHANGED <<entries, timer, backoff, poll, saved, restarts, outcomes, overlapped, reverted>>
  BY DEF Ages, MempoolChanges, BlockArrives
<1>2. old' \in [Txs -> BOOLEAN] /\ depth' \in [Txs -> -1 .. MaxDepth]
  <2>1. MaxDepth \in Nat /\ old \in [Txs -> BOOLEAN] /\ depth \in [Txs -> -1 .. MaxDepth]
    BY TrackerAssumption DEF MaxDepth, TrackerInv, TrackerTypeOK
  <2>2. CASE Ages(t)
    BY <2>1, <2>2 DEF Ages
  <2>3. CASE MempoolChanges(t)
    BY <2>1, <2>3 DEF MempoolChanges
  <2>4. CASE BlockArrives(t)
    BY <2>1, <2>4 DEF BlockArrives
  <2> QED BY <2>2, <2>3, <2>4
<1> QED BY <1>1, <1>2 DEF TrackerInv, TrackerTypeOK, HeldOnce, Announced, PollingWhileActive, Holds, Active, entries

LEMMA InductiveInvariant == TrackerSpec => []TrackerInv
<1>1. TrackerInv /\ [TrackerNext]_trackerVars => TrackerInv'
  <2>1. TrackerInv /\ UNCHANGED trackerVars => TrackerInv'
    BY DEF trackerVars, entries, network, TrackerInv, TrackerTypeOK, HeldOnce, Announced, PollingWhileActive,
           Holds, Active
  <2> QED BY <2>1, TrackInv, PollStartInv, PrimaryFindsInv, PrimaryThrowsInv, FallbackFindsInv,
             FallbackFailsInv, RestartInv, EnvironmentInv
          DEF TrackerNext, PollStep
<1> QED BY InitInv, <1>1, PTL DEF TrackerSpec

-----------------------------------------------------------------------------
(* The theorems *)

(* The entries, the timer and the polls keep their types (tracker.ts:26-50).  *)
THEOREM TypeCorrect == TrackerSpec => []TrackerTypeOK
BY InductiveInvariant, PTL DEF TrackerInv

(* The callbacks hear of one final state per transaction, unless polls     *)
(* overlapped on it or a restart read an older entry (tracker.ts:271-410). *)
THEOREM OneOutcomeHolds == TrackerSpec => []OneOutcome
<1>1. TrackerInv => OneOutcome
  <2> SUFFICES ASSUME TrackerInv, NEW t \in Txs \ (overlapped \cup reverted)
               PROVE  /\ Cardinality(outcomes[t]) <= 1
                      /\ outcomes[t] = {} <=> IsActive(status[t]) \/ status[t] = "untracked"
    BY DEF OneOutcome
  <2>1. outcomes[t] = IF status[t] \in Final THEN {status[t]} ELSE {}
    BY DEF TrackerInv, Announced
  <2>2. Cardinality(outcomes[t]) <= 1
    <3>1. Cardinality({}) = 0
      BY FS_EmptySet
    <3>2. Cardinality({status[t]}) = 1
      BY FS_Singleton
    <3> QED BY <2>1, <3>1, <3>2
  <2>3. status[t] \in Status
    BY DEF TrackerInv, TrackerTypeOK
  <2> QED BY <2>1, <2>2, <2>3 DEF Final, Status, IsActive
<1> QED BY InductiveInvariant, <1>1, PTL

(* The poll timer is not stopped, by backing off, by an empty poll or by a *)
(* restart, while there is something to poll (tracker.ts:253-265, 420-481).   *)
THEOREM PollingWhileActiveHolds == TrackerSpec => []PollingWhileActive
BY InductiveInvariant, PTL DEF TrackerInv
=============================================================================
