------------------------------ MODULE TxTracker ------------------------------
(***************************************************************************)
(* TransactionTracker of src/tx/tracker.ts: the timer, the calls of        *)
(* pollAll() it starts, which may overlap, the primary provider and the    *)
(* Blockchair fallback each poll asks, and the file a restart reads.       *)
(*                                                                         *)
(* An action is the code between two awaits.  Confirmation counts matter   *)
(* only up to the threshold; apiErrors and confirmations reach nothing but *)
(* messages and are left out.                                              *)
(***************************************************************************)
EXTENDS Integers, FiniteSets

CONSTANTS
    Txs,         \* transactions the wallet sends
    Polls,       \* bound: calls of pollAll() under way at the same time
    NoTx,        \* no transaction
    Threshold,   \* CONFIRMED_THRESHOLD
    MaxFailures, \* MAX_POLL_FAILURES
    MaxBackoff,  \* doublings of the poll interval up to MAX_BACKOFF_MS
    MaxLag,      \* bound: blocks an API is behind the network
    MaxRestarts  \* bound: restarts of the plugin explored

ASSUME TrackerAssumption ==
    /\ NoTx \notin Txs
    /\ Threshold \in Nat \ {0} /\ MaxFailures \in Nat \ {0}
    /\ MaxBackoff \in Nat /\ MaxLag \in Nat /\ MaxRestarts \in Nat

VARIABLES
    status,   \* TrackedTransaction.status ("untracked": no entry)
    failures, \* TrackedTransaction.pollFailures
    old,      \* startedAt is more than MAX_PENDING_AGE_MS ago
    timer,    \* pollTimer is set
    backoff,  \* doublings in currentPollIntervalMs
    poll,     \* the calls of pollAll(): entries still to poll, and the entry
              \*   whose fallback is asked, after which kind of error
    saved,    \* the last two versions written to tracking.json
    depth,    \* blocks on top of the transaction: -1 unknown, 0 in the mempool
    restarts

(* History variables, which no guard reads.                                *)
VARIABLES
    outcomes,   \* the final states announced to the callbacks
    overlapped, \* two polls held the entry at the same time
    reverted    \* a restart read an entry other than the latest

entries == <<status, failures>>
network == <<depth, old>>
trackerVars == <<entries, network, timer, backoff, poll, saved, restarts,
          outcomes, overlapped, reverted>>

Status == {"untracked", "pending", "confirming", "confirmed", "failed", "unverified"}

Entries == [Txs -> Status] \X [Txs -> 0 .. MaxFailures]

NoEntries == <<[t \in Txs |-> "untracked"], [t \in Txs |-> 0]>>

IsActive(s) == s \in {"pending", "confirming"}

Active_All == {t \in Txs : status[t] # "untracked"}

(* getActive()                                                             *)
Active == {t \in Txs : IsActive(status[t])}

MaxDepth == Threshold + MaxLag

(* What an API that knows t may answer.                                    *)
Views(t) == {n \in 0 .. MaxDepth : depth[t] - MaxLag <= n /\ n <= depth[t]}

(* Counts above MaxFailures, which nothing tells apart, are kept as it.    *)
Count(n) == IF n < MaxFailures THEN n + 1 ELSE MaxFailures

(* A call of pollAll() that has the entries of S to poll.                  *)
Polling(S) == [todo |-> S, at |-> NoTx, degraded |-> FALSE]

Idle == Polling({})

TrackerInit ==
    /\ status = [t \in Txs |-> "untracked"] /\ failures = [t \in Txs |-> 0]
    /\ old = [t \in Txs |-> FALSE] /\ depth = [t \in Txs |-> -1]
    /\ timer = FALSE /\ backoff = 0
    /\ poll = [p \in Polls |-> Idle]
    /\ saved = <<entries, entries>> /\ restarts = 0
    /\ outcomes = [t \in Txs |-> {}]
    /\ overlapped = {} /\ reverted = {}

-----------------------------------------------------------------------------
(* The timer *)

(* save(), whose writes are not ordered: either of the last two may stay.  *)
Save == saved' = <<saved[2], entries'>>

(* restartPolling(), for the entries before they are updated               *)
RestartPolling == timer' = (timer /\ Active # {})

(* increasePollInterval()                                                  *)
IncreasePollInterval ==
    IF backoff < MaxBackoff
    THEN backoff' = backoff + 1 /\ RestartPolling
    ELSE UNCHANGED <<backoff, timer>>

(* resetPollInterval()                                                     *)
ResetPollInterval ==
    IF backoff > 0
    THEN backoff' = 0 /\ RestartPolling
    ELSE UNCHANGED <<backoff, timer>>

(* track()                                                                 *)
Track(t) ==
    /\ status[t] = "untracked"
    /\ status' = [status EXCEPT ![t] = "pending"]
    /\ timer' = TRUE
    /\ UNCHANGED <<failures, network, backoff, poll, restarts,
                   outcomes, overlapped, reverted>>
    /\ Save

-----------------------------------------------------------------------------
(* pollAll() and pollOne() *)

Holds(p) == poll[p].todo \cup ({poll[p].at} \cap Txs)

(* The timer fires, whether or not an earlier call has ended.              *)
PollStart(p) ==
    /\ timer /\ poll[p] = Idle
    /\ timer' = (Active # {})
    /\ poll' = [poll EXCEPT ![p] = Polling(Active)]
    /\ overlapped' = overlapped \cup {t \in Active : \E q \in Polls : t \in Holds(q)}
    /\ UNCHANGED <<entries, network, backoff, saved, restarts, outcomes, reverted>>

(* pollOne() returns; after the last entry pollAll() saves.                *)
Advance(p, t) ==
    /\ poll' = [poll EXCEPT ![p] = Polling(@.todo \ {t})]
    /\ IF poll[p].todo \subseteq {t} THEN Save ELSE UNCHANGED saved

(* The entry has reached a final state, and its callback runs.             *)
Announce(t, s) ==
    /\ status' = [status EXCEPT ![t] = s]
    /\ outcomes' = [outcomes EXCEPT ![t] = @ \cup {s}]

(* The status update for a transaction found with n confirmations.         *)
Found(t, n) ==
    \/ n >= Threshold /\ status[t] # "confirmed" /\ Announce(t, "confirmed")
    \/ n >= Threshold /\ status[t] = "confirmed" /\ UNCHANGED <<status, outcomes>>
    \/ /\ n \in 1 .. Threshold - 1
       /\ status' = [status EXCEPT ![t] = "confirming"]
       /\ UNCHANGED outcomes
    \/ n = 0 /\ UNCHANGED <<status, outcomes>>

(* The primary provider finds t.                                           *)
PrimaryFinds(p, t) ==
    /\ poll[p].at = NoTx /\ t \in poll[p].todo
    /\ \E n \in Views(t) : Found(t, n)
    /\ failures' = [failures EXCEPT ![t] = 0]
    /\ ResetPollInterval
    /\ Advance(p, t)
    /\ UNCHANGED <<network, restarts, overlapped, reverted>>

(* It throws, and Blockchair is asked.                                     *)
PrimaryThrows(p, t) ==
    /\ poll[p].at = NoTx /\ t \in poll[p].todo
    /\ \E d \in BOOLEAN :
          poll' = [poll EXCEPT ![p] = [todo |-> @.todo \ {t}, at |-> t, degraded |-> d]]
    /\ UNCHANGED <<entries, network, timer, backoff, saved, restarts,
                   outcomes, overlapped, reverted>>

(* Blockchair finds it: only a not-found answer of the primary provider    *)
(* clears pollFailures, only a degraded one resets the interval.           *)
FallbackFinds(p) ==
    /\ poll[p].at # NoTx
    /\ LET t == poll[p].at IN
          /\ \E n \in Views(t) : Found(t, n)
          /\ failures' = IF poll[p].degraded THEN failures ELSE [failures EXCEPT ![t] = 0]
          /\ IF poll[p].degraded THEN ResetPollInterval ELSE UNCHANGED <<backoff, timer>>
          /\ Advance(p, t)
    /\ UNCHANGED <<network, restarts, overlapped, reverted>>

GivesUp_Never(t, f) == UNCHANGED <<status, outcomes>>

(* The end of pollOne(): give up after too many not-found answers, or for  *)
(* its age, as unverified if most polls met degraded APIs.                 *)
GivesUp(t, f) ==
    \/ f >= MaxFailures /\ Announce(t, "failed")
    \/ f < MaxFailures /\ old[t] /\ 2 * f < MaxFailures /\ Announce(t, "unverified")
    \/ f < MaxFailures /\ old[t] /\ 2 * f >= MaxFailures /\ Announce(t, "failed")
    \/ f < MaxFailures /\ ~old[t] /\ UNCHANGED <<status, outcomes>>

(* Blockchair does not find it either.                                     *)
FallbackFails(p) ==
    /\ poll[p].at # NoTx
    /\ LET t == poll[p].at
           f == IF poll[p].degraded THEN failures[t] ELSE Count(failures[t])
       IN /\ failures' = [failures EXCEPT ![t] = f]
          /\ IF poll[p].degraded THEN IncreasePollInterval ELSE UNCHANGED <<backoff, timer>>
          /\ GivesUp(t, f)
          /\ Advance(p, t)
    /\ UNCHANGED <<network, restarts, overlapped, reverted>>

PollStep(p) ==
    \/ \E t \in Txs : PrimaryFinds(p, t) \/ PrimaryThrows(p, t)
    \/ FallbackFinds(p) \/ FallbackFails(p)

-----------------------------------------------------------------------------
(* load() in a new process: tracking.json holds one of the last versions,  *)
(* or is torn and read as empty.                                           *)
Restart ==
    /\ restarts < MaxRestarts
    /\ restarts' = restarts + 1
    /\ \E e \in {saved[1], saved[2], NoEntries} :
          /\ status' = e[1] /\ failures' = e[2]
          /\ reverted' = reverted \cup {t \in Txs : e[1][t] # status[t]}
          /\ saved' = <<e, e>>
          /\ timer' = (\E t \in Txs : IsActive(e[1][t]))
    /\ backoff' = 0
    /\ poll' = [p \in Polls |-> Idle]
    /\ UNCHANGED <<network, outcomes, overlapped>>

(* Time and the network *)
Ages(t) ==
    /\ status[t] # "untracked" /\ ~old[t]
    /\ old' = [old EXCEPT ![t] = TRUE]
    /\ UNCHANGED <<entries, depth, timer, backoff, poll, saved, restarts,
                   outcomes, overlapped, reverted>>

(* The mempool takes a transaction, or drops it again.                     *)
MempoolChanges(t) ==
    /\ depth[t] \in {-1, 0}
    /\ depth' = [depth EXCEPT ![t] = -1 - @]
    /\ UNCHANGED <<entries, old, timer, backoff, poll, saved, restarts,
                   outcomes, overlapped, reverted>>

BlockArrives(t) ==
    /\ depth[t] >= 0 /\ depth[t] < MaxDepth
    /\ depth' = [depth EXCEPT ![t] = @ + 1]
    /\ UNCHANGED <<entries, old, timer, backoff, poll, saved, restarts,
                   outcomes, overlapped, reverted>>

TrackerNext ==
    \/ \E t \in Txs : Track(t) \/ Ages(t) \/ MempoolChanges(t) \/ BlockArrives(t)
    \/ \E p \in Polls : PollStart(p) \/ PollStep(p)
    \/ Restart

TrackerSpec == TrackerInit /\ [][TrackerNext]_trackerVars

-----------------------------------------------------------------------------
(* Properties *)

(* Every variable has its type.                                            *)
TrackerTypeOK ==
    /\ status \in [Txs -> Status] /\ failures \in [Txs -> 0 .. MaxFailures]
    /\ old \in [Txs -> BOOLEAN] /\ depth \in [Txs -> -1 .. MaxDepth]
    /\ timer \in BOOLEAN /\ backoff \in 0 .. MaxBackoff
    /\ poll \in [Polls -> [todo : SUBSET Txs, at : Txs \cup {NoTx}, degraded : BOOLEAN]]
    /\ saved \in Entries \X Entries
    /\ restarts \in 0 .. MaxRestarts
    /\ outcomes \in [Txs -> SUBSET {"confirmed", "failed", "unverified"}]
    /\ overlapped \subseteq Txs /\ reverted \subseteq Txs

(* The callbacks, which tell the owner and free the coins, hear of one     *)
(* final state per transaction, unless two polls overlapped on it or a     *)
(* restart read an older file.                                             *)
OneOutcome ==
    \A t \in Txs \ (overlapped \cup reverted) :
        /\ Cardinality(outcomes[t]) <= 1
        /\ outcomes[t] = {} <=> IsActive(status[t]) \/ status[t] = "untracked"

(* The timer runs while anything is active, unless an overlapping poll     *)
(* made an entry active again after the timer had stopped.                 *)
PollingWhileActive == Active \ overlapped # {} => timer

(* A transaction that does not stay in the mempool reaches a final state,  *)
(* unless polls overlapped on it.                                          *)
Settles ==
    \A t \in Txs :
        <>[](depth[t] # 0) =>
            [](t \in Active => <>(t \notin Active \/ t \in overlapped))
=============================================================================
