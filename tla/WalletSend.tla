----------------------------- MODULE WalletSend -----------------------------
(***************************************************************************)
(* The wallet's send path: executeSend() of index.ts running concurrently  *)
(* with itself, with the UTXO refresh timer, with the transaction tracker  *)
(* and with restarts of the plugin, over the coin cache of UtxoManager and *)
(* the Dogecoin network.                                                   *)
(*                                                                         *)
(* JavaScript runs one task at a time, so every action below is the code   *)
(* between two awaits of one asynchronous function.  A coin is an output   *)
(* the wallet's address can spend: a deposit, or the change output of one  *)
(* of its own sends (which is named by the send).                          *)
(***************************************************************************)
EXTENDS Naturals

CONSTANTS
    Sends,            \* invocations of executeSend(), one signed transaction each
    Deposits,         \* outputs other people paid to the wallet
    Providers,        \* blockchain APIs behind the FailoverProvider
    Refreshes,        \* concurrent calls of UtxoManager.refresh()
    NoSend,           \* "lockedFor" of an unlocked coin
    MinConfirmations, \* cfg.utxo.minConfirmations, 0 or at least 1
    MaxRestarts       \* bound: restarts of the plugin explored

ASSUME ConstantsAssumption ==
    /\ NoSend \notin Sends
    /\ Sends \cap Deposits = {}
    /\ MinConfirmations \in {0, 1}
    /\ MaxRestarts \in Nat

Coin == Deposits \cup Sends

VARIABLES
    phase,      \* where each executeSend() stands
    snapshot,   \* what getSpendableUtxos() returned to it
    inputs,     \* the coins its signed transaction spends
    todo,       \* the coins its markSpent / unlockUtxo loop still has to visit
    hasChange,  \* does its transaction have a change output?
    cached,     \* UtxoManager.utxos: the coins known,
    owner,      \*   lockedFor of each (NoSend: unlocked),
    stale,      \*   those locked for more than 30 minutes,
    confirmed,  \*   those with at least one confirmation
    disk,       \* utxos/cache.json
    refresh,    \* the calls of refresh() under way
    accepted,   \* sends whose transaction the network holds
    mined,      \*   ... in a block
    indexed,    \*   ... as far as each provider knows
    tracked,    \* TransactionTracker status of each send
    restarts    \* restarts so far

(* History variables, which no guard reads: how locks were lost.           *)
VARIABLES
    open,       \* sends that were selecting or locking when s took its snapshot
    released,   \* <<c, s>>: the wallet dropped the lock of s on coin c
    resurfaced  \* signed-for coins that a refresh or a restart brought back

walletVars  == <<cached, owner, stale, confirmed>>
sendVars    == <<phase, snapshot, inputs, todo, hasChange>>
networkVars == <<accepted, mined, indexed>>
history     == <<open, released, resurfaced>>
vars == <<sendVars, walletVars, disk, refresh, networkVars, tracked, restarts, history>>

(* "refused": rejected before signing.  A restart turns a signed send that *)
(* was not yet handed to the broadcaster into "dropped", a later one into  *)
(* "lost".                                                                 *)
Phase == {"idle", "feeRate", "selecting", "refused", "locking", "broadcasting",
          "unlocking", "sent", "failed", "dropped", "lost"}

(* The transaction of s was handed to the network.                         *)
Left(s) == phase[s] \in {"broadcasting", "unlocking", "sent", "failed", "lost"}

(* The transaction of s is signed and is or will be handed to the network. *)
Signed(s) == phase[s] = "locking" \/ Left(s)

(* The unspent outputs of the wallet after the transactions in V.          *)
Unspent(V) == {c \in Deposits \cup {s \in V : hasChange[s]} :
                  \A s \in V : c \notin inputs[s]}

EmptyCache == [cached |-> {}, owner |-> [c \in Coin |-> NoSend], confirmed |-> {}]

Idle == [state |-> "idle", coins |-> {}, confirmed |-> {}]

Init ==
    /\ phase = [s \in Sends |-> "idle"]
    /\ snapshot = [s \in Sends |-> {}]
    /\ inputs = [s \in Sends |-> {}]
    /\ todo = [s \in Sends |-> {}]
    /\ hasChange = [s \in Sends |-> FALSE]
    /\ cached = {}
    /\ owner = [c \in Coin |-> NoSend]
    /\ stale = {}
    /\ confirmed = {}
    /\ disk = EmptyCache
    /\ refresh = [r \in Refreshes |-> Idle]
    /\ accepted = {}
    /\ mined = {}
    /\ indexed = [p \in Providers |-> {}]
    /\ tracked = [s \in Sends |-> "none"]
    /\ restarts = 0
    /\ open = [s \in Sends |-> {}]
    /\ released = {}
    /\ resurfaced = {}

-----------------------------------------------------------------------------
(* UtxoManager *)

(* unlockUtxo() of every coin in S, whoever holds the lock.                *)
Unlock(S) ==
    /\ owner' = [c \in Coin |-> IF c \in S THEN NoSend ELSE owner[c]]
    /\ stale' = stale \ S
    /\ released' = released \cup {<<c, owner[c]>> : c \in {d \in S : owner[d] # NoSend}}

Spendable_IgnoresLocks == {c \in cached : MinConfirmations >= 1 => c \in confirmed}

Spendable_IgnoresConfirmations == {c \in cached : owner[c] = NoSend}

(* getSpendableUtxos(): unlocked, and confirmed if the configuration asks. *)
Spendable == {c \in cached : owner[c] = NoSend
                             /\ (MinConfirmations >= 1 => c \in confirmed)}

MarkSpent_AnyCoin(s, c) ==
    owner' = [owner EXCEPT ![c] = s] /\ stale' = stale \ {c}

(* markSpent(c) on behalf of s: a coin that left the cache is skipped, a   *)
(* coin that is locked already changes hands.                              *)
MarkSpent(s, c) ==
    IF c \in cached
    THEN owner' = [owner EXCEPT ![c] = s] /\ stale' = stale \ {c}
    ELSE UNCHANGED <<owner, stale>>

(* refresh() asks a provider, which computes its answer from the           *)
(* transactions it has indexed.  A request that throws, which the callers  *)
(* of refresh() log, changes nothing.                                      *)
RefreshAsks(r, p) ==
    /\ refresh[r].state = "idle"
    /\ refresh' = [refresh EXCEPT ![r] =
          [state |-> "answered",
           coins |-> Unspent(indexed[p]),
           confirmed |-> Unspent(indexed[p]) \cap (Deposits \cup mined)]]
    /\ UNCHANGED <<sendVars, walletVars, disk, networkVars, tracked, restarts, history>>

AnswerRefused_Shrinking(answer) == cached \ answer.coins # {}

(* The defensive guard of refresh(): no coins where some were known.       *)
AnswerRefused(answer) == answer.coins = {} /\ cached # {}

MergedOwner_Unlocked(answer) == [c \in Coin |-> NoSend]

MergedOwner_NoCleanup(answer) ==
    [c \in Coin |-> IF c \in cached \cap answer.coins THEN owner[c] ELSE NoSend]

(* The locks after a merge: those of the cache, as it is now and not as it *)
(* was when the request left, less the ones cleanupStaleLocks() drops.     *)
MergedOwner(answer) ==
    [c \in Coin |-> IF c \in (cached \cap answer.coins) \ stale THEN owner[c] ELSE NoSend]

(* The answer arrives and replaces the cache; cleanupStaleLocks() and      *)
(* saveCache(), which swallows a failed write, follow in the same task.    *)
RefreshMerge(r) ==
    LET answer == refresh[r] IN
    /\ answer.state = "answered"
    /\ ~ AnswerRefused(answer)
    /\ cached' = answer.coins
    /\ owner' = MergedOwner(answer)
    /\ stale' = {}
    /\ confirmed' = answer.confirmed
    /\ \/ disk' = [cached |-> cached', owner |-> owner', confirmed |-> confirmed']
       \/ UNCHANGED disk
    /\ refresh' = [refresh EXCEPT ![r] = Idle]
    /\ released' = released \cup
          {<<c, owner[c]>> : c \in {d \in stale \cap answer.coins : owner[d] # NoSend}}
    /\ resurfaced' = resurfaced \cup
          ((answer.coins \ cached) \cap UNION {inputs[s] : s \in Sends})
    /\ UNCHANGED <<sendVars, networkVars, tracked, restarts, open>>

(* A refused answer is dropped before the stale locks are looked at.       *)
RefreshSkip(r) ==
    /\ refresh[r].state = "answered"
    /\ AnswerRefused(refresh[r])
    /\ refresh' = [refresh EXCEPT ![r] = Idle]
    /\ UNCHANGED <<sendVars, walletVars, disk, networkVars, tracked, restarts, history>>

(* Half an hour passes on a lock.                                          *)
LockAges(c) ==
    /\ c \in cached \ stale
    /\ owner[c] # NoSend
    /\ stale' = stale \cup {c}
    /\ UNCHANGED <<sendVars, cached, owner, confirmed, disk, refresh, networkVars,
                   tracked, restarts, history>>

-----------------------------------------------------------------------------
(* executeSend() *)

(* Up to the await of getFeeRate(): the wallet is unlocked and the         *)
(* recipient is someone else.                                              *)
SendStart(s) ==
    /\ phase[s] = "idle"
    /\ phase' = [phase EXCEPT ![s] = "feeRate"]
    /\ UNCHANGED <<snapshot, inputs, todo, hasChange, walletVars, disk, refresh,
                   networkVars, tracked, restarts, history>>

(* getFeeRate() settles (an error becomes the fallback rate) and           *)
(* getSpendableUtxos() filters the cache; its promise is still awaited.    *)
SendSnapshot(s) ==
    /\ phase[s] = "feeRate"
    /\ phase' = [phase EXCEPT ![s] = "selecting"]
    /\ snapshot' = [snapshot EXCEPT ![s] = Spendable]
    /\ open' = [open EXCEPT ![s] = @ \cup
          {t \in Sends \ {s} : phase[t] \in {"selecting", "locking"}}]
    /\ UNCHANGED <<inputs, todo, hasChange, walletVars, disk, refresh, networkVars,
                   tracked, restarts, released, resurfaced>>

(* selectCoins(), buildTransaction() and signTransaction() on the snapshot,*)
(* and markSpent() on the first input: everything up to the next await.    *)
(* Amounts are abstracted: any non-empty part of the snapshot may cover.   *)
SendSelect(s) ==
    /\ phase[s] = "selecting"
    /\ \E S \in SUBSET snapshot[s], change \in BOOLEAN :
          \E c \in S :
             /\ inputs' = [inputs EXCEPT ![s] = S]
             /\ hasChange' = [hasChange EXCEPT ![s] = change]
             /\ todo' = [todo EXCEPT ![s] = S \ {c}]
             /\ MarkSpent(s, c)
    /\ phase' = [phase EXCEPT ![s] = "locking"]
    /\ snapshot' = [snapshot EXCEPT ![s] = {}]
    /\ UNCHANGED <<cached, confirmed, disk, refresh, networkVars, tracked, restarts, history>>

(* Insufficient funds, fee cap, wallet locked meanwhile: nothing is locked.*)
SendRefused(s) ==
    /\ phase[s] = "selecting"
    /\ phase' = [phase EXCEPT ![s] = "refused"]
    /\ snapshot' = [snapshot EXCEPT ![s] = {}]
    /\ UNCHANGED <<inputs, todo, hasChange, walletVars, disk, refresh, networkVars,
                   tracked, restarts, history>>

(* markSpent() on a further input.                                         *)
SendLock(s) ==
    /\ phase[s] = "locking"
    /\ \E c \in todo[s] :
          /\ todo' = [todo EXCEPT ![s] = @ \ {c}]
          /\ MarkSpent(s, c)
    /\ UNCHANGED <<phase, snapshot, inputs, hasChange, cached, confirmed, disk, refresh,
                   networkVars, tracked, restarts, history>>

(* Every input is marked: broadcastTransaction() starts.                   *)
SendBroadcast(s) ==
    /\ phase[s] = "locking"
    /\ todo[s] = {}
    /\ phase' = [phase EXCEPT ![s] = "broadcasting"]
    /\ UNCHANGED <<snapshot, inputs, todo, hasChange, walletVars, disk, refresh,
                   networkVars, tracked, restarts, history>>

(* broadcastTransaction() reports success: addUtxo() of the change, which  *)
(* deduplicates, and track().  A P2P success only means that a peer was    *)
(* written to, so it does not imply acceptance.                            *)
SendSucceeds(s) ==
    /\ phase[s] = "broadcasting"
    /\ phase' = [phase EXCEPT ![s] = "sent"]
    /\ IF hasChange[s] /\ s \notin cached
       THEN /\ cached' = cached \cup {s}
            /\ confirmed' = confirmed \ {s}
            /\ resurfaced' = resurfaced \cup ({s} \cap UNION {inputs[t] : t \in Sends})
       ELSE UNCHANGED <<cached, confirmed, resurfaced>>
    /\ tracked' = [tracked EXCEPT ![s] = "pending"]
    /\ UNCHANGED <<snapshot, inputs, todo, hasChange, owner, stale, disk, refresh,
                   networkVars, restarts, open, released>>

(* broadcastTransaction() throws: the catch block unlocks the inputs one   *)
(* by one, the first of them before the next await.                        *)
SendFails(s) ==
    /\ phase[s] = "broadcasting"
    /\ phase' = [phase EXCEPT ![s] = "unlocking"]
    /\ \E c \in inputs[s] :
          /\ todo' = [todo EXCEPT ![s] = inputs[s] \ {c}]
          /\ Unlock({c} \cap cached)
    /\ UNCHANGED <<snapshot, inputs, hasChange, cached, confirmed, disk, refresh,
                   networkVars, tracked, restarts, open, resurfaced>>

SendUnlock(s) ==
    /\ phase[s] = "unlocking"
    /\ \E c \in todo[s] :
          /\ todo' = [todo EXCEPT ![s] = @ \ {c}]
          /\ Unlock({c} \cap cached)
    /\ UNCHANGED <<phase, snapshot, inputs, hasChange, cached, confirmed, disk, refresh,
                   networkVars, tracked, restarts, open, resurfaced>>

(* The error is rethrown to the caller, which reports "Send FAILED".       *)
SendRethrow(s) ==
    /\ phase[s] = "unlocking"
    /\ todo[s] = {}
    /\ phase' = [phase EXCEPT ![s] = "failed"]
    /\ UNCHANGED <<snapshot, inputs, todo, hasChange, walletVars, disk, refresh,
                   networkVars, tracked, restarts, history>>

-----------------------------------------------------------------------------
(* TransactionTracker and the callbacks index.ts gives it *)

TrackerConfirms(s) ==
    /\ tracked[s] = "pending"
    /\ s \in mined
    /\ tracked' = [tracked EXCEPT ![s] = "confirmed"]
    /\ UNCHANGED <<sendVars, walletVars, disk, refresh, networkVars, restarts, history>>

(* "failed" (the providers do not know the transaction) or "unverified"    *)
(* (24 hours of degraded APIs): both callbacks unlock its coins.           *)
TrackerGivesUp(s) ==
    /\ tracked[s] = "pending"
    /\ \/ /\ \E p \in Providers : s \notin indexed[p]
          /\ tracked' = [tracked EXCEPT ![s] = "failed"]
       \/ tracked' = [tracked EXCEPT ![s] = "unverified"]
    /\ Unlock({c \in cached : owner[c] = s})
    /\ UNCHANGED <<sendVars, cached, confirmed, disk, refresh, networkVars, restarts,
                   open, resurfaced>>

-----------------------------------------------------------------------------
(* The network and its indexers (external) *)

(* A transaction that has left the wallet may be accepted at any time      *)
(* after, whatever the wallet was told, if its inputs are unspent.         *)
NetworkAccepts(s) ==
    /\ Left(s)
    /\ s \notin accepted
    /\ inputs[s] \subseteq Unspent(accepted)
    /\ accepted' = accepted \cup {s}
    /\ UNCHANGED <<sendVars, walletVars, disk, refresh, mined, indexed, tracked, restarts, history>>

NetworkMines(s) ==
    /\ s \in accepted \ mined
    /\ inputs[s] \cap Sends \subseteq mined
    /\ mined' = mined \cup {s}
    /\ UNCHANGED <<sendVars, walletVars, disk, refresh, accepted, indexed, tracked, restarts, history>>

ProviderIndexes(p, s) ==
    /\ s \in accepted \ indexed[p]
    /\ inputs[s] \cap Sends \subseteq indexed[p]
    /\ indexed' = [indexed EXCEPT ![p] = @ \cup {s}]
    /\ UNCHANGED <<sendVars, walletVars, disk, refresh, accepted, mined, tracked, restarts, history>>

-----------------------------------------------------------------------------
(* The plugin stops at any point and starts again: memory is gone, the     *)
(* coin cache is what saveCache() last wrote, sends under way are lost,    *)
(* the tracker reloads its file.                                           *)
Restart ==
    /\ restarts < MaxRestarts
    /\ restarts' = restarts + 1
    /\ phase' = [s \in Sends |->
          IF phase[s] \in {"feeRate", "selecting"} THEN "refused"
          ELSE IF phase[s] = "locking" THEN "dropped"
          ELSE IF phase[s] \in {"broadcasting", "unlocking"} THEN "lost"
          ELSE phase[s]]
    /\ snapshot' = [s \in Sends |-> {}]
    /\ todo' = [s \in Sends |-> {}]
    /\ cached' = disk.cached
    /\ owner' = disk.owner
    /\ stale' = {}
    /\ confirmed' = disk.confirmed
    /\ refresh' = [r \in Refreshes |-> Idle]
    /\ released' = released \cup
          {<<c, owner[c]>> : c \in {d \in cached : owner[d] \notin {NoSend, disk.owner[d]}}}
    /\ resurfaced' = resurfaced \cup
          ((disk.cached \ cached) \cap UNION {inputs[s] : s \in Sends})
    /\ UNCHANGED <<inputs, hasChange, disk, networkVars, tracked, open>>

(* executeSend() once it is under way.                                     *)
SendContinues(s) ==
    \/ SendSnapshot(s) \/ SendSelect(s) \/ SendRefused(s) \/ SendLock(s) \/ SendBroadcast(s)
    \/ SendSucceeds(s) \/ SendFails(s) \/ SendUnlock(s) \/ SendRethrow(s)

RefreshStep(r) ==
    \/ \E p \in Providers : RefreshAsks(r, p)
    \/ RefreshMerge(r) \/ RefreshSkip(r)

NetworkStep(s) ==
    \/ NetworkAccepts(s) \/ NetworkMines(s)
    \/ \E p \in Providers : ProviderIndexes(p, s)

Next ==
    \/ \E s \in Sends : SendStart(s) \/ SendContinues(s) \/ TrackerConfirms(s) \/ TrackerGivesUp(s) \/ NetworkStep(s)
    \/ \E r \in Refreshes : RefreshStep(r)
    \/ \E c \in Coin : LockAges(c)
    \/ Restart

Spec == Init /\ [][Next]_vars

-----------------------------------------------------------------------------
(* Properties *)

(* The types, and the shape of the data executeSend() works on: a snapshot *)
(* only while selecting, a todo list only while walking over the inputs,   *)
(* no inputs before selectCoins().                                         *)
TypeOK ==
    /\ phase \in [Sends -> Phase]
    /\ snapshot \in [Sends -> SUBSET Coin]
    /\ inputs \in [Sends -> SUBSET Coin]
    /\ todo \in [Sends -> SUBSET Coin]
    /\ hasChange \in [Sends -> BOOLEAN]
    /\ cached \in SUBSET Coin
    /\ owner \in [Coin -> Sends \cup {NoSend}]
    /\ stale \in SUBSET Coin
    /\ confirmed \in SUBSET Coin
    /\ disk \in [cached : SUBSET Coin, owner : [Coin -> Sends \cup {NoSend}],
                 confirmed : SUBSET Coin]
    /\ refresh \in [Refreshes -> [state : {"idle", "answered"},
                                  coins : SUBSET Coin, confirmed : SUBSET Coin]]
    /\ accepted \in SUBSET Sends
    /\ mined \in SUBSET Sends
    /\ indexed \in [Providers -> SUBSET Sends]
    /\ tracked \in [Sends -> {"none", "pending", "confirmed", "failed", "unverified"}]
    /\ restarts \in 0 .. MaxRestarts
    /\ open \in [Sends -> SUBSET Sends]
    /\ released \in SUBSET (Coin \X Sends)
    /\ resurfaced \in SUBSET Coin

(* The two sends were between getSpendableUtxos() and their last           *)
(* markSpent() at the same time.                                           *)
Overlap(s, t) == s \in open[t] \/ t \in open[s]

(* Why coin c, signed for by s, may be unlocked or locked for another send:*)
(* its lock was given up (a failed broadcast, the tracker, 30 minutes, a   *)
(* restart), it left the cache and came back, or a send that overlapped    *)
(* with s took it too.                                                     *)
Excused(c, s) ==
    \/ <<c, s>> \in released
    \/ c \in resurfaced
    \/ \E u \in Sends : Overlap(s, u) /\ c \in inputs[u]

(* The coins of s that its markSpent() loop has visited.                   *)
Marked(s) == IF phase[s] = "locking" THEN inputs[s] \ todo[s]
             ELSE IF Left(s) THEN inputs[s] ELSE {}

(* markSpent() works: a coin the wallet signed for stays locked for that   *)
(* very send until one of the named causes takes the lock away.            *)
HeldForItsSend ==
    \A s \in Sends : \A c \in Marked(s) \cap cached : owner[c] = s \/ Excused(c, s)

(* Two signed transactions of the wallet spend the same coin only if their *)
(* sends overlapped (executeSend() has no mutex), or the coin's lock had   *)
(* been given up, or the coin had come back: those are all the ways the    *)
(* wallet can double-spend against itself.                                 *)
ConflictsHaveCause ==
    \A s, t \in Sends :
        s # t /\ Signed(s) /\ Signed(t) =>
            \A c \in inputs[s] \cap inputs[t] :
                Overlap(s, t) \/ Excused(c, s) \/ Excused(c, t)

(* Nothing is signed for before selectCoins().                             *)
NoEarlyInputs ==
    \A s \in Sends : phase[s] \in {"idle", "feeRate", "selecting", "refused"} => inputs[s] = {}

(* markSpent() and unlockUtxo() walk over the inputs of the transaction.   *)
WalkOverInputs == \A s \in Sends : todo[s] \subseteq inputs[s]

(* Two sends that are both about to lock coins have overlapped.            *)
RacersOverlap ==
    \A s, t \in Sends :
        s # t /\ phase[s] \in {"selecting", "locking"} /\ phase[t] \in {"selecting", "locking"} =>
            Overlap(s, t)

(* A coin of a signed send is in another's snapshot only for cause, ...    *)
SnapshotsHaveCause ==
    \A s, t \in Sends :
        s # t /\ Signed(s) /\ phase[t] = "selecting" =>
            \A c \in inputs[s] \cap snapshot[t] : Overlap(s, t) \/ Excused(c, s)

(* ... and so a send that is locking takes coins only from sends that      *)
(* already have an excuse for losing them.                                 *)
LockersHaveCause ==
    \A s, t \in Sends :
        s # t /\ Signed(s) /\ phase[t] = "locking" =>
            \A c \in inputs[s] \cap inputs[t] : Overlap(s, t) \/ Excused(c, s)

(* The inductive invariant behind HeldForItsSend and ConflictsHaveCause.   *)
LockInvariant ==
    /\ NoEarlyInputs
    /\ WalkOverInputs
    /\ RacersOverlap
    /\ SnapshotsHaveCause
    /\ LockersHaveCause
    /\ HeldForItsSend
    /\ ConflictsHaveCause

(* With minConfirmations >= 1 a send never builds on change the network    *)
(* has not mined, whatever addUtxo() put into the cache, however old the   *)
(* merged answer is, and across restarts: a rejected send invalidates no   *)
(* later one.                                                              *)
InputsMinted ==
    MinConfirmations >= 1 => \A s \in Sends : inputs[s] \cap Sends \subseteq mined

(* A lock names a send that spends the coin, and only a cached coin is     *)
(* locked, in memory and on disk: unlockUtxosForTx() finds every lock of a *)
(* failed transaction and cleanupStaleLocks() every old one.               *)
LocksAreOwned ==
    /\ \A c \in Coin : owner[c] # NoSend => c \in cached \cap inputs[owner[c]]
    /\ \A c \in Coin : disk.owner[c] # NoSend => c \in disk.cached \cap inputs[disk.owner[c]]
    /\ \A c \in stale : owner[c] # NoSend

(* A refresh, a success or another send never frees a lock: it goes by age,*)
(* by restart, by the tracker giving the owner up, or by a failed          *)
(* broadcast of a transaction that spends the coin.                        *)
LocksFreedForCause ==
    [][\A c \in Coin : owner[c] # NoSend /\ c \in cached' /\ owner'[c] = NoSend =>
          \/ c \in stale
          \/ restarts' # restarts
          \/ tracked[owner[c]] = "pending" /\ tracked'[owner[c]] \in {"failed", "unverified"}
          \/ \E s \in Sends : c \in inputs[s] /\ phase'[s] = "unlocking"]_vars

(* cleanupStaleLocks(): no lock is for ever, unless every answer of the    *)
(* network is empty, which refresh() takes for an API error.               *)
LocksEnd ==
    \A c \in Coin : owner[c] # NoSend ~>
        (owner[c] = NoSend \/ \E p \in Providers : Unspent(indexed[p]) = {})

(* Stale answers, optimistic change and restarts notwithstanding, the      *)
(* cache converges to what the network says, if that is not empty.         *)
CacheConverges ==
    <>[](Unspent(accepted) # {}) => <>[](cached = Unspent(accepted))

(* SECURITY.md, "Double-spend (self)": two sends under way never sign for  *)
(* the same coin.                                                          *)
SelectAndLockIsAtomic ==
    \A s, t \in Sends :
        s # t /\ phase[s] \in {"locking", "broadcasting"}
              /\ phase[t] \in {"locking", "broadcasting"} =>
            inputs[s] \cap inputs[t] = {}
=============================================================================
