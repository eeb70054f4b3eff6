----------------------------- MODULE SpendPolicy -----------------------------
(***************************************************************************)
(* The spending policy in front of executeSend(): PolicyEngine, the        *)
(* LimitTracker, the ApprovalQueue with its expiry timer, the freeze       *)
(* switch, and the handlers of index.ts that use them (/wallet send,       *)
(* approve, deny, freeze, the wallet_send tool), with restarts.            *)
(*                                                                         *)
(* A request is one call of /wallet send or of wallet_send.  Every action  *)
(* is the code between two awaits.  executeSend() itself is the subject of *)
(* WalletSend; here it pays, fails, or pays and fails.  policy.enabled is  *)
(* true: without it evaluate() allows everything.                          *)
(***************************************************************************)
EXTENDS Naturals, FiniteSets

CONSTANTS
    Requests,     \* the send requests made
    Amount,       \* amount of each
    Allowlisted,  \* requests whose recipient is on the allowlist,
    Denylisted,   \*   on the denylist
    TierMax,      \* policy.tiers[t].maxAmount, t below "sweep"
    Approval,     \* policy.tiers[t].approval
    DailyMax,     \* policy.limits.dailyMax
    MaxFee,       \* the largest fee a send may pay
    KeepResolved, \* resolved approvals cleanup() keeps (100)
    MaxRestarts   \* bound: restarts of the plugin explored

TierName == {"micro", "small", "medium", "large", "sweep"}

ApprovalType == {"auto", "auto-logged", "notify-delay", "owner-required", "owner-confirm-code"}

SpendAction == {"auto", "notify", "delay", "approve", "confirm-code", "deny"}

ASSUME PolicyAssumption ==
    /\ IsFiniteSet(Requests)
    /\ Amount \in [Requests -> Nat]
    /\ TierMax \in [TierName \ {"sweep"} -> Nat]
    /\ Approval \in [TierName -> ApprovalType]
    /\ DailyMax \in Nat /\ MaxFee \in Nat /\ KeepResolved \in Nat /\ MaxRestarts \in Nat

VARIABLES
    stage,       \* where the handler, or the timer, stands with each request
    verdict,     \* PolicyEvaluation.action
    entry,       \* ApprovalQueue.pending: status and resolvedBy
    due,         \* requests whose approval has passed its expiresAt
    batch,       \* the list expire() returned to the timer callback, per request
    frozen,      \* PolicyEngine.frozen
    spent,       \* LimitTracker.getDailySpent()
    fee,         \* the fee of the transaction built for each request
    saving,      \* the ids each ApprovalQueue.save() since the start has collected
    approvalFile, limitsFile, freezeFile, \* what a restart may find on disk
    restarts     \* restarts so far

(* History variables, which no guard reads.                                *)
VARIABLES
    paid,        \* payments handed to the network for each request
    paidToday,   \* amount and fees handed to the network since midnight
    restored,    \* requests whose approval a restart turned back
    overlapped,  \* was a request admitted while another one was uncounted?
    miscounted   \* has a payment escaped the limit tracker?

queueFile == <<saving, approvalFile>>
files == <<queueFile, limitsFile, freezeFile>>
history == <<paid, paidToday, restored, overlapped, miscounted>>
vars == <<stage, verdict, entry, due, batch, frozen, spent, fee, files, restarts, history>>

Stage == {"new", "evaluated", "queued", "approved", "listed", "sending", "broadcast",
          "sent", "finished", "failed", "rejected"}

Status == {"absent", "pending", "approved", "denied", "expired", "executed"}

Entry == [status : Status, by : {"none", "owner", "timeout"}]

NoEntry == [status |-> "absent", by |-> "none"]

EmptyQueue == [r \in Requests |-> NoEntry]

Init ==
    /\ stage = [r \in Requests |-> "new"]
    /\ verdict = [r \in Requests |-> "deny"]
    /\ entry = EmptyQueue
    /\ due = {}
    /\ batch = [r \in Requests |-> {}]
    /\ frozen = FALSE
    /\ spent = 0
    /\ fee = [r \in Requests |-> 0]
    /\ saving = {}
    /\ approvalFile = {EmptyQueue}
    /\ limitsFile = {0}
    /\ freezeFile = {FALSE}
    /\ restarts = 0
    /\ paid = [r \in Requests |-> 0]
    /\ paidToday = 0
    /\ restored = {}
    /\ overlapped = FALSE
    /\ miscounted = FALSE

-----------------------------------------------------------------------------
(* PolicyEngine *)

(* determineTier(): the boundaries are inclusive.                          *)
Tier(amount) ==
    IF amount <= TierMax["micro"] THEN "micro"
    ELSE IF amount <= TierMax["small"] THEN "small"
    ELSE IF amount <= TierMax["medium"] THEN "medium"
    ELSE IF amount <= TierMax["large"] THEN "large"
    ELSE "sweep"

(* evaluateTier()                                                          *)
TierAction(tier) ==
    IF Approval[tier] = "auto" THEN "auto"
    ELSE IF Approval[tier] = "auto-logged" THEN "notify"
    ELSE IF Approval[tier] = "notify-delay" THEN "delay"
    ELSE IF Approval[tier] = "owner-required" THEN "approve"
    ELSE "confirm-code"

(* evaluate(): the action it may return.  The hourly limit, the number of  *)
(* transactions and the cooldown can each deny besides.                    *)
Verdicts(r) ==
    IF frozen \/ r \in Denylisted \/ spent + Amount[r] > DailyMax THEN {"deny"}
    ELSE {"deny", IF r \in Allowlisted THEN "auto" ELSE TierAction(Tier(Amount[r]))}

(* Admitted by the policy, and not yet counted by the limit tracker.       *)
Uncounted == {r \in Requests :
    \/ stage[r] \in {"queued", "approved", "listed", "sending", "broadcast"}
    \/ stage[r] = "evaluated" /\ verdict[r] # "deny"}

-----------------------------------------------------------------------------
(* ApprovalQueue *)

Keys(e) == {r \in Requests : e[r] # NoEntry}

(* Calls of save() with the ids in "calls", while the entries are e.       *)
(* save() is not awaited, it collects the entries, waits for mkdir(), and  *)
(* then writes them with the status they have by then; its writes are not  *)
(* ordered, they may fail, and a crash leaves a torn file, which load()    *)
(* takes for an empty one.                                                 *)
Save(e, calls) ==
    /\ saving' = saving \cup calls
    /\ approvalFile' = approvalFile
          \cup {[r \in Requests |-> IF r \in ids THEN e[r] ELSE NoEntry] : ids \in saving'}
          \cup {EmptyQueue : ids \in calls}

Resolved(e) == {r \in Requests : e[r].status \notin {"absent", "pending"}}

(* cleanup(): of more than KeepResolved resolved entries the excess goes.  *)
CleanedUp(e) ==
    {[r \in Requests |-> IF r \in gone THEN NoEntry ELSE e[r]] :
        gone \in {S \in SUBSET Resolved(e) :
                     IF Cardinality(Resolved(e)) > KeepResolved
                     THEN Cardinality(S) = Cardinality(Resolved(e)) - KeepResolved
                     ELSE S = {}}}

(* The timer callback ends with cleanup(), which saves if it removes; the  *)
(* entries e before it were saved with the ids in "calls".                 *)
CleanUpAfter(e, calls) ==
    /\ entry' \in CleanedUp(e)
    /\ Save(entry', calls \cup (IF entry' # e THEN {Keys(entry')} ELSE {}))

Update(e) ==
    /\ entry' = e
    /\ Save(e, {Keys(e)})

SetStatus(r, s, by) == [entry EXCEPT ![r] = [status |-> s, by |-> by]]

-----------------------------------------------------------------------------
(* /wallet send and wallet_send *)

(* evaluate(), up to the await of the audit log.                           *)
Evaluate(r) ==
    /\ stage[r] = "new"
    /\ \E v \in Verdicts(r) :
          /\ verdict' = [verdict EXCEPT ![r] = v]
          /\ overlapped' = (overlapped \/ (v # "deny" /\ Uncounted # {}))
    /\ stage' = [stage EXCEPT ![r] = "evaluated"]
    /\ UNCHANGED <<entry, due, batch, frozen, spent, fee, files, restarts, paid, paidToday,
                   restored, miscounted>>

(* A denied request is rejected, an allowed one goes to executeSend(), any *)
(* other is queued for approval.                                           *)
Dispatch(r) ==
    /\ stage[r] = "evaluated"
    /\ IF verdict[r] = "deny" THEN
          /\ stage' = [stage EXCEPT ![r] = "rejected"]
          /\ UNCHANGED <<entry, queueFile>>
       ELSE IF verdict[r] \in {"auto", "notify"} THEN
          /\ stage' = [stage EXCEPT ![r] = "sending"]
          /\ UNCHANGED <<entry, queueFile>>
       ELSE
          /\ stage' = [stage EXCEPT ![r] = "queued"]
          /\ Update(SetStatus(r, "pending", "none"))
    /\ UNCHANGED <<verdict, due, batch, frozen, spent, fee, limitsFile, freezeFile, restarts, history>>

Approve_Resolved(r) ==
    /\ entry[r].status \in {"pending", "approved", "expired", "denied"}
    /\ Update(SetStatus(r, "approved", "owner"))
    /\ stage' = [stage EXCEPT ![r] = "approved"]
    /\ UNCHANGED <<verdict, due, batch, frozen, spent, fee, limitsFile, freezeFile, restarts, history>>

(* /wallet approve by the owner, up to the await of the audit log.  Any    *)
(* other caller is turned away; expiresAt is not looked at.                *)
Approve(r) ==
    /\ entry[r].status = "pending"
    /\ Update(SetStatus(r, "approved", "owner"))
    /\ stage' = [stage EXCEPT ![r] = "approved"]
    /\ UNCHANGED <<verdict, due, batch, frozen, spent, fee, limitsFile, freezeFile, restarts, history>>

(* ... after it: executeSend(), without another look at the policy.        *)
ApprovedSend(r) ==
    /\ stage[r] = "approved"
    /\ stage' = [stage EXCEPT ![r] = "sending"]
    /\ UNCHANGED <<verdict, entry, due, batch, frozen, spent, fee, files, restarts, history>>

(* /wallet deny by the owner.                                              *)
Deny(r) ==
    /\ entry[r].status = "pending"
    /\ Update(SetStatus(r, "denied", "owner"))
    /\ stage' = [stage EXCEPT ![r] = "rejected"]
    /\ UNCHANGED <<verdict, due, batch, frozen, spent, fee, limitsFile, freezeFile, restarts, history>>

-----------------------------------------------------------------------------
(* The expiry timer *)

(* The delay, or 24 hours, of an approval pass.                            *)
BecomesDue(r) ==
    /\ entry[r].status = "pending" /\ r \notin due
    /\ due' = due \cup {r}
    /\ UNCHANGED <<stage, verdict, entry, batch, frozen, spent, fee, files, restarts, history>>

AutoApproves_All(r) == TRUE

(* PendingApproval.autoAction: only a delayed request is approved by time. *)
AutoApproves(r) == verdict[r] = "delay"

(* expire() decides on every approval that is due; without a delayed one   *)
(* among them nothing is saved, and the callback goes on to cleanup().     *)
ExpiryTick ==
    LET timedOut == {r \in due : entry[r].status = "pending"}
        delayed == {r \in timedOut : AutoApproves(r)}
        decided == [r \in Requests |->
            IF r \in delayed THEN [status |-> "approved", by |-> "timeout"]
            ELSE IF r \in timedOut THEN [status |-> "expired", by |-> "none"]
            ELSE entry[r]]
    IN
    /\ timedOut # {} \/ Cardinality(Resolved(entry)) > KeepResolved
    /\ stage' = [r \in Requests |-> IF r \in delayed THEN "listed"
                                    ELSE IF r \in timedOut THEN "rejected" ELSE stage[r]]
    /\ batch' = [r \in Requests |-> IF r \in delayed THEN delayed ELSE batch[r]]
    /\ IF delayed # {} THEN Update(decided) ELSE CleanUpAfter(decided, {})
    /\ UNCHANGED <<verdict, due, frozen, spent, fee, limitsFile, freezeFile, restarts, history>>

TimedSend_StopsAtError(r) ==
    /\ stage[r] = "listed"
    /\ \A q \in batch[r] : stage[q] \notin {"sending", "broadcast", "sent", "failed"}
    /\ stage' = [stage EXCEPT ![r] = "sending"]
    /\ UNCHANGED <<verdict, entry, due, batch, frozen, spent, fee, files, restarts, history>>

(* The callback executes its list one send after the other.  A later tick  *)
(* may run beside it, with a list of its own.                              *)
TimedSend(r) ==
    /\ stage[r] = "listed"
    /\ \A q \in batch[r] : stage[q] \notin {"sending", "broadcast", "sent"}
    /\ stage' = [stage EXCEPT ![r] = "sending"]
    /\ UNCHANGED <<verdict, entry, due, batch, frozen, spent, fee, files, restarts, history>>

(* The end of a send: the entries become e, saved with the ids in "calls". *)
(* The last send of a list is followed by cleanup().                       *)
AfterSend(r, e, calls) ==
    IF batch[r] # {} /\ \A q \in batch[r] \ {r} : stage[q] \notin {"listed", "sending", "broadcast", "sent"}
    THEN CleanUpAfter(e, calls)
    ELSE entry' = e /\ Save(e, calls)

-----------------------------------------------------------------------------
(* executeSend() *)

(* The signed transaction reaches the network.                             *)
Broadcast(r) ==
    /\ stage[r] = "sending"
    /\ stage' = [stage EXCEPT ![r] = "broadcast"]
    /\ paid' = [paid EXCEPT ![r] = @ + 1]
    /\ \E f \in 0 .. MaxFee :
          /\ fee' = [fee EXCEPT ![r] = f]
          /\ paidToday' = paidToday + Amount[r] + f
    /\ UNCHANGED <<verdict, entry, due, batch, frozen, spent, files, restarts, restored,
                   overlapped, miscounted>>

RecordSpend_NoFee(r) == spent' = spent + Amount[r]

(* recordSpend(): amount and fee, and a save that may be lost or torn.     *)
RecordSpend(r) == spent' = spent + Amount[r] + fee[r]

(* broadcastTransaction() reports success: recordSpend(), track(), and the *)
(* audit log is awaited.                                                   *)
SendSucceeds(r) ==
    /\ stage[r] = "broadcast"
    /\ RecordSpend(r)
    /\ limitsFile' = limitsFile \cup {spent', 0}
    /\ stage' = [stage EXCEPT ![r] = "sent"]
    /\ UNCHANGED <<verdict, entry, due, batch, frozen, fee, queueFile, freezeFile, restarts, history>>

(* executeSend() returns: markExecuted() if there was an approval.         *)
SendReturns(r) ==
    /\ stage[r] = "sent"
    /\ stage' = [stage EXCEPT ![r] = "finished"]
    /\ IF entry[r] = NoEntry THEN AfterSend(r, entry, {})
       ELSE AfterSend(r, SetStatus(r, "executed", entry[r].by), {Keys(entry)})
    /\ UNCHANGED <<verdict, due, batch, frozen, spent, fee, limitsFile, freezeFile, restarts, history>>

(* executeSend() throws, before the transaction left or although it did;   *)
(* an approval stays "approved".                                           *)
SendThrows(r) ==
    /\ stage[r] \in {"sending", "broadcast"}
    /\ stage' = [stage EXCEPT ![r] = "failed"]
    /\ AfterSend(r, entry, {})
    /\ miscounted' = (miscounted \/ stage[r] = "broadcast")
    /\ UNCHANGED <<verdict, due, batch, frozen, spent, fee, limitsFile, freezeFile, restarts, paid,
                   paidToday, restored, overlapped>>

-----------------------------------------------------------------------------
(* /wallet freeze and unfreeze; saveFreezeState() may fail.                *)
SetFreeze(f) ==
    /\ frozen # f
    /\ frozen' = f
    /\ freezeFile' = freezeFile \cup {f, FALSE}
    /\ UNCHANGED <<stage, verdict, entry, due, batch, spent, fee, queueFile, limitsFile, restarts, history>>

(* resetIfNewDay()                                                         *)
Midnight ==
    /\ spent' = 0
    /\ paidToday' = 0
    /\ limitsFile' = {0}
    /\ UNCHANGED <<stage, verdict, entry, due, batch, frozen, fee, queueFile, freezeFile, restarts,
                   paid, restored, overlapped, miscounted>>

(* The plugin stops and starts again: load() of the queue, the limits and  *)
(* the freeze state.  Approvals found pending wait again, others rest.     *)
Restart ==
    /\ restarts < MaxRestarts
    /\ restarts' = restarts + 1
    /\ entry' \in approvalFile
    /\ spent' \in limitsFile
    /\ frozen' \in freezeFile
    /\ approvalFile' = {entry'} /\ limitsFile' = {spent'} /\ freezeFile' = {frozen'}
    /\ stage' = [r \in Requests |->
          IF entry'[r].status = "pending" THEN "queued"
          ELSE IF stage[r] \in {"new", "finished", "failed", "rejected"} THEN stage[r]
          ELSE "failed"]
    /\ saving' = {}
    /\ batch' = [r \in Requests |-> {}]
    /\ restored' = restored \cup {r \in Requests : entry'[r] # entry[r]}
    /\ miscounted' = (miscounted \/ spent' # spent \/ \E r \in Requests : stage[r] = "broadcast")
    /\ overlapped' = (overlapped \/ \E r \in Requests : stage'[r] = "queued")
    /\ UNCHANGED <<verdict, due, fee, paid, paidToday>>

RequestStep(r) ==
    \/ Evaluate(r) \/ Dispatch(r) \/ Approve(r) \/ ApprovedSend(r) \/ Deny(r)
    \/ BecomesDue(r) \/ TimedSend(r)
    \/ Broadcast(r) \/ SendSucceeds(r) \/ SendReturns(r) \/ SendThrows(r)

Next ==
    \/ \E r \in Requests : RequestStep(r)
    \/ ExpiryTick
    \/ \E f \in BOOLEAN : SetFreeze(f)
    \/ Midnight
    \/ Restart

(* Time passes, the timer keeps firing, and every await of a handler and   *)
(* of executeSend() ends: the HTTP calls have timeouts.                    *)
Fairness ==
    /\ WF_vars(ExpiryTick)
    /\ \A r \in Requests :
          /\ WF_vars(BecomesDue(r))
          /\ WF_vars(Dispatch(r)) /\ WF_vars(ApprovedSend(r)) /\ WF_vars(TimedSend(r))
          /\ WF_vars(Broadcast(r) \/ SendThrows(r)) /\ WF_vars(SendSucceeds(r) \/ SendThrows(r))
          /\ WF_vars(SendReturns(r))

Spec == Init /\ [][Next]_vars

FairSpec == Spec /\ Fairness

-----------------------------------------------------------------------------
(* Properties *)

(* Every variable has its type.                                            *)
TypeOK ==
    /\ stage \in [Requests -> Stage]
    /\ verdict \in [Requests -> SpendAction]
    /\ entry \in [Requests -> Entry]
    /\ due \subseteq Requests
    /\ batch \in [Requests -> SUBSET Requests]
    /\ frozen \in BOOLEAN
    /\ spent \in Nat
    /\ fee \in [Requests -> 0 .. MaxFee]
    /\ saving \subseteq SUBSET Requests
    /\ approvalFile \subseteq [Requests -> Entry]
    /\ limitsFile \subseteq Nat
    /\ freezeFile \subseteq BOOLEAN
    /\ restarts \in 0 .. MaxRestarts
    /\ paid \in [Requests -> Nat]
    /\ paidToday \in Nat
    /\ restored \subseteq Requests
    /\ overlapped \in BOOLEAN /\ miscounted \in BOOLEAN

(* The owner's approval, the timer, a retry of either and the direct path  *)
(* together pay a request at most once, and never one whose approval reads *)
(* "denied" or "expired": the answers cannot both win.  Unless a restart   *)
(* read an approval back from a file older than the memory (pending.json   *)
(* is written without waiting): then it may be resolved and paid again.    *)
PaidOnce ==
    \A r \in Requests :
        \/ paid[r] <= (IF entry[r].status \in {"denied", "expired"} THEN 0 ELSE 1)
        \/ r \in restored

(* A payment of a tier that needs the owner has the owner's approval: no   *)
(* timer and no other path pays it.                                        *)
OwnerGates ==
    \A r \in Requests :
        paid[r] > 0 /\ verdict[r] \in {"approve", "confirm-code"} =>
            entry[r].by = "owner" \/ entry[r] = NoEntry \/ r \in restored

(* What leaves the wallet in a day exceeds dailyMax by at most one fee, as *)
(* long as no request is admitted while an admitted one is still uncounted *)
(* (evaluate() reserves nothing), and no payment escapes the tracker (a    *)
(* broadcast reported as failed, a lost save).                             *)
LimitHolds == ~overlapped /\ ~miscounted => paidToday <= DailyMax + MaxFee

(* README.md:332: freezing stops all outbound transactions immediately.    *)
FreezeStopsSends ==
    [][\A r \in Requests :
          frozen /\ stage[r] # "sending" => stage'[r] # "sending"]_vars

(* Every request is settled: an unanswered approval is expired or executed *)
(* by the timer, one failed send does not hold up the others of its list,  *)
(* and a restart leaves nothing hanging.                                   *)
RequestsSettle ==
    \A r \in Requests : stage[r] # "new" ~> stage[r] \in {"finished", "failed", "rejected"}
=============================================================================
