-------------------------- MODULE SpendPolicyProofs --------------------------
(* Theorems about SpendPolicy, for every set of requests, every policy     *)
(* configuration and every number of restarts.                             *)
EXTENDS SpendPolicy, TLAPS

USE DEF history, files, queueFile

(* What cleanup() leaves of an entry: the entry, or nothing of a resolved  *)
(* one.                                                                    *)
Kept(now, before) ==
    now = before \/ (now = NoEntry /\ before.status \notin {"absent", "pending"})

LEMMA SaveTypes ==
  ASSUME TypeOK, NEW e \in [Requests -> Entry], NEW calls \in SUBSET SUBSET Requests, Save(e, calls)
  PROVE  saving' \subseteq SUBSET Requests /\ approvalFile' \subseteq [Requests -> Entry]
  BY DEF TypeOK, Save, Entry, Status, NoEntry, EmptyQueue

LEMMA UpdateTypes ==
  ASSUME TypeOK, NEW e \in [Requests -> Entry], Update(e)
  PROVE  /\ entry' = e
         /\ saving' \subseteq SUBSET Requests
         /\ approvalFile' \subseteq [Requests -> Entry]
<1>1. Save(e, {Keys(e)}) /\ {Keys(e)} \in SUBSET SUBSET Requests
  BY DEF Update, Keys
<1> QED
  BY <1>1, SaveTypes DEF Update

LEMMA CleanUpTypes ==
  ASSUME TypeOK, NEW e \in [Requests -> Entry], NEW calls \in SUBSET SUBSET Requests,
         CleanUpAfter(e, calls)
  PROVE  /\ entry' \in [Requests -> Entry]
         /\ \A r \in Requests : Kept(entry'[r], e[r])
         /\ saving' \subseteq SUBSET Requests
         /\ approvalFile' \subseteq [Requests -> Entry]
<1>1. PICK gone \in SUBSET Resolved(e) :
        entry' = [r \in Requests |-> IF r \in gone THEN NoEntry ELSE e[r]]
  BY DEF CleanUpAfter, CleanedUp
<1>2. entry' \in [Requests -> Entry]
  BY <1>1 DEF Entry, Status, NoEntry
<1>3. \A r \in Requests : Kept(entry'[r], e[r])
  BY <1>1 DEF Kept, Resolved
<1> DEFINE more == IF entry' # e THEN {Keys(entry')} ELSE {}
<1>4. more \in SUBSET SUBSET Requests
  BY DEF Keys
<1>5. Save(entry', calls \cup more)
  BY DEF CleanUpAfter
<1> QED
  BY <1>2, <1>3, <1>4, <1>5, SaveTypes

LEMMA AfterSendTypes ==
  ASSUME TypeOK, NEW r \in Requests, NEW e \in [Requests -> Entry],
         NEW calls \in SUBSET SUBSET Requests, AfterSend(r, e, calls)
  PROVE  /\ entry' \in [Requests -> Entry]
         /\ \A q \in Requests : Kept(entry'[q], e[q])
         /\ saving' \subseteq SUBSET Requests
         /\ approvalFile' \subseteq [Requests -> Entry]
<1>1. CASE CleanUpAfter(e, calls)
  BY <1>1, CleanUpTypes
<1>2. CASE entry' = e /\ Save(e, calls)
  BY <1>2, SaveTypes DEF Kept
<1> QED
  BY <1>1, <1>2 DEF AfterSend

LEMMA SetStatusType ==
  ASSUME TypeOK, NEW r \in Requests, NEW s \in Status, NEW by \in {"none", "owner", "timeout"}
  PROVE  SetStatus(r, s, by) \in [Requests -> Entry]
  BY DEF TypeOK, SetStatus, Entry

(* What the end of a send does to the entries: those of other requests and *)
(* of a direct send are kept or cleaned up, an approval becomes executed.  *)
LEMMA SendReturnsEntry ==
  ASSUME TypeOK, NEW r \in Requests, SendReturns(r)
  PROVE  /\ entry' \in [Requests -> Entry]
         /\ \A q \in Requests :
              \/ Kept(entry'[q], entry[q])
              \/ q = r /\ entry[q] # NoEntry /\ entry'[q] = [status |-> "executed", by |-> entry[q].by]
              \/ q = r /\ entry'[q] = NoEntry
         /\ saving' \subseteq SUBSET Requests
         /\ approvalFile' \subseteq [Requests -> Entry]
<1>1. CASE entry[r] = NoEntry
  <2>1. entry \in [Requests -> Entry] /\ AfterSend(r, entry, {})
    BY <1>1 DEF SendReturns, TypeOK
  <2> QED
    BY <2>1, AfterSendTypes
<1>2. CASE entry[r] # NoEntry
  <2> DEFINE e == SetStatus(r, "executed", entry[r].by)
  <2>1. entry[r].by \in {"none", "owner", "timeout"}
    BY DEF TypeOK, Entry
  <2>2. e \in [Requests -> Entry]
    BY <2>1, SetStatusType DEF Status
  <2>3. AfterSend(r, e, {Keys(entry)}) /\ {Keys(entry)} \in SUBSET SUBSET Requests
    BY <1>2 DEF SendReturns, Keys
  <2>4. \A q \in Requests : e[q] = IF q = r THEN [status |-> "executed", by |-> entry[q].by]
                                   ELSE entry[q]
    BY DEF SetStatus, TypeOK
  <2> HIDE DEF e
  <2>5. \A q \in Requests : Kept(entry'[q], e[q])
    BY <2>2, <2>3, AfterSendTypes
  <2>6. ASSUME NEW q \in Requests, q # r PROVE Kept(entry'[q], entry[q])
    BY <2>4, <2>5, <2>6
  <2>7. entry'[r] = e[r] \/ entry'[r] = NoEntry
    BY <2>5 DEF Kept
  <2>8. e[r] = [status |-> "executed", by |-> entry[r].by]
    BY <2>4
  <2>9. \A q \in Requests :
          \/ Kept(entry'[q], entry[q])
          \/ q = r /\ entry[q] # NoEntry /\ entry'[q] = [status |-> "executed", by |-> entry[q].by]
          \/ q = r /\ entry'[q] = NoEntry
    BY <1>2, <2>6, <2>7, <2>8
  <2> QED
    BY <2>2, <2>3, <2>9, AfterSendTypes
<1> QED
  BY <1>1, <1>2

LEMMA SendThrowsEntry ==
  ASSUME TypeOK, NEW r \in Requests, SendThrows(r)
  PROVE  /\ entry' \in [Requests -> Entry]
         /\ \A q \in Requests : Kept(entry'[q], entry[q])
         /\ saving' \subseteq SUBSET Requests
         /\ approvalFile' \subseteq [Requests -> Entry]
<1>1. entry \in [Requests -> Entry] /\ AfterSend(r, entry, {})
  BY DEF SendThrows, TypeOK
<1> QED
  BY <1>1, AfterSendTypes

(* expire(), and the cleanup() that follows when no approval was delayed.  *)
LEMMA ExpiryEntry ==
  ASSUME TypeOK, ExpiryTick
  PROVE  /\ entry' \in [Requests -> Entry]
         /\ \A r \in Requests :
              IF r \in due /\ entry[r].status = "pending"
              THEN IF verdict[r] = "delay"
                   THEN entry'[r] = [status |-> "approved", by |-> "timeout"] /\ stage'[r] = "listed"
                   ELSE Kept(entry'[r], [status |-> "expired", by |-> "none"]) /\ stage'[r] = "rejected"
              ELSE Kept(entry'[r], entry[r]) /\ stage'[r] = stage[r]
         /\ saving' \subseteq SUBSET Requests
         /\ approvalFile' \subseteq [Requests -> Entry]
<1> DEFINE timedOut == {r \in due : entry[r].status = "pending"}
           delayed == {r \in timedOut : AutoApproves(r)}
           decided == [r \in Requests |->
              IF r \in delayed THEN [status |-> "approved", by |-> "timeout"]
              ELSE IF r \in timedOut THEN [status |-> "expired", by |-> "none"]
              ELSE entry[r]]
<1>1. decided \in [Requests -> Entry]
  BY DEF TypeOK, Entry, Status
<1>2. /\ stage' = [r \in Requests |-> IF r \in delayed THEN "listed"
                                      ELSE IF r \in timedOut THEN "rejected" ELSE stage[r]]
      /\ IF delayed # {} THEN Update(decided) ELSE CleanUpAfter(decided, {})
  BY DEF ExpiryTick
<1>3. \A r \in Requests : decided[r] = IF r \in due /\ entry[r].status = "pending"
         THEN IF verdict[r] = "delay" THEN [status |-> "approved", by |-> "timeout"]
              ELSE [status |-> "expired", by |-> "none"]
         ELSE entry[r]
  BY DEF AutoApproves
<1>4. \A r \in Requests : stage'[r] = IF r \in due /\ entry[r].status = "pending"
         THEN IF verdict[r] = "delay" THEN "listed" ELSE "rejected"
         ELSE stage[r]
  BY <1>2 DEF AutoApproves
<1>5. \A r \in delayed : r \in due /\ entry[r].status = "pending" /\ verdict[r] = "delay"
  BY DEF AutoApproves
<1>6. \A r \in Requests : r \in due /\ entry[r].status = "pending" /\ verdict[r] = "delay" => r \in delayed
  BY DEF AutoApproves
<1> HIDE DEF decided, delayed, timedOut
<1>7. CASE delayed # {}
  <2>1. /\ entry' = decided /\ saving' \subseteq SUBSET Requests
        /\ approvalFile' \subseteq [Requests -> Entry]
    BY <1>1, <1>2, <1>7, UpdateTypes
  <2> QED
    BY <1>1, <1>3, <1>4, <2>1 DEF Kept
<1>8. CASE delayed = {}
  <2>1. /\ entry' \in [Requests -> Entry] /\ saving' \subseteq SUBSET Requests
        /\ approvalFile' \subseteq [Requests -> Entry]
        /\ \A r \in Requests : Kept(entry'[r], decided[r])
    BY <1>1, <1>2, <1>8, CleanUpTypes
  <2> QED
    BY <1>3, <1>4, <1>6, <1>8, <2>1
<1> QED
  BY <1>7, <1>8

-----------------------------------------------------------------------------
(* Types *)

LEMMA AmountType == \A r \in Requests : Amount[r] \in Nat
  BY PolicyAssumption

LEMMA TypeInit == Init => TypeOK
<1> SUFFICES ASSUME Init PROVE TypeOK
  OBVIOUS
<1>1. EmptyQueue \in [Requests -> Entry]
  BY DEF EmptyQueue, NoEntry, Entry, Status
<1>2. fee \in [Requests -> 0 .. MaxFee] /\ restarts \in 0 .. MaxRestarts
  BY PolicyAssumption DEF Init
<1>3. stage \in [Requests -> Stage] /\ verdict \in [Requests -> SpendAction]
  BY DEF Init, Stage, SpendAction
<1>4. entry \in [Requests -> Entry] /\ approvalFile \subseteq [Requests -> Entry]
  BY <1>1 DEF Init
<1>5. /\ batch \in [Requests -> SUBSET Requests] /\ paid \in [Requests -> Nat]
      /\ due \subseteq Requests /\ saving \subseteq SUBSET Requests /\ restored \subseteq Requests
  BY DEF Init
<1>6. spent \in Nat /\ paidToday \in Nat /\ limitsFile \subseteq Nat
  BY DEF Init
<1>7. /\ frozen \in BOOLEAN /\ overlapped \in BOOLEAN /\ miscounted \in BOOLEAN
      /\ freezeFile \subseteq BOOLEAN
  BY Zenon DEF Init
<1> QED
  BY <1>2, <1>3, <1>4, <1>5, <1>6, <1>7 DEF TypeOK

LEMMA VerdictType ==
  ASSUME TypeOK, NEW r \in Requests
  PROVE  Verdicts(r) \subseteq SpendAction
  BY DEF Verdicts, TierAction, SpendAction

LEMMA TypeStep == TypeOK /\ [Next]_vars => TypeOK'
<1> SUFFICES ASSUME TypeOK, [Next]_vars PROVE TypeOK'
  OBVIOUS
<1> USE DEF Stage
<1>1. ASSUME NEW r \in Requests, Evaluate(r) PROVE TypeOK'
  BY <1>1, VerdictType DEF TypeOK, Evaluate
<1>2. ASSUME NEW r \in Requests, Dispatch(r) PROVE TypeOK'
  <2>1. CASE verdict[r] = "deny" \/ verdict[r] \in {"auto", "notify"}
    BY <1>2, <2>1 DEF TypeOK, Dispatch
  <2>2. CASE ~(verdict[r] = "deny" \/ verdict[r] \in {"auto", "notify"})
    <3>1. Update(SetStatus(r, "pending", "none"))
      BY <1>2, <2>2 DEF Dispatch
    <3>2. SetStatus(r, "pending", "none") \in [Requests -> Entry]
      BY SetStatusType DEF Status
    <3>3. /\ entry' \in [Requests -> Entry] /\ saving' \subseteq SUBSET Requests
          /\ approvalFile' \subseteq [Requests -> Entry]
      BY <3>1, <3>2, UpdateTypes
    <3> QED
      BY <1>2, <2>2, <3>3 DEF TypeOK, Dispatch
  <2> QED
    BY <2>1, <2>2
<1>3. ASSUME NEW r \in Requests, Approve(r) PROVE TypeOK'
  <2>1. Update(SetStatus(r, "approved", "owner"))
    BY <1>3 DEF Approve
  <2> QED
    BY <1>3, <2>1, SetStatusType, UpdateTypes, ZenonT(60) DEF TypeOK, Approve, Status
<1>4. ASSUME NEW r \in Requests, ApprovedSend(r) PROVE TypeOK'
  BY <1>4 DEF TypeOK, ApprovedSend
<1>5. ASSUME NEW r \in Requests, Deny(r) PROVE TypeOK'
  <2>1. Update(SetStatus(r, "denied", "owner"))
    BY <1>5 DEF Deny
  <2> QED
    BY <1>5, <2>1, SetStatusType, UpdateTypes, ZenonT(60) DEF TypeOK, Deny, Status
<1>6. ASSUME NEW r \in Requests, BecomesDue(r) PROVE TypeOK'
  BY <1>6 DEF TypeOK, BecomesDue
<1>7. ASSUME NEW r \in Requests, TimedSend(r) PROVE TypeOK'
  BY <1>7 DEF TypeOK, TimedSend
<1>8. ASSUME NEW r \in Requests, Broadcast(r) PROVE TypeOK'
  <2>1. PICK f \in 0 .. MaxFee : fee' = [fee EXCEPT ![r] = f] /\ paidToday' = paidToday + Amount[r] + f
    BY <1>8 DEF Broadcast
  <2>2. paidToday' \in Nat /\ fee' \in [Requests -> 0 .. MaxFee]
    BY <2>1, AmountType, PolicyAssumption DEF TypeOK
  <2>3. paid' \in [Requests -> Nat] /\ stage' \in [Requests -> Stage]
    BY <1>8 DEF TypeOK, Broadcast
  <2> QED
    BY <1>8, <2>2, <2>3 DEF TypeOK, Broadcast
<1>9. ASSUME NEW r \in Requests, SendSucceeds(r) PROVE TypeOK'
  <2>1. fee[r] \in Nat
    BY PolicyAssumption DEF TypeOK
  <2>2. spent' \in Nat
    BY <1>9, <2>1, AmountType DEF TypeOK, SendSucceeds, RecordSpend
  <2> QED
    BY <1>9, <2>2 DEF TypeOK, SendSucceeds
<1>10. ASSUME NEW r \in Requests, SendReturns(r) PROVE TypeOK'
  BY <1>10, SendReturnsEntry DEF TypeOK, SendReturns
<1>11. ASSUME NEW r \in Requests, SendThrows(r) PROVE TypeOK'
  BY <1>11, SendThrowsEntry DEF TypeOK, SendThrows
<1>12. ASSUME ExpiryTick PROVE TypeOK'
  <2>1. stage' \in [Requests -> Stage] /\ batch' \in [Requests -> SUBSET Requests]
    BY <1>12 DEF TypeOK, ExpiryTick
  <2>2. /\ entry' \in [Requests -> Entry] /\ saving' \subseteq SUBSET Requests
        /\ approvalFile' \subseteq [Requests -> Entry]
    BY <1>12, ExpiryEntry
  <2>3. UNCHANGED <<verdict, due, frozen, spent, fee, limitsFile, freezeFile, restarts, history>>
    BY <1>12 DEF ExpiryTick
  <2> QED
    BY <2>1, <2>2, <2>3 DEF TypeOK
<1>13. ASSUME NEW f \in BOOLEAN, SetFreeze(f) PROVE TypeOK'
  BY <1>13 DEF TypeOK, SetFreeze
<1>14. ASSUME Midnight PROVE TypeOK'
  BY <1>14 DEF TypeOK, Midnight
<1>15. ASSUME Restart PROVE TypeOK'
  BY <1>15, PolicyAssumption DEF TypeOK, Restart
<1>16. ASSUME UNCHANGED vars PROVE TypeOK'
  BY <1>16 DEF TypeOK, vars
<1> QED
  BY <1>1, <1>2, <1>3, <1>4, <1>5, <1>6, <1>7, <1>8, <1>9, <1>10, <1>11, <1>12, <1>13, <1>14,
     <1>15, <1>16 DEF Next, RequestStep

(* The declared types hold in every reachable state.                       *)
THEOREM TypeCorrect == Spec => []TypeOK
  BY TypeInit, TypeStep, PTL DEF Spec

-----------------------------------------------------------------------------
(* Who is paid, and why *)

(* Stages from which a payment is still to come, or may be.                *)
Unpaid == {"new", "evaluated", "queued", "approved", "listed", "sending"}

(* Stages a request reaches by an approval or on the direct path.          *)
Cleared == {"approved", "listed", "sending", "broadcast", "sent"}

(* A pending approval belongs to a request that waits in the queue.        *)
PendingIsQueued == \A r \in Requests : entry[r].status = "pending" => stage[r] = "queued"

(* A request that no restart turned back is paid by its last stage only.   *)
PaidByStage ==
    \A r \in Requests \ restored :
        paid[r] <= 1 /\ (stage[r] \in Unpaid => paid[r] = 0)

(* A refused request rests, unpaid.                                        *)
RefusedRests ==
    \A r \in Requests \ restored :
        entry[r].status \in {"denied", "expired"} => stage[r] = "rejected" /\ paid[r] = 0

(* A request of an owner's tier is cleared, and paid, by the owner only.   *)
ClearedByOwner ==
    \A r \in Requests \ restored :
        verdict[r] \in {"approve", "confirm-code"} /\ (stage[r] \in Cleared \/ paid[r] > 0) =>
            entry[r].by = "owner" \/ entry[r] = NoEntry

PaymentInvariant == PendingIsQueued /\ PaidByStage /\ RefusedRests /\ ClearedByOwner

LEMMA PaymentInit == Init => PaymentInvariant
  BY DEF Init, PaymentInvariant, PendingIsQueued, PaidByStage, RefusedRests, ClearedByOwner,
         EmptyQueue, NoEntry, Unpaid, Cleared

LEMMA PaymentStep == TypeOK /\ PaymentInvariant /\ [Next]_vars => PaymentInvariant'
<1> SUFFICES ASSUME TypeOK, PaymentInvariant, [Next]_vars PROVE PaymentInvariant'
  OBVIOUS
<1> USE DEF PaymentInvariant, PendingIsQueued, PaidByStage, RefusedRests, ClearedByOwner,
            Unpaid, Cleared
<1>1. ASSUME NEW r \in Requests, Evaluate(r) PROVE PaymentInvariant'
  BY <1>1 DEF TypeOK, Evaluate
<1>2. ASSUME NEW r \in Requests, Dispatch(r) PROVE PaymentInvariant'
  <2>1. CASE verdict[r] = "deny" \/ verdict[r] \in {"auto", "notify"}
    BY <1>2, <2>1 DEF TypeOK, Dispatch
  <2>2. CASE ~(verdict[r] = "deny" \/ verdict[r] \in {"auto", "notify"})
    BY <1>2, <2>2 DEF TypeOK, Dispatch, Update, SetStatus
  <2> QED
    BY <2>1, <2>2
<1>3. ASSUME NEW r \in Requests, Approve(r) PROVE PaymentInvariant'
  BY <1>3 DEF TypeOK, Approve, Update, SetStatus
<1>4. ASSUME NEW r \in Requests, ApprovedSend(r) PROVE PaymentInvariant'
  BY <1>4 DEF TypeOK, ApprovedSend
<1>5. ASSUME NEW r \in Requests, Deny(r) PROVE PaymentInvariant'
  BY <1>5 DEF TypeOK, Deny, Update, SetStatus
<1>6. ASSUME NEW r \in Requests, BecomesDue(r) PROVE PaymentInvariant'
  BY <1>6 DEF TypeOK, BecomesDue
<1>7. ASSUME NEW r \in Requests, TimedSend(r) PROVE PaymentInvariant'
  BY <1>7 DEF TypeOK, TimedSend
<1>8. ASSUME NEW r \in Requests, Broadcast(r) PROVE PaymentInvariant'
  BY <1>8 DEF TypeOK, Broadcast
<1>9. ASSUME NEW r \in Requests, SendSucceeds(r) PROVE PaymentInvariant'
  BY <1>9 DEF TypeOK, SendSucceeds
<1>10. ASSUME NEW r \in Requests, SendReturns(r) PROVE PaymentInvariant'
  <2>1. stage[r] = "sent" /\ stage' = [stage EXCEPT ![r] = "finished"]
    BY <1>10 DEF SendReturns
  <2>2. UNCHANGED <<verdict, history>>
    BY <1>10 DEF SendReturns
  <2>3. \A q \in Requests :
          \/ Kept(entry'[q], entry[q])
          \/ q = r /\ entry[q] # NoEntry /\ entry'[q] = [status |-> "executed", by |-> entry[q].by]
          \/ q = r /\ entry'[q] = NoEntry
    BY <1>10, SendReturnsEntry
  <2>4. \A q \in Requests :
          \/ entry'[q] = entry[q]
          \/ entry'[q] = NoEntry
          \/ q = r /\ entry[q] # NoEntry /\ entry'[q].status = "executed" /\ entry'[q].by = entry[q].by
    <3> SUFFICES ASSUME NEW q \in Requests
                 PROVE  \/ entry'[q] = entry[q]
                        \/ entry'[q] = NoEntry
                        \/ q = r /\ entry[q] # NoEntry /\ entry'[q].status = "executed" /\ entry'[q].by = entry[q].by
      OBVIOUS
    <3>1. CASE Kept(entry'[q], entry[q])
      BY <3>1 DEF Kept
    <3>2. CASE q = r /\ entry[q] # NoEntry /\ entry'[q] = [status |-> "executed", by |-> entry[q].by]
      BY <3>2
    <3>3. CASE q = r /\ entry'[q] = NoEntry
      BY <3>3
    <3> QED
      BY <2>3, <3>1, <3>2, <3>3
  <2>5. NoEntry.status = "absent" /\ \A q \in Requests \ {r} : stage'[q] = stage[q]
    BY <2>1 DEF TypeOK, NoEntry
  <2>6. stage'[r] = "finished"
    BY <2>1 DEF TypeOK
  <2>7. PendingIsQueued'
    BY <2>1, <2>4, <2>5
  <2>8. PaidByStage'
    BY <2>1, <2>2 DEF TypeOK
  <2>9. RefusedRests'
    BY <2>1, <2>2, <2>4, <2>5
  <2>10. ClearedByOwner'
    BY <2>1, <2>2, <2>4, <2>5, <2>6
  <2> QED
    BY <2>7, <2>8, <2>9, <2>10
<1>11. ASSUME NEW r \in Requests, SendThrows(r) PROVE PaymentInvariant'
  <2>1. stage[r] \in {"sending", "broadcast"} /\ stage' = [stage EXCEPT ![r] = "failed"]
    BY <1>11 DEF SendThrows
  <2>2. UNCHANGED <<verdict, paid, restored>>
    BY <1>11 DEF SendThrows
  <2>3. \A q \in Requests : Kept(entry'[q], entry[q])
    BY <1>11, SendThrowsEntry
  <2>4. PendingIsQueued'
    BY <2>1, <2>3 DEF TypeOK, Kept, NoEntry
  <2>5. PaidByStage'
    BY <2>1, <2>2 DEF TypeOK
  <2>6. RefusedRests'
    BY <2>1, <2>2, <2>3 DEF TypeOK, Kept, NoEntry
  <2>7. ClearedByOwner'
    BY <2>1, <2>2, <2>3 DEF TypeOK, Kept
  <2> QED
    BY <2>4, <2>5, <2>6, <2>7
<1>12. ASSUME ExpiryTick PROVE PaymentInvariant'
  <2>1. UNCHANGED <<verdict, history>>
    BY <1>12 DEF ExpiryTick
  <2> QED
    BY <1>12, <2>1, ExpiryEntry DEF TypeOK, Kept, NoEntry
<1>13. ASSUME NEW f \in BOOLEAN, SetFreeze(f) PROVE PaymentInvariant'
  BY <1>13 DEF SetFreeze
<1>14. ASSUME Midnight PROVE PaymentInvariant'
  BY <1>14 DEF Midnight
<1>15. ASSUME Restart PROVE PaymentInvariant'
  BY <1>15 DEF TypeOK, Restart
<1>16. ASSUME UNCHANGED vars PROVE PaymentInvariant'
  BY <1>16 DEF vars
<1> QED
  BY <1>1, <1>2, <1>3, <1>4, <1>5, <1>6, <1>7, <1>8, <1>9, <1>10, <1>11, <1>12, <1>13, <1>14,
     <1>15, <1>16 DEF Next, RequestStep

LEMMA PaymentInvariantHolds == Spec => [](TypeOK /\ PaymentInvariant)
  BY TypeInit, TypeStep, PaymentInit, PaymentStep, PTL DEF Spec

(* No request is paid twice, or after a refusal, but for a restart that    *)
(* turned its approval back to an older file.                              *)
THEOREM PaidAtMostOnce == Spec => []PaidOnce
<1>1. TypeOK /\ PaymentInvariant => PaidOnce
  BY DEF PaymentInvariant, PaidByStage, RefusedRests, PaidOnce
<1> QED
  BY <1>1, PaymentInvariantHolds, PTL

(* Payments of the owner's tiers carry the owner's approval.               *)
THEOREM OwnerGatesHold == Spec => []OwnerGates
<1>1. TypeOK /\ PaymentInvariant => OwnerGates
  BY DEF PaymentInvariant, ClearedByOwner, OwnerGates
<1> QED
  BY <1>1, PaymentInvariantHolds, PTL

-----------------------------------------------------------------------------
(* The daily limit *)

(* As long as admitted requests did not overlap, at most one is uncounted. *)
OneUncounted == ~overlapped => \A r, q \in Uncounted : r = q

(* What was paid today is counted, or is the one payment in flight; what   *)
(* is counted stays below the limit with room for the one admitted.        *)
Accounts ==
    ~overlapped /\ ~miscounted =>
        /\ spent <= DailyMax + MaxFee
        /\ \A r \in Uncounted : spent + Amount[r] <= DailyMax
        /\ \A r \in Requests : stage[r] = "broadcast" => paidToday <= spent + Amount[r] + fee[r]
        /\ (\A r \in Requests : stage[r] # "broadcast") => paidToday <= spent

LimitInvariant == OneUncounted /\ Accounts

LEMMA LimitInit == Init => LimitInvariant
  BY PolicyAssumption DEF Init, LimitInvariant, OneUncounted, Accounts, Uncounted

(* Steps that admit nobody and leave the accounts alone.                   *)
LEMMA LimitKept ==
  ASSUME LimitInvariant, Uncounted' \subseteq Uncounted,
         UNCHANGED <<spent, fee, paidToday, overlapped>>,
         miscounted => miscounted',
         \A r \in Requests : ~miscounted' => (stage[r] = "broadcast" <=> stage'[r] = "broadcast")
  PROVE  LimitInvariant'
  BY DEF LimitInvariant, OneUncounted, Accounts

LEMMA LimitStep == TypeOK /\ PaymentInvariant /\ LimitInvariant /\ [Next]_vars => LimitInvariant'
<1> SUFFICES ASSUME TypeOK, PaymentInvariant, LimitInvariant, [Next]_vars PROVE LimitInvariant'
  OBVIOUS
<1>1. ASSUME NEW r \in Requests, Evaluate(r) PROVE LimitInvariant'
  <2>1. PICK v \in Verdicts(r) : /\ verdict' = [verdict EXCEPT ![r] = v]
                                 /\ overlapped' = (overlapped \/ (v # "deny" /\ Uncounted # {}))
    BY <1>1 DEF Evaluate
  <2>2. CASE v = "deny"
    <3>1. Uncounted' \subseteq Uncounted
      BY <1>1, <2>1, <2>2 DEF TypeOK, Evaluate, Uncounted
    <3> QED
      BY <1>1, <2>1, <2>2, <3>1, LimitKept DEF TypeOK, Evaluate
  <2>3. CASE v # "deny"
    <3>1. spent + Amount[r] <= DailyMax
      <4>1. ~(spent + Amount[r] > DailyMax)
        BY <2>1, <2>3 DEF Verdicts
      <4> QED
        BY <4>1, AmountType, PolicyAssumption DEF TypeOK
    <3>2. ~overlapped' => ~overlapped /\ Uncounted' \subseteq {r}
      BY <1>1, <2>1, <2>3, ZenonT(60) DEF TypeOK, Evaluate, Uncounted
    <3>3. \A q \in Requests : stage[q] = "broadcast" <=> stage'[q] = "broadcast"
      BY <1>1 DEF TypeOK, Evaluate
    <3>4. UNCHANGED <<spent, fee, paidToday, miscounted>>
      BY <1>1 DEF Evaluate
    <3> QED
      BY <3>1, <3>2, <3>3, <3>4 DEF LimitInvariant, OneUncounted, Accounts
  <2> QED
    BY <2>2, <2>3
<1>2. ASSUME NEW r \in Requests, Dispatch(r) PROVE LimitInvariant'
  <2>1. Uncounted' \subseteq Uncounted
    BY <1>2 DEF TypeOK, Dispatch, Uncounted
  <2> QED
    BY <1>2, <2>1, LimitKept DEF TypeOK, Dispatch
<1>3. ASSUME NEW r \in Requests, Approve(r) PROVE LimitInvariant'
  <2>1. Uncounted' \subseteq Uncounted /\ stage[r] = "queued"
    BY <1>3 DEF TypeOK, Approve, Uncounted, PaymentInvariant, PendingIsQueued
  <2> QED
    BY <1>3, <2>1, LimitKept DEF TypeOK, Approve
<1>4. ASSUME NEW r \in Requests, ApprovedSend(r) \/ TimedSend(r) PROVE LimitInvariant'
  <2>1. Uncounted' \subseteq Uncounted
    BY <1>4 DEF TypeOK, ApprovedSend, TimedSend, Uncounted
  <2> QED
    BY <1>4, <2>1, LimitKept DEF TypeOK, ApprovedSend, TimedSend
<1>5. ASSUME NEW r \in Requests, Deny(r) PROVE LimitInvariant'
  <2>1. Uncounted' \subseteq Uncounted /\ stage[r] = "queued"
    BY <1>5 DEF TypeOK, Deny, Uncounted, PaymentInvariant, PendingIsQueued
  <2> QED
    BY <1>5, <2>1, LimitKept DEF TypeOK, Deny
<1>6. ASSUME NEW r \in Requests, BecomesDue(r) PROVE LimitInvariant'
  BY <1>6, LimitKept DEF BecomesDue, Uncounted
<1>7. ASSUME NEW r \in Requests, Broadcast(r) PROVE LimitInvariant'
  <2>1. PICK f \in 0 .. MaxFee : fee' = [fee EXCEPT ![r] = f] /\ paidToday' = paidToday + Amount[r] + f
    BY <1>7 DEF Broadcast
  <2>2. Uncounted' = Uncounted /\ r \in Uncounted
    BY <1>7 DEF TypeOK, Broadcast, Uncounted
  <2>3. ~overlapped => \A q \in Requests : stage[q] # "broadcast"
    BY <1>7, <2>2 DEF Broadcast, Uncounted, LimitInvariant, OneUncounted
  <2>4. stage'[r] = "broadcast" /\ \A q \in Requests \ {r} : stage'[q] = stage[q]
    BY <1>7 DEF TypeOK, Broadcast
  <2>5. fee'[r] = f /\ UNCHANGED <<spent, overlapped, miscounted>>
    BY <1>7, <2>1 DEF TypeOK, Broadcast
  <2>6. OneUncounted'
    BY <2>2, <2>5 DEF LimitInvariant, OneUncounted
  <2>7. ASSUME ~overlapped, ~miscounted
        PROVE  \A q \in Requests : stage'[q] = "broadcast" => paidToday' <= spent' + Amount[q] + fee'[q]
    <3>1. paidToday <= spent /\ \A q \in Requests : stage'[q] = "broadcast" => q = r
      BY <2>3, <2>4, <2>7 DEF LimitInvariant, Accounts
    <3> QED
      BY <2>1, <2>5, <3>1, AmountType DEF TypeOK
  <2> QED
    BY <2>2, <2>4, <2>5, <2>6, <2>7 DEF LimitInvariant, Accounts
<1>8. ASSUME NEW r \in Requests, SendSucceeds(r) PROVE LimitInvariant'
  <2>1. r \in Uncounted /\ Uncounted' = Uncounted \ {r}
    BY <1>8 DEF TypeOK, SendSucceeds, Uncounted
  <2>2. ~overlapped => Uncounted' = {}
    BY <2>1 DEF LimitInvariant, OneUncounted
  <2>3. spent' = spent + Amount[r] + fee[r] /\ fee[r] \in 0 .. MaxFee /\ Amount[r] \in Nat
    BY <1>8, PolicyAssumption DEF TypeOK, SendSucceeds, RecordSpend
  <2>4. ~overlapped => \A q \in Requests : stage'[q] # "broadcast"
    BY <2>2 DEF Uncounted
  <2>5. stage[r] = "broadcast" /\ UNCHANGED <<paidToday, overlapped, miscounted>>
    BY <1>8 DEF SendSucceeds
  <2> QED
    BY <2>1, <2>2, <2>3, <2>4, <2>5, PolicyAssumption
       DEF TypeOK, LimitInvariant, OneUncounted, Accounts
<1>9. ASSUME NEW r \in Requests, SendReturns(r) PROVE LimitInvariant'
  <2>1. Uncounted' \subseteq Uncounted
    BY <1>9 DEF TypeOK, SendReturns, Uncounted
  <2> QED
    BY <1>9, <2>1, LimitKept DEF TypeOK, SendReturns
<1>10. ASSUME NEW r \in Requests, SendThrows(r) PROVE LimitInvariant'
  <2>1. Uncounted' \subseteq Uncounted
    BY <1>10 DEF TypeOK, SendThrows, Uncounted
  <2> QED
    BY <1>10, <2>1, LimitKept DEF TypeOK, SendThrows
<1>11. ASSUME ExpiryTick PROVE LimitInvariant'
  <2>1. UNCHANGED <<verdict, spent, fee, paidToday, overlapped, miscounted>>
    BY <1>11 DEF ExpiryTick
  <2>2. \A q \in Requests : \/ stage'[q] = stage[q]
                            \/ stage[q] = "queued" /\ stage'[q] \in {"listed", "rejected"}
    BY <1>11, ExpiryEntry DEF PaymentInvariant, PendingIsQueued
  <2>3. Uncounted' \subseteq Uncounted
    BY <2>1, <2>2 DEF Uncounted
  <2> QED
    BY <2>1, <2>2, <2>3, LimitKept
<1>12. ASSUME NEW f \in BOOLEAN, SetFreeze(f) PROVE LimitInvariant'
  BY <1>12, LimitKept DEF SetFreeze, Uncounted
<1>13. ASSUME Midnight PROVE LimitInvariant'
  <2>1. Uncounted' = Uncounted
    BY <1>13 DEF Midnight, Uncounted
  <2> QED
    BY <1>13, <2>1, PolicyAssumption DEF Midnight, TypeOK, LimitInvariant, OneUncounted, Accounts, Uncounted
<1>14. ASSUME Restart PROVE LimitInvariant'
  <2>1. ~overlapped' => ~overlapped /\ Uncounted' = {}
    BY <1>14 DEF Restart, TypeOK, Uncounted
  <2>2. ~miscounted' => /\ ~miscounted /\ spent' = spent
                        /\ \A r \in Requests : stage[r] # "broadcast"
    BY <1>14 DEF Restart, TypeOK
  <2>3. ~overlapped' => \A r \in Requests : stage'[r] # "broadcast"
    BY <2>1 DEF Uncounted
  <2>4. UNCHANGED paidToday
    BY <1>14 DEF Restart
  <2> QED
    BY <2>1, <2>2, <2>3, <2>4 DEF LimitInvariant, OneUncounted, Accounts
<1>15. ASSUME UNCHANGED vars PROVE LimitInvariant'
  BY <1>15, LimitKept DEF vars, Uncounted
<1> QED
  BY <1>1, <1>2, <1>3, <1>4, <1>5, <1>6, <1>7, <1>8, <1>9, <1>10, <1>11, <1>12, <1>13, <1>14,
     <1>15 DEF Next, RequestStep

(* Without overlapping admissions and uncounted payments, a day's payments *)
(* exceed the daily limit by at most one fee.                              *)
THEOREM DailyLimitHolds == Spec => []LimitHolds
<1>1. TypeOK /\ LimitInvariant => LimitHolds
  <2> SUFFICES ASSUME TypeOK, LimitInvariant, ~overlapped, ~miscounted
               PROVE  paidToday <= DailyMax + MaxFee
    BY DEF LimitHolds
  <2>1. CASE \A r \in Requests : stage[r] # "broadcast"
    BY <2>1, PolicyAssumption DEF TypeOK, LimitInvariant, Accounts
  <2>2. ASSUME NEW r \in Requests, stage[r] = "broadcast" PROVE paidToday <= DailyMax + MaxFee
    <3>1. r \in Uncounted /\ fee[r] \in 0 .. MaxFee /\ Amount[r] \in Nat
      BY <2>2, PolicyAssumption DEF TypeOK, Uncounted
    <3> QED
      BY <2>2, <3>1, PolicyAssumption DEF TypeOK, LimitInvariant, Accounts
  <2> QED
    BY <2>1, <2>2
<1> QED
  BY <1>1, PaymentInvariantHolds, LimitInit, LimitStep, PTL DEF Spec
=============================================================================
