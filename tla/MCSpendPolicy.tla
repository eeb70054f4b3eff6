---------------------------- MODULE MCSpendPolicy ----------------------------
(* Instances of SpendPolicy for TLC.                                       *)
EXTENDS SpendPolicy

(* A request is its own amount: 1 micro, 2 medium, 3 large, and so on.     *)
MCAmount == [r \in Requests |-> r]

(* The tiers of the default configuration, their bounds scaled down.       *)
MCTierMax == [t \in TierName \ {"sweep"} |->
    IF t = "micro" THEN 0 ELSE IF t = "small" THEN 1 ELSE IF t = "medium" THEN 3 ELSE 5]

MCApproval == [t \in TierName |->
    IF t = "micro" THEN "auto" ELSE IF t = "small" THEN "auto-logged"
    ELSE IF t = "medium" THEN "notify-delay" ELSE IF t = "large" THEN "owner-required"
    ELSE "owner-confirm-code"]

(* States that differ only in what nothing reads any more are one state:   *)
(* files after the last restart, the fee of a send that is over.           *)
Read == <<stage, verdict, entry, due, batch, frozen, spent,
          [r \in Requests |-> IF stage[r] = "broadcast" THEN fee[r] ELSE 0],
          IF restarts < MaxRestarts THEN files ELSE <<>>, restarts>>

View == <<Read, history>>

(* ... and, where no property is about the limits, their history.          *)
ViewNoLimits == <<Read, paid, restored>>
=============================================================================
