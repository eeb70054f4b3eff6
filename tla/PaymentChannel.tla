--------------------------- MODULE PaymentChannel ---------------------------
(***************************************************************************)
(* One payment channel of src/qp/channels: the ChannelConsumerManager and  *)
(* the ChannelProviderManager at its two ends, and what their callers      *)
(* carry between them.                                                     *)
(*                                                                         *)
(* Each method runs under the channel's lock and is one action.  Messages  *)
(* are signatures: a signature once returned to a caller may arrive late,  *)
(* twice, out of order or never, so what was signed is a growing set and   *)
(* receiving is choosing from it.  A commitment is its CommitmentState     *)
(* (callCount is the sequence, the timelock a function of it); a signature *)
(* is valid for exactly the transaction it was made for.                   *)
(***************************************************************************)
EXTENDS Integers, FiniteSets

CONSTANTS
    Deposit,      \* ChannelFunding.depositKoinu
    Payments,     \* amounts the consumer may pay
    OpenBlock, TtlBlocks, TimelockGap, \* ChannelParams
    CloseFee,     \* DEFAULT_CLOSE_FEE_KOINU
    DustThreshold \* DUST_THRESHOLD_KOINU

ASSUME ChannelAssumption ==
    /\ Deposit \in Nat /\ CloseFee \in Nat /\ CloseFee < Deposit
    /\ Payments \subseteq Nat \ {0}
    /\ OpenBlock \in Nat /\ TtlBlocks \in Nat \ {0} /\ TimelockGap \in Nat \ {0}
    /\ DustThreshold \in Nat \ {0}

VARIABLES
    cState,       \* the consumer's ChannelRecord: state,
    cLatest,      \*   latestCommitment,
    cComplete,    \*   latestCommitment.isComplete
    pState,       \* the provider's ChannelRecord: state,
    pLatest,      \*   latestCommitment
    cSigned,      \* commitments with a signature of the consumer,
    pSigned,      \*   of the provider
    cSignedClose, \* cooperative closes with a signature of the consumer,
    pSignedClose, \*   of the provider
    closeTx       \* fully signed closes the consumer was given to broadcast

consumer == <<cState, cLatest, cComplete>>
provider == <<pState, pLatest>>
channelVars == <<consumer, provider, cSigned, pSigned, cSignedClose, pSignedClose, closeTx>>

ChannelState == {"none", "created", "funding_pending", "open", "closing", "closed_unilateral"}

-----------------------------------------------------------------------------
(* Commitments *)

(* maxChannelCalls()                                                       *)
MaxCalls == (TtlBlocks \div TimelockGap) - 1

Timelock_ByOne(n) == OpenBlock + TtlBlocks - n

(* calculateTimelock(), which throws at or before the opening block.       *)
Timelock(n) == OpenBlock + TtlBlocks - n * TimelockGap

Commitment == [sequence : Nat, consumerBalance : Nat, providerBalance : Nat]

NoCommitment == [sequence |-> -1, consumerBalance |-> 0, providerBalance |-> 0]

(* createInitialCommitment()                                               *)
InitialCommitment == [sequence |-> 0, consumerBalance |-> Deposit, providerBalance |-> 0]

(* ... its checks, with those of calculateTimelock()                       *)
CanPay(s, k) ==
    /\ k > 0 /\ k <= s.consumerBalance
    /\ s.sequence + 1 <= MaxCalls
    /\ Timelock(s.sequence + 1) > OpenBlock

(* createNextCommitment()                                                  *)
Pay(s, k) == [sequence |-> s.sequence + 1,
              consumerBalance |-> s.consumerBalance - k,
              providerBalance |-> s.providerBalance + k]

-----------------------------------------------------------------------------
(* buildCooperativeCloseTx() *)

Least(a, b) == IF a <= b THEN a ELSE b

(* The consumer's share of the fee, rounded down, and the provider's rest. *)
ProportionalShare(s) ==
    Least((CloseFee * s.consumerBalance) \div (s.consumerBalance + s.providerBalance),
          s.consumerBalance)

ProviderPays(s) == Least(CloseFee - ProportionalShare(s), s.providerBalance)

(* What the provider cannot cover the consumer absorbs.                    *)
ConsumerPays(s) ==
    IF ProportionalShare(s) + ProviderPays(s) < CloseFee
    THEN Least(CloseFee - ProviderPays(s), s.consumerBalance)
    ELSE ProportionalShare(s)

(* An output below the dust threshold is left to the miners.               *)
AboveDust(amount) == IF amount < DustThreshold THEN 0 ELSE amount

CloseOutputs(s) ==
    [toConsumer |-> AboveDust(s.consumerBalance - ConsumerPays(s)),
     toProvider |-> AboveDust(s.providerBalance - ProviderPays(s))]

-----------------------------------------------------------------------------
ChannelInit ==
    /\ cState = "none" /\ cLatest = NoCommitment /\ cComplete = FALSE
    /\ pState = "none" /\ pLatest = NoCommitment
    /\ cSigned = {} /\ pSigned = {}
    /\ cSignedClose = {} /\ pSignedClose = {}
    /\ closeTx = {}

(* createChannel() *)
CreateChannel ==
    /\ cState = "none"
    /\ cState' = "created"
    /\ UNCHANGED <<cLatest, cComplete, provider, cSigned, pSigned, cSignedClose, pSignedClose, closeTx>>

SetFunding_Opens ==
    /\ cState = "created"
    /\ cState' = "open"
    /\ cLatest' = InitialCommitment
    /\ cSigned' = cSigned \cup {InitialCommitment}
    /\ UNCHANGED <<cComplete, provider, pSigned, cSignedClose, pSignedClose, closeTx>>

(* setFunding(), after the funding transaction was broadcast               *)
SetFunding ==
    /\ cState = "created"
    /\ cState' = "funding_pending"
    /\ cLatest' = InitialCommitment
    /\ cSigned' = cSigned \cup {InitialCommitment}
    /\ UNCHANGED <<cComplete, provider, pSigned, cSignedClose, pSignedClose, closeTx>>

(* acceptChannel(), for the channel the consumer announced                 *)
AcceptChannel ==
    /\ pState = "none" /\ cState # "none"
    /\ pState' = "funding_pending"
    /\ UNCHANGED <<consumer, pLatest, cSigned, pSigned, cSignedClose, pSignedClose, closeTx>>

(* signRefundCommitment()                                                  *)
SignRefundCommitment ==
    /\ pState \in {"created", "funding_pending"}
    /\ InitialCommitment \in cSigned
    /\ pSigned' = pSigned \cup {InitialCommitment}
    /\ pLatest' = InitialCommitment
    /\ pState' = "open"
    /\ UNCHANGED <<consumer, cSigned, cSignedClose, pSignedClose, closeTx>>

(* completeRefundAndOpen()                                                 *)
CompleteRefundAndOpen ==
    /\ cState = "funding_pending"
    /\ cLatest \in pSigned
    /\ cComplete' = TRUE
    /\ cState' = "open"
    /\ UNCHANGED <<cLatest, provider, cSigned, pSigned, cSignedClose, pSignedClose, closeTx>>

(* createPayment(): the record is not touched, and nothing keeps a second  *)
(* payment with the same sequence number from being signed.                *)
CreatePayment(k) ==
    /\ cState = "open"
    /\ CanPay(cLatest, k)
    /\ cSigned' = cSigned \cup {Pay(cLatest, k)}
    /\ UNCHANGED <<consumer, provider, pSigned, cSignedClose, pSignedClose, closeTx>>

AcceptPayment_AnySequence(s) ==
    /\ pState = "open"
    /\ s.sequence >= pLatest.sequence
    /\ s \in cSigned
    /\ pSigned' = pSigned \cup {s}
    /\ pLatest' = s
    /\ UNCHANGED <<consumer, pState, cSigned, cSignedClose, pSignedClose, closeTx>>

(* acceptPayment()                                                         *)
AcceptPayment(s) ==
    /\ pState = "open"
    /\ s.sequence = pLatest.sequence + 1
    /\ s.consumerBalance + s.providerBalance = Deposit
    /\ s.providerBalance > pLatest.providerBalance
    /\ CanPay(pLatest, s.providerBalance - pLatest.providerBalance)
    /\ s \in cSigned
    /\ pSigned' = pSigned \cup {s}
    /\ pLatest' = s
    /\ UNCHANGED <<consumer, pState, cSigned, cSignedClose, pSignedClose, closeTx>>

(* acceptPaymentSignature()                                                *)
AcceptPaymentSignature(s) ==
    /\ cState = "open"
    /\ s.sequence = cLatest.sequence + 1
    /\ CanPay(cLatest, s.providerBalance - cLatest.providerBalance)
    /\ s \in pSigned
    /\ cLatest' = s
    /\ UNCHANGED <<cState, cComplete, provider, cSigned, pSigned, cSignedClose, pSignedClose, closeTx>>

(* initiateCooperativeClose()                                              *)
InitiateCooperativeClose ==
    /\ cState = "open"
    /\ cSignedClose' = cSignedClose \cup {CloseOutputs(cLatest)}
    /\ cState' = "closing"
    /\ UNCHANGED <<cLatest, cComplete, provider, cSigned, pSigned, pSignedClose, closeTx>>

SignCooperativeClose_StaysOpen ==
    /\ pLatest # NoCommitment
    /\ pSignedClose' = pSignedClose \cup {CloseOutputs(pLatest)}
    /\ UNCHANGED <<consumer, provider, cSigned, pSigned, cSignedClose, closeTx>>

(* signCooperativeClose(): the state of the record is not looked at, nor   *)
(* is a signature of the consumer.                                         *)
SignCooperativeClose ==
    /\ pLatest # NoCommitment
    /\ pSignedClose' = pSignedClose \cup {CloseOutputs(pLatest)}
    /\ pState' = "closing"
    /\ UNCHANGED <<consumer, pLatest, cSigned, pSigned, cSignedClose, closeTx>>

(* completeCooperativeClose(): the state of the record is not looked at;   *)
(* the signature must fit the close of the consumer's own latest state.    *)
CompleteCooperativeClose ==
    /\ cLatest # NoCommitment
    /\ CloseOutputs(cLatest) \in pSignedClose
    /\ cSignedClose' = cSignedClose \cup {CloseOutputs(cLatest)}
    /\ closeTx' = closeTx \cup {CloseOutputs(cLatest)}
    /\ cState' = "closing"
    /\ UNCHANGED <<cLatest, cComplete, provider, cSigned, pSigned, pSignedClose>>

(* unilateralClose() of the consumer, from any state: what it returns is   *)
(* the latest commitment as it was serialized, before any signature.       *)
ConsumerUnilateralClose ==
    /\ cComplete
    /\ cState' = "closed_unilateral"
    /\ UNCHANGED <<cLatest, cComplete, provider, cSigned, pSigned, cSignedClose, pSignedClose, closeTx>>

(* unilateralClose() of the provider                                       *)
ProviderUnilateralClose ==
    /\ pLatest # NoCommitment
    /\ pState' = "closed_unilateral"
    /\ UNCHANGED <<consumer, pLatest, cSigned, pSigned, cSignedClose, pSignedClose, closeTx>>

ChannelNext ==
    \/ CreateChannel \/ SetFunding \/ CompleteRefundAndOpen
    \/ AcceptChannel \/ SignRefundCommitment
    \/ \E k \in Payments : CreatePayment(k)
    \/ \E s \in cSigned : AcceptPayment(s) \/ AcceptPaymentSignature(s)
    \/ InitiateCooperativeClose \/ SignCooperativeClose \/ CompleteCooperativeClose
    \/ ConsumerUnilateralClose \/ ProviderUnilateralClose

ChannelSpec == ChannelInit /\ [][ChannelNext]_channelVars

-----------------------------------------------------------------------------
(* Properties *)

(* Every variable has its type; no balance is negative.                    *)
ChannelTypeOK ==
    /\ cState \in ChannelState /\ pState \in ChannelState
    /\ cLatest \in Commitment \cup {NoCommitment}
    /\ pLatest \in Commitment \cup {NoCommitment}
    /\ cComplete \in BOOLEAN
    /\ cSigned \subseteq Commitment /\ pSigned \subseteq Commitment
    /\ cSignedClose \subseteq [toConsumer : Int, toProvider : Int]
    /\ pSignedClose \subseteq [toConsumer : Int, toProvider : Int]
    /\ closeTx \subseteq [toConsumer : Int, toProvider : Int]

(* Commitments that could be broadcast.                                    *)
FullySigned == cSigned \cap pSigned

(* "Latest commitment always unlocks first" (SPEC.md:182): of two fully    *)
(* signed commitments the one that pays the provider more is later, and    *)
(* unlocks at least a gap earlier, whatever was lost, repeated or signed   *)
(* twice with one sequence number; all unlock after the channel opened.    *)
LatestUnlocksFirst ==
    \A s \in FullySigned :
        /\ Timelock(s.sequence) > OpenBlock
        /\ \A t \in FullySigned :
              s.providerBalance > t.providerBalance =>
                  /\ s.sequence > t.sequence
                  /\ Timelock(s.sequence) + TimelockGap <= Timelock(t.sequence)

(* One sequence number, one fully signed commitment.                       *)
NoEquivocation == \A s, t \in FullySigned : s.sequence = t.sequence => s = t

(* The two records never drift apart by more than the one payment whose    *)
(* answer is on its way, and only the provider is ahead.                   *)
AtMostOneAhead ==
    cComplete => pLatest.sequence \in {cLatest.sequence, cLatest.sequence + 1}

(* The consumer holds the complete refund before the provider holds a      *)
(* payment.                                                                *)
RefundFirst == pLatest.sequence > 0 => cComplete /\ InitialCommitment \in FullySigned

(* Once the provider has signed a close, it is for the last payment the    *)
(* provider acknowledged, and no later one is acknowledged.                *)
CloseSettlesLatest ==
    \A o \in pSignedClose \cup closeTx : o = CloseOutputs(pLatest)

(* A close pays the fee from the deposit, and besides at most the dust of  *)
(* both outputs; no output is dust.                                        *)
ClosePaysOut ==
    \A o \in cSignedClose \cup pSignedClose :
        /\ o.toConsumer = 0 \/ o.toConsumer >= DustThreshold
        /\ o.toProvider = 0 \/ o.toProvider >= DustThreshold
        /\ o.toConsumer + o.toProvider <= Deposit - CloseFee
        /\ o.toConsumer + o.toProvider >= Deposit - CloseFee - 2 * (DustThreshold - 1)

(* Every close the provider has signed is right in both ways.              *)
ClosesSettle == CloseSettlesLatest /\ ClosePaysOut

(* The channel is the ledger it stands for: the balance the provider       *)
(* acknowledged, the balance the consumer has credited, and the end of     *)
(* payments when the provider signs a close.                               *)
Ledger == INSTANCE ChannelLedger WITH
    Payments <- 1 .. Deposit,
    paid <- pLatest.providerBalance,
    credited <- cLatest.providerBalance,
    settled <- pSignedClose # {}

KeepsLedger == Ledger!Spec
=============================================================================
