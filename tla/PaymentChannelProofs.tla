------------------------ MODULE PaymentChannelProofs ------------------------
(***************************************************************************)
(* Proofs about PaymentChannel, for every deposit, fee, timelock gap and   *)
(* set of payments.  The argument: the provider signs one commitment per   *)
(* sequence number, each paying more than the one before; the consumer     *)
(* signs at most one number ahead of its own record, so that the           *)
(* provider's record can only be at the consumer's or one ahead of it; and *)
(* nothing is accepted once the provider left the open state, so that a    *)
(* close it signed remains the close of its latest record.                 *)
(***************************************************************************)
EXTENDS PaymentChannel, TLAPS

Conserved(s) == s.consumerBalance + s.providerBalance = Deposit

Payout == [toConsumer : Int, toProvider : Int]

PaysOut(o) ==
    /\ o.toConsumer = 0 \/ o.toConsumer >= DustThreshold
    /\ o.toProvider = 0 \/ o.toProvider >= DustThreshold
    /\ o.toConsumer + o.toProvider <= Deposit - CloseFee
    /\ o.toConsumer + o.toProvider >= Deposit - CloseFee - 2 * (DustThreshold - 1)

-----------------------------------------------------------------------------
(* Arithmetic *)

(* A share of a fee in proportion to a part is at most the fee and at most *)
(* the part.                                                               *)
LEMMA ShareBound ==
    ASSUME NEW f \in Nat, NEW c \in Nat, NEW d \in Nat, f < d, c <= d
    PROVE  /\ (f * c) \div d \in Nat
           /\ (f * c) \div d <= f
           /\ (f * c) \div d <= c
<1> DEFINE q == (f * c) \div d
<1>1. q \in Int /\ f * c \in Nat
  BY SMT
<1>2. d * q <= f * c /\ f * c < d * q + d
  BY SMT
<1>3. q >= 0
  <2>1. ASSUME q <= -1 PROVE FALSE
    <3>1. d * q <= -d
      BY <1>1, <2>1, SMT
    <3> QED BY <1>1, <1>2, <3>1, SMT
  <2> QED BY <1>1, <2>1, SMT
<1>4. q <= f
  <2>1. ASSUME q >= f + 1 PROVE FALSE
    <3>1. d * q >= d * (f + 1)
      BY <1>1, <2>1, SMT
    <3>2. d * (f + 1) = d * f + d /\ f * c <= f * d /\ f * d = d * f
      BY SMT
    <3> QED BY <1>1, <1>2, <3>1, <3>2, SMT
  <2> QED BY <1>1, <2>1, SMT
<1>5. q <= c
  <2>1. ASSUME q >= c + 1 PROVE FALSE
    <3>1. d * q >= d * (c + 1)
      BY <1>1, <2>1, SMT
    <3>2. d * (c + 1) = d * c + d /\ f * c <= d * c
      BY SMT
    <3> QED BY <1>1, <1>2, <3>1, <3>2, SMT
  <2> QED BY <1>1, <2>1, SMT
<1> QED BY <1>1, <1>3, <1>4, <1>5

(* The close of a conserved state pays the whole fee and keeps no dust.    *)
LEMMA CloseOutputsPayOut ==
    ASSUME NEW s \in Commitment, Conserved(s)
    PROVE  CloseOutputs(s) \in Payout /\ PaysOut(CloseOutputs(s))
<1> DEFINE c == s.consumerBalance
           p == s.providerBalance
           share == (CloseFee * c) \div (c + p)
<1>1. c \in Nat /\ p \in Nat /\ c + p = Deposit /\ c <= Deposit
  BY DEF Commitment, Conserved
<1>2. share \in Nat /\ share <= CloseFee /\ share <= c
  BY <1>1, ShareBound, ChannelAssumption
<1>3. ProportionalShare(s) = share
  BY <1>1, <1>2 DEF ProportionalShare, Least
<1> HIDE DEF share
<1>4. /\ ProviderPays(s) \in Nat /\ ProviderPays(s) <= p
      /\ ProviderPays(s) = CloseFee - share \/ (ProviderPays(s) = p /\ p < CloseFee - share)
  BY <1>1, <1>2, <1>3, ChannelAssumption DEF ProviderPays, Least
<1>5. /\ ConsumerPays(s) \in Nat /\ ConsumerPays(s) <= c
      /\ ConsumerPays(s) + ProviderPays(s) = CloseFee
  BY <1>1, <1>2, <1>3, <1>4, ChannelAssumption DEF ConsumerPays, Least
<1>6. \A a \in Nat : /\ AboveDust(a) \in Nat
                     /\ AboveDust(a) = 0 \/ AboveDust(a) >= DustThreshold
                     /\ AboveDust(a) <= a /\ AboveDust(a) >= a - (DustThreshold - 1)
  BY ChannelAssumption DEF AboveDust
<1>7. c - ConsumerPays(s) \in Nat /\ p - ProviderPays(s) \in Nat
  BY <1>1, <1>4, <1>5
<1> QED BY <1>1, <1>5, <1>6, <1>7, ChannelAssumption, <1>4 DEF CloseOutputs, Payout, PaysOut

(* A later commitment unlocks at least a gap earlier.                      *)
LEMMA LaterUnlocksEarlier ==
    ASSUME NEW m \in Nat, NEW n \in Nat, m > n
    PROVE  Timelock(m) + TimelockGap <= Timelock(n)
<1>1. m * TimelockGap >= (n + 1) * TimelockGap
  BY ChannelAssumption, SMT
<1>2. (n + 1) * TimelockGap = n * TimelockGap + TimelockGap
  BY ChannelAssumption, SMT
<1>3. m * TimelockGap \in Int /\ n * TimelockGap \in Int
  BY ChannelAssumption
<1> QED BY <1>1, <1>2, <1>3, ChannelAssumption DEF Timelock

-----------------------------------------------------------------------------
(* The inductive invariant *)

ConsumerRecord ==
    /\ cState \in {"none", "created"} => cLatest = NoCommitment
    /\ cState = "funding_pending" => ~cComplete
    /\ cState = "open" => cComplete
    /\ cComplete => cLatest \in pSigned
    /\ cLatest = NoCommitment => cSigned = {}
    /\ cLatest # NoCommitment => cLatest \in cSigned
    /\ ~cComplete => cSigned \subseteq {InitialCommitment}

ProviderRecord ==
    /\ pState \in {"none", "created", "funding_pending"} => pLatest = NoCommitment
    /\ pState = "open" => pLatest # NoCommitment
    /\ pLatest = NoCommitment => pSigned = {}
    /\ pLatest # NoCommitment => pLatest \in pSigned /\ InitialCommitment \in pSigned
    /\ pSigned \subseteq cSigned

SignedStates ==
    \A s \in cSigned :
        /\ Conserved(s)
        /\ s.sequence <= cLatest.sequence + 1
        /\ s.sequence = 0 \/ Timelock(s.sequence) > OpenBlock

Chain ==
    /\ \A s \in pSigned : s.sequence <= pLatest.sequence
    /\ \A s, t \in pSigned :
          /\ s.sequence = t.sequence => s = t
          /\ s.sequence < t.sequence => s.providerBalance < t.providerBalance

Closes ==
    /\ pSignedClose # {} => pState \in {"closing", "closed_unilateral"}
    /\ closeTx \subseteq pSignedClose
    /\ \A o \in pSignedClose : o = CloseOutputs(pLatest)
    /\ \A o \in cSignedClose \cup pSignedClose : PaysOut(o)

ChannelInv ==
    /\ ChannelTypeOK
    /\ ConsumerRecord
    /\ ProviderRecord
    /\ SignedStates
    /\ Chain
    /\ AtMostOneAhead
    /\ Closes

-----------------------------------------------------------------------------
(* Facts the steps share *)

LEMMA CommitmentFields ==
    ASSUME NEW s \in Commitment
    PROVE  /\ s # NoCommitment
           /\ s.sequence \in Nat /\ s.consumerBalance \in Nat /\ s.providerBalance \in Nat
BY DEF Commitment, NoCommitment

LEMMA InitialFields ==
    /\ InitialCommitment \in Commitment /\ Conserved(InitialCommitment)
    /\ InitialCommitment.sequence = 0 /\ InitialCommitment.providerBalance = 0
    /\ InitialCommitment # NoCommitment
    /\ NoCommitment.sequence = -1 /\ NoCommitment.providerBalance = 0
BY ChannelAssumption DEF InitialCommitment, Commitment, Conserved, NoCommitment

(* A payment that passes the checks leads to a state of the deposit that   *)
(* pays the provider more and still unlocks after the channel opened.      *)
LEMMA PayFields ==
    ASSUME NEW s \in Commitment, NEW k \in Int, Conserved(s), CanPay(s, k)
    PROVE  /\ Pay(s, k) \in Commitment /\ Conserved(Pay(s, k))
           /\ Pay(s, k).sequence = s.sequence + 1
           /\ Timelock(Pay(s, k).sequence) > OpenBlock
BY DEF Pay, CanPay, Conserved, Commitment

(* Before the consumer's refund is complete the provider has no payment.   *)
LEMMA NoPaymentBeforeRefund ==
    ASSUME ConsumerRecord, ProviderRecord, ~cComplete
    PROVE  pLatest \in {NoCommitment, InitialCommitment} /\ pSigned \subseteq {InitialCommitment}
BY DEF ConsumerRecord, ProviderRecord

(* While the consumer is open, what the provider signed next is the        *)
(* provider's latest.                                                      *)
LEMMA NextSignedIsLatest ==
    ASSUME ChannelInv, cComplete, NEW s \in pSigned, s.sequence = cLatest.sequence + 1
    PROVE  s = pLatest
<1>1. cLatest \in pSigned /\ s \in pSigned
  BY DEF ChannelInv, ConsumerRecord
<1>2. pLatest \in pSigned
  BY <1>1 DEF ChannelInv, ProviderRecord
<1>3. s \in Commitment /\ cLatest \in Commitment /\ pLatest \in Commitment
  BY <1>1, <1>2 DEF ChannelInv, ChannelTypeOK
<1>4. s.sequence = pLatest.sequence
  BY <1>1, <1>3, CommitmentFields DEF ChannelInv, Chain, AtMostOneAhead
<1> QED BY <1>2, <1>4 DEF ChannelInv, Chain

(* A payment the provider accepts is the consumer's next, and the records  *)
(* agreed before it.                                                       *)
LEMMA AcceptedIsNext ==
    ASSUME ChannelInv, NEW s \in cSigned, pState = "open",
           s.sequence = pLatest.sequence + 1
    PROVE  /\ cComplete /\ pLatest \in pSigned /\ cLatest = pLatest
           /\ s \in Commitment /\ pLatest \in Commitment
<1>1. pLatest \in pSigned /\ pLatest \in Commitment /\ s \in Commitment
  BY DEF ChannelInv, ProviderRecord, ChannelTypeOK
<1>2. cComplete
  <2> SUFFICES ASSUME ~cComplete PROVE FALSE
    OBVIOUS
  <2>1. s = InitialCommitment
    BY DEF ChannelInv, ConsumerRecord
  <2> QED BY <1>1, <2>1, CommitmentFields, InitialFields
<1>3. cLatest \in pSigned /\ cLatest \in Commitment
  BY <1>2 DEF ChannelInv, ConsumerRecord, ChannelTypeOK
<1>4. cLatest.sequence = pLatest.sequence
  BY <1>1, <1>2, <1>3, CommitmentFields DEF ChannelInv, SignedStates, AtMostOneAhead
<1> QED BY <1>1, <1>2, <1>3, <1>4 DEF ChannelInv, Chain

-----------------------------------------------------------------------------
(* The invariant is inductive: the actions of the consumer *)

LEMMA InitInv == ChannelInit => ChannelInv
BY InitialFields, ChannelAssumption
   DEF ChannelInit, ChannelInv, ChannelTypeOK, ChannelState, ConsumerRecord, ProviderRecord, SignedStates,
       Chain, AtMostOneAhead, Closes

LEMMA CreateChannelInv == ChannelInv /\ CreateChannel => ChannelInv'
BY DEF CreateChannel, provider, ChannelInv, ChannelTypeOK, ChannelState, ConsumerRecord, ProviderRecord,
       SignedStates, Chain, AtMostOneAhead, Closes

LEMMA SetFundingInv == ChannelInv /\ SetFunding => ChannelInv'
<1> SUFFICES ASSUME ChannelInv, SetFunding PROVE ChannelInv'
  OBVIOUS
<1> USE DEF SetFunding, provider
<1>1. cLatest = NoCommitment /\ cSigned = {} /\ pSigned = {} /\ pLatest = NoCommitment /\ ~cComplete
  BY DEF ChannelInv, ConsumerRecord, ProviderRecord
<1>2. ChannelTypeOK'
  BY InitialFields DEF ChannelInv, ChannelTypeOK, ChannelState
<1>3. ConsumerRecord'
  BY <1>1, InitialFields DEF ConsumerRecord
<1>4. ProviderRecord'
  BY <1>1 DEF ChannelInv, ProviderRecord
<1>5. SignedStates'
  BY <1>1, InitialFields DEF SignedStates, Conserved
<1>6. Chain' /\ AtMostOneAhead'
  BY <1>1 DEF Chain, AtMostOneAhead
<1>7. Closes'
  BY DEF ChannelInv, Closes
<1> QED BY <1>2, <1>3, <1>4, <1>5, <1>6, <1>7 DEF ChannelInv

LEMMA CompleteRefundAndOpenInv == ChannelInv /\ CompleteRefundAndOpen => ChannelInv'
<1> SUFFICES ASSUME ChannelInv, CompleteRefundAndOpen PROVE ChannelInv'
  OBVIOUS
<1> USE DEF CompleteRefundAndOpen, provider
<1>1. ChannelTypeOK' /\ ConsumerRecord'
  <2>1. cLatest # NoCommitment
    BY CommitmentFields DEF ChannelInv, ChannelTypeOK
  <2> QED BY <2>1 DEF ChannelInv, ChannelTypeOK, ChannelState, ConsumerRecord
<1>2. ProviderRecord' /\ SignedStates' /\ Chain' /\ Closes'
  BY DEF ChannelInv, ProviderRecord, SignedStates, Chain, Closes
<1>3. AtMostOneAhead'
  <2>1. cLatest = InitialCommitment /\ pLatest = InitialCommitment
    BY NoPaymentBeforeRefund DEF ChannelInv, ConsumerRecord, ProviderRecord
  <2> QED BY <2>1, InitialFields DEF AtMostOneAhead
<1> QED BY <1>1, <1>2, <1>3 DEF ChannelInv

LEMMA CreatePaymentInv ==
    ASSUME NEW k \in Payments
    PROVE  ChannelInv /\ CreatePayment(k) => ChannelInv'
<1> SUFFICES ASSUME ChannelInv, CreatePayment(k) PROVE ChannelInv'
  OBVIOUS
<1> USE DEF CreatePayment, consumer, provider
<1>1. cComplete /\ cLatest \in pSigned /\ cLatest \in Commitment /\ Conserved(cLatest)
  BY DEF ChannelInv, ConsumerRecord, ProviderRecord, ChannelTypeOK, SignedStates
<1>2. /\ Pay(cLatest, k) \in Commitment /\ Conserved(Pay(cLatest, k))
      /\ Pay(cLatest, k).sequence = cLatest.sequence + 1
      /\ Timelock(Pay(cLatest, k).sequence) > OpenBlock
  BY <1>1, PayFields, ChannelAssumption
<1>3. ChannelTypeOK' /\ ConsumerRecord' /\ ProviderRecord'
  BY <1>1, <1>2, CommitmentFields DEF ChannelInv, ChannelTypeOK, ConsumerRecord, ProviderRecord
<1>4. SignedStates'
  BY <1>1, <1>2, CommitmentFields DEF ChannelInv, SignedStates, Conserved
<1>5. Chain' /\ AtMostOneAhead' /\ Closes'
  BY DEF ChannelInv, Chain, AtMostOneAhead, Closes
<1> QED BY <1>3, <1>4, <1>5 DEF ChannelInv

LEMMA AcceptPaymentSignatureInv ==
    ASSUME NEW s \in cSigned
    PROVE  ChannelInv /\ AcceptPaymentSignature(s) => ChannelInv'
<1> SUFFICES ASSUME ChannelInv, AcceptPaymentSignature(s) PROVE ChannelInv'
  OBVIOUS
<1> USE DEF AcceptPaymentSignature, provider
<1>1. cComplete /\ s = pLatest /\ s \in Commitment
  BY NextSignedIsLatest DEF ChannelInv, ConsumerRecord, ChannelTypeOK
<1>2. ChannelTypeOK' /\ ConsumerRecord'
  BY <1>1, CommitmentFields DEF ChannelInv, ChannelTypeOK, ConsumerRecord
<1>3. ProviderRecord' /\ Chain' /\ Closes'
  BY DEF ChannelInv, ProviderRecord, Chain, Closes
<1>4. SignedStates'
  <2>1. cLatest \in Commitment
    BY <1>1 DEF ChannelInv, ConsumerRecord, ChannelTypeOK
  <2>2. \A t \in cSigned : t.sequence \in Nat /\ t.sequence <= cLatest.sequence + 1
    BY CommitmentFields DEF ChannelInv, SignedStates, ChannelTypeOK
  <2> QED BY <1>1, <2>1, <2>2, CommitmentFields DEF ChannelInv, SignedStates, Conserved
<1>5. AtMostOneAhead'
  BY <1>1 DEF AtMostOneAhead
<1> QED BY <1>2, <1>3, <1>4, <1>5 DEF ChannelInv

LEMMA InitiateCooperativeCloseInv == ChannelInv /\ InitiateCooperativeClose => ChannelInv'
<1> SUFFICES ASSUME ChannelInv, InitiateCooperativeClose PROVE ChannelInv'
  OBVIOUS
<1> USE DEF InitiateCooperativeClose, provider
<1>1. CloseOutputs(cLatest) \in Payout /\ PaysOut(CloseOutputs(cLatest))
  <2>1. cLatest \in Commitment /\ Conserved(cLatest)
    BY DEF ChannelInv, ConsumerRecord, ProviderRecord, ChannelTypeOK, SignedStates
  <2> QED BY <2>1, CloseOutputsPayOut
<1>2. ChannelTypeOK'
  BY <1>1 DEF ChannelInv, ChannelTypeOK, ChannelState, Payout
<1>3. ConsumerRecord' /\ ProviderRecord' /\ SignedStates' /\ Chain' /\ AtMostOneAhead'
  BY DEF ChannelInv, ConsumerRecord, ProviderRecord, SignedStates, Chain, AtMostOneAhead
<1>4. Closes'
  BY <1>1 DEF ChannelInv, Closes, PaysOut
<1> QED BY <1>2, <1>3, <1>4 DEF ChannelInv

LEMMA CompleteCooperativeCloseInv == ChannelInv /\ CompleteCooperativeClose => ChannelInv'
<1> SUFFICES ASSUME ChannelInv, CompleteCooperativeClose PROVE ChannelInv'
  OBVIOUS
<1> USE DEF CompleteCooperativeClose, provider
<1>1. ChannelTypeOK'
  BY DEF ChannelInv, ChannelTypeOK, ChannelState
<1>2. ConsumerRecord' /\ ProviderRecord' /\ SignedStates' /\ Chain' /\ AtMostOneAhead'
  BY DEF ChannelInv, ConsumerRecord, ProviderRecord, SignedStates, Chain, AtMostOneAhead
<1>3. Closes'
  BY DEF ChannelInv, Closes, PaysOut
<1> QED BY <1>1, <1>2, <1>3 DEF ChannelInv

LEMMA ConsumerUnilateralCloseInv == ChannelInv /\ ConsumerUnilateralClose => ChannelInv'
<1> SUFFICES ASSUME ChannelInv, ConsumerUnilateralClose PROVE ChannelInv'
  OBVIOUS
<1> USE DEF ConsumerUnilateralClose, provider
<1>1. cLatest \in Commitment
  BY DEF ChannelInv, ConsumerRecord, ChannelTypeOK
<1>2. ChannelTypeOK'
  BY <1>1 DEF ChannelInv, ChannelTypeOK, ChannelState
<1>3. ConsumerRecord' /\ ProviderRecord' /\ SignedStates' /\ Chain' /\ AtMostOneAhead' /\ Closes'
  BY DEF ChannelInv, ConsumerRecord, ProviderRecord, SignedStates, Chain, AtMostOneAhead, Closes
<1> QED BY <1>2, <1>3 DEF ChannelInv

-----------------------------------------------------------------------------
(* The actions of the provider *)

LEMMA AcceptChannelInv == ChannelInv /\ AcceptChannel => ChannelInv'
BY DEF AcceptChannel, consumer, ChannelInv, ChannelTypeOK, ChannelState, ConsumerRecord,
       ProviderRecord, SignedStates, Chain, AtMostOneAhead, Closes

LEMMA SignRefundCommitmentInv == ChannelInv /\ SignRefundCommitment => ChannelInv'
<1> SUFFICES ASSUME ChannelInv, SignRefundCommitment PROVE ChannelInv'
  OBVIOUS
<1> USE DEF SignRefundCommitment, consumer
<1>1. pLatest = NoCommitment /\ pSigned = {} /\ ~cComplete /\ pSignedClose = {} /\ closeTx = {}
  BY DEF ChannelInv, ConsumerRecord, ProviderRecord, Closes
<1>2. ChannelTypeOK'
  BY InitialFields DEF ChannelInv, ChannelTypeOK, ChannelState
<1>3. ConsumerRecord' /\ SignedStates'
  BY <1>1 DEF ChannelInv, ConsumerRecord, SignedStates
<1>4. ProviderRecord'
  BY <1>1, InitialFields DEF ChannelInv, ProviderRecord
<1>5. Chain' /\ AtMostOneAhead'
  BY <1>1, InitialFields DEF Chain, AtMostOneAhead
<1>6. Closes'
  BY <1>1 DEF ChannelInv, Closes
<1> QED BY <1>2, <1>3, <1>4, <1>5, <1>6 DEF ChannelInv

LEMMA AcceptPaymentInv ==
    ASSUME NEW s \in cSigned
    PROVE  ChannelInv /\ AcceptPayment(s) => ChannelInv'
<1> SUFFICES ASSUME ChannelInv, AcceptPayment(s) PROVE ChannelInv'
  OBVIOUS
<1> USE DEF AcceptPayment, consumer
<1>1. /\ cComplete /\ pLatest \in pSigned /\ cLatest = pLatest
      /\ s \in Commitment /\ pLatest \in Commitment
  BY AcceptedIsNext
<1>2. pSignedClose = {} /\ closeTx = {}
  BY DEF ChannelInv, Closes
<1>3. ChannelTypeOK' /\ ConsumerRecord' /\ SignedStates'
  BY <1>1 DEF ChannelInv, ChannelTypeOK, ConsumerRecord, SignedStates
<1>4. ProviderRecord'
  BY <1>1, CommitmentFields DEF ChannelInv, ProviderRecord
<1>5. Chain'
  <2>1. \A t \in pSigned : /\ t.sequence \in Nat /\ t.providerBalance \in Nat
                           /\ t.sequence < s.sequence /\ t.providerBalance < s.providerBalance
    <3> SUFFICES ASSUME NEW t \in pSigned
                 PROVE  /\ t.sequence \in Nat /\ t.providerBalance \in Nat
                        /\ t.sequence < s.sequence /\ t.providerBalance < s.providerBalance
      OBVIOUS
    <3>1. t \in Commitment /\ t.sequence <= pLatest.sequence
      BY DEF ChannelInv, ChannelTypeOK, Chain
    <3>2. t.providerBalance <= pLatest.providerBalance
      BY <1>1, <3>1, CommitmentFields DEF ChannelInv, Chain
    <3> QED BY <1>1, <3>1, <3>2, CommitmentFields
  <2>2. s.sequence \in Nat /\ s.providerBalance \in Nat
    BY <1>1, CommitmentFields
  <2> QED BY <2>1, <2>2 DEF ChannelInv, Chain
<1>6. AtMostOneAhead'
  BY <1>1 DEF AtMostOneAhead
<1>7. Closes'
  BY <1>2 DEF ChannelInv, Closes
<1> QED BY <1>3, <1>4, <1>5, <1>6, <1>7 DEF ChannelInv

LEMMA SignCooperativeCloseInv == ChannelInv /\ SignCooperativeClose => ChannelInv'
<1> SUFFICES ASSUME ChannelInv, SignCooperativeClose PROVE ChannelInv'
  OBVIOUS
<1> USE DEF SignCooperativeClose, consumer
<1>1. CloseOutputs(pLatest) \in Payout /\ PaysOut(CloseOutputs(pLatest))
  <2>1. pLatest \in Commitment /\ Conserved(pLatest)
    BY DEF ChannelInv, ProviderRecord, ChannelTypeOK, SignedStates
  <2> QED BY <2>1, CloseOutputsPayOut
<1>2. ChannelTypeOK'
  BY <1>1 DEF ChannelInv, ChannelTypeOK, ChannelState, Payout
<1>3. ConsumerRecord' /\ ProviderRecord' /\ SignedStates' /\ Chain' /\ AtMostOneAhead'
  BY DEF ChannelInv, ConsumerRecord, ProviderRecord, SignedStates, Chain, AtMostOneAhead
<1>4. Closes'
  BY <1>1 DEF ChannelInv, Closes, PaysOut, CloseOutputs
<1> QED BY <1>2, <1>3, <1>4 DEF ChannelInv

LEMMA ProviderUnilateralCloseInv == ChannelInv /\ ProviderUnilateralClose => ChannelInv'
<1> SUFFICES ASSUME ChannelInv, ProviderUnilateralClose PROVE ChannelInv'
  OBVIOUS
<1> USE DEF ProviderUnilateralClose, consumer
<1>1. pLatest \in Commitment
  BY DEF ChannelInv, ProviderRecord, ChannelTypeOK
<1>2. ChannelTypeOK'
  BY <1>1 DEF ChannelInv, ChannelTypeOK, ChannelState
<1>3. ConsumerRecord' /\ ProviderRecord' /\ SignedStates' /\ Chain' /\ AtMostOneAhead' /\ Closes'
  BY DEF ChannelInv, ConsumerRecord, ProviderRecord, SignedStates, Chain, AtMostOneAhead, Closes
<1> QED BY <1>2, <1>3 DEF ChannelInv

LEMMA StutterInv == ChannelInv /\ UNCHANGED channelVars => ChannelInv'
BY DEF channelVars, consumer, provider, ChannelInv, ChannelTypeOK, ConsumerRecord, ProviderRecord,
       SignedStates, Chain, AtMostOneAhead, Closes

LEMMA InductiveInvariant == ChannelSpec => []ChannelInv
<1>1. ChannelInv /\ [ChannelNext]_channelVars => ChannelInv'
  BY CreateChannelInv, SetFundingInv, CompleteRefundAndOpenInv, CreatePaymentInv,
     AcceptPaymentSignatureInv, InitiateCooperativeCloseInv, CompleteCooperativeCloseInv,
     ConsumerUnilateralCloseInv, AcceptChannelInv, SignRefundCommitmentInv, AcceptPaymentInv,
     SignCooperativeCloseInv, ProviderUnilateralCloseInv, StutterInv
  DEF ChannelNext
<1> QED BY InitInv, <1>1, PTL DEF ChannelSpec

-----------------------------------------------------------------------------
(* The theorems *)

(* The records and signatures of both ends keep their types, and no        *)
(* balance becomes negative (manager.ts, both managers).                   *)
THEOREM TypeCorrect == ChannelSpec => []ChannelTypeOK
BY InductiveInvariant, PTL DEF ChannelInv

(* The provider signs at most one commitment per sequence number, though   *)
(* createPayment() may sign several (manager.ts:757, 398-418).             *)
THEOREM NoEquivocationHolds == ChannelSpec => []NoEquivocation
<1>1. ChannelInv => NoEquivocation
  BY DEF ChannelInv, Chain, NoEquivocation, FullySigned
<1> QED BY InductiveInvariant, <1>1, PTL

(* Of two fully signed commitments the one that pays the provider more     *)
(* unlocks at least a gap earlier (commitment.ts:28, manager.ts:756-765).  *)
THEOREM LatestUnlocksFirstHolds == ChannelSpec => []LatestUnlocksFirst
<1>1. ChannelInv => LatestUnlocksFirst
  <2> SUFFICES ASSUME ChannelInv, NEW s \in FullySigned
               PROVE  /\ Timelock(s.sequence) > OpenBlock
                      /\ \A t \in FullySigned :
                            s.providerBalance > t.providerBalance =>
                                /\ s.sequence > t.sequence
                                /\ Timelock(s.sequence) + TimelockGap <= Timelock(t.sequence)
    BY DEF LatestUnlocksFirst
  <2>1. s \in pSigned /\ s \in cSigned /\ s \in Commitment
    BY DEF FullySigned, ChannelInv, ChannelTypeOK
  <2>2. Timelock(s.sequence) > OpenBlock
    <3>1. CASE s.sequence = 0
      BY <3>1, ChannelAssumption DEF Timelock
    <3>2. CASE s.sequence # 0
      BY <2>1, <3>2 DEF ChannelInv, SignedStates
    <3> QED BY <3>1, <3>2
  <2>3. ASSUME NEW t \in FullySigned, s.providerBalance > t.providerBalance
        PROVE  /\ s.sequence > t.sequence
               /\ Timelock(s.sequence) + TimelockGap <= Timelock(t.sequence)
    <3>1. t \in pSigned /\ t \in Commitment
      BY DEF FullySigned, ChannelInv, ChannelTypeOK
    <3>2. s.sequence > t.sequence
      BY <2>1, <2>3, <3>1, CommitmentFields DEF ChannelInv, Chain
    <3> QED BY <2>1, <3>1, <3>2, CommitmentFields, LaterUnlocksEarlier
  <2> QED BY <2>2, <2>3
<1> QED BY InductiveInvariant, <1>1, PTL

(* The provider's record is the consumer's or the one payment ahead whose  *)
(* answer is still to come (manager.ts:441-446, 756-765).                  *)
THEOREM AtMostOneAheadHolds == ChannelSpec => []AtMostOneAhead
BY InductiveInvariant, PTL DEF ChannelInv

(* No payment is accepted before the consumer holds the complete refund    *)
(* (manager.ts:354-384).                                                   *)
THEOREM RefundFirstHolds == ChannelSpec => []RefundFirst
<1>1. ChannelInv => RefundFirst
  <2> SUFFICES ASSUME ChannelInv, pLatest.sequence > 0
               PROVE  cComplete /\ InitialCommitment \in FullySigned
    BY DEF RefundFirst
  <2>1. cComplete
    BY NoPaymentBeforeRefund, InitialFields DEF ChannelInv
  <2>2. pLatest # NoCommitment
    BY InitialFields
  <2> QED BY <2>1, <2>2 DEF ChannelInv, ProviderRecord, FullySigned
<1> QED BY InductiveInvariant, <1>1, PTL

(* A close the provider signed stays the close of the last payment it      *)
(* acknowledged (manager.ts:752, 809-834).                                 *)
THEOREM CloseSettlesLatestHolds == ChannelSpec => []CloseSettlesLatest
<1>1. ChannelInv => CloseSettlesLatest
  BY DEF ChannelInv, Closes, CloseSettlesLatest
<1> QED BY InductiveInvariant, <1>1, PTL

(* Every signed close pays the fee out of the deposit and, besides, loses  *)
(* at most two outputs of dust (commitment.ts:324-360).                    *)
THEOREM ClosePaysOutHolds == ChannelSpec => []ClosePaysOut
<1>1. ChannelInv => ClosePaysOut
  BY DEF ChannelInv, Closes, PaysOut, ClosePaysOut
<1> QED BY InductiveInvariant, <1>1, PTL

(* Both: the close that is signed is the right one and pays what it should. *)
THEOREM ClosesSettleHolds == ChannelSpec => []ClosesSettle
BY CloseSettlesLatestHolds, ClosePaysOutHolds, PTL DEF ClosesSettle

(* Both managers together implement the ledger: a payment follows the      *)
(* credit of the one before, and none follows a signed close.              *)
THEOREM ImplementsLedger == ChannelSpec => KeepsLedger
<1>1. ChannelInit => Ledger!Init
  BY DEF ChannelInit, Ledger!Init, NoCommitment
<1>2. ChannelInv /\ [ChannelNext]_channelVars => [Ledger!Next]_<<pLatest.providerBalance, cLatest.providerBalance, pSignedClose # {}>>
  <2> SUFFICES ASSUME ChannelInv, [ChannelNext]_channelVars
               PROVE  Ledger!Next \/ UNCHANGED <<pLatest.providerBalance, cLatest.providerBalance, pSignedClose # {}>>
    OBVIOUS
  <2>1. CASE \E s \in cSigned : AcceptPayment(s)
    <3>1. PICK s \in cSigned : AcceptPayment(s)
      BY <2>1
    <3> DEFINE k == s.providerBalance - pLatest.providerBalance
    <3>2. cLatest = pLatest /\ s \in Commitment /\ pLatest \in Commitment
      BY <3>1, AcceptedIsNext DEF AcceptPayment
    <3>3. Conserved(s)
      BY DEF ChannelInv, SignedStates
    <3>4. k \in 1 .. Deposit /\ pLatest.providerBalance + k = s.providerBalance
          /\ s.providerBalance <= Deposit
      BY <3>1, <3>2, <3>3, CommitmentFields, ChannelAssumption DEF AcceptPayment, Conserved
    <3>5. pSignedClose = {}
      BY <3>1 DEF AcceptPayment, ChannelInv, Closes
    <3>6. Ledger!Pay(k)
      BY <3>1, <3>2, <3>4, <3>5 DEF Ledger!Pay, AcceptPayment, consumer
    <3> QED BY <3>4, <3>6 DEF Ledger!Next
  <2>2. CASE \E s \in cSigned : AcceptPaymentSignature(s)
    <3>1. PICK s \in cSigned : AcceptPaymentSignature(s)
      BY <2>2
    <3>2. s = pLatest
      BY <3>1, NextSignedIsLatest DEF AcceptPaymentSignature, ChannelInv, ConsumerRecord
    <3> QED BY <3>1, <3>2 DEF AcceptPaymentSignature, provider, Ledger!Next, Ledger!Credit
  <2>3. CASE SignCooperativeClose
    BY <2>3 DEF SignCooperativeClose, consumer, Ledger!Next, Ledger!Settle
  <2>4. CASE SetFunding
    <3>1. cLatest = NoCommitment
      BY <2>4 DEF SetFunding, ChannelInv, ConsumerRecord
    <3> QED BY <2>4, <3>1, InitialFields DEF SetFunding, provider
  <2>5. CASE SignRefundCommitment
    <3>1. pLatest = NoCommitment
      BY <2>5 DEF SignRefundCommitment, ChannelInv, ProviderRecord
    <3> QED BY <2>5, <3>1, InitialFields DEF SignRefundCommitment, consumer
  <2>6. CASE UNCHANGED <<cLatest, pLatest, pSignedClose>>
    BY <2>6
  <2> QED
    BY <2>1, <2>2, <2>3, <2>4, <2>5, <2>6
    DEF ChannelNext, CreateChannel, CompleteRefundAndOpen, AcceptChannel, CreatePayment,
        InitiateCooperativeClose, CompleteCooperativeClose, ConsumerUnilateralClose,
        ProviderUnilateralClose, channelVars, consumer, provider
<1> QED BY InductiveInvariant, <1>1, <1>2, PTL DEF ChannelSpec, KeepsLedger, Ledger!Spec
=============================================================================
