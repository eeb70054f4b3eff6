-------------------------- MODULE ServiceCallProofs --------------------------
(***************************************************************************)
(* Proofs about ServiceCall, for any number of calls and of faults, and    *)
(* about Registry, for any number of searches, advertisements and          *)
(* registries.  The argument for the nonces: a message's counter lies      *)
(* below the counter of its sender, whose parity it has, as long as the    *)
(* sender keeps its key, and a key that an end takes is one under which it *)
(* has sealed nothing. The argument for the work: what travels was sealed, *)
(* there is one request, and a provider that read it expects another       *)
(* counter or holds another key ever after. The argument for the search: a *)
(* checkpoint never passes an answer it was taken from, nor does the       *)
(* filter of a scan pass the checkpoint, so what an answer shows for the   *)
(* first time lies above the filter.                                       *)
(***************************************************************************)
EXTENDS ServiceCall, Registry, TLAPS

(* The two ends of a session never share a counter.                        *)
Parity == \A c \in Calls, e \in Ends : sendCounter[c][e] % 2 = FirstCounter(e)

(* The consumer derives one key, and seals nothing before.                 *)
ConsumerSeals(c) ==
    \A w \in sealed[c] : w.from = "consumer" =>
        /\ w.ctr % 2 = 0
        /\ stage[c] \notin {"idle", "handshaking"}
        /\ w.ctr < sendCounter[c]["consumer"]

(* The provider's keys come from ephemeral keys it never uses again, and   *)
(* the latest is that of the session it holds, if it holds one.            *)
Holds(c) == serve[c] \notin {"none", "acking"}

ProviderSeals(c) ==
    \A w \in sealed[c] : w.from = "provider" =>
        /\ w.ctr % 2 = 1
        /\ w.key <= tries[c]
        /\ serve[c] = "acking" => w.key < tries[c]
        /\ Holds(c) /\ w.key = tries[c] => w.ctr < sendCounter[c]["provider"]

SealInv ==
    /\ Parity
    /\ \A c \in Calls : ConsumerSeals(c) /\ ProviderSeals(c)
    /\ \A c \in Calls : Holds(c) => key[c]["provider"] = tries[c]

NonceInv == SealInv /\ NonceUsedOnce

(* The consumer says that it has funded only what the node has taken.      *)
FundedInv ==
    \A c \in Calls :
        /\ \A w \in net[c] : w.kind = "funded" => paid[c]
        /\ \A i \in DOMAIN queue[c]["provider"] :
              queue[c]["provider"][i].kind = "funded" => paid[c]

ClaimInv == FundedInv /\ ClaimIsFunded

(* What travels was sealed.                                                *)
Transit ==
    \A c \in Calls :
        /\ net[c] \subseteq sealed[c]
        /\ \A e \in Ends : \A i \in DOMAIN queue[c][e] : queue[c][e][i] \in sealed[c]

(* The consumer's key is that of an ACK on the chain; an ACK under way is  *)
(* not one of these.                                                       *)
AckInv ==
    \A c \in Calls :
        /\ \A k \in acks[c] : k >= 1 /\ k <= tries[c]
        /\ serve[c] = "acking" => tries[c] >= 1 /\ tries[c] \notin acks[c]
        /\ key[c]["consumer"] \in acks[c] \cup {0}

(* There is one request, the consumer's first message; once a handler took *)
(* it, the provider does not expect that message under that key again.     *)
Served(c) == serve[c] = "handling" \/ worked[c] > 0

RequestInv ==
    \A c \in Calls :
        /\ stage[c] \in {"idle", "handshaking"} =>
              sendCounter[c]["consumer"] = 0 /\ ~Served(c)
        /\ \A w \in sealed[c] : w.kind = "request" =>
              w.from = "consumer" /\ w.ctr = 0 /\ w.key = key[c]["consumer"]
        /\ Served(c) /\ Holds(c) /\ key[c]["provider"] = key[c]["consumer"] =>
              recvCounter[c]["provider"] > 0
        /\ serve[c] = "handling" => worked[c] = 0
        /\ worked[c] <= 1

(* An answer tells of work, and only who has it goes on to pay.            *)
AnswerInv ==
    \A c \in Calls :
        /\ \A w \in sealed[c] : w.kind = "response" => worked[c] = 1
        /\ delivered[c] => worked[c] = 1
        /\ stage[c] \in {"draining", "settling", "funding", "notifying", "rating", "complete"}
              => delivered[c]

WorkInv == Transit /\ AckInv /\ RequestInv /\ AnswerInv /\ PaidForWork

-----------------------------------------------------------------------------
(* Types *)

Wires == [Calls -> SUBSET Wire]
Counters == [Calls -> [Ends -> Nat]]
Queues == [Calls -> [Ends -> Seq(Wire)]]

LEMMA Tails ==
    ASSUME NEW S, NEW q \in Seq(S), q # <<>>
    PROVE  Tail(q) \in Seq(S) /\ Head(q) \in S
OBVIOUS

LEMMA Appends ==
    ASSUME NEW S, NEW q \in Seq(S), NEW w \in S
    PROVE  Append(q, w) \in Seq(S)
OBVIOUS

LEMMA TailEntry ==
    ASSUME NEW S, NEW q \in Seq(S), q # <<>>, NEW i \in DOMAIN Tail(q)
    PROVE  i + 1 \in DOMAIN q /\ Tail(q)[i] = q[i + 1]
<1>1. Len(q) \in Nat /\ Len(q) # 0 /\ DOMAIN q = 1..Len(q)
  OBVIOUS
<1>2. Len(Tail(q)) = Len(q) - 1 /\ DOMAIN Tail(q) = 1..(Len(q) - 1)
  BY <1>1
<1> QED BY <1>1, <1>2

LEMMA AppendEntry ==
    ASSUME NEW S, NEW q \in Seq(S), NEW w \in S, NEW i \in DOMAIN Append(q, w)
    PROVE  Append(q, w)[i] = w \/ (i \in DOMAIN q /\ Append(q, w)[i] = q[i])
<1>1. Len(q) \in Nat /\ DOMAIN q = 1..Len(q)
  OBVIOUS
<1>2. DOMAIN Append(q, w) = 1..(Len(q) + 1)
  BY <1>1
<1> QED BY <1>1, <1>2

LEMMA PostType ==
    ASSUME CallsTypeOK, NEW c \in Calls, NEW e \in Ends, NEW k \in Nat, NEW kind \in Kinds,
           Post(c, e, k, kind)
    PROVE  sealed' \in Wires /\ net' \in Wires /\ sendCounter' \in Counters
<1> DEFINE w == [from |-> e, key |-> k, ctr |-> sendCounter[c][e],
  kind |-> kind]
<1>1. sendCounter[c][e] \in Nat
  BY DEF CallsTypeOK
<1>2. w \in Wire
  BY <1>1 DEF Wire
<1>3. sealed' = [sealed EXCEPT ![c] = @ \cup {w}] /\ net' = [net EXCEPT ![c] = @ \cup {w}]
  BY DEF Post
<1> HIDE DEF w
<1>4. sealed' \in Wires /\ net' \in Wires
  BY <1>2, <1>3 DEF CallsTypeOK, Wires
<1>5. sendCounter' \in Counters
  BY <1>1 DEF Post, CallsTypeOK, Counters
<1> QED BY <1>4, <1>5

LEMMA ReceiveType ==
    ASSUME CallsTypeOK, NEW c \in Calls, NEW e \in Ends, Receive(c, e)
    PROVE  queue' \in Queues /\ recvCounter' \in Counters
<1>1. queue[c][e] \in Seq(Wire) /\ queue[c][e] # <<>>
  BY DEF CallsTypeOK, Receive
<1>2. Tail(queue[c][e]) \in Seq(Wire)
  BY <1>1, Tails
<1>3. queue' \in Queues
  BY <1>2 DEF Receive, CallsTypeOK, Queues
<1>4. recvCounter' \in Counters
  BY DEF Receive, CallsTypeOK, Counters
<1> QED BY <1>3, <1>4

LEMMA ArriveType ==
    ASSUME CallsTypeOK, NEW c \in Calls, Arrive(c)
    PROVE  queue' \in Queues /\ net' \in Wires
<1>1. PICK w \in net[c] : /\ net' = [net EXCEPT ![c] = @ \ {w}]
                          /\ queue' = [queue EXCEPT ![c][Other(w.from)] = Append(@, w)]
  BY DEF Arrive
<1>2. w \in Wire /\ Other(w.from) \in Ends
  BY DEF CallsTypeOK, Wire, Other, Ends
<1>3. queue[c][Other(w.from)] \in Seq(Wire)
  BY <1>2 DEF CallsTypeOK
<1>4. Append(queue[c][Other(w.from)], w) \in Seq(Wire)
  BY <1>2, <1>3, Appends
<1>5. queue' \in Queues
  BY <1>1, <1>4 DEF CallsTypeOK, Queues
<1> QED BY <1>1, <1>5 DEF CallsTypeOK, Wires

LEMMA TypeInit == CallsInit => CallsTypeOK
BY ServiceAssumption DEF CallsInit, CallsTypeOK, Stages, ServeStages, FirstCounter,
   Other, Ends

LEMMA SendInitType ==
    ASSUME CallsTypeOK, NEW c \in Calls, SendInit(c)
    PROVE  CallsTypeOK'
BY DEF SendInit, CallsTypeOK, Goes, Stages, link, settlement, keys

LEMMA SendInitFailsType ==
    ASSUME CallsTypeOK, NEW c \in Calls, SendInitFails(c)
    PROVE  CallsTypeOK'
BY DEF SendInitFails, CallsTypeOK, Goes, Stages, link, settlement, keys

LEMMA TakeAckType ==
    ASSUME CallsTypeOK, NEW c \in Calls, TakeAck(c)
    PROVE  CallsTypeOK'
<1>1. PICK k \in acks[c] : /\ key' = [key EXCEPT ![c]["consumer"] = k]
                           /\ Post(c, "consumer", k, "request")
  BY DEF TakeAck
<1>2. k \in Nat
  BY DEF CallsTypeOK
<1>3. sealed' \in Wires /\ net' \in Wires /\ sendCounter' \in Counters
  BY <1>1, <1>2, PostType DEF Ends, Kinds
<1> QED BY <1>1, <1>2, <1>3 DEF TakeAck, CallsTypeOK, Wires, Counters, Goes,
           Stages, settlement, keys

LEMMA RequestSentType ==
    ASSUME CallsTypeOK, NEW c \in Calls, RequestSent(c)
    PROVE  CallsTypeOK'
BY DEF RequestSent, CallsTypeOK, Goes, Stages, handshake, link, settlement, keys

LEMMA AwaitReceivesType ==
    ASSUME CallsTypeOK, NEW c \in Calls, AwaitReceives(c)
    PROVE  CallsTypeOK'
<1>1. queue' \in Queues /\ recvCounter' \in Counters
  BY ReceiveType DEF AwaitReceives, Ends
<1> QED BY <1>1 DEF AwaitReceives, CallsTypeOK, Queues, Counters, Goes, Stages,
           handshake, settlement, keys

LEMMA AwaitTimesOutType ==
    ASSUME CallsTypeOK, NEW c \in Calls, AwaitTimesOut(c)
    PROVE  CallsTypeOK'
BY DEF AwaitTimesOut, CallsTypeOK, Goes, Stages, handshake, link, settlement, keys

LEMMA DrainTimesOutType ==
    ASSUME CallsTypeOK, NEW c \in Calls, DrainTimesOut(c)
    PROVE  CallsTypeOK'
BY DEF DrainTimesOut, CallsTypeOK, LoopEnds, Goes, Stages, handshake, link,
   settlement, keys

LEMMA DrainTakesType ==
    ASSUME CallsTypeOK, NEW c \in Calls, DrainTakes(c)
    PROVE  CallsTypeOK'
<1>1. queue[c]["consumer"] \in Seq(Wire) /\ queue[c]["consumer"] # <<>>
  BY DEF CallsTypeOK, DrainTakes, Ends
<1>2. Tail(queue[c]["consumer"]) \in Seq(Wire)
  BY <1>1, Tails
<1>3. queue' \in Queues
  BY <1>2 DEF DrainTakes, CallsTypeOK, Queues
<1> QED BY <1>3 DEF DrainTakes, LoopEnds, CallsTypeOK, Queues, Goes, Stages,
           handshake, settlement, keys

LEMMA SettleReceivesType ==
    ASSUME CallsTypeOK, NEW c \in Calls, SettleReceives(c)
    PROVE  CallsTypeOK'
<1>1. queue' \in Queues /\ recvCounter' \in Counters
  BY ReceiveType DEF SettleReceives, Ends
<1> QED BY <1>1 DEF SettleReceives, CallsTypeOK, Queues, Counters, SettleEnds,
           Goes, Stages, handshake, settlement

LEMMA FundAcceptedType ==
    ASSUME CallsTypeOK, NEW c \in Calls, FundAccepted(c)
    PROVE  CallsTypeOK'
<1>1. key[c]["consumer"] \in Nat
  BY DEF CallsTypeOK, Ends
<1>2. sealed' \in Wires /\ net' \in Wires /\ sendCounter' \in Counters
  BY <1>1, PostType DEF FundAccepted, Ends, Kinds
<1> QED BY <1>2 DEF FundAccepted, CallsTypeOK, Wires, Counters, Goes, Stages,
           handshake, keys

LEMMA FundFailsType ==
    ASSUME CallsTypeOK, NEW c \in Calls, FundFails(c)
    PROVE  CallsTypeOK'
BY DEF FundFails, CallsTypeOK, SettleEnds, Goes, Stages, handshake, link

LEMMA FundedSentType ==
    ASSUME CallsTypeOK, NEW c \in Calls, FundedSent(c)
    PROVE  CallsTypeOK'
BY DEF FundedSent, CallsTypeOK, SettleEnds, Goes, Stages, handshake, link, settlement

LEMMA RateThrowsType ==
    ASSUME CallsTypeOK, NEW c \in Calls, RateThrows(c)
    PROVE  CallsTypeOK'
BY DEF RateThrows, CallsTypeOK, Goes, Stages, handshake, link, settlement, keys

LEMMA CallFailsType ==
    ASSUME CallsTypeOK, NEW c \in Calls, CallFails(c)
    PROVE  CallsTypeOK'
BY DEF CallFails, CallsTypeOK, SettleEnds, Goes, Stages, handshake, link, settlement

LEMMA ScanFindsType ==
    ASSUME CallsTypeOK, NEW c \in Calls, ScanFinds(c)
    PROVE  CallsTypeOK'
BY DEF ScanFinds, CallsTypeOK, Serves, ServeStages, link, settlement, keys

LEMMA AckAcceptedType ==
    ASSUME CallsTypeOK, NEW c \in Calls, AckAccepted(c)
    PROVE  CallsTypeOK'
BY SMTT(30) DEF AckAccepted, CallsTypeOK, Serves, ServeStages, link, settlement, keys, Ends

LEMMA AckFailsType ==
    ASSUME CallsTypeOK, NEW c \in Calls, AckFails(c)
    PROVE  CallsTypeOK'
<1>1. faults' \in 0..MaxFaults
  BY ServiceAssumption DEF AckFails, CallsTypeOK
<1>2. tries[c] \in Nat /\ acks[c] \in SUBSET Nat
  BY DEF CallsTypeOK
<1>3. acks' \in [Calls -> SUBSET Nat]
  <2>1. acks' = [acks EXCEPT ![c] = @ \cup {tries[c]}] \/ acks' = acks
    BY DEF AckFails
  <2>2. acks \in [Calls -> SUBSET Nat]
    BY DEF CallsTypeOK
  <2>3. acks[c] \cup {tries[c]} \in SUBSET Nat
    BY <1>2
  <2> QED BY <2>1, <2>2, <2>3
<1>4. serve' \in [Calls -> ServeStages]
  BY DEF AckFails, CallsTypeOK, Serves, ServeStages
<1> QED BY <1>1, <1>3, <1>4 DEF AckFails, CallsTypeOK, link, settlement, keys

LEMMA TakeRequestType ==
    ASSUME CallsTypeOK, NEW c \in Calls, TakeRequest(c)
    PROVE  CallsTypeOK'
<1>1. queue' \in Queues /\ recvCounter' \in Counters
  BY ReceiveType DEF TakeRequest, Ends
<1> QED BY <1>1 DEF TakeRequest, CallsTypeOK, Queues, Counters, Serves,
           ServeStages, handshake, settlement, keys

LEMMA HandlerReturnsType ==
    ASSUME CallsTypeOK, NEW c \in Calls, HandlerReturns(c)
    PROVE  CallsTypeOK'
<1>1. key[c]["provider"] \in Nat
  BY DEF CallsTypeOK, Ends
<1>2. sealed' \in Wires /\ net' \in Wires /\ sendCounter' \in Counters
  BY <1>1, PostType DEF HandlerReturns, ProviderPosts, Ends, Kinds
<1>3. worked' \in [Calls -> Nat]
  BY DEF HandlerReturns, CallsTypeOK
<1>4. serve' \in [Calls -> ServeStages]
  BY DEF HandlerReturns, CallsTypeOK, Serves, ServeStages
<1> QED BY <1>2, <1>3, <1>4 DEF HandlerReturns, CallsTypeOK, Wires, Counters,
           handshake, settlement, keys

LEMMA SendErrorType ==
    ASSUME CallsTypeOK, NEW c \in Calls, SendError(c)
    PROVE  CallsTypeOK'
<1>1. key[c]["provider"] \in Nat
  BY DEF CallsTypeOK, Ends
<1>2. sealed' \in Wires /\ net' \in Wires /\ sendCounter' \in Counters
  BY <1>1, PostType DEF SendError, ProviderPosts, Ends, Kinds
<1> QED BY <1>2 DEF SendError, CallsTypeOK, Wires, Counters, Serves, ServeStages,
           handshake, settlement, keys

LEMMA ErrorSentType ==
    ASSUME CallsTypeOK, NEW c \in Calls, ErrorSent(c)
    PROVE  CallsTypeOK'
BY DEF ErrorSent, CallsTypeOK, Serves, ServeStages, handshake, link, settlement, keys

LEMMA SendOfferType ==
    ASSUME CallsTypeOK, NEW c \in Calls, SendOffer(c)
    PROVE  CallsTypeOK'
<1>1. key[c]["provider"] \in Nat
  BY DEF CallsTypeOK, Ends
<1>2. sealed' \in Wires /\ net' \in Wires /\ sendCounter' \in Counters
  BY <1>1, PostType DEF SendOffer, ProviderPosts, Ends, Kinds
<1> QED BY <1>2 DEF SendOffer, CallsTypeOK, Wires, Counters, Serves, ServeStages,
           handshake, keys

LEMMA OfferSentType ==
    ASSUME CallsTypeOK, NEW c \in Calls, OfferSent(c)
    PROVE  CallsTypeOK'
BY DEF OfferSent, CallsTypeOK, Serves, ServeStages, handshake, link, settlement, keys

LEMMA WaitReceivesType ==
    ASSUME CallsTypeOK, NEW c \in Calls, WaitReceives(c)
    PROVE  CallsTypeOK'
<1>1. queue' \in Queues /\ recvCounter' \in Counters
  BY ReceiveType DEF WaitReceives, Ends
<1> QED BY <1>1 DEF WaitReceives, CallsTypeOK, Queues, Counters, ServiceEnds,
           Serves, ServeStages, handshake

LEMMA ClaimAcceptedType ==
    ASSUME CallsTypeOK, NEW c \in Calls, ClaimAccepted(c)
    PROVE  CallsTypeOK'
<1>1. key[c]["provider"] \in Nat
  BY DEF CallsTypeOK, Ends
<1>2. sealed' \in Wires /\ net' \in Wires /\ sendCounter' \in Counters
  BY <1>1, PostType DEF ClaimAccepted, ProviderPosts, Ends, Kinds
<1> QED BY <1>2 DEF ClaimAccepted, CallsTypeOK, Wires, Counters, Serves,
           ServeStages, handshake, settlement, keys

LEMMA SettlementEndsType ==
    ASSUME CallsTypeOK, NEW c \in Calls, SettlementEnds(c)
    PROVE  CallsTypeOK'
BY DEF SettlementEnds, CallsTypeOK, ServiceEnds, Serves, ServeStages, handshake,
   link, settlement

LEMMA ProviderRestartsType ==
    ASSUME CallsTypeOK, ProviderRestarts
    PROVE  CallsTypeOK'
<1>1. acks' \in [Calls -> SUBSET Nat]
  BY DEF ProviderRestarts, CallsTypeOK
<1>2. key' \in [Calls -> [Ends -> Nat]]
  BY DEF ProviderRestarts, CallsTypeOK
<1>3. sendCounter' \in Counters /\ recvCounter' \in Counters
  BY DEF ProviderRestarts, CallsTypeOK, Counters, FirstCounter
<1>4. queue' \in Queues
  <2>1. \A c \in Calls : [queue[c] EXCEPT !["provider"] = <<>>] \in [Ends -> Seq(Wire)]
    <3> SUFFICES ASSUME NEW c \in Calls
                 PROVE  [queue[c] EXCEPT !["provider"] = <<>>] \in [Ends -> Seq(Wire)]
      OBVIOUS
    <3>1. queue[c] \in [Ends -> Seq(Wire)]
      BY DEF CallsTypeOK
    <3>2. <<>> \in Seq(Wire)
      OBVIOUS
    <3> QED BY <3>1, <3>2
  <2> QED BY <2>1 DEF ProviderRestarts, Queues
<1> QED BY ServiceAssumption, <1>1, <1>2, <1>3, <1>4
        DEF ProviderRestarts, CallsTypeOK, Queues, Counters, ServeStages

LEMMA TypeStep == CallsTypeOK /\ [CallsNext]_callVars => CallsTypeOK'
<1> SUFFICES ASSUME CallsTypeOK, [CallsNext]_callVars PROVE CallsTypeOK'
  OBVIOUS
<1>1. ASSUME NEW c \in Calls,
  SendInit(c) \/ SendInitFails(c) \/ TakeAck(c) \/ ClientStep(c)
      PROVE  CallsTypeOK'
  BY <1>1, SendInitType, SendInitFailsType, TakeAckType, RequestSentType,
     AwaitReceivesType, AwaitTimesOutType, DrainTimesOutType, DrainTakesType,
     SettleReceivesType, FundAcceptedType, FundFailsType, FundedSentType,
     RateThrowsType, CallFailsType DEF ClientStep
<1>2. ASSUME NEW c \in Calls, ProviderStep(c)
      PROVE  CallsTypeOK'
  BY <1>2, ScanFindsType, AckAcceptedType, AckFailsType, TakeRequestType,
     HandlerReturnsType, SendErrorType, ErrorSentType, SendOfferType,
     OfferSentType, WaitReceivesType, ClaimAcceptedType,
     SettlementEndsType DEF ProviderStep
<1>3. ASSUME NEW c \in Calls, Arrive(c)
      PROVE  CallsTypeOK'
  BY <1>3, ArriveType DEF Arrive, CallsTypeOK, Queues, Wires, handshake,
     settlement, keys
<1>4. CASE ProviderRestarts
  BY <1>4, ProviderRestartsType
<1>5. CASE UNCHANGED callVars
  BY <1>5 DEF callVars, CallsTypeOK, handshake, link, settlement, keys
<1> QED BY <1>1, <1>2, <1>3, <1>4, <1>5 DEF CallsNext

(* Every variable keeps its type, whatever the number of calls and faults. *)
THEOREM TypeCorrect == CallsSpec => []CallsTypeOK
BY TypeInit, TypeStep, PTL DEF CallsSpec

-----------------------------------------------------------------------------
(* A claim is signed only for an HTLC that is funded *)

Grows == \A c \in Calls : paid[c] => paid'[c]

LEMMA ClaimInit == CallsInit => ClaimInv
BY DEF CallsInit, ClaimInv, FundedInv, ClaimIsFunded, Ends

LEMMA ClaimQuiet ==
    ASSUME ClaimInv, Grows, UNCHANGED <<net, queue, record>>
    PROVE  ClaimInv'
BY DEF ClaimInv, FundedInv, ClaimIsFunded, Grows

LEMMA ClaimPost ==
    ASSUME CallsTypeOK, ClaimInv, NEW c \in Calls, NEW e \in Ends, NEW k \in Nat,
           NEW kind \in Kinds, Post(c, e, k, kind), queue' = queue, Grows,
           kind = "funded" => paid'[c],
           \A d \in Calls : record'[d] \in {"ACTIVE", "CLAIMED"} => record[d] = record'[d]
    PROVE  ClaimInv'
<1> DEFINE w == [from |-> e, key |-> k, ctr |-> sendCounter[c][e], kind |-> kind]
<1>1. net' = [net EXCEPT ![c] = @ \cup {w}] /\ w.kind = kind
  BY DEF Post
<1> HIDE DEF w
<1>2. \A d \in Calls : net'[d] = IF d = c THEN net[d] \cup {w} ELSE net[d]
  BY <1>1 DEF CallsTypeOK
<1>3. \A d \in Calls : \A v \in net'[d] : v.kind = "funded" => paid'[d]
  BY <1>1, <1>2 DEF ClaimInv, FundedInv, Grows
<1> QED BY <1>3 DEF ClaimInv, FundedInv, ClaimIsFunded, Grows

(* Taking a message from a queue leaves the others where they were.        *)
LEMMA FundedTail ==
    ASSUME CallsTypeOK, FundedInv, NEW c \in Calls, NEW e \in Ends, queue[c][e] # <<>>,
           queue' = [queue EXCEPT ![c][e] = Tail(@)], net' = net, paid' = paid
    PROVE  FundedInv'
<1> SUFFICES ASSUME NEW d \in Calls, NEW i, i \in DOMAIN queue'[d]["provider"],
                    queue'[d]["provider"][i].kind = "funded"
             PROVE  paid[d]
  BY DEF FundedInv
<1> DEFINE q == queue[d]["provider"]
<1>1. q \in Seq(Wire)
  BY DEF CallsTypeOK, Ends
<1>2. queue'[d]["provider"] = q \/ (q # <<>> /\ queue'[d]["provider"] = Tail(q))
  BY DEF CallsTypeOK, Ends
<1>3. PICK j \in DOMAIN q : queue'[d]["provider"][i] = q[j]
  <2>1. CASE queue'[d]["provider"] = q
    BY <2>1
  <2>2. CASE q # <<>> /\ queue'[d]["provider"] = Tail(q)
    <3>1. i + 1 \in DOMAIN q /\ Tail(q)[i] = q[i + 1]
      BY <1>1, <2>2, TailEntry
    <3> QED BY <2>2, <3>1
  <2> QED BY <1>2, <2>1, <2>2
<1> QED BY <1>3 DEF FundedInv

LEMMA FundedHead ==
    ASSUME CallsTypeOK, FundedInv, NEW c \in Calls, queue[c]["provider"] # <<>>,
           Reads(c, "provider", "funded")
    PROVE  paid[c]
<1>1. queue[c]["provider"] \in Seq(Wire)
  BY DEF CallsTypeOK, Ends
<1>2. /\ 1 \in DOMAIN queue[c]["provider"]
      /\ Head(queue[c]["provider"]) = queue[c]["provider"][1]
  BY <1>1
<1> QED BY <1>2 DEF FundedInv, Reads

LEMMA FundedArrive ==
    ASSUME CallsTypeOK, FundedInv, NEW c \in Calls, Arrive(c)
    PROVE  FundedInv'
<1>1. PICK w \in net[c] : /\ net' = [net EXCEPT ![c] = @ \ {w}]
                          /\ queue' = [queue EXCEPT ![c][Other(w.from)] = Append(@, w)]
  BY DEF Arrive
<1>2. paid' = paid
  BY DEF Arrive, settlement
<1>3. w \in Wire /\ Other(w.from) \in Ends
  BY DEF CallsTypeOK, Wire, Other, Ends
<1>4. \A d \in Calls : net'[d] \subseteq net[d]
  BY <1>1 DEF CallsTypeOK
<1>5. ASSUME NEW d \in Calls, NEW i, i \in DOMAIN queue'[d]["provider"],
             queue'[d]["provider"][i].kind = "funded"
      PROVE  paid[d]
  <2> DEFINE q == queue[d]["provider"]
  <2>1. q \in Seq(Wire)
    BY DEF CallsTypeOK, Ends
  <2>2. queue'[d]["provider"] = q \/ (d = c /\ queue'[d]["provider"] = Append(q, w))
    BY <1>1, <1>3 DEF CallsTypeOK, Ends
  <2>3. CASE queue'[d]["provider"] = q
    BY <2>3, <1>5 DEF FundedInv
  <2>4. CASE d = c /\ queue'[d]["provider"] = Append(q, w)
    <3>1. queue'[d]["provider"][i] = w \/ (i \in DOMAIN q /\ queue'[d]["provider"][i] = q[i])
      BY <1>3, <1>5, <2>1, <2>4, AppendEntry
    <3> QED BY <3>1, <2>4, <1>5 DEF FundedInv
  <2> QED BY <2>2, <2>3, <2>4
<1> QED BY <1>2, <1>4, <1>5 DEF FundedInv

LEMMA ClaimStep == CallsTypeOK /\ ClaimInv /\ [CallsNext]_callVars => ClaimInv'
<1> SUFFICES ASSUME CallsTypeOK, ClaimInv, [CallsNext]_callVars PROVE ClaimInv'
  OBVIOUS
<1>1. ASSUME NEW c \in Calls,
             \/ SendInit(c) \/ SendInitFails(c) \/ RequestSent(c) \/ AwaitTimesOut(c)
             \/ DrainTimesOut(c) \/ FundFails(c) \/ FundedSent(c) \/ RateThrows(c)
             \/ CallFails(c) \/ ScanFinds(c) \/ AckAccepted(c) \/ AckFails(c)
             \/ ErrorSent(c) \/ OfferSent(c) \/ SettlementEnds(c)
      PROVE  ClaimInv'
  <2>1. Grows
    BY <1>1 DEF Grows, CallsTypeOK, SendInit, SendInitFails, RequestSent, AwaitTimesOut,
       DrainTimesOut, FundFails, FundedSent, RateThrows, CallFails, ScanFinds,
       AckAccepted, AckFails, ErrorSent, OfferSent, SettlementEnds, settlement
  <2>2. UNCHANGED <<net, queue, record>>
    BY <1>1 DEF SendInit, SendInitFails, RequestSent, AwaitTimesOut,
       DrainTimesOut, FundFails, FundedSent, RateThrows, CallFails, ScanFinds,
       AckAccepted, AckFails, ErrorSent, OfferSent, SettlementEnds, settlement, link
  <2> QED BY <2>1, <2>2, ClaimQuiet
<1>2. ASSUME NEW c \in Calls, TakeAck(c)
      PROVE  ClaimInv'
  <2>1. PICK k \in acks[c] : Post(c, "consumer", k, "request")
    BY <1>2 DEF TakeAck
  <2>2. k \in Nat
    BY DEF CallsTypeOK
  <2> QED BY <1>2, <2>1, <2>2, ClaimPost DEF TakeAck, settlement, Grows, Ends, Kinds
<1>3. ASSUME NEW c \in Calls, FundAccepted(c)
      PROVE  ClaimInv'
  <2>1. key[c]["consumer"] \in Nat
    BY DEF CallsTypeOK, Ends
  <2>2. Grows /\ paid'[c]
    BY <1>3 DEF FundAccepted, CallsTypeOK, Grows
  <2> QED BY <1>3, <2>1, <2>2, ClaimPost DEF FundAccepted, Ends, Kinds
<1>4. ASSUME NEW c \in Calls,
             HandlerReturns(c) \/ SendError(c) \/ SendOffer(c) \/ ClaimAccepted(c)
      PROVE  ClaimInv'
  <2>1. key[c]["provider"] \in Nat
    BY DEF CallsTypeOK, Ends
  <2>2. PICK kind \in Kinds \ {"funded"} : Post(c, "provider", key[c]["provider"], kind)
    BY <1>4 DEF HandlerReturns, SendError, SendOffer, ClaimAccepted, ProviderPosts, Kinds
  <2>3. Grows /\ queue' = queue
    BY <1>4 DEF HandlerReturns, SendError, SendOffer, ClaimAccepted, settlement, Grows
  <2>4. \A d \in Calls : record'[d] \in {"ACTIVE", "CLAIMED"} => record[d] = record'[d]
    BY <1>4 DEF HandlerReturns, SendError, SendOffer, ClaimAccepted, settlement, CallsTypeOK
  <2> QED BY <2>1, <2>2, <2>3, <2>4, ClaimPost DEF Ends
<1>5. ASSUME NEW c \in Calls,
             \/ AwaitReceives(c) \/ SettleReceives(c) \/ DrainTakes(c)
             \/ TakeRequest(c)
      PROVE  ClaimInv'
  <2>1. PICK e \in Ends : /\ queue[c][e] # <<>>
                          /\ queue' = [queue EXCEPT ![c][e] = Tail(@)]
    BY <1>5 DEF AwaitReceives, SettleReceives, DrainTakes, TakeRequest, Receive, Ends
  <2>2. UNCHANGED <<net, record, paid>>
    BY <1>5 DEF AwaitReceives, SettleReceives, DrainTakes, TakeRequest, settlement
  <2> QED BY <2>1, <2>2, FundedTail DEF ClaimInv, ClaimIsFunded
<1>6. ASSUME NEW c \in Calls, WaitReceives(c)
      PROVE  ClaimInv'
  <2>1. queue[c]["provider"] # <<>> /\ UNCHANGED <<net, paid>>
    BY <1>6 DEF WaitReceives, Receive
  <2>2. FundedInv'
    BY <1>6, <2>1, FundedTail DEF WaitReceives, Receive, Ends, ClaimInv
  <2>3. Reads(c, "provider", "funded") => paid[c]
    BY <2>1, FundedHead DEF ClaimInv
  <2>4. \A d \in Calls \ {c} : record'[d] = record[d]
    BY <1>6 DEF WaitReceives, CallsTypeOK
  <2>5. record'[c] # record[c] => paid[c]
    BY <1>6, <2>3 DEF WaitReceives, CallsTypeOK
  <2> QED BY <2>1, <2>2, <2>4, <2>5 DEF ClaimInv, ClaimIsFunded
<1>7. ASSUME NEW c \in Calls, Arrive(c)
      PROVE  ClaimInv'
  BY <1>7, FundedArrive DEF ClaimInv, ClaimIsFunded, Arrive, settlement
<1>8. CASE ProviderRestarts
  <2>1. \A c \in Calls : queue'[c]["provider"] = <<>> /\ record'[c] = "none"
    BY <1>8 DEF ProviderRestarts, CallsTypeOK, Ends
  <2> QED BY <1>8, <2>1 DEF ProviderRestarts, ClaimInv, FundedInv, ClaimIsFunded
<1>9. CASE UNCHANGED callVars
  BY <1>9, ClaimQuiet DEF callVars, link, settlement, Grows
<1> QED BY <1>1, <1>2, <1>3, <1>4, <1>5, <1>6, <1>7, <1>8, <1>9
        DEF CallsNext, ClientStep, ProviderStep

(* The provider gives up its secret only for an HTLC that the node has     *)
(* taken, whatever is lost, repeated by a restart or out of order.         *)
THEOREM ClaimIsFundedHolds == CallsSpec => []ClaimIsFunded
<1>1. ClaimInv => ClaimIsFunded
  BY DEF ClaimInv
<1> QED BY TypeCorrect, ClaimInit, ClaimStep, <1>1, PTL DEF CallsSpec

-----------------------------------------------------------------------------
(* No key and counter seals two messages *)

Greeted(c) == stage[c] \notin {"idle", "handshaking"}

LEMMA NonceInit == CallsInit => NonceInv
BY DEF CallsInit, NonceInv, SealInv, Parity, ConsumerSeals, ProviderSeals, Holds,
       NonceUsedOnce, FirstCounter, Ends

(* Steps that seal nothing, by the client or the transport.                *)
LEMMA NonceClient ==
    ASSUME NonceInv, UNCHANGED <<serve, tries, key, sealed, sendCounter>>,
           \A c \in Calls : Greeted(c) => Greeted(c)'
    PROVE  NonceInv'
<1>1. \A c \in Calls : ConsumerSeals(c)'
  BY DEF NonceInv, SealInv, ConsumerSeals, Greeted
<1> QED BY <1>1 DEF NonceInv, SealInv, Parity, ProviderSeals, Holds, NonceUsedOnce

(* Steps that seal nothing, by the provider.                               *)
LEMMA NonceProvider ==
    ASSUME NonceInv, UNCHANGED <<stage, tries, key, sealed, sendCounter>>,
           \A c \in Calls : Holds(c)' => Holds(c),
           \A c \in Calls : serve'[c] = "acking" => serve[c] = "acking"
    PROVE  NonceInv'
<1>1. \A c \in Calls : ProviderSeals(c)'
  BY DEF NonceInv, SealInv, ProviderSeals
<1>2. \A c \in Calls : ConsumerSeals(c)'
  BY DEF NonceInv, SealInv, ConsumerSeals
<1> QED BY <1>1, <1>2 DEF NonceInv, SealInv, Parity, NonceUsedOnce

LEMMA Even == \A n \in Nat : (n + 2) % 2 = n % 2
OBVIOUS

(* The effect of a message on the messages sealed and on the counters.     *)
LEMMA PostSeals ==
    ASSUME CallsTypeOK, Parity, NEW c \in Calls, NEW e \in Ends, NEW k \in Nat,
           NEW kind \in Kinds, Post(c, e, k, kind)
    PROVE  /\ Parity'
           /\ \E w \in Wire :
                 /\ w.from = e /\ w.key = k /\ w.ctr = sendCounter[c][e]
                 /\ sealed' = [sealed EXCEPT ![c] = @ \cup {w}]
           /\ sendCounter'[c][e] = sendCounter[c][e] + 2
           /\ \A d \in Calls, f \in Ends :
                 d # c \/ f # e => sendCounter'[d][f] = sendCounter[d][f]
<1> DEFINE w == [from |-> e, key |-> k, ctr |-> sendCounter[c][e], kind |-> kind]
<1>1. sendCounter \in [Calls -> [Ends -> Nat]] /\ sendCounter[c][e] \in Nat
  BY DEF CallsTypeOK
<1>2. w \in Wire
  BY <1>1 DEF Wire
<1>3. sealed' = [sealed EXCEPT ![c] = @ \cup {w}]
  BY DEF Post
<1>4. sendCounter' = [sendCounter EXCEPT ![c][e] = @ + 2]
  BY DEF Post
<1>5. /\ sendCounter'[c][e] = sendCounter[c][e] + 2
      /\ \A d \in Calls, f \in Ends :
            d # c \/ f # e => sendCounter'[d][f] = sendCounter[d][f]
  BY <1>1, <1>4
<1>6. Parity'
  <2> SUFFICES ASSUME NEW d \in Calls, NEW f \in Ends
               PROVE  sendCounter'[d][f] % 2 = FirstCounter(f)
    BY DEF Parity
  <2>1. sendCounter[d][f] % 2 = FirstCounter(f)
    BY DEF Parity
  <2>2. CASE d = c /\ f = e
    BY <1>1, <1>5, <2>1, <2>2, Even
  <2>3. CASE d # c \/ f # e
    BY <1>5, <2>1, <2>3
  <2> QED BY <2>2, <2>3
<1>7. w.from = e /\ w.key = k /\ w.ctr = sendCounter[c][e]
  OBVIOUS
<1> QED BY <1>2, <1>3, <1>5, <1>6, <1>7

LEMMA NoncePostConsumer ==
    ASSUME CallsTypeOK, NonceInv, NEW c \in Calls, NEW k \in Nat, NEW kind \in Kinds,
           Post(c, "consumer", k, kind), UNCHANGED <<serve, tries>>,
           \A d \in Calls : key'[d]["provider"] = key[d]["provider"],
           \A d \in Calls : Greeted(d) => Greeted(d)', Greeted(c)'
    PROVE  NonceInv'
<1>0. Parity
  BY DEF NonceInv, SealInv
<1>1. PICK w \in Wire :
          /\ w.from = "consumer" /\ w.key = k /\ w.ctr = sendCounter[c]["consumer"]
          /\ sealed' = [sealed EXCEPT ![c] = @ \cup {w}]
  BY <1>0, PostSeals DEF Ends
<1>2. Parity' /\ sendCounter'[c]["consumer"] = sendCounter[c]["consumer"] + 2
  BY <1>0, PostSeals DEF Ends
<1>3. \A d \in Calls, f \in Ends :
          d # c \/ f # "consumer" => sendCounter'[d][f] = sendCounter[d][f]
  BY <1>0, PostSeals DEF Ends
<1>4. \A d \in Calls : sealed'[d] = IF d = c THEN sealed[d] \cup {w} ELSE sealed[d]
  BY <1>1 DEF CallsTypeOK
<1>5. sendCounter[c]["consumer"] \in Nat /\ w.ctr % 2 = 0
  BY <1>0, <1>1 DEF CallsTypeOK, Parity, FirstCounter, Ends
<1>6. \A d \in Calls : \A v \in sealed[d] : v \in Wire
  BY DEF CallsTypeOK
<1>7. ASSUME NEW d \in Calls PROVE ConsumerSeals(d)'
  <2> SUFFICES ASSUME NEW v, v \in sealed'[d], v.from = "consumer"
               PROVE  /\ v.ctr % 2 = 0
                      /\ Greeted(d)'
                      /\ v.ctr < sendCounter'[d]["consumer"]
    BY DEF ConsumerSeals, Greeted
  <2>1. CASE d = c /\ v = w
    BY <2>1, <1>1, <1>2, <1>5
  <2>2. CASE v \in sealed[d]
    <3>1. v.ctr % 2 = 0 /\ Greeted(d) /\ v.ctr < sendCounter[d]["consumer"]
      BY <2>2 DEF NonceInv, SealInv, ConsumerSeals, Greeted
    <3>2. v.ctr \in Nat /\ sendCounter[d]["consumer"] \in Nat
      <4>1. v \in Wire
        BY <2>2, <1>6
      <4>2. sendCounter[d]["consumer"] \in Nat
        BY DEF CallsTypeOK, Ends
      <4> QED BY <4>1, <4>2 DEF Wire
    <3>3. CASE d = c
      BY <3>1, <3>2, <3>3, <1>2
    <3>4. CASE d # c
      BY <3>1, <3>4, <1>3 DEF Ends
    <3> QED BY <3>3, <3>4
  <2> QED BY <1>4, <2>1, <2>2
<1>8. ASSUME NEW d \in Calls PROVE ProviderSeals(d)'
  <2>1. \A v \in sealed'[d] : v.from = "provider" => v \in sealed[d]
    BY <1>1, <1>4
  <2>2. sendCounter'[d]["provider"] = sendCounter[d]["provider"]
    BY <1>3 DEF Ends
  <2> QED BY <2>1, <2>2 DEF NonceInv, SealInv, ProviderSeals, Holds
<1>9. NonceUsedOnce'
  <2>1. ASSUME NEW v \in sealed[c], v.ctr = w.ctr PROVE FALSE
    <3>1. v \in Wire
      BY <1>6
    <3>2. CASE v.from = "consumer"
      BY <3>2, <2>1, <1>1, <1>5, <3>1 DEF NonceInv, SealInv, ConsumerSeals, Wire
    <3>3. CASE v.from = "provider"
      BY <3>3, <2>1, <1>5 DEF NonceInv, SealInv, ProviderSeals
    <3> QED BY <3>1, <3>2, <3>3 DEF Wire, Ends
  <2> QED BY <2>1, <1>4 DEF NonceInv, NonceUsedOnce
<1>10. \A d \in Calls : Holds(d)' => key'[d]["provider"] = tries'[d]
  BY DEF NonceInv, SealInv, Holds
<1> QED BY <1>2, <1>7, <1>8, <1>9, <1>10 DEF NonceInv, SealInv

LEMMA NoncePostProvider ==
    ASSUME CallsTypeOK, NonceInv, NEW c \in Calls, Holds(c), NEW kind \in Kinds,
           Post(c, "provider", key[c]["provider"], kind),
           UNCHANGED <<stage, tries, key>>,
           \A d \in Calls : Holds(d)' => Holds(d),
           \A d \in Calls : serve'[d] = "acking" => serve[d] = "acking"
    PROVE  NonceInv'
<1>0. Parity /\ key[c]["provider"] \in Nat /\ key[c]["provider"] = tries[c]
  BY DEF NonceInv, SealInv, CallsTypeOK, Ends
<1>1. PICK w \in Wire :
          /\ w.from = "provider" /\ w.key = tries[c]
          /\ w.ctr = sendCounter[c]["provider"]
          /\ sealed' = [sealed EXCEPT ![c] = @ \cup {w}]
  BY <1>0, PostSeals DEF Ends
<1>2. Parity' /\ sendCounter'[c]["provider"] = sendCounter[c]["provider"] + 2
  BY <1>0, PostSeals DEF Ends
<1>3. \A d \in Calls, f \in Ends :
          d # c \/ f # "provider" => sendCounter'[d][f] = sendCounter[d][f]
  BY <1>0, PostSeals DEF Ends
<1>4. \A d \in Calls : sealed'[d] = IF d = c THEN sealed[d] \cup {w} ELSE sealed[d]
  BY <1>1 DEF CallsTypeOK
<1>5. sendCounter[c]["provider"] \in Nat /\ w.ctr % 2 = 1
  BY <1>0, <1>1 DEF CallsTypeOK, Parity, FirstCounter, Ends
<1>6. \A d \in Calls : \A v \in sealed[d] : v \in Wire
  BY DEF CallsTypeOK
<1>7. ASSUME NEW d \in Calls PROVE ConsumerSeals(d)'
  <2>1. \A v \in sealed'[d] : v.from = "consumer" => v \in sealed[d]
    BY <1>1, <1>4
  <2>2. sendCounter'[d]["consumer"] = sendCounter[d]["consumer"]
    BY <1>3 DEF Ends
  <2> QED BY <2>1, <2>2 DEF NonceInv, SealInv, ConsumerSeals
<1>8. ASSUME NEW d \in Calls PROVE ProviderSeals(d)'
  <2> SUFFICES ASSUME NEW v, v \in sealed'[d], v.from = "provider"
               PROVE  /\ v.ctr % 2 = 1
                      /\ v.key <= tries[d]
                      /\ serve[d] = "acking" => v.key < tries[d]
                      /\ Holds(d) /\ v.key = tries[d]
                            => v.ctr < sendCounter'[d]["provider"]
    BY DEF ProviderSeals
  <2>1. CASE d = c /\ v = w
    <3>1. tries[c] \in Nat
      BY DEF CallsTypeOK
    <3>2. serve[c] # "acking"
      BY DEF Holds
    <3> QED BY <2>1, <3>1, <3>2, <1>1, <1>2, <1>5
  <2>2. CASE v \in sealed[d]
    <3>1. /\ v.ctr % 2 = 1 /\ v.key <= tries[d]
          /\ serve[d] = "acking" => v.key < tries[d]
          /\ Holds(d) /\ v.key = tries[d] => v.ctr < sendCounter[d]["provider"]
      BY <2>2 DEF NonceInv, SealInv, ProviderSeals
    <3>2. v.ctr \in Nat /\ sendCounter[d]["provider"] \in Nat
      <4>1. v \in Wire
        BY <2>2, <1>6
      <4>2. sendCounter[d]["provider"] \in Nat
        BY DEF CallsTypeOK, Ends
      <4> QED BY <4>1, <4>2 DEF Wire
    <3>3. CASE d = c
      BY <3>1, <3>2, <3>3, <1>2
    <3>4. CASE d # c
      BY <3>1, <3>4, <1>3 DEF Ends
    <3> QED BY <3>3, <3>4
  <2> QED BY <1>4, <2>1, <2>2
<1>9. NonceUsedOnce'
  <2>1. ASSUME NEW v \in sealed[c], v.key = w.key, v.ctr = w.ctr PROVE FALSE
    <3>1. v \in Wire
      BY <1>6
    <3>2. CASE v.from = "provider"
      BY <3>2, <2>1, <1>1, <1>5, <3>1 DEF NonceInv, SealInv, ProviderSeals
    <3>3. CASE v.from = "consumer"
      BY <3>3, <2>1, <1>5 DEF NonceInv, SealInv, ConsumerSeals
    <3> QED BY <3>1, <3>2, <3>3 DEF Wire, Ends
  <2> QED BY <2>1, <1>4, ZenonT(60) DEF NonceInv, NonceUsedOnce
<1>10. \A d \in Calls : Holds(d)' => key'[d]["provider"] = tries'[d]
  BY DEF NonceInv, SealInv
<1> QED BY <1>2, <1>7, <1>8, <1>9, <1>10 DEF NonceInv, SealInv

(* A new ephemeral key is one under which nothing is sealed.               *)
LEMMA NonceScan ==
    ASSUME CallsTypeOK, NonceInv, NEW c \in Calls, ScanFinds(c)
    PROVE  NonceInv'
<1>1. ASSUME NEW d \in Calls PROVE ProviderSeals(d)'
  <2> SUFFICES ASSUME NEW v, v \in sealed[d], v.from = "provider"
               PROVE  /\ v.ctr % 2 = 1
                      /\ v.key <= tries'[d]
                      /\ serve'[d] = "acking" => v.key < tries'[d]
                      /\ Holds(d)' /\ v.key = tries'[d]
                            => v.ctr < sendCounter[d]["provider"]
    BY DEF ProviderSeals, ScanFinds, link
  <2>1. /\ v.ctr % 2 = 1 /\ v.key <= tries[d]
        /\ serve[d] = "acking" => v.key < tries[d]
        /\ Holds(d) /\ v.key = tries[d] => v.ctr < sendCounter[d]["provider"]
    BY DEF NonceInv, SealInv, ProviderSeals
  <2>2. v.key \in Nat /\ tries[d] \in Nat
    <3>1. v \in Wire /\ tries[d] \in Nat
      BY DEF CallsTypeOK
    <3> QED BY <3>1 DEF Wire
  <2>3. CASE d = c
    <3>1. tries'[d] = tries[d] + 1 /\ serve'[d] = "acking"
      BY <2>3 DEF ScanFinds, Serves, CallsTypeOK
    <3> QED BY <2>1, <2>2, <3>1 DEF Holds
  <2>4. CASE d # c
    <3>1. tries'[d] = tries[d] /\ serve'[d] = serve[d]
      BY <2>4 DEF ScanFinds, Serves, CallsTypeOK
    <3> QED BY <2>1, <3>1 DEF Holds
  <2> QED BY <2>3, <2>4
<1>2. \A d \in Calls : ConsumerSeals(d)'
  BY DEF NonceInv, SealInv, ConsumerSeals, ScanFinds, link
<1>3. \A d \in Calls : Holds(d)' => key'[d]["provider"] = tries'[d]
  BY DEF NonceInv, SealInv, ScanFinds, Serves, CallsTypeOK, Holds
<1> QED BY <1>1, <1>2, <1>3 DEF NonceInv, SealInv, Parity, NonceUsedOnce, ScanFinds, link

(* The session that is stored has the latest key, as yet unused.           *)
LEMMA NonceAck ==
    ASSUME CallsTypeOK, NonceInv, NEW c \in Calls, AckAccepted(c)
    PROVE  NonceInv'
<1>1. ASSUME NEW d \in Calls PROVE ProviderSeals(d)'
  <2> SUFFICES ASSUME NEW v, v \in sealed[d], v.from = "provider"
               PROVE  /\ v.ctr % 2 = 1
                      /\ v.key <= tries[d]
                      /\ serve'[d] = "acking" => v.key < tries[d]
                      /\ Holds(d)' /\ v.key = tries[d]
                            => v.ctr < sendCounter[d]["provider"]
    BY DEF ProviderSeals, AckAccepted, link
  <2>1. /\ v.ctr % 2 = 1 /\ v.key <= tries[d]
        /\ serve[d] = "acking" => v.key < tries[d]
        /\ Holds(d) /\ v.key = tries[d] => v.ctr < sendCounter[d]["provider"]
    BY DEF NonceInv, SealInv, ProviderSeals
  <2>2. CASE d = c
    <3>1. serve[d] = "acking" /\ serve'[d] = "ready"
      BY <2>2 DEF AckAccepted, Serves, CallsTypeOK
    <3>2. v.key \in Nat /\ tries[d] \in Nat
      <4>1. v \in Wire /\ tries[d] \in Nat
        BY DEF CallsTypeOK
      <4> QED BY <4>1 DEF Wire
    <3> QED BY <2>1, <3>1, <3>2
  <2>3. CASE d # c
    <3>1. serve'[d] = serve[d]
      BY <2>3 DEF AckAccepted, Serves, CallsTypeOK
    <3> QED BY <2>1, <3>1 DEF Holds
  <2> QED BY <2>2, <2>3
<1>2. \A d \in Calls : ConsumerSeals(d)'
  BY DEF NonceInv, SealInv, ConsumerSeals, AckAccepted, link
<1>3. \A d \in Calls : Holds(d)' => key'[d]["provider"] = tries'[d]
  <2>1. key'[c]["provider"] = tries[c] /\ tries' = tries
    BY DEF AckAccepted, CallsTypeOK, Ends
  <2>2. \A d \in Calls \ {c} : key'[d] = key[d] /\ serve'[d] = serve[d]
    BY DEF AckAccepted, Serves, CallsTypeOK
  <2> QED BY <2>1, <2>2 DEF NonceInv, SealInv, Holds
<1> QED BY <1>1, <1>2, <1>3
        DEF NonceInv, SealInv, Parity, NonceUsedOnce, AckAccepted, link

(* A restart begins the counters anew, but forgets the keys as well.       *)
LEMMA NonceRestart ==
    ASSUME CallsTypeOK, NonceInv, ProviderRestarts
    PROVE  NonceInv'
<1>1. Parity'
  <2> SUFFICES ASSUME NEW c \in Calls, NEW e \in Ends
               PROVE  sendCounter'[c][e] % 2 = FirstCounter(e)
    BY DEF Parity
  <2>1. CASE e = "provider"
    BY <2>1 DEF ProviderRestarts, CallsTypeOK, FirstCounter, Ends
  <2>2. CASE e = "consumer"
    <3>1. sendCounter'[c][e] = sendCounter[c][e]
      BY <2>2 DEF ProviderRestarts, CallsTypeOK, Ends
    <3> QED BY <3>1 DEF NonceInv, SealInv, Parity
  <2> QED BY <2>1, <2>2 DEF Ends
<1>2. \A c \in Calls : sendCounter'[c]["consumer"] = sendCounter[c]["consumer"]
  BY DEF ProviderRestarts, CallsTypeOK, Ends
<1>3. \A c \in Calls : serve'[c] = "none"
  BY DEF ProviderRestarts
<1>4. UNCHANGED <<sealed, stage, tries>>
  BY DEF ProviderRestarts
<1>5. \A c \in Calls : ConsumerSeals(c)' /\ ProviderSeals(c)'
  BY <1>2, <1>3, <1>4 DEF NonceInv, SealInv, ConsumerSeals, ProviderSeals, Holds
<1> QED BY <1>1, <1>3, <1>4, <1>5 DEF NonceInv, SealInv, Holds, NonceUsedOnce

LEMMA NonceStep == CallsTypeOK /\ NonceInv /\ [CallsNext]_callVars => NonceInv'
<1> SUFFICES ASSUME CallsTypeOK, NonceInv, [CallsNext]_callVars PROVE NonceInv'
  OBVIOUS
<1>1. ASSUME NEW c \in Calls,
             \/ SendInit(c) \/ SendInitFails(c) \/ RequestSent(c) \/ AwaitReceives(c)
             \/ AwaitTimesOut(c) \/ DrainTimesOut(c) \/ DrainTakes(c)
             \/ SettleReceives(c) \/ FundFails(c) \/ FundedSent(c) \/ RateThrows(c)
             \/ CallFails(c) \/ Arrive(c)
      PROVE  NonceInv'
  <2>1. UNCHANGED <<serve, tries, key, sealed, sendCounter>>
    BY <1>1 DEF SendInit, SendInitFails, RequestSent, AwaitReceives, AwaitTimesOut,
       DrainTimesOut, DrainTakes, SettleReceives, FundFails, FundedSent, RateThrows,
       CallFails, Arrive, link, handshake
  <2>2. stage' = stage \/ \E s \in Stages \ {"idle"} :
            /\ stage' = [stage EXCEPT ![c] = s]
            /\ s = "handshaking" => stage[c] = "idle"
    BY <1>1 DEF SendInit, SendInitFails, RequestSent, AwaitReceives, AwaitTimesOut,
       DrainTimesOut, DrainTakes, SettleReceives, FundFails, FundedSent, RateThrows,
       CallFails, Arrive, LoopEnds, SettleEnds, Goes, Stages
  <2>3. \A d \in Calls : Greeted(d) => Greeted(d)'
    BY <2>2 DEF CallsTypeOK, Greeted
  <2> QED BY <2>1, <2>3, NonceClient
<1>2. ASSUME NEW c \in Calls, TakeAck(c)
      PROVE  NonceInv'
  <2>1. PICK k \in acks[c] : /\ key' = [key EXCEPT ![c]["consumer"] = k]
                             /\ Post(c, "consumer", k, "request")
    BY <1>2 DEF TakeAck
  <2>2. k \in Nat
    BY DEF CallsTypeOK
  <2>3. \A d \in Calls : key'[d]["provider"] = key[d]["provider"]
    BY <2>1 DEF CallsTypeOK, Ends
  <2>4. Greeted(c)' /\ \A d \in Calls : Greeted(d) => Greeted(d)'
    BY <1>2 DEF TakeAck, Goes, Greeted, CallsTypeOK
  <2> QED BY <1>2, <2>1, <2>2, <2>3, <2>4, NoncePostConsumer DEF TakeAck, Kinds
<1>3. ASSUME NEW c \in Calls, FundAccepted(c)
      PROVE  NonceInv'
  <2>1. key[c]["consumer"] \in Nat
    BY DEF CallsTypeOK, Ends
  <2>2. Greeted(c)' /\ \A d \in Calls : Greeted(d) => Greeted(d)'
    BY <1>3 DEF FundAccepted, Goes, Greeted, CallsTypeOK
  <2> QED BY <1>3, <2>1, <2>2, NoncePostConsumer DEF FundAccepted, handshake, Kinds
<1>4. ASSUME NEW c \in Calls,
             HandlerReturns(c) \/ SendError(c) \/ SendOffer(c) \/ ClaimAccepted(c)
      PROVE  NonceInv'
  <2>1. PICK kind \in Kinds : Post(c, "provider", key[c]["provider"], kind)
    BY <1>4 DEF HandlerReturns, SendError, SendOffer, ClaimAccepted, ProviderPosts, Kinds
  <2>2. Holds(c) /\ UNCHANGED <<stage, tries, key>>
    BY <1>4 DEF HandlerReturns, SendError, SendOffer, ClaimAccepted, handshake, Holds
  <2>3. \E s \in ServeStages \ {"none", "acking"} : serve' = [serve EXCEPT ![c] = s]
    BY <1>4 DEF HandlerReturns, SendError, SendOffer, ClaimAccepted, Serves, ServeStages
  <2>4. \A d \in Calls : Holds(d)' => Holds(d)
    BY <2>2, <2>3 DEF CallsTypeOK, Holds
  <2>5. \A d \in Calls : serve'[d] = "acking" => serve[d] = "acking"
    BY <2>2, <2>3 DEF CallsTypeOK
  <2> QED BY <2>1, <2>2, <2>4, <2>5, NoncePostProvider
<1>5. ASSUME NEW c \in Calls,
             \/ AckFails(c) \/ TakeRequest(c) \/ ErrorSent(c) \/ OfferSent(c)
             \/ WaitReceives(c) \/ SettlementEnds(c)
      PROVE  NonceInv'
  <2>1. UNCHANGED <<stage, tries, key, sealed, sendCounter>>
    BY <1>5 DEF AckFails, TakeRequest, ErrorSent, OfferSent, WaitReceives,
       SettlementEnds, link, handshake
  <2>2. serve' = serve \/ \E s \in ServeStages \ {"acking"} :
            /\ serve' = [serve EXCEPT ![c] = s]
            /\ s # "none" => Holds(c)
    BY <1>5 DEF AckFails, TakeRequest, ErrorSent, OfferSent, WaitReceives,
       SettlementEnds, ServiceEnds, Serves, ServeStages, Holds
  <2>3. \A d \in Calls : Holds(d)' => Holds(d)
    BY <2>2 DEF CallsTypeOK, Holds
  <2>4. \A d \in Calls : serve'[d] = "acking" => serve[d] = "acking"
    BY <2>2 DEF CallsTypeOK
  <2> QED BY <2>1, <2>3, <2>4, NonceProvider
<1>6. CASE ProviderRestarts
  BY <1>6, NonceRestart
<1>7. CASE UNCHANGED callVars
  BY <1>7, NonceClient DEF callVars, handshake, link, Greeted
<1> QED BY <1>1, <1>2, <1>3, <1>4, <1>5, <1>6, <1>7, NonceScan, NonceAck
        DEF CallsNext, ClientStep, ProviderStep

(* No two messages of a session share a key and a counter, for any number  *)
(* of lost messages, error answers, failed ACKs and restarts.              *)
THEOREM NonceUsedOnceHolds == CallsSpec => []NonceUsedOnce
<1>1. NonceInv => NonceUsedOnce
  BY DEF NonceInv
<1> QED BY TypeCorrect, NonceInit, NonceStep, <1>1, PTL DEF CallsSpec

-----------------------------------------------------------------------------
(* What travels was sealed *)

LEMMA TransitQuiet ==
    ASSUME Transit, UNCHANGED <<net, queue, sealed>>
    PROVE  Transit'
BY DEF Transit

LEMMA TransitPost ==
    ASSUME CallsTypeOK, Transit, NEW c \in Calls, NEW e \in Ends, NEW k, NEW kind,
           Post(c, e, k, kind), queue' = queue
    PROVE  Transit'
<1> DEFINE w == [from |-> e, key |-> k, ctr |-> sendCounter[c][e], kind |-> kind]
<1>1. net' = [net EXCEPT ![c] = @ \cup {w}] /\ sealed' = [sealed EXCEPT ![c] = @ \cup {w}]
  BY DEF Post
<1> HIDE DEF w
<1>2. \A d \in Calls : net'[d] \subseteq sealed'[d] /\ sealed[d] \subseteq sealed'[d]
  BY <1>1 DEF CallsTypeOK, Transit
<1> QED BY <1>2 DEF Transit

LEMMA TransitTail ==
    ASSUME CallsTypeOK, Transit, NEW c \in Calls, NEW e \in Ends, queue[c][e] # <<>>,
           queue' = [queue EXCEPT ![c][e] = Tail(@)], net' = net, sealed' = sealed
    PROVE  Transit'
<1> SUFFICES ASSUME NEW d \in Calls, NEW f \in Ends, NEW i, i \in DOMAIN queue'[d][f]
             PROVE  queue'[d][f][i] \in sealed[d]
  BY DEF Transit
<1> DEFINE q == queue[d][f]
<1>1. q \in Seq(Wire)
  BY DEF CallsTypeOK
<1>2. queue'[d][f] = q \/ (q # <<>> /\ queue'[d][f] = Tail(q))
  BY DEF CallsTypeOK
<1>3. PICK j \in DOMAIN q : queue'[d][f][i] = q[j]
  <2>1. CASE queue'[d][f] = q
    BY <2>1
  <2>2. CASE q # <<>> /\ queue'[d][f] = Tail(q)
    <3>1. i + 1 \in DOMAIN q /\ Tail(q)[i] = q[i + 1]
      BY <1>1, <2>2, TailEntry
    <3> QED BY <2>2, <3>1
  <2> QED BY <1>2, <2>1, <2>2
<1> QED BY <1>3 DEF Transit

LEMMA TransitHead ==
    ASSUME CallsTypeOK, Transit, NEW c \in Calls, NEW e \in Ends, queue[c][e] # <<>>
    PROVE  Head(queue[c][e]) \in sealed[c]
<1>1. queue[c][e] \in Seq(Wire)
  BY DEF CallsTypeOK
<1>2. 1 \in DOMAIN queue[c][e] /\ Head(queue[c][e]) = queue[c][e][1]
  BY <1>1
<1> QED BY <1>2 DEF Transit

LEMMA TransitArrive ==
    ASSUME CallsTypeOK, Transit, NEW c \in Calls, Arrive(c)
    PROVE  Transit'
<1>1. PICK w \in net[c] : /\ net' = [net EXCEPT ![c] = @ \ {w}]
                          /\ queue' = [queue EXCEPT ![c][Other(w.from)] = Append(@, w)]
  BY DEF Arrive
<1>2. w \in Wire /\ Other(w.from) \in Ends /\ w \in sealed[c] /\ sealed' = sealed
  BY DEF CallsTypeOK, Wire, Other, Ends, Transit, Arrive
<1>3. \A d \in Calls : net'[d] \subseteq sealed'[d]
  BY <1>1, <1>2 DEF CallsTypeOK, Transit
<1>4. ASSUME NEW d \in Calls, NEW f \in Ends, NEW i, i \in DOMAIN queue'[d][f]
      PROVE  queue'[d][f][i] \in sealed[d]
  <2> DEFINE q == queue[d][f]
  <2>1. q \in Seq(Wire)
    BY DEF CallsTypeOK
  <2>2. queue'[d][f] = q \/ (d = c /\ queue'[d][f] = Append(q, w))
    BY <1>1, <1>2 DEF CallsTypeOK
  <2>3. CASE queue'[d][f] = q
    BY <2>3, <1>4 DEF Transit
  <2>4. CASE d = c /\ queue'[d][f] = Append(q, w)
    <3>1. queue'[d][f][i] = w \/ (i \in DOMAIN q /\ queue'[d][f][i] = q[i])
      BY <1>2, <1>4, <2>1, <2>4, AppendEntry
    <3> QED BY <3>1, <2>4, <1>2 DEF Transit
  <2> QED BY <2>2, <2>3, <2>4
<1> QED BY <1>2, <1>3, <1>4 DEF Transit

LEMMA TransitRestart ==
    ASSUME CallsTypeOK, Transit, ProviderRestarts
    PROVE  Transit'
<1>1. UNCHANGED <<net, sealed>>
  BY DEF ProviderRestarts
<1>2. \A c \in Calls, e \in Ends : queue'[c][e] = queue[c][e] \/ queue'[c][e] = <<>>
  BY DEF ProviderRestarts, CallsTypeOK, Ends
<1> QED BY <1>1, <1>2 DEF Transit

LEMMA TransitStep == CallsTypeOK /\ Transit /\ [CallsNext]_callVars => Transit'
<1> SUFFICES ASSUME CallsTypeOK, Transit, [CallsNext]_callVars PROVE Transit'
  OBVIOUS
<1>1. ASSUME NEW c \in Calls,
             \/ SendInit(c) \/ SendInitFails(c) \/ RequestSent(c) \/ AwaitTimesOut(c)
             \/ DrainTimesOut(c) \/ FundFails(c) \/ FundedSent(c) \/ RateThrows(c)
             \/ CallFails(c) \/ ScanFinds(c) \/ AckAccepted(c) \/ AckFails(c)
             \/ ErrorSent(c) \/ OfferSent(c) \/ SettlementEnds(c)
      PROVE  Transit'
  BY <1>1, TransitQuiet DEF SendInit, SendInitFails, RequestSent, AwaitTimesOut,
     DrainTimesOut, FundFails, FundedSent, RateThrows, CallFails, ScanFinds,
     AckAccepted, AckFails, ErrorSent, OfferSent, SettlementEnds, link
<1>2. ASSUME NEW c \in Calls,
             \/ TakeAck(c) \/ FundAccepted(c) \/ HandlerReturns(c) \/ SendError(c)
             \/ SendOffer(c) \/ ClaimAccepted(c)
      PROVE  Transit'
  <2>1. \E e \in Ends : \E k, kind : Post(c, e, k, kind)
    BY <1>2 DEF TakeAck, FundAccepted, HandlerReturns, SendError, SendOffer,
       ClaimAccepted, ProviderPosts, Ends
  <2>2. queue' = queue
    BY <1>2 DEF TakeAck, FundAccepted, HandlerReturns, SendError, SendOffer, ClaimAccepted
  <2> QED BY <2>1, <2>2, TransitPost
<1>3. ASSUME NEW c \in Calls,
             \/ AwaitReceives(c) \/ SettleReceives(c) \/ DrainTakes(c)
             \/ TakeRequest(c) \/ WaitReceives(c)
      PROVE  Transit'
  <2>1. PICK e \in Ends : /\ queue[c][e] # <<>>
                          /\ queue' = [queue EXCEPT ![c][e] = Tail(@)]
    BY <1>3 DEF AwaitReceives, SettleReceives, DrainTakes, TakeRequest, WaitReceives,
       Receive, Ends
  <2>2. UNCHANGED <<net, sealed>>
    BY <1>3 DEF AwaitReceives, SettleReceives, DrainTakes, TakeRequest, WaitReceives
  <2> QED BY <2>1, <2>2, TransitTail
<1>4. CASE UNCHANGED callVars
  BY <1>4, TransitQuiet DEF callVars, link
<1> QED BY <1>1, <1>2, <1>3, <1>4, TransitArrive, TransitRestart
        DEF CallsNext, ClientStep, ProviderStep

-----------------------------------------------------------------------------
(* The consumer's key is of an earlier ACK than the one under way *)

LEMMA AckQuiet ==
    ASSUME AckInv, UNCHANGED <<acks, tries, key>>,
           \A c \in Calls : serve'[c] = "acking" => serve[c] = "acking"
    PROVE  AckInv'
BY DEF AckInv

LEMMA AckTaken ==
    ASSUME CallsTypeOK, AckInv, NEW c \in Calls, TakeAck(c)
    PROVE  AckInv'
<1>1. PICK k \in acks[c] : key' = [key EXCEPT ![c]["consumer"] = k]
  BY DEF TakeAck
<1>2. \A d \in Calls : key'[d]["consumer"] = IF d = c THEN k ELSE key[d]["consumer"]
  BY <1>1 DEF CallsTypeOK, Ends
<1>3. UNCHANGED <<acks, tries, serve>>
  BY DEF TakeAck
<1> QED BY <1>2, <1>3 DEF AckInv

LEMMA AckScan ==
    ASSUME CallsTypeOK, AckInv, NEW c \in Calls, ScanFinds(c)
    PROVE  AckInv'
<1> SUFFICES ASSUME NEW d \in Calls
             PROVE  /\ \A k \in acks[d] : k >= 1 /\ k <= tries'[d]
                    /\ serve'[d] = "acking" => tries'[d] >= 1 /\ tries'[d] \notin acks[d]
                    /\ key[d]["consumer"] \in acks[d] \cup {0}
  BY DEF AckInv, ScanFinds
<1>1. /\ \A k \in acks[d] : k >= 1 /\ k <= tries[d]
      /\ serve[d] = "acking" => tries[d] >= 1 /\ tries[d] \notin acks[d]
      /\ key[d]["consumer"] \in acks[d] \cup {0}
  BY DEF AckInv
<1>2. tries[d] \in Nat /\ acks[d] \subseteq Nat
  BY DEF CallsTypeOK
<1>3. CASE d = c
  <2>1. tries'[d] = tries[d] + 1
    BY <1>3 DEF ScanFinds, CallsTypeOK
  <2> QED BY <1>1, <1>2, <2>1
<1>4. CASE d # c
  <2>1. tries'[d] = tries[d] /\ serve'[d] = serve[d]
    BY <1>4 DEF ScanFinds, Serves, CallsTypeOK
  <2> QED BY <1>1, <2>1
<1> QED BY <1>3, <1>4

(* The ACK under way reaches the chain, or not, and is under way no more.  *)
LEMMA AckEnds ==
    ASSUME CallsTypeOK, AckInv, UNCHANGED tries,
           \A c \in Calls : key'[c]["consumer"] = key[c]["consumer"],
           \A c \in Calls : \/ acks'[c] = acks[c] /\ serve'[c] # "acking"
                            \/ acks'[c] = acks[c] /\ serve'[c] = serve[c]
                            \/ /\ serve[c] = "acking" /\ serve'[c] # "acking"
                               /\ acks'[c] = acks[c] \cup {tries[c]}
    PROVE  AckInv'
<1> SUFFICES ASSUME NEW c \in Calls
             PROVE  /\ \A k \in acks'[c] : k >= 1 /\ k <= tries[c]
                    /\ serve'[c] = "acking" => tries[c] >= 1 /\ tries[c] \notin acks'[c]
                    /\ key[c]["consumer"] \in acks'[c] \cup {0}
  BY DEF AckInv
<1>1. /\ \A k \in acks[c] : k >= 1 /\ k <= tries[c]
      /\ serve[c] = "acking" => tries[c] >= 1 /\ tries[c] \notin acks[c]
      /\ key[c]["consumer"] \in acks[c] \cup {0}
  BY DEF AckInv
<1>2. tries[c] \in Nat
  BY DEF CallsTypeOK
<1> QED BY <1>1, <1>2

LEMMA AckStep == CallsTypeOK /\ AckInv /\ [CallsNext]_callVars => AckInv'
<1> SUFFICES ASSUME CallsTypeOK, AckInv, [CallsNext]_callVars PROVE AckInv'
  OBVIOUS
<1>1. ASSUME NEW c \in Calls,
             SendInit(c) \/ SendInitFails(c) \/ ClientStep(c) \/ Arrive(c)
      PROVE  AckInv'
  <2>1. UNCHANGED acks /\ UNCHANGED tries /\ UNCHANGED key /\ UNCHANGED serve
    BY <1>1, Zenon DEF SendInit, SendInitFails, ClientStep, RequestSent, AwaitReceives,
       AwaitTimesOut, DrainTimesOut, DrainTakes, SettleReceives, FundAccepted, FundFails,
       FundedSent, RateThrows, CallFails, Arrive, handshake
  <2> QED BY <2>1, AckQuiet
<1>2. ASSUME NEW c \in Calls,
             \/ TakeRequest(c) \/ HandlerReturns(c) \/ SendError(c) \/ ErrorSent(c)
             \/ SendOffer(c) \/ OfferSent(c) \/ WaitReceives(c) \/ ClaimAccepted(c)
             \/ SettlementEnds(c)
      PROVE  AckInv'
  <2>1. UNCHANGED <<acks, tries, key>>
    BY <1>2 DEF TakeRequest, HandlerReturns, SendError, ErrorSent, SendOffer, OfferSent,
       WaitReceives, ClaimAccepted, SettlementEnds, handshake
  <2>2. serve' = serve \/ \E s \in ServeStages \ {"acking"} : serve' = [serve EXCEPT ![c] = s]
    BY <1>2 DEF TakeRequest, HandlerReturns, SendError, ErrorSent, SendOffer, OfferSent,
       WaitReceives, ClaimAccepted, SettlementEnds, ServiceEnds, Serves, ServeStages
  <2>3. \A d \in Calls : serve'[d] = "acking" => serve[d] = "acking"
    BY <2>2 DEF CallsTypeOK
  <2> QED BY <2>1, <2>3, AckQuiet
<1>3. ASSUME NEW c \in Calls, AckAccepted(c) \/ AckFails(c)
      PROVE  AckInv'
  <2>1. \A d \in Calls : key'[d]["consumer"] = key[d]["consumer"]
    <3>1. CASE AckAccepted(c)
      BY <3>1 DEF AckAccepted, CallsTypeOK, Ends
    <3>2. CASE AckFails(c)
      BY <3>2 DEF AckFails
    <3> QED BY <1>3, <3>1, <3>2
  <2>2. tries' = tries
    BY <1>3 DEF AckAccepted, AckFails
  <2>3. \A d \in Calls \ {c} : acks'[d] = acks[d] /\ serve'[d] = serve[d]
    BY <1>3 DEF AckAccepted, AckFails, Serves, CallsTypeOK
  <2>4. /\ serve[c] = "acking" /\ serve'[c] # "acking"
        /\ acks'[c] = acks[c] \cup {tries[c]} \/ acks'[c] = acks[c]
    BY <1>3 DEF AckAccepted, AckFails, Serves, CallsTypeOK
  <2> QED BY <2>1, <2>2, <2>3, <2>4, AckEnds
<1>4. CASE ProviderRestarts
  <2>1. \A c \in Calls : key'[c]["consumer"] = key[c]["consumer"]
    BY <1>4 DEF ProviderRestarts, CallsTypeOK, Ends
  <2>2. tries' = tries /\ \A c \in Calls : serve'[c] = "none"
    BY <1>4 DEF ProviderRestarts
  <2>3. PICK S \in SUBSET {c \in Calls : serve[c] = "acking"} :
            acks' = [c \in Calls |-> IF c \in S THEN acks[c] \cup {tries[c]} ELSE acks[c]]
    BY <1>4 DEF ProviderRestarts
  <2>4. \A c \in Calls : \/ acks'[c] = acks[c]
                         \/ serve[c] = "acking" /\ acks'[c] = acks[c] \cup {tries[c]}
    BY <2>3
  <2> QED BY <2>1, <2>2, <2>4, AckEnds
<1>5. CASE UNCHANGED callVars
  BY <1>5, AckQuiet DEF callVars, handshake
<1> QED BY <1>1, <1>2, <1>3, <1>4, <1>5, AckTaken, AckScan DEF CallsNext, ProviderStep

-----------------------------------------------------------------------------
(* One request, handled at most once *)

Early == {"idle", "handshaking"}

(* What a step keeps of a session's service, unless it is the one that     *)
(* seals the request, reads it or returns from the handler.                *)
KeepsService(d) ==
    /\ key'[d]["consumer"] = key[d]["consumer"]
    /\ worked'[d] = worked[d]
    /\ serve'[d] = "handling" => serve[d] = "handling"
    /\ Holds(d)' => \/ /\ Holds(d)
                       /\ key'[d]["provider"] = key[d]["provider"]
                       /\ recvCounter'[d]["provider"] >= recvCounter[d]["provider"]
                    \/ key'[d]["provider"] # key'[d]["consumer"]
    /\ stage'[d] \in Early => /\ stage[d] \in Early
                              /\ sendCounter'[d]["consumer"] = sendCounter[d]["consumer"]
    /\ \A w \in sealed'[d] : w.kind = "request" => w \in sealed[d]

RequestOf(c) ==
    /\ stage[c] \in Early => sendCounter[c]["consumer"] = 0 /\ ~Served(c)
    /\ \A w \in sealed[c] : w.kind = "request" =>
          w.from = "consumer" /\ w.ctr = 0 /\ w.key = key[c]["consumer"]
    /\ Served(c) /\ Holds(c) /\ key[c]["provider"] = key[c]["consumer"] =>
          recvCounter[c]["provider"] > 0
    /\ serve[c] = "handling" => worked[c] = 0
    /\ worked[c] <= 1

LEMMA RequestEach == RequestInv <=> \A c \in Calls : RequestOf(c)
BY DEF RequestInv, RequestOf, Early

LEMMA RequestKept ==
    ASSUME CallsTypeOK, NEW d \in Calls, RequestOf(d), KeepsService(d),
           recvCounter'[d]["provider"] \in Nat
    PROVE  RequestOf(d)'
<1>1. Served(d)' => Served(d)
  BY DEF KeepsService, Served
<1>2. recvCounter[d]["provider"] \in Nat /\ worked[d] \in Nat
  BY DEF CallsTypeOK, Ends
<1> QED BY <1>1, <1>2 DEF KeepsService, RequestOf

LEMMA ReceiveGrows ==
    ASSUME CallsTypeOK, NEW c \in Calls, NEW e \in Ends, Receive(c, e)
    PROVE  /\ recvCounter' \in Counters
           /\ \A d \in Calls, f \in Ends : recvCounter'[d][f] >= recvCounter[d][f]
<1>1. recvCounter \in [Calls -> [Ends -> Nat]]
  BY DEF CallsTypeOK
<1>2. \/ recvCounter' = [recvCounter EXCEPT ![c][e] = @ + 2]
      \/ recvCounter' = recvCounter
  BY DEF Receive
<1>3. CASE recvCounter' = [recvCounter EXCEPT ![c][e] = @ + 2]
  BY <1>1, <1>3 DEF Counters
<1>4. CASE recvCounter' = recvCounter
  BY <1>1, <1>4 DEF Counters
<1> QED BY <1>2, <1>3, <1>4

(* A step of the client or of the wire.                                    *)
LEMMA RequestClient ==
    ASSUME CallsTypeOK, RequestInv, NEW c \in Calls, UNCHANGED <<serve, key, worked>>,
           recvCounter' \in Counters,
           \A d \in Calls : recvCounter'[d]["provider"] >= recvCounter[d]["provider"],
           \A d \in Calls :
              stage'[d] \in Early =>
                 stage[d] \in Early /\ sendCounter'[d]["consumer"] = sendCounter[d]["consumer"],
           \A d \in Calls : \A w \in sealed'[d] : w.kind = "request" => w \in sealed[d]
    PROVE  RequestInv'
<1> SUFFICES ASSUME NEW d \in Calls PROVE RequestOf(d)'
  BY RequestEach DEF RequestInv, RequestOf, Early
<1>1. KeepsService(d)
  BY DEF KeepsService, Holds
<1>2. recvCounter'[d]["provider"] \in Nat
  BY DEF Counters, Ends
<1> QED BY <1>1, <1>2, RequestKept, RequestEach

(* A step of the provider that neither takes nor serves a request.         *)
LEMMA RequestProvider ==
    ASSUME CallsTypeOK, RequestInv, UNCHANGED <<stage, worked>>,
           recvCounter' \in Counters,
           \A d \in Calls : key'[d]["consumer"] = key[d]["consumer"],
           \A d \in Calls : sendCounter'[d]["consumer"] = sendCounter[d]["consumer"],
           \A d \in Calls : serve'[d] = "handling" => serve[d] = "handling",
           \A d \in Calls :
              Holds(d)' => \/ /\ Holds(d)
                              /\ key'[d]["provider"] = key[d]["provider"]
                              /\ recvCounter'[d]["provider"] >= recvCounter[d]["provider"]
                           \/ key'[d]["provider"] # key'[d]["consumer"],
           \A d \in Calls : \A w \in sealed'[d] : w.kind = "request" => w \in sealed[d]
    PROVE  RequestInv'
<1> SUFFICES ASSUME NEW d \in Calls PROVE RequestOf(d)'
  BY RequestEach DEF RequestInv, RequestOf, Early
<1>1. KeepsService(d)
  BY DEF KeepsService, Holds
<1>2. recvCounter'[d]["provider"] \in Nat
  BY DEF Counters, Ends
<1> QED BY <1>1, <1>2, RequestKept, RequestEach

LEMMA PostAdds ==
    ASSUME CallsTypeOK, NEW c \in Calls, NEW e \in Ends, NEW k, NEW kind, Post(c, e, k, kind)
    PROVE  /\ \A d \in Calls \ {c} : sealed'[d] = sealed[d] /\ sendCounter'[d] = sendCounter[d]
           /\ sealed'[c] = sealed[c] \cup
                 {[from |-> e, key |-> k, ctr |-> sendCounter[c][e], kind |-> kind]}
           /\ \A f \in Ends \ {e} : sendCounter'[c][f] = sendCounter[c][f]
<1>1. sendCounter \in [Calls -> [Ends -> Nat]]
  BY DEF CallsTypeOK
<1>2. sealed \in [Calls -> SUBSET Wire]
  BY DEF CallsTypeOK
<1>3. sendCounter' = [sendCounter EXCEPT ![c][e] = @ + 2]
  BY DEF Post
<1>4. sealed' = [sealed EXCEPT ![c] = @ \cup
                 {[from |-> e, key |-> k, ctr |-> sendCounter[c][e], kind |-> kind]}]
  BY DEF Post
<1> QED BY <1>1, <1>2, <1>3, <1>4

(* The consumer has sealed nothing before its request.                     *)
LEMMA RequestSealed ==
    ASSUME CallsTypeOK, NonceInv, RequestInv, NEW c \in Calls, TakeAck(c)
    PROVE  RequestInv'
<1>1. PICK k \in acks[c] : /\ key' = [key EXCEPT ![c]["consumer"] = k]
                           /\ Post(c, "consumer", k, "request")
  BY DEF TakeAck
<1>2. /\ stage[c] = "handshaking"
      /\ stage' = [stage EXCEPT ![c] = "requesting"]
      /\ UNCHANGED <<serve, recvCounter, worked>>
  BY DEF TakeAck, Goes
<1>3. "consumer" \in Ends
  BY DEF Ends
<1>4. \A w \in sealed[c] : w.from # "consumer"
  BY <1>2 DEF NonceInv, SealInv, ConsumerSeals
<1>5. \A d \in Calls : RequestOf(d)
  BY RequestEach
<1>6. sendCounter[c]["consumer"] = 0 /\ ~Served(c)
  BY <1>2, <1>5 DEF RequestOf, Early
<1> SUFFICES ASSUME NEW d \in Calls PROVE RequestOf(d)'
  BY RequestEach DEF RequestInv, RequestOf, Early
<1>7. CASE d = c
  <2>1. key'[c]["consumer"] = k
    BY <1>1 DEF CallsTypeOK, Ends
  <2>2. \A w \in sealed[c] : w.kind # "request"
    BY <1>4, <1>5 DEF RequestOf
  <2>3. sealed'[c] = sealed[c] \cup
          {[from |-> "consumer", key |-> k, ctr |-> 0, kind |-> "request"]}
    BY <1>1, <1>3, <1>6, PostAdds
  <2>4. stage'[c] \notin Early
    BY <1>2 DEF CallsTypeOK, Early
  <2>5. ~Served(c)' /\ serve'[c] # "handling" /\ worked'[c] <= 1
    BY <1>2, <1>5, <1>6 DEF Served, RequestOf
  <2> QED BY <1>7, <2>1, <2>2, <2>3, <2>4, <2>5 DEF RequestOf
<1>8. CASE d # c
  <2>1. stage'[d] = stage[d] /\ key'[d] = key[d]
    BY <1>1, <1>2, <1>8 DEF CallsTypeOK
  <2>2. sealed'[d] = sealed[d] /\ sendCounter'[d] = sendCounter[d]
    BY <1>1, <1>3, <1>8, PostAdds
  <2>3. recvCounter'[d]["provider"] \in Nat /\ recvCounter[d]["provider"] \in Nat
    BY <1>2 DEF CallsTypeOK, Ends
  <2>4. KeepsService(d)
    BY <1>2, <2>1, <2>2, <2>3 DEF KeepsService, Holds
  <2> QED BY <1>5, <2>3, <2>4, RequestKept
<1> QED BY <1>7, <1>8

(* The provider expects the first message of the consumer under the        *)
(* consumer's key only as long as nobody has served the call.              *)
LEMMA RequestTaken ==
    ASSUME CallsTypeOK, NonceInv, Transit, RequestInv, NEW c \in Calls, TakeRequest(c)
    PROVE  RequestInv'
<1>1. /\ serve[c] = "ready"
      /\ Receive(c, "provider")
      /\ UNCHANGED <<stage, key, sendCounter, sealed, worked>>
  BY DEF TakeRequest, handshake
<1>2. /\ recvCounter' \in Counters
      /\ \A d \in Calls : recvCounter'[d]["provider"] >= recvCounter[d]["provider"]
  BY <1>1, ReceiveGrows DEF Ends
<1>3. \A d \in Calls : RequestOf(d)
  BY RequestEach
<1>4. CASE ~Reads(c, "provider", "request")
  <2>1. serve' = serve
    BY <1>4 DEF TakeRequest
  <2> QED BY <1>1, <1>2, <2>1, RequestClient
<1>5. CASE Reads(c, "provider", "request")
  <2> DEFINE w == Head(queue[c]["provider"])
  <2>1. queue[c]["provider"] # <<>>
    BY <1>1 DEF Receive
  <2>2. w \in sealed[c]
    BY <2>1, TransitHead DEF Ends
  <2>3. /\ w.kind = "request"
        /\ w.key = key[c]["provider"]
        /\ w.ctr = recvCounter[c]["provider"]
    BY <1>5 DEF Reads, Opens
  <2>4. w.from = "consumer" /\ w.ctr = 0 /\ w.key = key[c]["consumer"]
    BY <1>3, <2>2, <2>3 DEF RequestOf
  <2>5. ~Served(c)
    BY <1>1, <1>3, <2>3, <2>4 DEF RequestOf, Holds
  <2>6. recvCounter' = [recvCounter EXCEPT ![c]["provider"] = @ + 2]
    BY <1>1, <1>5 DEF Receive, Reads
  <2>7. serve' = [serve EXCEPT ![c] = "handling"]
    BY <1>5 DEF TakeRequest, Serves
  <2> SUFFICES ASSUME NEW d \in Calls PROVE RequestOf(d)'
    BY RequestEach DEF RequestInv, RequestOf, Early
  <2>8. CASE d = c
    <3>1. recvCounter'[c]["provider"] > 0
      <4>1. recvCounter[c]["provider"] = 0
        BY <2>3, <2>4
      <4>2. recvCounter \in [Calls -> [Ends -> Nat]] /\ "provider" \in Ends
        BY DEF CallsTypeOK, Ends
      <4>3. recvCounter'[c]["provider"] = recvCounter[c]["provider"] + 2
        BY <2>6, <4>2
      <4> QED BY <4>1, <4>3
    <3>2. worked[c] = 0
      BY <2>5 DEF Served, CallsTypeOK
    <3>3. stage[c] \notin Early
      BY <2>2, <2>4 DEF NonceInv, SealInv, ConsumerSeals, Early
    <3> QED BY <1>1, <1>3, <2>8, <3>1, <3>2, <3>3 DEF RequestOf
  <2>9. CASE d # c
    <3>1. serve'[d] = serve[d]
      BY <2>7, <2>9 DEF CallsTypeOK
    <3>2. recvCounter'[d]["provider"] \in Nat
      BY <1>2 DEF Counters, Ends
    <3>3. KeepsService(d)
      BY <1>1, <1>2, <3>1 DEF KeepsService, Holds
    <3> QED BY <1>3, <3>2, <3>3, RequestKept
  <2> QED BY <2>8, <2>9
<1> QED BY <1>4, <1>5

LEMMA RequestServed ==
    ASSUME CallsTypeOK, RequestInv, NEW c \in Calls, HandlerReturns(c)
    PROVE  RequestInv'
<1>1. /\ serve[c] = "handling"
      /\ serve' = [serve EXCEPT ![c] = "answering"]
      /\ worked' = [worked EXCEPT ![c] = @ + 1]
      /\ Post(c, "provider", key[c]["provider"], "response")
      /\ UNCHANGED <<stage, key, recvCounter>>
  BY DEF HandlerReturns, ProviderPosts, Serves, handshake
<1>2. \A d \in Calls : RequestOf(d)
  BY RequestEach
<1>3. "provider" \in Ends /\ "consumer" \in Ends \ {"provider"}
  BY DEF Ends
<1> SUFFICES ASSUME NEW d \in Calls PROVE RequestOf(d)'
  BY RequestEach DEF RequestInv, RequestOf, Early
<1>4. CASE d = c
  <2>1. worked[c] = 0 /\ Served(c) /\ Holds(c)
    BY <1>1, <1>2 DEF RequestOf, Served, Holds
  <2>2. worked'[c] = 1 /\ serve'[c] = "answering"
    BY <1>1, <2>1 DEF CallsTypeOK
  <2>3. \A w \in sealed'[c] : w.kind = "request" => w \in sealed[c]
    BY <1>1, <1>3, PostAdds
  <2>4. stage[c] \notin Early
    BY <1>2, <2>1 DEF RequestOf
  <2> QED BY <1>1, <1>2, <1>4, <2>1, <2>2, <2>3, <2>4 DEF RequestOf
<1>5. CASE d # c
  <2>1. serve'[d] = serve[d] /\ worked'[d] = worked[d]
    BY <1>1, <1>5 DEF CallsTypeOK
  <2>2. sealed'[d] = sealed[d] /\ sendCounter'[d] = sendCounter[d]
    BY <1>1, <1>3, <1>5, PostAdds
  <2>3. recvCounter'[d]["provider"] \in Nat /\ recvCounter[d]["provider"] \in Nat
    BY <1>1 DEF CallsTypeOK, Ends
  <2>4. KeepsService(d)
    BY <1>1, <2>1, <2>2, <2>3 DEF KeepsService, Holds
  <2> QED BY <1>2, <2>3, <2>4, RequestKept
<1> QED BY <1>4, <1>5

(* An ACK that is accepted was under way: no consumer has its key yet.     *)
LEMMA RequestAck ==
    ASSUME CallsTypeOK, AckInv, RequestInv, NEW c \in Calls, AckAccepted(c)
    PROVE  RequestInv'
<1>1. /\ serve[c] = "acking"
      /\ key' = [key EXCEPT ![c]["provider"] = tries[c]]
      /\ serve' = [serve EXCEPT ![c] = "ready"]
      /\ UNCHANGED <<stage, sendCounter, recvCounter, sealed, worked>>
  BY DEF AckAccepted, Serves, link
<1>2. tries[c] # key[c]["consumer"]
  BY <1>1 DEF AckInv
<1>3. /\ \A d \in Calls : key'[d]["consumer"] = key[d]["consumer"]
      /\ key'[c]["provider"] = tries[c]
      /\ \A d \in Calls \ {c} : key'[d] = key[d] /\ serve'[d] = serve[d]
      /\ serve'[c] = "ready"
  BY <1>1 DEF CallsTypeOK, Ends
<1>4. recvCounter' \in Counters
  BY <1>1 DEF CallsTypeOK, Counters
<1>5. \A d \in Calls : recvCounter'[d]["provider"] >= recvCounter[d]["provider"]
  <2>1. \A d \in Calls : recvCounter[d]["provider"] \in Nat
    BY DEF CallsTypeOK, Ends
  <2> QED BY <1>1, <2>1
<1>6. \A d \in Calls : serve'[d] = "handling" => serve[d] = "handling"
  BY <1>3
<1>7. \A d \in Calls :
         Holds(d)' => \/ /\ Holds(d)
                         /\ key'[d]["provider"] = key[d]["provider"]
                         /\ recvCounter'[d]["provider"] >= recvCounter[d]["provider"]
                      \/ key'[d]["provider"] # key'[d]["consumer"]
  BY <1>2, <1>3, <1>5 DEF Holds
<1> QED BY <1>1, <1>3, <1>4, <1>6, <1>7, RequestProvider

LEMMA RequestRestart ==
    ASSUME CallsTypeOK, RequestInv, ProviderRestarts
    PROVE  RequestInv'
<1>1. \A d \in Calls : /\ key'[d]["consumer"] = key[d]["consumer"]
                       /\ sendCounter'[d]["consumer"] = sendCounter[d]["consumer"]
  BY DEF ProviderRestarts, CallsTypeOK, Ends
<1>2. \A d \in Calls : serve'[d] = "none" /\ ~Holds(d)'
  BY DEF ProviderRestarts, Holds
<1>3. recvCounter' \in Counters
  BY DEF ProviderRestarts, CallsTypeOK, Counters, FirstCounter
<1>4. UNCHANGED <<stage, worked, sealed>>
  BY DEF ProviderRestarts
<1> QED BY <1>1, <1>2, <1>3, <1>4, RequestProvider

LEMMA StageStep ==
    ASSUME CallsTypeOK, NEW c \in Calls, SendInit(c) \/ SendInitFails(c) \/ ClientStep(c)
    PROVE  \A d \in Calls : stage'[d] \in Early => stage[d] \in Early
<1>1. stage \in [Calls -> Stages]
  BY DEF CallsTypeOK
<1>2. ASSUME NEW s, Goes(c, s), s \notin Early \/ stage[c] \in Early
      PROVE  \A d \in Calls : stage'[d] \in Early => stage[d] \in Early
  BY <1>1, <1>2 DEF Goes
<1>3. CASE SendInit(c) \/ SendInitFails(c)
  <2>1. stage[c] = "idle" /\ (Goes(c, "handshaking") \/ Goes(c, "failed"))
    BY <1>3, Zenon DEF SendInit, SendInitFails
  <2> QED BY <1>2, <2>1 DEF Early
<1>4. CASE ClientStep(c)
  <2>1. \/ Goes(c, "awaiting") \/ Goes(c, "draining") \/ Goes(c, "giving up")
        \/ Goes(c, "settling") \/ Goes(c, "funding") \/ Goes(c, "notifying")
        \/ Goes(c, "rating") \/ Goes(c, "complete") \/ Goes(c, "failed")
        \/ stage' = stage
    BY <1>4, Zenon DEF ClientStep, RequestSent, AwaitReceives, AwaitTimesOut,
       DrainTimesOut, DrainTakes, LoopEnds, SettleReceives, SettleEnds, FundAccepted,
       FundFails, FundedSent, RateThrows, CallFails
  <2> QED BY <1>2, <2>1 DEF Early
<1> QED BY <1>3, <1>4

LEMMA RequestStep ==
    CallsTypeOK /\ NonceInv /\ Transit /\ AckInv /\ RequestInv /\ [CallsNext]_callVars => RequestInv'
<1> SUFFICES ASSUME CallsTypeOK, NonceInv, Transit, AckInv, RequestInv, [CallsNext]_callVars
             PROVE  RequestInv'
  OBVIOUS
<1>e. "consumer" \in Ends /\ "provider" \in Ends
  BY DEF Ends
<1>1. ASSUME NEW c \in Calls, SendInit(c) \/ SendInitFails(c) \/ ClientStep(c)
      PROVE  RequestInv'
  <2>1. UNCHANGED serve /\ UNCHANGED key /\ UNCHANGED worked
    BY <1>1, Zenon DEF SendInit, SendInitFails, ClientStep, RequestSent, AwaitReceives,
       AwaitTimesOut, DrainTimesOut, DrainTakes, SettleReceives, FundAccepted, FundFails,
       FundedSent, RateThrows, CallFails, handshake
  <2>2. recvCounter' = recvCounter \/ Receive(c, "consumer")
    BY <1>1, Zenon DEF SendInit, SendInitFails, ClientStep, RequestSent, AwaitReceives,
       AwaitTimesOut, DrainTimesOut, DrainTakes, SettleReceives, FundAccepted, FundFails,
       FundedSent, RateThrows, CallFails, link
  <2>3. /\ recvCounter' \in Counters
        /\ \A d \in Calls : recvCounter'[d]["provider"] >= recvCounter[d]["provider"]
    <3>1. CASE recvCounter' = recvCounter
      <4>1. recvCounter \in Counters
        BY DEF CallsTypeOK, Counters
      <4>2. \A d \in Calls : recvCounter[d]["provider"] \in Nat
        BY <1>e, <4>1 DEF Counters
      <4> QED BY <3>1, <4>1, <4>2
    <3>2. CASE Receive(c, "consumer")
      BY <1>e, <3>2, ReceiveGrows
    <3> QED BY <2>2, <3>1, <3>2
  <2>4. \A d \in Calls : stage'[d] \in Early => stage[d] \in Early
    BY <1>1, StageStep
  <2>5. CASE FundAccepted(c)
    <3>1. Post(c, "consumer", key[c]["consumer"], "funded") /\ stage'[c] = "notifying"
      BY <2>5 DEF FundAccepted, Goes, CallsTypeOK
    <3>2. \A d \in Calls \ {c} : sealed'[d] = sealed[d] /\ sendCounter'[d] = sendCounter[d]
      BY <3>1, <1>e, PostAdds
    <3>3. \A w \in sealed'[c] : w.kind = "request" => w \in sealed[c]
      BY <3>1, <1>e, PostAdds
    <3>4. stage'[c] \notin Early
      BY <3>1 DEF Early
    <3> QED BY <2>1, <2>3, <2>4, <3>2, <3>3, <3>4, RequestClient
  <2>6. CASE ~FundAccepted(c)
    <3>1. UNCHANGED sealed /\ UNCHANGED sendCounter
      BY <1>1, <2>6, Zenon DEF SendInit, SendInitFails, ClientStep, RequestSent,
         AwaitReceives, AwaitTimesOut, DrainTimesOut, DrainTakes, SettleReceives,
         FundFails, FundedSent, RateThrows, CallFails, link
    <3> QED BY <2>1, <2>3, <2>4, <3>1, RequestClient
  <2> QED BY <2>5, <2>6
<1>2. ASSUME NEW c \in Calls, SendError(c) \/ SendOffer(c) \/ ClaimAccepted(c)
      PROVE  RequestInv'
  <2>1. PICK kind \in Kinds \ {"request"} : Post(c, "provider", key[c]["provider"], kind)
    BY <1>2 DEF SendError, SendOffer, ClaimAccepted, ProviderPosts, Kinds
  <2>2. Holds(c) /\ UNCHANGED <<stage, key, recvCounter, worked>>
    BY <1>2 DEF SendError, SendOffer, ClaimAccepted, handshake, Holds
  <2>3. \E s \in ServeStages \ {"none", "acking", "handling"} : serve' = [serve EXCEPT ![c] = s]
    BY <1>2 DEF SendError, SendOffer, ClaimAccepted, Serves, ServeStages
  <2>4. \A d \in Calls : /\ Holds(d)' => Holds(d)
                         /\ serve'[d] = "handling" => serve[d] = "handling"
    BY <2>2, <2>3 DEF CallsTypeOK, Holds
  <2>5. \A d \in Calls : sendCounter'[d]["consumer"] = sendCounter[d]["consumer"]
    BY <2>1, PostAdds DEF Ends
  <2>6. \A d \in Calls : \A w \in sealed'[d] : w.kind = "request" => w \in sealed[d]
    BY <2>1, <1>e, PostAdds
  <2>7. recvCounter' \in Counters /\ \A d \in Calls : recvCounter[d]["provider"] \in Nat
    BY <1>e, <2>2 DEF CallsTypeOK, Counters
  <2>8. \A d \in Calls : recvCounter'[d]["provider"] >= recvCounter[d]["provider"]
    BY <2>2, <2>7
  <2> QED BY <2>2, <2>4, <2>5, <2>6, <2>7, <2>8, RequestProvider
<1>3. ASSUME NEW c \in Calls,
             \/ ScanFinds(c) \/ AckFails(c) \/ ErrorSent(c) \/ OfferSent(c)
             \/ WaitReceives(c) \/ SettlementEnds(c)
      PROVE  RequestInv'
  <2>1. UNCHANGED <<stage, key, sendCounter, sealed, worked>>
    BY <1>3, Zenon DEF ScanFinds, AckFails, ErrorSent, OfferSent, WaitReceives,
       SettlementEnds, link, handshake
  <2>2. recvCounter' = recvCounter \/ Receive(c, "provider")
    BY <1>3, Zenon DEF ScanFinds, AckFails, ErrorSent, OfferSent, WaitReceives,
       SettlementEnds, link
  <2>3. /\ recvCounter' \in Counters
        /\ \A d \in Calls : recvCounter'[d]["provider"] >= recvCounter[d]["provider"]
    <3>1. CASE recvCounter' = recvCounter
      <4>1. recvCounter \in Counters
        BY DEF CallsTypeOK, Counters
      <4>2. \A d \in Calls : recvCounter[d]["provider"] \in Nat
        BY <1>e, <4>1 DEF Counters
      <4> QED BY <3>1, <4>1, <4>2
    <3>2. CASE Receive(c, "provider")
      BY <1>e, <3>2, ReceiveGrows
    <3> QED BY <2>2, <3>1, <3>2
  <2>4. serve' = serve \/ \E s \in ServeStages \ {"handling"} :
            /\ serve' = [serve EXCEPT ![c] = s]
            /\ s \notin {"none", "acking"} => Holds(c)
    BY <1>3 DEF ScanFinds, AckFails, ErrorSent, OfferSent, WaitReceives,
       SettlementEnds, ServiceEnds, Serves, ServeStages, Holds
  <2>5. \A d \in Calls : /\ Holds(d)' => Holds(d)
                         /\ serve'[d] = "handling" => serve[d] = "handling"
    BY <2>4 DEF CallsTypeOK, Holds
  <2> QED BY <2>1, <2>3, <2>5, RequestProvider
<1>4. ASSUME NEW c \in Calls, Arrive(c)
      PROVE  RequestInv'
  <2>1. UNCHANGED <<stage, serve, key, sendCounter, recvCounter, sealed, worked>>
    BY <1>4 DEF Arrive, handshake
  <2> QED BY <2>1 DEF RequestInv, Served, Holds
<1>5. CASE UNCHANGED callVars
  BY <1>5 DEF RequestInv, Served, Holds, callVars, handshake, link
<1> QED BY <1>1, <1>2, <1>3, <1>4, <1>5, RequestSealed, RequestTaken, RequestServed,
        RequestAck, RequestRestart DEF CallsNext, ProviderStep

-----------------------------------------------------------------------------
(* What is paid was delivered *)

Late == {"draining", "settling", "funding", "notifying", "rating", "complete"}

AnswerOf(c) ==
    /\ \A w \in sealed[c] : w.kind = "response" => worked[c] = 1
    /\ delivered[c] => worked[c] = 1
    /\ stage[c] \in Late => delivered[c]
    /\ paid[c] => delivered[c] /\ worked[c] = 1

LEMMA AnswerEach == AnswerInv /\ PaidForWork <=> \A c \in Calls : AnswerOf(c)
BY DEF AnswerInv, PaidForWork, AnswerOf, Late

(* What every step keeps of a call's answer.                               *)
KeepsAnswer(d) ==
    /\ worked[d] = 1 => worked'[d] = 1
    /\ \A w \in sealed'[d] : w.kind = "response" => w \in sealed[d] \/ worked'[d] = 1
    /\ delivered'[d] <=> delivered[d] \/ (delivered'[d] /\ worked[d] = 1)
    /\ stage'[d] \in Late => stage[d] \in Late \/ delivered'[d]
    /\ paid'[d] => paid[d] \/ stage[d] = "funding"

LEMMA AnswerKept ==
    ASSUME NEW d \in Calls, AnswerOf(d), KeepsAnswer(d)
    PROVE  AnswerOf(d)'
<1>1. delivered[d] => delivered'[d]
  BY DEF KeepsAnswer
<1>2. delivered'[d] => worked'[d] = 1
  BY DEF KeepsAnswer, AnswerOf
<1>3. \A w \in sealed'[d] : w.kind = "response" => worked'[d] = 1
  BY DEF KeepsAnswer, AnswerOf
<1>4. stage'[d] \in Late => delivered'[d]
  BY <1>1 DEF KeepsAnswer, AnswerOf
<1>5. stage[d] = "funding" => delivered[d]
  BY DEF AnswerOf, Late
<1>6. paid'[d] => delivered'[d]
  BY <1>1, <1>5 DEF KeepsAnswer, AnswerOf
<1> QED BY <1>2, <1>3, <1>4, <1>6 DEF AnswerOf

(* Only the handler's return changes what was worked, and it adds the      *)
(* first work to a call.                                                   *)
LEMMA WorkStep ==
    ASSUME CallsTypeOK, RequestInv, [CallsNext]_callVars, NEW d \in Calls
    PROVE  worked'[d] = worked[d] \/ worked'[d] = 1
<1>1. CASE worked' = worked
  BY <1>1
<1>2. ASSUME NEW c \in Calls, HandlerReturns(c)
      PROVE  worked'[d] = worked[d] \/ worked'[d] = 1
  <2>1. worked[c] = 0 /\ worked' = [worked EXCEPT ![c] = @ + 1]
    BY <1>2 DEF HandlerReturns, RequestInv
  <2> QED BY <2>1 DEF CallsTypeOK
<1>3. ASSUME NEW c \in Calls,
             \/ SendInit(c) \/ SendInitFails(c) \/ TakeAck(c) \/ ClientStep(c)
             \/ Arrive(c) \/ ProviderStep(c)
      PROVE  worked' = worked \/ HandlerReturns(c)
  <2>1. CASE SendInit(c) \/ SendInitFails(c) \/ TakeAck(c) \/ Arrive(c)
    BY <2>1, Zenon DEF SendInit, SendInitFails, TakeAck, Arrive
  <2>2. CASE ClientStep(c)
    BY <2>2, Zenon DEF ClientStep, RequestSent, AwaitReceives, AwaitTimesOut,
       DrainTimesOut, DrainTakes, SettleReceives, FundAccepted, FundFails, FundedSent,
       RateThrows, CallFails
  <2>3. CASE ProviderStep(c)
    BY <2>3, Zenon DEF ProviderStep, ScanFinds, AckAccepted, AckFails, TakeRequest,
       SendError, ErrorSent, SendOffer, OfferSent, WaitReceives, ClaimAccepted,
       SettlementEnds
  <2> QED BY <1>3, <2>1, <2>2, <2>3
<1>4. CASE ProviderRestarts \/ UNCHANGED callVars
  BY <1>1, <1>4 DEF ProviderRestarts, callVars
<1> QED BY <1>1, <1>2, <1>3, <1>4 DEF CallsNext

(* The consumer opens an answer that was sealed.                           *)
LEMMA AnswerOpened ==
    ASSUME CallsTypeOK, Transit, NEW c \in Calls, AwaitReceives(c), AnswerOf(c),
           Reads(c, "consumer", "response")
    PROVE  worked[c] = 1
<1>1. queue[c]["consumer"] # <<>>
  BY Zenon DEF AwaitReceives, Receive
<1>2. Head(queue[c]["consumer"]) \in sealed[c]
  BY <1>1, TransitHead DEF Ends
<1>3. Head(queue[c]["consumer"]).kind = "response"
  BY DEF Reads
<1> QED BY <1>2, <1>3 DEF AnswerOf

LEMMA LateStep ==
    ASSUME CallsTypeOK, NEW c \in Calls,
           \/ SendInit(c) \/ SendInitFails(c) \/ TakeAck(c)
           \/ ClientStep(c) /\ ~AwaitReceives(c)
    PROVE  \A d \in Calls : stage'[d] \in Late => stage[d] \in Late
<1>1. stage \in [Calls -> Stages]
  BY DEF CallsTypeOK
<1>2. ASSUME NEW s, Goes(c, s), s \notin Late \/ stage[c] \in Late
      PROVE  \A d \in Calls : stage'[d] \in Late => stage[d] \in Late
  BY <1>1, <1>2 DEF Goes
<1>3. CASE SendInit(c) \/ SendInitFails(c) \/ TakeAck(c)
  <2>1. Goes(c, "handshaking") \/ Goes(c, "failed") \/ Goes(c, "requesting")
    BY <1>3, Zenon DEF SendInit, SendInitFails, TakeAck
  <2> QED BY <1>2, <2>1 DEF Late
<1>4. CASE ClientStep(c) /\ ~AwaitReceives(c)
  <2>1. \/ Goes(c, "awaiting") \/ Goes(c, "giving up") \/ Goes(c, "failed")
        \/ stage[c] = "draining" /\ Goes(c, "settling")
        \/ stage[c] = "settling" /\ Goes(c, "funding")
        \/ stage[c] = "funding" /\ Goes(c, "notifying")
        \/ stage[c] = "notifying" /\ Goes(c, "rating")
        \/ stage[c] = "notifying" /\ Goes(c, "complete")
    BY <1>4, Zenon DEF ClientStep, RequestSent, AwaitTimesOut, DrainTimesOut,
       DrainTakes, LoopEnds, SettleReceives, SettleEnds, FundAccepted, FundFails,
       FundedSent, RateThrows, CallFails
  <2> QED BY <1>2, <2>1 DEF Late
<1> QED BY <1>3, <1>4

(* What a step of the client does to the answers that exist.               *)
LEMMA AnswerClient ==
    ASSUME CallsTypeOK, NEW c \in Calls, \A d \in Calls : AnswerOf(d),
           \/ SendInit(c) \/ SendInitFails(c) \/ TakeAck(c)
           \/ ClientStep(c) /\ ~AwaitReceives(c)
    PROVE  \A d \in Calls : AnswerOf(d)'
<1>1. UNCHANGED worked /\ UNCHANGED delivered
  BY Zenon DEF SendInit, SendInitFails, TakeAck, ClientStep, RequestSent,
     AwaitTimesOut, DrainTimesOut, DrainTakes, SettleReceives, FundAccepted, FundFails,
     FundedSent, RateThrows, CallFails
<1>2. \A d \in Calls : \A w \in sealed'[d] : w.kind = "response" => w \in sealed[d]
  <2>1. \/ UNCHANGED sealed
        \/ \E k : Post(c, "consumer", k, "request")
        \/ \E k : Post(c, "consumer", k, "funded")
    BY Zenon DEF SendInit, SendInitFails, TakeAck, ClientStep, RequestSent,
       AwaitTimesOut, DrainTimesOut, DrainTakes, SettleReceives, FundAccepted, FundFails,
       FundedSent, RateThrows, CallFails, link
  <2>2. CASE UNCHANGED sealed
    BY <2>2
  <2>3. ASSUME NEW k, NEW kind, kind # "response", Post(c, "consumer", k, kind)
        PROVE  \A d \in Calls : \A w \in sealed'[d] : w.kind = "response" => w \in sealed[d]
    BY <2>3, PostAdds DEF Ends
  <2> QED BY <2>1, <2>2, <2>3
<1>3. \A d \in Calls : paid'[d] => paid[d] \/ stage[d] = "funding"
  <2>1. paid' = paid \/ (stage[c] = "funding" /\ paid' = [paid EXCEPT ![c] = TRUE])
    BY Zenon DEF SendInit, SendInitFails, TakeAck, ClientStep, RequestSent,
       AwaitTimesOut, DrainTimesOut, DrainTakes, SettleReceives, FundAccepted, FundFails,
       FundedSent, RateThrows, CallFails, settlement
  <2> QED BY <2>1 DEF CallsTypeOK
<1>4. \A d \in Calls : stage'[d] \in Late => stage[d] \in Late
  BY LateStep
<1>5. \A d \in Calls : KeepsAnswer(d)
  BY <1>1, <1>2, <1>3, <1>4 DEF KeepsAnswer
<1> QED BY <1>5, AnswerKept

LEMMA AnswerAwaited ==
    ASSUME CallsTypeOK, Transit, NEW c \in Calls, \A d \in Calls : AnswerOf(d),
           AwaitReceives(c)
    PROVE  \A d \in Calls : AnswerOf(d)'
<1>1. UNCHANGED worked /\ UNCHANGED sealed /\ UNCHANGED paid
  BY Zenon DEF AwaitReceives, settlement
<1>2. \A d \in Calls \ {c} : stage'[d] = stage[d] /\ delivered'[d] = delivered[d]
  <2>1. \E s : stage' = [stage EXCEPT ![c] = s] \/ stage' = stage
    BY Zenon DEF AwaitReceives, Goes
  <2>2. \E b : delivered' = [delivered EXCEPT ![c] = b]
    BY Zenon DEF AwaitReceives
  <2>3. \A d \in Calls \ {c} : stage'[d] = stage[d]
    BY <2>1 DEF CallsTypeOK
  <2>4. \A d \in Calls \ {c} : delivered'[d] = delivered[d]
    BY <2>2 DEF CallsTypeOK
  <2> QED BY <2>3, <2>4
<1>3. delivered'[c] <=> delivered[c] \/ Reads(c, "consumer", "response")
  <2>1. delivered' = [delivered EXCEPT ![c] = @ \/ Reads(c, "consumer", "response")]
    BY Zenon DEF AwaitReceives
  <2>2. c \in DOMAIN delivered
    BY DEF CallsTypeOK
  <2> QED BY <2>1, <2>2, Zenon
<1>4. stage'[c] \in Late => Reads(c, "consumer", "response")
  <2>1. \/ Reads(c, "consumer", "response")
        \/ Goes(c, "giving up")
        \/ stage' = stage
    BY Zenon DEF AwaitReceives
  <2>2. stage[c] = "awaiting"
    BY Zenon DEF AwaitReceives
  <2>3. CASE Goes(c, "giving up")
    <3>1. stage'[c] = "giving up"
      BY <2>3 DEF Goes, CallsTypeOK
    <3> QED BY <3>1 DEF Late
  <2>4. CASE stage' = stage
    BY <2>2, <2>4 DEF Late
  <2> QED BY <2>1, <2>3, <2>4
<1>5. Reads(c, "consumer", "response") => worked[c] = 1
  BY AnswerOpened
<1>6. KeepsAnswer(c)
  BY <1>1, <1>3, <1>4, <1>5 DEF KeepsAnswer
<1>7. \A d \in Calls \ {c} : KeepsAnswer(d)
  BY <1>1, <1>2 DEF KeepsAnswer
<1> QED BY <1>6, <1>7, AnswerKept

LEMMA AnswerProvider ==
    ASSUME CallsTypeOK, RequestInv, [CallsNext]_callVars, NEW c \in Calls, ProviderStep(c),
           \A d \in Calls : AnswerOf(d)
    PROVE  \A d \in Calls : AnswerOf(d)'
<1>1. UNCHANGED stage /\ UNCHANGED delivered /\ UNCHANGED paid
  BY Zenon DEF ProviderStep, ScanFinds, AckAccepted, AckFails, TakeRequest,
     HandlerReturns, SendError, ErrorSent, SendOffer, OfferSent, WaitReceives,
     ClaimAccepted, SettlementEnds, settlement
<1>2. \A d \in Calls : worked'[d] = worked[d] \/ worked'[d] = 1
  BY WorkStep
<1>3. CASE HandlerReturns(c)
  <2>1. Post(c, "provider", key[c]["provider"], "response")
    BY <1>3 DEF HandlerReturns, ProviderPosts
  <2>2. worked'[c] = 1
    <3>1. worked[c] = 0 /\ worked' = [worked EXCEPT ![c] = @ + 1]
      BY <1>3 DEF HandlerReturns, RequestInv
    <3> QED BY <3>1 DEF CallsTypeOK
  <2>3. \A d \in Calls \ {c} : sealed'[d] = sealed[d]
    BY <2>1, PostAdds DEF Ends
  <2>4. \A d \in Calls : KeepsAnswer(d)
    BY <1>1, <1>2, <2>2, <2>3 DEF KeepsAnswer
  <2> QED BY <2>4, AnswerKept
<1>4. CASE ~HandlerReturns(c)
  <2>1. \/ UNCHANGED sealed
        \/ \E k : Post(c, "provider", k, "error")
        \/ \E k : Post(c, "provider", k, "offer")
        \/ \E k : Post(c, "provider", k, "claim")
    BY <1>4, Zenon DEF ProviderStep, ScanFinds, AckAccepted, AckFails, TakeRequest,
       SendError, ErrorSent, SendOffer, OfferSent, WaitReceives, ClaimAccepted,
       SettlementEnds, ProviderPosts, link
  <2>2. ASSUME NEW k, NEW kind, kind # "response", Post(c, "provider", k, kind)
        PROVE  \A d \in Calls : \A w \in sealed'[d] : w.kind = "response" => w \in sealed[d]
    BY <2>2, PostAdds DEF Ends
  <2>3. \A d \in Calls : \A w \in sealed'[d] : w.kind = "response" => w \in sealed[d]
    <3>1. CASE UNCHANGED sealed
      BY <3>1
    <3> QED BY <2>1, <2>2, <3>1
  <2>4. \A d \in Calls : KeepsAnswer(d)
    BY <1>1, <1>2, <2>3 DEF KeepsAnswer
  <2> QED BY <2>4, AnswerKept
<1> QED BY <1>3, <1>4

LEMMA AnswerStep ==
    CallsTypeOK /\ Transit /\ RequestInv /\ AnswerInv /\ PaidForWork /\ [CallsNext]_callVars
        => (AnswerInv /\ PaidForWork)'
<1> SUFFICES ASSUME CallsTypeOK, Transit, RequestInv, AnswerInv, PaidForWork, [CallsNext]_callVars
             PROVE  \A d \in Calls : AnswerOf(d)'
  BY DEF AnswerInv, PaidForWork, AnswerOf, Late
<1>1. \A d \in Calls : AnswerOf(d)
  BY AnswerEach
<1>2. ASSUME UNCHANGED <<stage, sealed, delivered, worked, paid>>
      PROVE  \A d \in Calls : AnswerOf(d)'
  BY <1>1, <1>2 DEF AnswerOf
<1>3. ASSUME NEW c \in Calls, Arrive(c)
      PROVE  \A d \in Calls : AnswerOf(d)'
  BY <1>2, <1>3 DEF Arrive, settlement
<1>4. CASE ProviderRestarts \/ UNCHANGED callVars
  BY <1>2, <1>4 DEF ProviderRestarts, callVars, link, settlement
<1>5. ASSUME NEW c \in Calls,
             SendInit(c) \/ SendInitFails(c) \/ TakeAck(c) \/ ClientStep(c)
      PROVE  \A d \in Calls : AnswerOf(d)'
  <2>1. CASE AwaitReceives(c)
    BY <1>1, <2>1, AnswerAwaited
  <2>2. CASE ~AwaitReceives(c)
    BY <1>1, <1>5, <2>2, AnswerClient
  <2> QED BY <2>1, <2>2
<1>6. ASSUME NEW c \in Calls, ProviderStep(c)
      PROVE  \A d \in Calls : AnswerOf(d)'
  BY <1>1, <1>6, AnswerProvider
<1> QED BY <1>3, <1>4, <1>5, <1>6 DEF CallsNext

LEMMA WorkInit == CallsInit => WorkInv
BY DEF CallsInit, WorkInv, Transit, AckInv, RequestInv, AnswerInv, PaidForWork, Served,
   Holds, FirstCounter, Ends

(* Only delivered work is paid, and its handler ran exactly once, for any  *)
(* number of lost messages, failed ACKs and restarts: the request is read  *)
(* under one key at one counter, and no later session has that key.        *)
THEOREM PaidForWorkHolds == CallsSpec => []PaidForWork
<1>1. WorkInv /\ CallsTypeOK /\ NonceInv /\ [CallsNext]_callVars => WorkInv'
  BY TransitStep, AckStep, RequestStep, AnswerStep DEF WorkInv
<1>2. WorkInv => PaidForWork
  BY DEF WorkInv
<1> QED BY TypeCorrect, NonceInit, NonceStep, WorkInit, <1>1, <1>2, PTL DEF CallsSpec


-----------------------------------------------------------------------------
(* The registry.  A checkpoint never passes the height of the answers it   *)
(* was taken from, and a scan's filter never passes the checkpoint.        *)
ScanInv ==
    /\ \A a \in Ads : minedAt[a] <= tip
    /\ \A c \in 1..Categories : checkpoint[c] <= shown[c] /\ shown[c] <= tip
    /\ \A d \in Searches : search[d].from <= checkpoint[search[d].category]
    /\ ListingsComplete

(* Both searches and checkpoints keep their types in a step of scan().     *)
LEMMA AtType == \A s \in Steps : At(s) \in Search
BY RegistryAssumption DEF At, Search

LEMMA AdvancesType ==
    ASSUME RegistryTypeOK, NEW c \in 1..Categories, NEW N \in SUBSET Ads, Advances(c, N)
    PROVE  /\ checkpoint' \in [1..Categories -> Nat]
           /\ \A k \in 1..Categories : k # c => checkpoint'[k] = checkpoint[k]
           /\ checkpoint'[c] >= checkpoint[c]
           /\ \A h \in Nat : (\A a \in N : minedAt[a] <= h) =>
                 checkpoint'[c] <= Greater(checkpoint[c], h)
<1>1. CASE N = {}
  BY <1>1 DEF Advances, RegistryTypeOK, Greater
<1>2. CASE N # {}
  <2>1. PICK a \in N : checkpoint' = [checkpoint EXCEPT ![c] = Greater(@, minedAt[a])]
    BY <1>2 DEF Advances
  <2>2. minedAt[a] \in Nat /\ checkpoint[c] \in Nat
    BY DEF RegistryTypeOK
  <2> QED BY <2>1, <2>2 DEF RegistryTypeOK, Greater
<1> QED BY <1>1, <1>2

LEMMA GoesOnType ==
    ASSUME RegistryTypeOK, NEW d \in Searches, NEW c \in 1..Categories, GoesOn(d, c),
           search[d].category = c, checkpoint' \in [1..Categories -> Nat]
    PROVE  /\ recent' \in BOOLEAN
           /\ search' \in [Searches -> Search]
           /\ \A e \in Searches : e # d => search'[e] = search[e]
           /\ \/ search'[d] = At("deciding")
              \/ search'[d].from = checkpoint'[search'[d].category]
<1>1. CASE c < Categories
  <2>1. c + 1 \in 1..Categories
    BY <1>1, RegistryAssumption
  <2> DEFINE next == [search[d] EXCEPT !.category = c + 1, !.from = checkpoint'[c + 1]]
  <2>2. checkpoint'[c + 1] \in Nat /\ search[d] \in Search
    BY <2>1 DEF RegistryTypeOK
  <2>3. /\ next \in Search
        /\ next.category = c + 1 /\ next.from = checkpoint'[c + 1]
    BY <2>1, <2>2 DEF Search
  <2>4. search' = [search EXCEPT ![d] = next] /\ recent' = recent
    BY <1>1 DEF GoesOn
  <2> HIDE DEF next
  <2> QED BY <2>3, <2>4 DEF RegistryTypeOK
<1>2. CASE ~(c < Categories)
  BY <1>2, AtType DEF RegistryTypeOK, GoesOn, Steps
<1> QED BY <1>1, <1>2

LEMMA RegistryTypeStep == RegistryTypeOK /\ [RegistryNext]_registryVars => RegistryTypeOK'
<1> SUFFICES ASSUME RegistryTypeOK, [RegistryNext]_registryVars
             PROVE  RegistryTypeOK'
  OBVIOUS
<1>1. CASE BlockMined
  BY <1>1 DEF BlockMined, RegistryTypeOK
<1>2. CASE IntervalPasses
  BY <1>2 DEF IntervalPasses, RegistryTypeOK, chainVars
<1>3. ASSUME NEW d \in Searches, SearchBegins(d)
      PROVE  RegistryTypeOK'
  <2>1. checkpoint[1] \in Nat
    BY RegistryAssumption DEF RegistryTypeOK
  <2>2. [At("asking") EXCEPT !.from = checkpoint[1]] \in Search
    BY <2>1, AtType DEF Search, Steps
  <2>3. At("deciding") \in Search
    BY AtType DEF Steps
  <2>4. search' \in [Searches -> Search]
    BY <1>3, <2>2, <2>3 DEF SearchBegins, RegistryTypeOK
  <2> QED BY <1>3, <2>4 DEF SearchBegins, RegistryTypeOK, chainVars
<1>4. ASSUME NEW d \in Searches, ScanAnswered(d)
      PROVE  RegistryTypeOK'
  <2> DEFINE c == search[d].category
  <2>1. c \in 1..Categories
    BY DEF RegistryTypeOK, Search
  <2>2. PICK h \in Heights : \E S \in Answers(c, h) :
           /\ directory' = directory \cup News(d, S)
           /\ Advances(c, News(d, S))
           /\ GoesOn(d, c)
           /\ shown' = [shown EXCEPT ![c] = Greater(@, h)]
           /\ skipped' = (skipped \cup (OnChain(c, h) \ S)) \ directory'
    BY <1>4 DEF ScanAnswered
  <2>3. PICK S \in Answers(c, h) :
           /\ directory' = directory \cup News(d, S)
           /\ Advances(c, News(d, S))
           /\ GoesOn(d, c)
           /\ shown' = [shown EXCEPT ![c] = Greater(@, h)]
           /\ skipped' = (skipped \cup (OnChain(c, h) \ S)) \ directory'
    BY <2>2
  <2>4. News(d, S) \in SUBSET Ads
    BY DEF News, Answers, OnChain
  <2>5. checkpoint' \in [1..Categories -> Nat]
    BY <2>1, <2>3, <2>4, AdvancesType
  <2>6. recent' \in BOOLEAN /\ search' \in [Searches -> Search]
    BY <2>1, <2>3, <2>5, GoesOnType
  <2>7. directory' \subseteq Ads /\ skipped' \subseteq Ads
    BY <2>3, <2>4 DEF OnChain, RegistryTypeOK
  <2>8. shown' \in [1..Categories -> Nat]
    BY <2>1, <2>3 DEF Greater, Heights, RegistryTypeOK
  <2>9. UNCHANGED <<tip, home, minedAt, deal>>
    BY <1>4 DEF ScanAnswered, chainVars
  <2> QED BY <2>5, <2>6, <2>7, <2>8, <2>9 DEF RegistryTypeOK
<1>5. ASSUME NEW d \in Searches, SearchDecides(d)
      PROVE  RegistryTypeOK'
  <2>1. deal' \in Deal
    <3>1. PICK h \in Heights, b \in Ads :
             \/ deal' = [height |-> h, budget |-> b, pick |-> 0]
             \/ \E a \in Offers(h, b) : deal' = [height |-> h, budget |-> b, pick |-> a]
      BY <1>5 DEF SearchDecides
    <3>2. Ads \subseteq Nat /\ tip \in Nat /\ directory \subseteq Ads
      BY RegistryAssumption DEF RegistryTypeOK
    <3>3. Offers(h, b) \subseteq Nat
      BY <3>2 DEF Offers
    <3>4. h \in Nat /\ b \in Nat
      BY <3>2 DEF Heights
    <3> QED BY <3>1, <3>3, <3>4 DEF Deal
  <2> QED BY <1>5, <2>1, AtType DEF SearchDecides, RegistryTypeOK, chainVars, Steps
<1>6. ASSUME NEW d \in Searches, SearchFails(d)
      PROVE  RegistryTypeOK'
  BY <1>6, AtType DEF SearchFails, RegistryTypeOK, chainVars, Steps
<1>7. CASE UNCHANGED registryVars
  BY <1>7 DEF registryVars, chainVars, RegistryTypeOK
<1> QED BY <1>1, <1>2, <1>3, <1>4, <1>5, <1>6, <1>7 DEF RegistryNext

LEMMA RegistryTypeInit == RegistryInit => RegistryTypeOK
<1> SUFFICES ASSUME RegistryInit PROVE RegistryTypeOK
  OBVIOUS
<1>1. At("idle") \in Search
  BY AtType DEF Steps
<1>2. search \in [Searches -> Search]
  BY <1>1 DEF RegistryInit
<1>3. deal \in Deal
  BY DEF RegistryInit, Deal
<1> QED BY <1>2, <1>3 DEF RegistryInit, RegistryTypeOK

(* Types hold in every reachable state, for every number of searches,      *)
(* advertisements and registries.                                          *)
THEOREM RegistryTypeCorrect == RegistrySpec => []RegistryTypeOK
BY RegistryTypeInit, RegistryTypeStep, PTL DEF RegistrySpec

LEMMA ScanInit == RegistryInit => ScanInv
BY RegistryAssumption DEF RegistryInit, ScanInv, ListingsComplete, Shown, At

(* An answer: what it shows is listed now, was listed or skipped before    *)
(* the filter's block, or is skipped now.                                  *)
LEMMA ScanAnsweredKeeps ==
    ASSUME RegistryTypeOK, ScanInv, NEW d \in Searches, ScanAnswered(d)
    PROVE  ScanInv'
<1> DEFINE c == search[d].category
<1>1. c \in 1..Categories
  BY DEF RegistryTypeOK, Search
<1>2. PICK h \in Heights : \E S \in Answers(c, h) :
         /\ directory' = directory \cup News(d, S)
         /\ Advances(c, News(d, S))
         /\ GoesOn(d, c)
         /\ shown' = [shown EXCEPT ![c] = Greater(@, h)]
         /\ skipped' = (skipped \cup (OnChain(c, h) \ S)) \ directory'
  BY DEF ScanAnswered
<1>3. PICK S \in Answers(c, h) :
         /\ directory' = directory \cup News(d, S)
         /\ Advances(c, News(d, S))
         /\ GoesOn(d, c)
         /\ shown' = [shown EXCEPT ![c] = Greater(@, h)]
         /\ skipped' = (skipped \cup (OnChain(c, h) \ S)) \ directory'
  BY <1>2
<1>4. UNCHANGED <<tip, home, minedAt>>
  BY DEF ScanAnswered, chainVars
<1>5. News(d, S) \in SUBSET Ads /\ \A a \in News(d, S) : minedAt[a] <= h
  BY DEF News, Answers, OnChain, RegistryTypeOK
<1>6. /\ tip \in Nat /\ h \in Nat /\ h <= tip
      /\ shown[c] \in Nat /\ checkpoint[c] \in Nat
      /\ checkpoint[c] <= shown[c] /\ shown[c] <= tip
  BY <1>1 DEF Heights, RegistryTypeOK, ScanInv
<1>7. /\ checkpoint' \in [1..Categories -> Nat]
      /\ \A k \in 1..Categories : k # c => checkpoint'[k] = checkpoint[k]
      /\ checkpoint'[c] >= checkpoint[c]
      /\ checkpoint'[c] <= Greater(checkpoint[c], h)
  BY <1>1, <1>3, <1>5, <1>6, AdvancesType
<1>8. /\ \A k \in 1..Categories : k # c => shown'[k] = shown[k]
      /\ shown'[c] = Greater(shown[c], h)
  BY <1>1, <1>3 DEF RegistryTypeOK
<1>9. \A k \in 1..Categories : checkpoint'[k] <= shown'[k] /\ shown'[k] <= tip
  BY <1>6, <1>7, <1>8 DEF Greater, ScanInv
<1>10. \A k \in 1..Categories : checkpoint[k] <= checkpoint'[k]
  BY <1>6, <1>7 DEF RegistryTypeOK
<1>11. \A e \in Searches : search'[e].from <= checkpoint'[search'[e].category]
  <2>1. /\ search' \in [Searches -> Search]
        /\ \A e \in Searches : e # d => search'[e] = search[e]
        /\ \/ search'[d] = At("deciding")
           \/ search'[d].from = checkpoint'[search'[d].category]
    BY <1>1, <1>3, <1>7, GoesOnType
  <2>2. search'[d].from <= checkpoint'[search'[d].category]
    BY <1>7, <2>1, RegistryAssumption DEF At, Search
  <2> TAKE e \in Searches
  <2>3. CASE e # d
    <3>1. /\ search[e].from \in Nat /\ search[e].category \in 1..Categories
          /\ search[e].from <= checkpoint[search[e].category]
      BY DEF RegistryTypeOK, ScanInv, Search
    <3>2. checkpoint[search[e].category] \in Nat /\ checkpoint'[search[e].category] \in Nat
      BY <1>7, <3>1 DEF RegistryTypeOK
    <3> QED BY <1>10, <2>1, <2>3, <3>1, <3>2
  <2> QED BY <2>2, <2>3
<1>12. ListingsComplete'
  <2> SUFFICES ASSUME NEW a \in Ads, Shown(a)'
               PROVE  a \in directory' \cup skipped'
    BY DEF ListingsComplete
  <2>1. minedAt[a] \in 1..shown'[home[a]] /\ home[a] \in 1..Categories /\ minedAt[a] \in Nat
    BY <1>4 DEF Shown, RegistryTypeOK
  <2>2. directory \cup skipped \subseteq directory' \cup skipped'
    BY <1>3
  <2>3. CASE Shown(a)
    BY <2>2, <2>3 DEF ScanInv, ListingsComplete
  <2>4. CASE ~Shown(a)
    <3>1. home[a] = c /\ a \in OnChain(c, h)
      BY <1>6, <1>8, <2>1, <2>4 DEF Shown, Greater, OnChain
    <3>2. search[d].from < minedAt[a]
      <4>1. search[d].from \in Nat /\ search[d].from <= checkpoint[c]
        BY DEF RegistryTypeOK, ScanInv, Search
      <4> QED BY <1>6, <2>1, <2>4, <3>1, <4>1 DEF Shown
    <3> QED BY <1>3, <2>1, <3>1, <3>2 DEF News
  <2> QED BY <2>3, <2>4
<1> QED BY <1>4, <1>9, <1>11, <1>12 DEF ScanInv

LEMMA ScanStep == RegistryTypeOK /\ ScanInv /\ [RegistryNext]_registryVars => ScanInv'
<1> SUFFICES ASSUME RegistryTypeOK, ScanInv, [RegistryNext]_registryVars
             PROVE  ScanInv'
  OBVIOUS
<1>1. CASE BlockMined
  <2>1. UNCHANGED <<home, directory, checkpoint, search, shown, skipped>> /\ tip' = tip + 1
    BY <1>1 DEF BlockMined
  <2>2. \A a \in Ads : minedAt'[a] = minedAt[a] \/ minedAt'[a] = tip + 1
    BY <1>1 DEF BlockMined
  <2>3. tip \in Nat /\ \A c \in 1..Categories : shown[c] \in Nat /\ checkpoint[c] \in Nat
    BY DEF RegistryTypeOK
  <2>4. \A a \in Ads : minedAt'[a] <= tip'
    <3> TAKE a \in Ads
    <3>1. minedAt[a] \in Nat /\ minedAt[a] <= tip
      BY DEF ScanInv, RegistryTypeOK
    <3> QED BY <2>1, <2>2, <2>3, <3>1
  <2>5. ListingsComplete'
    <3> SUFFICES ASSUME NEW a \in Ads, Shown(a)'
                 PROVE  a \in directory \cup skipped
      BY <2>1 DEF ListingsComplete
    <3>1. shown[home[a]] <= tip /\ home[a] \in 1..Categories
      BY DEF ScanInv, RegistryTypeOK
    <3>2. minedAt'[a] = minedAt[a]
      BY <2>1, <2>2, <2>3, <3>1 DEF Shown
    <3> QED BY <2>1, <3>2 DEF Shown, ScanInv, ListingsComplete
  <2> QED BY <2>1, <2>3, <2>4, <2>5 DEF ScanInv
<1>2. CASE IntervalPasses
  BY <1>2 DEF IntervalPasses, chainVars, ScanInv, ListingsComplete, Shown
<1>3. ASSUME NEW d \in Searches,
             SearchBegins(d) \/ SearchDecides(d) \/ SearchFails(d)
      PROVE  ScanInv'
  <2>1. UNCHANGED <<tip, home, minedAt, directory, checkpoint, shown, skipped>>
    BY <1>3 DEF SearchBegins, SearchDecides, SearchFails, chainVars
  <2> DEFINE asks == [At("asking") EXCEPT !.from = checkpoint[1]]
  <2>2. /\ asks.category = 1 /\ asks.from = checkpoint[1]
        /\ \A s \in Steps : At(s).category = 1 /\ At(s).from = 0
    BY DEF At
  <2>3. \/ search' = [search EXCEPT ![d] = asks]
        \/ \E s \in Steps : search' = [search EXCEPT ![d] = At(s)]
    BY <1>3 DEF SearchBegins, SearchDecides, SearchFails, Steps
  <2>4. \A e \in Searches : \/ search'[e] = search[e]
                            \/ search'[e].category = 1 /\ search'[e].from = 0
                            \/ search'[e].category = 1 /\ search'[e].from = checkpoint[1]
    <3> HIDE DEF asks
    <3> QED BY <2>2, <2>3 DEF RegistryTypeOK
  <2>5. checkpoint[1] \in Nat
    BY RegistryAssumption DEF RegistryTypeOK
  <2>6. \A e \in Searches : search'[e].from <= checkpoint[search'[e].category]
    BY <2>4, <2>5 DEF ScanInv
  <2> QED BY <2>1, <2>6 DEF ScanInv, ListingsComplete, Shown
<1>4. ASSUME NEW d \in Searches, ScanAnswered(d)
      PROVE  ScanInv'
  BY <1>4, ScanAnsweredKeeps
<1>5. CASE UNCHANGED registryVars
  BY <1>5 DEF registryVars, chainVars, ScanInv, ListingsComplete, Shown
<1> QED BY <1>1, <1>2, <1>3, <1>4, <1>5 DEF RegistryNext

(* An advertisement in a block some answer was made after is listed or was *)
(* left out by an answer, for every number of searches and registries and  *)
(* however their scans overlap, lag and fail.                              *)
THEOREM ListingsCompleteHolds == RegistrySpec => []ListingsComplete
<1>1. RegistryTypeOK /\ ScanInv /\ [RegistryNext]_registryVars => (RegistryTypeOK /\ ScanInv)'
  BY RegistryTypeStep, ScanStep
<1>2. ScanInv => ListingsComplete
  BY DEF ScanInv
<1> QED BY RegistryTypeInit, ScanInit, <1>1, <1>2, PTL DEF RegistrySpec

(* The best offer of a decision is no dearer than any provider it could    *)
(* know of.                                                                *)
LEMMA DecisionIsBest ==
    ASSUME RegistryTypeOK, ListingsComplete, RegistryNext, NEW d \in Searches, Decides(d),
           NEW a \in Ads \ OwnAds, Shown(a), a \notin skipped,
           Expires(a) > deal'.height, a <= deal'.budget
    PROVE  deal'.pick # 0 /\ deal'.pick <= a
<1>1. SearchDecides(d)
  <2>1. ASSUME NEW e \in Searches, SearchBegins(e) \/ ScanAnswered(e) \/ SearchFails(e)
        PROVE  ~Decides(d)
    <3>1. CASE e # d
      <4>1. search'[d] = search[d]
        BY <2>1, <3>1 DEF SearchBegins, ScanAnswered, GoesOn, SearchFails, RegistryTypeOK
      <4> QED BY <4>1 DEF Decides
    <3>2. CASE e = d
      <4>1. search[d].step # "deciding" \/ SearchFails(d)
        BY <2>1, <3>2 DEF SearchBegins, ScanAnswered
      <4>2. SearchFails(d) => search'[d] = At("failed")
        BY DEF SearchFails, RegistryTypeOK
      <4> QED BY <4>1, <4>2 DEF Decides, At
    <3> QED BY <3>1, <3>2
  <2>2. BlockMined \/ IntervalPasses => ~Decides(d)
    BY DEF BlockMined, IntervalPasses, Decides
  <2>3. \A e \in Searches : SearchDecides(e) => e = d
    BY DEF SearchDecides, Decides, At, RegistryTypeOK
  <2> QED BY <2>1, <2>2, <2>3 DEF RegistryNext
<1>2. a \in directory
  BY DEF ListingsComplete
<1>3. PICK h \in Heights, b \in Ads :
         \/ /\ Offers(h, b) = {}
            /\ deal' = [height |-> h, budget |-> b, pick |-> 0]
         \/ \E o \in Offers(h, b) :
               /\ \A p \in Offers(h, b) : o <= p
               /\ deal' = [height |-> h, budget |-> b, pick |-> o]
  BY <1>1 DEF SearchDecides
<1>4. a \in Offers(h, b)
  BY <1>2, <1>3 DEF Offers
<1>5. PICK o \in Offers(h, b) : /\ \A p \in Offers(h, b) : o <= p
                                /\ deal'.pick = o
  BY <1>3, <1>4
<1>6. o # 0
  BY RegistryAssumption DEF Offers, RegistryTypeOK
<1> QED BY <1>4, <1>5, <1>6

(* A call buys from the cheapest provider the client could know of, for    *)
(* every number of searches, advertisements and registries.                *)
THEOREM CheapestIsPickedHolds == RegistrySpec => CheapestIsPicked
<1> DEFINE Best ==
       \A d \in Searches : Decides(d) =>
          \A a \in Ads \ OwnAds :
             /\ Shown(a) /\ a \notin skipped
             /\ Expires(a) > deal'.height
             /\ a <= deal'.budget
             => deal'.pick # 0 /\ deal'.pick <= a
<1>1. RegistryTypeOK /\ ListingsComplete /\ [RegistryNext]_registryVars => [Best]_registryVars
  BY DecisionIsBest
<1>2. RegistrySpec => [][Best]_registryVars
  BY RegistryTypeCorrect, ListingsCompleteHolds, <1>1, PTL DEF RegistrySpec
<1> QED BY <1>2 DEF CheapestIsPicked

=============================================================================
