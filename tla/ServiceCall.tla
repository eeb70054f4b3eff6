----------------------------- MODULE ServiceCall -----------------------------
(***************************************************************************)
(* Quackstro Protocol service calls: QPClient.callService() against        *)
(* QPProvider, over the chain (handshake, HTLC) and over the encrypted     *)
(* sideload session, whose transport loses, delays and reorders messages.  *)
(*                                                                         *)
(* Every action is the code between two awaits.  A message on the wire is  *)
(* its key, its counter and its kind; the kind determines the message it   *)
(* answers.  A session's TTL of 24 hours outlasts a call and is left out.  *)
(* The application of a provider receives a wire, awaits handleRequest()   *)
(* and receives the next.                                                  *)
(***************************************************************************)
EXTENDS Integers, Sequences, FiniteSets

CONSTANTS
    Calls,       \* calls of callService(), each with a session of its own
    MaxFaults    \* bound: failing ACK broadcasts and restarts of the provider

ASSUME ServiceAssumption ==
    /\ IsFiniteSet(Calls)
    /\ MaxFaults \in Nat

Ends == {"consumer", "provider"}

Other(e) == IF e = "consumer" THEN "provider" ELSE "consumer"

Kinds == {"request", "response", "error", "offer", "funded", "claim"}

Wire == [from : Ends, key : Nat, ctr : Nat, kind : Kinds]

VARIABLES
    stage,        \* where callService() stands
    serve,        \* where the provider stands with the session
    init,         \* is the HANDSHAKE_INIT on the chain?
    tries,        \* ACKs the provider has attempted, each a new ephemeral key
    acks,         \*   and those of them that are on the chain
    key,          \* the ACK from which each end derived its session key, 0: none
    sendCounter,  \* the counter of the next message an end seals,
    recvCounter,  \*   and of the one it will open next
    net,          \* messages posted that have not arrived
    queue,        \* messages that have arrived at an end's transport
    record,       \* the provider's HTLC record
    paid,         \* has the node accepted the funding transaction?
    clientKey,    \* is the Buffer of the client's private key intact,
    providerKey,  \*   and the provider's?
    faults        \* faults of the provider so far

(* History variables, which no guard reads.                                *)
VARIABLES
    sealed,       \* every message sealed in the session
    delivered,    \* has the consumer opened the answer to its request?
    worked        \* how often the skill handler ran

handshake == <<init, tries, acks, key>>
link == <<sendCounter, recvCounter, net, queue, sealed>>
settlement == <<record, paid>>
keys == <<clientKey, providerKey>>
callVars == <<stage, serve, handshake, link, settlement, keys, faults, delivered,
          worked>>

Stages == {"idle", "handshaking", "requesting", "awaiting", "draining", "giving up",
           "settling", "funding", "notifying", "rating", "complete", "failed"}

ServeStages == {"none", "acking", "ready", "handling", "answering", "erring",
                "offering", "waiting", "claiming", "telling"}

FirstCounter_Zero(e) == 0

(* An initiator's counters are even, a responder's odd.                    *)
FirstCounter(e) == IF e = "consumer" THEN 0 ELSE 1

CallsInit ==
    /\ stage = [c \in Calls |-> "idle"]
    /\ serve = [c \in Calls |-> "none"]
    /\ init = [c \in Calls |-> FALSE]
    /\ tries = [c \in Calls |-> 0]
    /\ acks = [c \in Calls |-> {}]
    /\ key = [c \in Calls |-> [e \in Ends |-> 0]]
    /\ sendCounter = [c \in Calls |-> [e \in Ends |-> FirstCounter(e)]]
    /\ recvCounter = [c \in Calls |-> [e \in Ends |-> FirstCounter(Other(e))]]
    /\ net = [c \in Calls |-> {}]
    /\ queue = [c \in Calls |-> [e \in Ends |-> <<>>]]
    /\ record = [c \in Calls |-> "none"]
    /\ paid = [c \in Calls |-> FALSE]
    /\ clientKey = TRUE
    /\ providerKey = TRUE
    /\ faults = 0
    /\ sealed = [c \in Calls |-> {}]
    /\ delivered = [c \in Calls |-> FALSE]
    /\ worked = [c \in Calls |-> 0]

-----------------------------------------------------------------------------
(* The sideload session.                                                   *)

(* encryptMessage() under the next counter, and the POST of the result.    *)
Post(c, e, k, kind) ==
    LET w == [from |-> e, key |-> k, ctr |-> sendCounter[c][e], kind |-> kind]
    IN  /\ sealed' = [sealed EXCEPT ![c] = @ \cup {w}]
        /\ net' = [net EXCEPT ![c] = @ \cup {w}]
        /\ sendCounter' = [sendCounter EXCEPT ![c][e] = @ + 2]

(* The message whose POST e awaits.                                        *)
Posted(c, e) ==
    {w \in net[c] : /\ w.from = e
                    /\ w.key = key[c][e]
                    /\ w.ctr = sendCounter[c][e] - 2}

(* A POST reaches the other end's server, perhaps after its sender gave    *)
(* it up; one that never does is lost.                                     *)
Arrive(c) ==
    \E w \in net[c] :
        /\ net' = [net EXCEPT ![c] = @ \ {w}]
        /\ queue' = [queue EXCEPT ![c][Other(w.from)] = Append(@, w)]
        /\ UNCHANGED <<stage, serve, handshake, sendCounter, recvCounter, sealed,
                   settlement, keys, faults, delivered, worked>>

Answered(c, e) == Posted(c, e) = {}

(* decryptMessage(): the key fits and the counter is the expected one.     *)
Opens(c, e, w) ==
    /\ w.key = key[c][e]
    /\ w.ctr = recvCounter[c][e]

(* receive() returns the first message, which processIncoming() opens, or  *)
(* refuses by an exception.                                                *)
Receive(c, e) ==
    /\ queue[c][e] # <<>>
    /\ queue' = [queue EXCEPT ![c][e] = Tail(@)]
    /\ recvCounter' = IF Opens(c, e, Head(queue[c][e]))
                      THEN [recvCounter EXCEPT ![c][e] = @ + 2]
                      ELSE recvCounter

Reads(c, e, kind) ==
    /\ Opens(c, e, Head(queue[c][e]))
    /\ Head(queue[c][e]).kind = kind

-----------------------------------------------------------------------------
(* The client.                                                             *)

Goes(c, s) == stage' = [stage EXCEPT ![c] = s]

(* The HANDSHAKE_INIT is signed with the client's key and broadcast.       *)
SendInit(c) ==
    /\ stage[c] = "idle"
    /\ clientKey
    /\ Goes(c, "handshaking")
    /\ init' = [init EXCEPT ![c] = TRUE]
    /\ UNCHANGED <<serve, tries, acks, key, link, settlement, keys, faults,
                   delivered, worked>>

(* No provider is found, the key is zeroed, or the broadcast fails, which  *)
(* does not mean that the node did not take it.                            *)
SendInitFails(c) ==
    /\ stage[c] = "idle"
    /\ Goes(c, "failed")
    /\ \/ clientKey /\ init' = [init EXCEPT ![c] = TRUE]
       \/ init' = init
    /\ UNCHANGED <<serve, tries, acks, key, link, settlement, keys, faults,
                   delivered, worked>>

(* waitForHandshakeAck() finds an ACK it can decrypt, and the request is   *)
(* sealed under the key derived from it.                                   *)
TakeAck(c) ==
    /\ stage[c] = "handshaking"
    /\ \E k \in acks[c] :
        /\ key' = [key EXCEPT ![c]["consumer"] = k]
        /\ Post(c, "consumer", k, "request")
    /\ Goes(c, "requesting")
    /\ UNCHANGED <<serve, init, tries, acks, recvCounter, queue, settlement,
                   keys, faults, delivered, worked>>

RequestSent_Retries(c) ==
    /\ stage[c] = "requesting"
    /\ \/ /\ Answered(c, "consumer")
          /\ Goes(c, "awaiting")
          /\ UNCHANGED link
       \/ /\ sendCounter[c]["consumer"] < 4
          /\ Post(c, "consumer", key[c]["consumer"], "request")
          /\ UNCHANGED <<stage, recvCounter, queue>>
    /\ UNCHANGED <<serve, handshake, settlement, keys, faults, delivered, worked>>

(* expectResponse() starts its timer once the request has been sent.       *)
RequestSent(c) ==
    /\ stage[c] = "requesting"
    /\ Answered(c, "consumer")
    /\ Goes(c, "awaiting")
    /\ UNCHANGED <<serve, handshake, link, settlement, keys, faults,
                   delivered, worked>>

(* The receive loop of awaitDelivery().  It asks for the next message      *)
(* before it learns that this one settled the response promise.            *)
AwaitReceives(c) ==
    /\ stage[c] = "awaiting"
    /\ Receive(c, "consumer")
    /\ \/ Reads(c, "consumer", "response") /\ Goes(c, "draining")
       \/ Reads(c, "consumer", "error") /\ Goes(c, "giving up")
       \/ /\ ~Reads(c, "consumer", "response")
          /\ ~Reads(c, "consumer", "error")
          /\ stage' = stage
    /\ delivered' = [delivered EXCEPT ![c] = @ \/ Reads(c, "consumer", "response")]
    /\ UNCHANGED <<serve, handshake, sendCounter, net, sealed, settlement,
                   keys, faults, worked>>

(* The timer of expectResponse() rejects the promise.                      *)
AwaitTimesOut(c) ==
    /\ stage[c] = "awaiting"
    /\ Goes(c, "giving up")
    /\ UNCHANGED <<serve, handshake, link, settlement, keys, faults,
                   delivered, worked>>

(* awaitDelivery() has its answer and waits for the loop to end.  Payment  *)
(* is by HTLC; pay() refuses a channel.                                    *)
LoopEnds(c) ==
    \/ stage[c] = "draining" /\ (Goes(c, "settling") \/ Goes(c, "failed"))
    \/ stage[c] = "giving up" /\ Goes(c, "failed")

(* The loop's last receive() times out.                                    *)
DrainTimesOut(c) ==
    /\ LoopEnds(c)
    /\ UNCHANGED <<serve, handshake, link, settlement, keys, faults,
                   delivered, worked>>

(* It returns a message, which the cancelled loop throws away unread.      *)
DrainTakes(c) ==
    /\ queue[c]["consumer"] # <<>>
    /\ queue' = [queue EXCEPT ![c]["consumer"] = Tail(@)]
    /\ LoopEnds(c)
    /\ UNCHANGED <<serve, handshake, sendCounter, recvCounter, net, sealed,
                   settlement, keys, faults, delivered, worked>>

(* ConsumerSettlement.destroy() zeroes the client's own key Buffer.        *)
SettleEnds(c, s) ==
    /\ Goes(c, s)
    /\ clientKey' = FALSE

(* settle() accepts the first message if it is an offer, and funds it.     *)
SettleReceives(c) ==
    /\ stage[c] = "settling"
    /\ Receive(c, "consumer")
    /\ IF Reads(c, "consumer", "offer")
       THEN Goes(c, "funding") /\ clientKey' = clientKey
       ELSE SettleEnds(c, "failed")
    /\ UNCHANGED <<serve, handshake, sendCounter, net, sealed, settlement,
                   providerKey, faults, delivered, worked>>

FundAccepted_TellsFirst(c) ==
    /\ stage[c] = "funding"
    /\ Post(c, "consumer", key[c]["consumer"], "funded")
    /\ Goes(c, "notifying")
    /\ UNCHANGED <<serve, handshake, recvCounter, queue, settlement, keys,
                   faults, delivered, worked>>

(* The funding transaction is broadcast and the provider told.             *)
FundAccepted(c) ==
    /\ stage[c] = "funding"
    /\ paid' = [paid EXCEPT ![c] = TRUE]
    /\ Post(c, "consumer", key[c]["consumer"], "funded")
    /\ Goes(c, "notifying")
    /\ UNCHANGED <<serve, handshake, recvCounter, queue, record, keys,
                   faults, delivered, worked>>

(* The coins do not suffice, or the broadcast fails, after which the node  *)
(* may still have taken the transaction.                                   *)
FundFails(c) ==
    /\ stage[c] = "funding"
    /\ SettleEnds(c, "failed")
    /\ \/ paid' = [paid EXCEPT ![c] = TRUE]
       \/ paid' = paid
    /\ UNCHANGED <<serve, handshake, link, record, providerKey, faults,
                   delivered, worked>>

(* settle() returns; its HTLC record is not kept.                          *)
FundedSent(c) ==
    /\ stage[c] = "notifying"
    /\ Answered(c, "consumer")
    /\ \/ SettleEnds(c, "rating")
       \/ SettleEnds(c, "complete")
    /\ UNCHANGED <<serve, handshake, link, settlement, providerKey, faults,
                   delivered, worked>>

(* rateProvider() signs with the key that the settlement zeroed, and so    *)
(* throws: only a client without autoRate completes a call.                *)
RateThrows(c) ==
    /\ stage[c] = "rating"
    /\ Goes(c, "failed")
    /\ UNCHANGED <<serve, handshake, link, settlement, keys, faults,
                   delivered, worked>>

(* No ACK within the handshake timeout; a POST that fails or times out;    *)
(* no offer within the settlement's timeout.                               *)
CallFails(c) ==
    /\ \/ stage[c] \in {"handshaking", "requesting"} /\ Goes(c, "failed") /\ clientKey' = clientKey
       \/ stage[c] \in {"settling", "notifying"} /\ SettleEnds(c, "failed")
    /\ UNCHANGED <<serve, handshake, link, settlement, providerKey, faults,
                   delivered, worked>>

-----------------------------------------------------------------------------
(* The provider.                                                           *)

Serves(c, s) == serve' = [serve EXCEPT ![c] = s]

(* A scan finds the INIT of a session it does not have, decrypts it with   *)
(* the provider's key and makes an ephemeral key.  Scans never overlap.    *)
ScanFinds(c) ==
    /\ init[c]
    /\ serve[c] = "none"
    /\ \A d \in Calls : serve[d] # "acking"
    /\ providerKey
    /\ tries' = [tries EXCEPT ![c] = @ + 1]
    /\ Serves(c, "acking")
    /\ UNCHANGED <<stage, init, acks, key, link, settlement, keys, faults,
                   delivered, worked>>

(* The ACK is broadcast and the session stored.                            *)
AckAccepted(c) ==
    /\ serve[c] = "acking"
    /\ acks' = [acks EXCEPT ![c] = @ \cup {tries[c]}]
    /\ key' = [key EXCEPT ![c]["provider"] = tries[c]]
    /\ Serves(c, "ready")
    /\ UNCHANGED <<stage, init, tries, link, settlement, keys, faults,
                   delivered, worked>>

(* The broadcast fails, or is reported to have failed: no session is       *)
(* stored and the next scan answers the INIT again.                        *)
AckFails(c) ==
    /\ serve[c] = "acking"
    /\ faults < MaxFaults
    /\ faults' = faults + 1
    /\ \/ acks' = [acks EXCEPT ![c] = @ \cup {tries[c]}]
       \/ acks' = acks
    /\ Serves(c, "none")
    /\ UNCHANGED <<stage, init, tries, key, link, settlement, keys, delivered, worked>>

(* handleRequest(): a request goes to its handler, other messages return.  *)
TakeRequest(c) ==
    /\ serve[c] = "ready"
    /\ Receive(c, "provider")
    /\ IF Reads(c, "provider", "request")
       THEN Serves(c, "handling")
       ELSE serve' = serve
    /\ UNCHANGED <<stage, handshake, sendCounter, net, sealed, settlement,
                   keys, faults, delivered, worked>>

ProviderPosts(c, kind) == Post(c, "provider", key[c]["provider"], kind)

HandlerReturns(c) ==
    /\ serve[c] = "handling"
    /\ worked' = [worked EXCEPT ![c] = @ + 1]
    /\ ProviderPosts(c, "response")
    /\ Serves(c, "answering")
    /\ UNCHANGED <<stage, handshake, recvCounter, queue, settlement, keys,
                   faults, delivered>>

(* The skill is unknown or its handler throws; or the POST of the response *)
(* fails, which need not mean that it does not arrive.                     *)
SendError(c) ==
    /\ serve[c] \in {"handling", "answering"}
    /\ ProviderPosts(c, "error")
    /\ Serves(c, "erring")
    /\ UNCHANGED <<stage, handshake, recvCounter, queue, settlement, keys,
                   faults, delivered, worked>>

(* The POST of the error ends handleRequest(), whatever becomes of it.     *)
ErrorSent(c) ==
    /\ serve[c] = "erring"
    /\ Serves(c, "ready")
    /\ UNCHANGED <<stage, handshake, link, settlement, keys, faults,
                   delivered, worked>>

(* The response was sent: createOffer() and the POST of the offer.         *)
SendOffer(c) ==
    /\ serve[c] = "answering"
    /\ Answered(c, "provider")
    /\ record' = [record EXCEPT ![c] = "CREATED"]
    /\ ProviderPosts(c, "offer")
    /\ Serves(c, "offering")
    /\ UNCHANGED <<stage, handshake, recvCounter, queue, paid, keys, faults,
                   delivered, worked>>

OfferSent(c) ==
    /\ serve[c] = "offering"
    /\ Answered(c, "provider")
    /\ Serves(c, "waiting")
    /\ UNCHANGED <<stage, handshake, link, settlement, keys, faults,
                   delivered, worked>>

(* handleRequest() returns; ProviderSettlement.destroy() has zeroed the    *)
(* provider's own key Buffer.                                              *)
ServiceEnds(c) ==
    /\ Serves(c, "ready")
    /\ providerKey' = FALSE

(* waitForFundingAndClaim(): the HTLC becomes ACTIVE on the word of the    *)
(* consumer, and CLAIMED once the claim is signed.                         *)
WaitReceives(c) ==
    /\ serve[c] = "waiting"
    /\ Receive(c, "provider")
    /\ \/ /\ Reads(c, "provider", "funded")
          /\ providerKey
          /\ record' = [record EXCEPT ![c] = "CLAIMED"]
          /\ Serves(c, "claiming")
          /\ providerKey' = providerKey
       \/ /\ Reads(c, "provider", "funded")
          /\ ~providerKey
          /\ record' = [record EXCEPT ![c] = "ACTIVE"]
          /\ ServiceEnds(c)
       \/ /\ ~Reads(c, "provider", "funded")
          /\ record' = record
          /\ ServiceEnds(c)
    /\ UNCHANGED <<stage, handshake, sendCounter, net, sealed, paid, clientKey,
                   faults, delivered, worked>>

(* The claim is broadcast, which reveals the secret, and announced.        *)
ClaimAccepted(c) ==
    /\ serve[c] = "claiming"
    /\ ProviderPosts(c, "claim")
    /\ Serves(c, "telling")
    /\ UNCHANGED <<stage, handshake, recvCounter, queue, settlement, keys,
                   faults, delivered, worked>>

(* A POST or the broadcast fails, nobody funds in time, or all is done.    *)
SettlementEnds(c) ==
    /\ serve[c] \in {"offering", "waiting", "claiming", "telling"}
    /\ ServiceEnds(c)
    /\ UNCHANGED <<stage, handshake, link, settlement, clientKey, faults,
                   delivered, worked>>

(* The provider's process restarts: sessions and HTLC records were in      *)
(* memory only.  An ACK under way may have reached the node, and the scans *)
(* will answer every INIT on the chain once more.                          *)
ProviderRestarts ==
    /\ faults < MaxFaults
    /\ faults' = faults + 1
    /\ \E S \in SUBSET {c \in Calls : serve[c] = "acking"} :
          acks' = [c \in Calls |-> IF c \in S THEN acks[c] \cup {tries[c]} ELSE acks[c]]
    /\ providerKey' = TRUE
    /\ serve' = [c \in Calls |-> "none"]
    /\ record' = [c \in Calls |-> "none"]
    /\ key' = [c \in Calls |-> [key[c] EXCEPT !["provider"] = 0]]
    /\ sendCounter' = [c \in Calls |->
          [sendCounter[c] EXCEPT !["provider"] = FirstCounter("provider")]]
    /\ recvCounter' = [c \in Calls |->
          [recvCounter[c] EXCEPT !["provider"] = FirstCounter("consumer")]]
    /\ queue' = [c \in Calls |-> [queue[c] EXCEPT !["provider"] = <<>>]]
    /\ UNCHANGED <<stage, init, tries, net, sealed, paid, clientKey, delivered,
                   worked>>

-----------------------------------------------------------------------------
ClientStep(c) ==
    \/ RequestSent(c) \/ AwaitReceives(c) \/ AwaitTimesOut(c)
    \/ DrainTimesOut(c) \/ DrainTakes(c)
    \/ SettleReceives(c) \/ FundAccepted(c) \/ FundFails(c) \/ FundedSent(c)
    \/ RateThrows(c) \/ CallFails(c)

ProviderStep(c) ==
    \/ ScanFinds(c) \/ AckAccepted(c) \/ AckFails(c)
    \/ TakeRequest(c) \/ HandlerReturns(c) \/ SendError(c) \/ ErrorSent(c)
    \/ SendOffer(c) \/ OfferSent(c) \/ WaitReceives(c) \/ ClaimAccepted(c)
    \/ SettlementEnds(c)

CallsNext ==
    \/ \E c \in Calls :
          \/ SendInit(c) \/ SendInitFails(c) \/ TakeAck(c)
          \/ ClientStep(c)
          \/ ProviderStep(c)
          \/ Arrive(c)
    \/ ProviderRestarts

CallsSpec == CallsInit /\ [][CallsNext]_callVars

-----------------------------------------------------------------------------
(* Properties.                                                             *)

(* Types of all variables.                                                 *)
CallsTypeOK ==
    /\ stage \in [Calls -> Stages]
    /\ serve \in [Calls -> ServeStages]
    /\ init \in [Calls -> BOOLEAN]
    /\ tries \in [Calls -> Nat]
    /\ acks \in [Calls -> SUBSET Nat]
    /\ key \in [Calls -> [Ends -> Nat]]
    /\ sendCounter \in [Calls -> [Ends -> Nat]]
    /\ recvCounter \in [Calls -> [Ends -> Nat]]
    /\ net \in [Calls -> SUBSET Wire]
    /\ queue \in [Calls -> [Ends -> Seq(Wire)]]
    /\ record \in [Calls -> {"none", "CREATED", "ACTIVE", "CLAIMED"}]
    /\ paid \in [Calls -> BOOLEAN]
    /\ clientKey \in BOOLEAN /\ providerKey \in BOOLEAN
    /\ faults \in 0..MaxFaults
    /\ sealed \in [Calls -> SUBSET Wire]
    /\ delivered \in [Calls -> BOOLEAN]
    /\ worked \in [Calls -> Nat]

(* AES-GCM forbids two messages under one key and counter: whatever is     *)
(* lost, refused or answered by an error, and although a restart begins    *)
(* the counters anew, no message shares the IV of another                  *)
(* (encryptMessage(), createSession(), handleHandshakeInit()).             *)
NonceUsedOnce ==
    \A c \in Calls : \A v, w \in sealed[c] :
        v.key = w.key /\ v.ctr = w.ctr => v = w

(* Only a call whose answer the consumer has opened is ever paid, and the  *)
(* skill handler ran for it exactly once (callService(), handleRequest()). *)
PaidForWork ==
    \A c \in Calls : paid[c] => delivered[c] /\ worked[c] = 1

(* The provider signs a claim, and so gives up its secret, only for an     *)
(* HTLC whose funding transaction the node has taken (settle(),            *)
(* waitForFundingAndClaim(), claim()).                                     *)
ClaimIsFunded ==
    \A c \in Calls : record[c] \in {"ACTIVE", "CLAIMED"} => paid[c]

(* The message the drained loop takes is not the offer that settle() is    *)
(* about to wait for (awaitDelivery(), settle()).                          *)
OfferIsRead ==
    [][\A c \in Calls :
          /\ stage[c] = "draining"
          /\ queue[c]["consumer"] # <<>>
          /\ queue'[c]["consumer"] = Tail(queue[c]["consumer"])
          => Head(queue[c]["consumer"]).kind # "offer"]_callVars

=============================================================================
