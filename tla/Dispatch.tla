----------------------------- MODULE Dispatch -----------------------------
(***************************************************************************)
(* broadcastTransaction() of src/tx/broadcaster.ts for one signed          *)
(* transaction: the peers of src/p2p/broadcaster.ts first, all at once,    *)
(* then the APIs behind the FailoverProvider of src/api/failover.ts, up to *)
(* MaxAttempts times, then Blockchair.  A request or its answer may be     *)
(* lost; what was sent may still be accepted after the wallet gave it up.  *)
(***************************************************************************)
EXTENDS Naturals, Sequences

CONSTANTS
    Peers,      \* peers the DNS seeds may return, at most MAX_PEER_ATTEMPTS
    Primary,    \* the two APIs of the FailoverProvider
    Fallback,
    Blockchair,
    MaxAttempts \* options.maxRetries

Apis == {Primary, Fallback}

ASSUME DispatchAssumption ==
    /\ Primary # Fallback /\ Blockchair \notin Apis
    /\ MaxAttempts \in Nat \ {0}

VARIABLES
    peer,    \* the socket of each peer
    chatty,  \* peers that keep sending messages other than verack
    stage,   \* where broadcastTransaction() stands
    attempt, \* of the APIs
    queue,   \* APIs withFailover() still asks in this attempt, the asked one first
    healthy, \* APIs that isProviderHealthy() accepts
    request, \* what became of the request under way
    holding, \* the network: "unseen", "mempool" or "mined"
    verdict, \*   and what it thinks of the transaction: "fine" or the objection
    strays   \* a peer or an API was sent the transaction and may still take it

(* History variable, which no guard reads: an answer was lost, or a peer   *)
(* that had been sent the transaction was counted as missed.               *)
VARIABLE unsure

dispatchVars == <<peer, chatty, stage, attempt, queue, healthy, request, holding,
                  verdict, strays, unsure>>

Objections == {"conflict", "low fee"}
Sent == {"sent by peers", "sent by API", "already known", "sent by Blockchair"}
Thrown == {"DOUBLE_SPEND", "FEE_TOO_LOW", "BROADCAST_FAILED"}

(* Any of the peers may be found; the others count as missed.              *)
DispatchInit ==
    /\ peer \in [Peers -> {"connecting", "missed"}] /\ chatty \in SUBSET Peers
    /\ stage = "peers" /\ attempt = 0 /\ queue = <<>>
    /\ healthy \in SUBSET Apis
    /\ request = "none"
    /\ holding = "unseen" /\ verdict \in {"fine"} \cup Objections
    /\ strays = FALSE /\ unsure = FALSE

-----------------------------------------------------------------------------
(* relayToPeer() *)

apiVars == <<attempt, queue, healthy, request>>
netVars == <<holding, verdict>>

(* connect(): the version message is sent.                                 *)
PeerConnects(p) ==
    /\ peer[p] = "connecting"
    /\ peer' = [peer EXCEPT ![p] = "handshake"]
    /\ UNCHANGED <<chatty, stage, apiVars, netVars, strays, unsure>>

(* version and verack have arrived: the transaction is written, and the    *)
(* timeout is switched off.                                                *)
PeerShakesHands(p) ==
    /\ peer[p] = "handshake"
    /\ peer' = [peer EXCEPT ![p] = "written"]
    /\ strays' = TRUE
    /\ UNCHANGED <<chatty, stage, apiVars, netVars, unsure>>

(* POST_TX_DELAY_MS later                                                  *)
PeerReached(p) ==
    /\ peer[p] = "written"
    /\ peer' = [peer EXCEPT ![p] = "reached"]
    /\ UNCHANGED <<chatty, stage, apiVars, netVars, strays, unsure>>

(* The socket fails, is closed, or a reject message arrives; or nothing    *)
(* arrives for the timeout, which every message starts afresh.             *)
PeerMissed(p) ==
    /\ peer[p] \in {"connecting", "handshake", "written"}
    /\ peer' = [peer EXCEPT ![p] = "missed"]
    /\ unsure' = (unsure \/ peer[p] = "written")
    /\ UNCHANGED <<chatty, stage, apiVars, netVars, strays>>

-----------------------------------------------------------------------------
(* withFailover() *)

(* The healthy APIs first, each group in its order.                        *)
Order ==
    IF Primary \in healthy \/ Fallback \notin healthy
    THEN <<Primary, Fallback>>
    ELSE <<Fallback, Primary>>

BeginsAttempt_Uncounted ==
    /\ stage' = "APIs" /\ attempt' = 1
    /\ queue' = Order /\ request' = "in transit"

BeginsAttempt ==
    /\ stage' = "APIs" /\ attempt' = attempt + 1
    /\ queue' = Order /\ request' = "in transit"

Reached_Two == \E p, q \in Peers : p # q /\ peer[p] = "reached" /\ peer[q] = "reached"

(* MIN_PEERS_FOR_SUCCESS                                                   *)
Reached == \E p \in Peers : peer[p] = "reached"

(* Promise.allSettled() over the peers                                     *)
PeersSettle ==
    /\ stage = "peers" /\ \A p \in Peers : peer[p] \in {"reached", "missed"}
    /\ \/ /\ Reached /\ stage' = "sent by peers"
          /\ UNCHANGED <<attempt, queue, request>>
       \/ ~Reached /\ BeginsAttempt
    /\ UNCHANGED <<peer, chatty, healthy, netVars, strays, unsure>>

(* Other callers of the provider, and time, change the health.             *)
HealthChanges(a) ==
    /\ stage \notin Sent \cup Thrown
    /\ healthy' \in {healthy \cup {a}, healthy \ {a}} \ {healthy}
    /\ UNCHANGED <<peer, chatty, stage, attempt, queue, request, netVars, strays, unsure>>

(* The request arrives and the network judges the transaction.             *)
RequestArrives ==
    /\ request = "in transit"
    /\ \/ /\ holding = "unseen" /\ verdict = "fine"
          /\ holding' = "mempool" /\ request' = "ok"
       \/ /\ holding = "unseen" /\ verdict # "fine"
          /\ request' = verdict /\ UNCHANGED holding
       \/ /\ holding \in {"mempool", "mined"}
          /\ request' = "known" /\ UNCHANGED holding
       \/ /\ holding = "mined"
          /\ request' = "conflict" /\ UNCHANGED holding
    /\ UNCHANGED <<peer, chatty, stage, attempt, queue, healthy, verdict, strays, unsure>>

(* What broadcastTx() throws, or returns, at the end of a request: the     *)
(* answer; a network error, a time-out or an answer that hides the reason; *)
(* or a refusal to look at the request (HTTP 429, no valid API key).       *)
Ends(r) ==
    /\ request # "none"
    /\ \/ /\ request # "in transit" /\ r = request
          /\ UNCHANGED <<strays, unsure>>
       \/ /\ r = "other"
          /\ strays' = (strays \/ request = "in transit") /\ unsure' = TRUE
       \/ /\ r = "other" /\ request = "in transit"
          /\ UNCHANGED <<strays, unsure>>

ApiSucceeds ==
    /\ stage = "APIs"
    /\ Ends("ok")
    /\ healthy' = healthy \cup {Head(queue)}
    /\ stage' = "sent by API" /\ request' = "none"
    /\ UNCHANGED <<peer, chatty, attempt, queue, netVars>>

Errors == {"known", "conflict", "low fee", "other"}

(* An error of an API that is not the last of the attempt is dropped.      *)
AsksNext(r) ==
    /\ Len(queue) > 1
    /\ queue' = Tail(queue) /\ request' = "in transit"
    /\ UNCHANGED <<stage, attempt>>

(* The catch block of the loop over the attempts                           *)
AttemptFails(r) ==
    /\ Len(queue) = 1
    /\ queue' = <<>>
    /\ stage' = CASE r = "known"    -> "already known"
                  [] r = "conflict" -> "DOUBLE_SPEND"
                  [] r = "low fee"  -> "FEE_TOO_LOW"
                  [] r = "other"    -> IF attempt < MaxAttempts THEN "pause" ELSE "Blockchair"
    /\ request' = IF stage' = "Blockchair" THEN "in transit" ELSE "none"
    /\ UNCHANGED attempt

ApiFails ==
    /\ stage = "APIs"
    /\ \E r \in Errors :
          /\ Ends(r)
          /\ AsksNext(r) \/ AttemptFails(r)
    /\ healthy' = healthy \ {Head(queue)}
    /\ UNCHANGED <<peer, chatty, netVars>>

(* sleep(), 1 s and then 3 s                                               *)
Retries ==
    /\ stage = "pause" /\ BeginsAttempt
    /\ UNCHANGED <<peer, chatty, healthy, netVars, strays, unsure>>

-----------------------------------------------------------------------------
(* broadcastViaBlockchair(): every error ends the broadcast.               *)
BlockchairSucceeds ==
    /\ stage = "Blockchair" /\ Ends("ok")
    /\ stage' = "sent by Blockchair" /\ request' = "none"
    /\ UNCHANGED <<peer, chatty, attempt, queue, healthy, netVars>>

BlockchairFails ==
    /\ stage = "Blockchair"
    /\ \E r \in Errors : Ends(r)
    /\ stage' = "BROADCAST_FAILED" /\ request' = "none"
    /\ UNCHANGED <<peer, chatty, attempt, queue, healthy, netVars>>

-----------------------------------------------------------------------------
(* The network *)

(* A peer, or an API whose answer the wallet no longer waits for, submits  *)
(* the transaction it was sent.                                            *)
StrayAccepted ==
    /\ strays /\ holding = "unseen" /\ verdict = "fine"
    /\ holding' = "mempool"
    /\ UNCHANGED <<peer, chatty, stage, apiVars, verdict, strays, unsure>>

Mined ==
    /\ holding = "mempool" /\ holding' = "mined"
    /\ UNCHANGED <<peer, chatty, stage, apiVars, verdict, strays, unsure>>

(* Another transaction spends the inputs first.                            *)
Overtaken ==
    /\ holding = "unseen" /\ verdict = "fine" /\ verdict' = "conflict"
    /\ UNCHANGED <<peer, chatty, stage, apiVars, holding, strays, unsure>>

PeerStep(p) == PeerConnects(p) \/ PeerShakesHands(p) \/ PeerReached(p) \/ PeerMissed(p)

ApiStep ==
    \/ ApiSucceeds \/ ApiFails \/ Retries
    \/ BlockchairSucceeds \/ BlockchairFails

DispatchNext ==
    \/ \E p \in Peers : PeerStep(p)
    \/ \E a \in Apis : HealthChanges(a)
    \/ PeersSettle \/ RequestArrives \/ ApiStep
    \/ StrayAccepted \/ Mined \/ Overtaken

DispatchSpec == DispatchInit /\ [][DispatchNext]_dispatchVars

-----------------------------------------------------------------------------
(* Properties *)

(* Every variable has its type.                                            *)
DispatchTypeOK ==
    /\ peer \in [Peers -> {"connecting", "handshake", "written", "reached", "missed"}]
    /\ chatty \subseteq Peers /\ healthy \subseteq Apis
    /\ stage \in {"peers", "APIs", "pause", "Blockchair"} \cup Sent \cup Thrown
    /\ attempt \in 0 .. MaxAttempts
    /\ queue \in {<<>>, <<Primary>>, <<Fallback>>,
                  <<Primary, Fallback>>, <<Fallback, Primary>>}
    /\ request \in {"none", "in transit", "ok", "known"} \cup Objections
    /\ holding \in {"unseen", "mempool", "mined"}
    /\ verdict \in {"fine"} \cup Objections
    /\ strays \in BOOLEAN /\ unsure \in BOOLEAN

(* executeSend() frees the coins when the broadcast throws, and builds on  *)
(* the change when it returns.  A throw means that the network does not    *)
(* have the transaction and nobody may still bring it there, unless an     *)
(* answer was lost or a peer counted as missed had been sent it; a success *)
(* that an API reports means that the network has it.                      *)
OutcomeIsTold ==
    /\ stage \in Thrown => unsure \/ (holding = "unseen" /\ ~strays)
    /\ stage \in Sent \ {"sent by peers"} => holding # "unseen"
    /\ stage = "sent by peers" => strays
    /\ stage = "DOUBLE_SPEND" => unsure \/ verdict = "conflict"

(* Every broadcast ends, unless a peer keeps talking for ever without      *)
(* completing the handshake.                                               *)
BroadcastEnds ==
    \/ <>(stage \in Sent \cup Thrown)
    \/ <>[](\E p \in chatty : peer[p] = "handshake")
=============================================================================
