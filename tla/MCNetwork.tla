------------------------------ MODULE MCNetwork ------------------------------
(* Instances for TLC of what waits for the network: the tracker, the        *)
(* receive monitor, one broadcast, and the send path with its coin cache.   *)
(* WalletSend holds what a send, the tracker and the cache do to one        *)
(* another; here each runs in its own detail.  Every behaviour plays in one *)
(* scene; the variables of the others keep their initial values.            *)
EXTENDS TxTracker, ReceiveMonitor, Dispatch

CONSTANTS Sends, Deposits, Providers, Refreshes, NoSend, MinConfirmations

VARIABLES
    scene,
    phase, snapshot, inputs, todo, hasChange, cached, owner, stale, confirmed, disk, refresh,
    accepted, mined, indexed, tracked, sendRestarts, open, released, resurfaced

Wallet == INSTANCE WalletSend WITH restarts <- sendRestarts

walletVars == <<phase, snapshot, inputs, todo, hasChange, cached, owner, stale, confirmed, disk,
                refresh, accepted, mined, indexed, tracked, sendRestarts, open, released,
                resurfaced>>

vars == <<trackerVars, monitorVars, dispatchVars, walletVars, scene>>

(* The one broadcast of the other scenes, which nobody makes.               *)
NoBroadcast ==
    /\ DispatchInit /\ verdict = "fine"
    /\ chatty = {} /\ healthy = {} /\ peer = [p \in Peers |-> "missed"]

Init ==
    /\ scene \in {"tracking", "monitoring", "broadcasting", "sending"}
    /\ TrackerInit /\ MonitorInit /\ Wallet!Init
    /\ IF scene = "broadcasting" THEN DispatchInit ELSE NoBroadcast

Tracking == scene = "tracking" /\ TrackerNext
            /\ UNCHANGED <<monitorVars, dispatchVars, walletVars, scene>>

Monitoring == scene = "monitoring" /\ MonitorNext
              /\ UNCHANGED <<trackerVars, dispatchVars, walletVars, scene>>

Broadcasting == scene = "broadcasting" /\ DispatchNext
                /\ UNCHANGED <<trackerVars, monitorVars, walletVars, scene>>

Sending == scene = "sending" /\ Wallet!Next
           /\ UNCHANGED <<trackerVars, monitorVars, dispatchVars, scene>>

Next == Tracking \/ Monitoring \/ Broadcasting \/ Sending

(* What the code's scheduling promises, scene by scene.  The tracker: its   *)
(* timer fires, every request is answered or times out, time passes, and a  *)
(* mined transaction gets deeper.                                           *)
TrackingGoesOn ==
    /\ \A p \in Polls :
          /\ WF_trackerVars(scene = "tracking" /\ PollStart(p))
          /\ WF_trackerVars(scene = "tracking" /\ PollStep(p))
    /\ \A t \in Txs :
          /\ WF_trackerVars(scene = "tracking" /\ Ages(t))
          /\ WF_trackerVars(scene = "tracking" /\ depth[t] > 0 /\ BlockArrives(t))

(* The monitor: the service starts, timers fire, requests and saves end,    *)
(* and now and then an API answers with all there is.                       *)
MonitoringGoesOn ==
    /\ WF_monitorVars(scene = "monitoring" /\ ServiceLoads)
    /\ WF_monitorVars(scene = "monitoring" /\ ServiceStarts)
    /\ WF_monitorVars(scene = "monitoring" /\ TimerFires)
    /\ \A p \in Cycles : WF_monitorVars(scene = "monitoring" /\ PollEnds(p))
    /\ SF_monitorVars(/\ scene = "monitoring"
                      /\ \E p \in Cycles : PollAnswered(p, arrived, Unseen(arrived)))

(* The broadcast: timers fire, every request ends or times out, and a peer  *)
(* that is silent times out; one that keeps talking need not.               *)
BroadcastingGoesOn ==
    /\ \A p \in Peers :
          WF_dispatchVars(/\ scene = "broadcasting"
                          /\ peer[p] = "handshake" => p \notin chatty
                          /\ PeerStep(p))
    /\ WF_dispatchVars(scene = "broadcasting" /\ PeersSettle)
    /\ WF_dispatchVars(scene = "broadcasting" /\ ApiStep)

(* The send path: an executeSend() under way goes on to its end, the        *)
(* refresh timer keeps firing, time passes, and the APIs keep working now   *)
(* and then and learn of every accepted transaction.                        *)
SendingGoesOn ==
    /\ \A s \in Sends :
          /\ WF_walletVars(scene = "sending" /\ Wallet!SendContinues(s))
          /\ WF_walletVars(scene = "sending" /\ \E p \in Providers : Wallet!ProviderIndexes(p, s))
    /\ \A r \in Refreshes :
          /\ WF_walletVars(scene = "sending" /\ \E p \in Providers : Wallet!RefreshAsks(r, p))
          /\ WF_walletVars(scene = "sending" /\ (Wallet!RefreshMerge(r) \/ Wallet!RefreshSkip(r)))
    /\ \A c \in Sends \cup Deposits : WF_walletVars(scene = "sending" /\ Wallet!LockAges(c))

Fairness == TrackingGoesOn /\ MonitoringGoesOn /\ BroadcastingGoesOn /\ SendingGoesOn

Spec == Init /\ [][Next]_vars /\ Fairness

(* What may be on disk matters only as long as a restart can read it.      *)
View == <<scene, entries, network, timer, backoff, poll, restarts, outcomes, overlapped, reverted,
          IF restarts < MaxRestarts THEN saved ELSE <<>>,
          monitorVars, dispatchVars, walletVars>>

-----------------------------------------------------------------------------
(* The liveness properties, each where its component is on stage: the      *)
(* tracker ends every transaction that does not linger in the mempool ...  *)
TransactionsSettle == scene = "tracking" => Settles

(* ... the monitor announces every deposit that stays in the answers ...   *)
DepositsAreNoticed == scene = "monitoring" => DepositsAreAnnounced

(* ... a broadcast ends ...                                                *)
EveryBroadcastEnds == scene = "broadcasting" => BroadcastEnds

(* ... no coin stays locked for ever ...                                   *)
LocksEnd == scene = "sending" => Wallet!LocksEnd

(* ... and the cache comes to agree with the network.                      *)
CacheConverges == scene = "sending" => Wallet!CacheConverges
=============================================================================
