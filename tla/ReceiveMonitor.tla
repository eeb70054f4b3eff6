--------------------------- MODULE ReceiveMonitor ---------------------------
(***************************************************************************)
(* ReceiveMonitor of src/receive-monitor.ts: the loop of polls and timers, *)
(* the txids it has announced, the file a restart reads them from, and the *)
(* calls of src/index.ts that start and stop it.  Transactions of the      *)
(* wallet's address are numbered in the order in which the network took    *)
(* them.  poll() catches every error, so that the back-off of pollOnce()   *)
(* never happens.                                                          *)
(***************************************************************************)
EXTENDS Naturals, Sequences, FiniteSets, Functions

CONSTANTS
    Cycles,       \* bound: polls under way at the same time
    Window,       \* transactions an API answers with, 20
    MaxSeen,      \* MAX_SEEN_TXIDS
    Behind,       \* transactions an API may be behind
    MaxArrivals,  \* bound: transactions of the address,
    Own,          \*   and those of them that the wallet sent itself
    MaxReloads    \* bound: restarts

ASSUME MonitorAssumption ==
    /\ Own \subseteq 1 .. MaxArrivals
    /\ {Window, MaxArrivals} \subseteq Nat \ {0} /\ {Behind, MaxReloads} \subseteq Nat
    /\ MaxSeen \in Nat /\ MaxSeen >= 2 * (Window + Behind) - 1

VARIABLES
    arrived,   \* number of transactions so far
    running,   \* service.start(): "loading", "started", and "stopped"
    address,   \* setAddress() was called
    pollTimer, \* "none"; or the timer it names is "armed" or has "fired"
    others,    \* armed timers that pollTimer does not name any more
    polls,     \* calls of poll(): "idle", "asking" an API, "saving"
    written,   \* what each of them is writing
    seen,      \* seenTxids, in the order of insertion
    stateFile, \* receive-state.json
    reloads

(* History variables, which no guard reads.                                *)
VARIABLES
    announced, \* transactions onReceive() was called for
    forgetful, \* a save failed, was cut short or met another, or start() met load()
    repeated,  \* onReceive() was called again, without that
    doubled,   \* start() was called while a loop ran that has no timer yet
    escaped    \* stop() was called while a loop ran that it cannot see

monitorVars == <<arrived, running, address, pollTimer, others, polls, written,
                 seen, stateFile, reloads, announced, forgetful, repeated, doubled, escaped>>

NoTxids == <<>>
Arrivals == 1 .. MaxArrivals

MonitorInit ==
    /\ arrived = 0 /\ running = "loading" /\ address = FALSE
    /\ pollTimer = "none" /\ others = 0
    /\ polls = [p \in Cycles |-> "idle"] /\ written = [p \in Cycles |-> NoTxids]
    /\ seen = NoTxids /\ stateFile = NoTxids /\ reloads = 0
    /\ announced = {} /\ forgetful = FALSE /\ repeated = FALSE
    /\ doubled = FALSE /\ escaped = FALSE

fileVars == <<written, stateFile>>

-----------------------------------------------------------------------------
(* start() and stop() *)

UnderWay == {p \in Cycles : polls[p] # "idle"}

PollBegins == \E p \in Cycles :
    /\ polls[p] = "idle"
    /\ polls' = [polls EXCEPT ![p] = "asking"]

(* startReceiveMonitor(): setAddress() and start(), which polls at once    *)
(* unless there is a timer.                                                *)
Starts ==
    /\ address' = TRUE
    /\ \/ pollTimer # "none" /\ UNCHANGED <<polls, doubled>>
       \/ /\ pollTimer = "none" /\ PollBegins
          /\ doubled' = (doubled \/ UnderWay # {})
    /\ UNCHANGED <<pollTimer, others>>

ServiceLoads_Drops ==
    /\ running = "loading" /\ running' = "loaded"
    /\ UNCHANGED <<arrived, address, pollTimer, others, polls, seen, fileVars, reloads,
                   announced, forgetful, repeated, doubled, escaped>>

(* load() of service.start(), which replaces seenTxids unless there is no   *)
(* file to read, or a torn one ...                                         *)
ServiceLoads ==
    /\ running = "loading" /\ running' = "loaded"
    /\ seen' = IF stateFile = NoTxids THEN seen ELSE stateFile
    /\ UNCHANGED <<arrived, address, pollTimer, others, polls, fileVars, reloads, announced,
                   forgetful, repeated, doubled, escaped>>

(* ... and start(), if there is a wallet.                                  *)
ServiceStarts ==
    /\ running = "loaded" /\ running' = "started"
    /\ Starts \/ UNCHANGED <<address, pollTimer, others, polls, doubled>>
    /\ UNCHANGED <<arrived, seen, fileVars, reloads, announced, forgetful, repeated,
                   escaped>>

(* The commands that make or recover a wallet may come at any time.        *)
CommandStarts ==
    /\ running # "stopped"
    /\ Starts
    /\ forgetful' = (forgetful \/ running = "loading")
    /\ UNCHANGED <<arrived, running, seen, fileVars, reloads, announced, repeated, escaped>>

Stops_KeepsTimer ==
    /\ running = "started" /\ running' = "stopped"
    /\ escaped' = (UnderWay # {} \/ others > 0)
    /\ UNCHANGED <<arrived, address, pollTimer, others, polls, seen, fileVars, reloads,
                   announced, forgetful, repeated, doubled>>

(* The service stops: only the timer that pollTimer names is cleared.      *)
Stops ==
    /\ running = "started" /\ running' = "stopped"
    /\ pollTimer' = "none"
    /\ escaped' = (UnderWay # {} \/ others > 0)
    /\ UNCHANGED <<arrived, address, others, polls, seen, fileVars, reloads, announced,
                   forgetful, repeated, doubled>>

-----------------------------------------------------------------------------
(* poll() *)

TimerFires ==
    /\ PollBegins
    /\ \/ pollTimer = "armed" /\ pollTimer' = "fired" /\ UNCHANGED others
       \/ others > 0 /\ others' = others - 1 /\ UNCHANGED pollTimer
    /\ UNCHANGED <<arrived, running, address, seen, fileVars, reloads, announced, forgetful,
                   repeated, doubled, escaped>>

(* scheduleNext(), whether or not there is a timer                         *)
ScheduleNext ==
    /\ pollTimer' = "armed"
    /\ others' = others + (IF pollTimer = "armed" THEN 1 ELSE 0)

PollFails_EndsLoop(p) ==
    /\ polls[p] = "asking"
    /\ polls' = [polls EXCEPT ![p] = "idle"]
    /\ UNCHANGED <<arrived, running, address, pollTimer, others, seen, fileVars, reloads,
                   announced, forgetful, repeated, doubled, escaped>>

PollFails(p) ==
    /\ polls[p] = "asking"
    /\ polls' = [polls EXCEPT ![p] = "idle"]
    /\ ScheduleNext
    /\ UNCHANGED <<arrived, running, address, seen, fileVars, reloads, announced, forgetful,
                   repeated, doubled, escaped>>

(* What an API has to answer that knows of the first n transactions.       *)
Answer(n) == {t \in Arrivals \ Own : t <= n /\ n < t + Window}

(* Newest first, as the APIs list them.                                    *)
InOrder(S) == [i \in 1 .. Cardinality(S) |->
                  CHOOSE t \in S : Cardinality({u \in S : u > t}) = i - 1]

Trimmed(s) == IF Len(s) > MaxSeen THEN SubSeq(s, Len(s) - MaxSeen + 1, Len(s)) ELSE s

(* What of it is new to poll(); SoChain leaves out the transactions that it *)
(* fails to look up.                                                       *)
Unseen(n) == Answer(n) \ Range(seen)

PollAnswered(p, n, new) ==
    /\ polls[p] = "asking"
    /\ n <= arrived /\ arrived <= n + Behind
    /\ seen' = Trimmed(seen \o InOrder(new))
    /\ announced' = announced \cup new
    /\ repeated' = (repeated \/ (~forgetful /\ new \cap announced # {}))
    /\ polls' = [polls EXCEPT ![p] = "saving"]
    /\ written' = [written EXCEPT ![p] = seen']
    /\ UNCHANGED <<arrived, running, address, pollTimer, others, stateFile, reloads, forgetful,
                   doubled, escaped>>

(* save() is over: it wrote the file, alone or across another save, or it   *)
(* failed, which it only logs.                                             *)
SaveEnds(p) ==
    /\ polls[p] = "saving"
    /\ polls' = [polls EXCEPT ![p] = "idle"]
    /\ written' = [written EXCEPT ![p] = NoTxids]
    /\ LET crossed == \E q \in Cycles \ {p} : polls[q] = "saving" IN
          \/ stateFile' = written[p] /\ forgetful' = (forgetful \/ crossed)
          \/ stateFile' = NoTxids /\ crossed /\ forgetful' = TRUE
          \/ UNCHANGED stateFile /\ forgetful' = TRUE
    /\ ScheduleNext
    /\ UNCHANGED <<arrived, running, address, seen, reloads, announced, repeated,
                   doubled, escaped>>

-----------------------------------------------------------------------------
(* A transaction of the address: a payment to it, or one of its own.       *)
Arrives ==
    /\ arrived < MaxArrivals
    /\ arrived' = arrived + 1
    /\ UNCHANGED <<running, address, pollTimer, others, polls, seen, fileVars, reloads,
                   announced, forgetful, repeated, doubled, escaped>>

(* The process ends; a save under way leaves the old file, the new one, or *)
(* a torn one, which load() reads as none.                                 *)
Reloads ==
    /\ reloads < MaxReloads /\ reloads' = reloads + 1
    /\ running' = "loading" /\ address' = FALSE /\ pollTimer' = "none" /\ others' = 0
    /\ polls' = [p \in Cycles |-> "idle"] /\ written' = [p \in Cycles |-> NoTxids]
    /\ seen' = NoTxids
    /\ LET saving == {p \in Cycles : polls[p] = "saving"} IN
          /\ stateFile' \in {stateFile} \cup {written[p] : p \in saving}
                              \cup (IF saving # {} THEN {NoTxids} ELSE {})
          /\ forgetful' = (forgetful \/ saving # {})
    /\ UNCHANGED <<arrived, announced, repeated, doubled, escaped>>

PollEnds(p) ==
    \/ PollFails(p) \/ SaveEnds(p)
    \/ \E n \in 0 .. MaxArrivals : \E new \in SUBSET Unseen(n) : PollAnswered(p, n, new)

MonitorNext ==
    \/ ServiceLoads \/ ServiceStarts \/ CommandStarts \/ Stops
    \/ TimerFires
    \/ \E p \in Cycles : PollEnds(p)
    \/ Arrives \/ Reloads

MonitorSpec == MonitorInit /\ [][MonitorNext]_monitorVars

-----------------------------------------------------------------------------
(* Properties *)

(* Every variable has its type.                                            *)
MonitorTypeOK ==
    /\ arrived \in 0 .. MaxArrivals /\ announced \subseteq 1 .. arrived
    /\ running \in {"loading", "loaded", "started", "stopped"}
    /\ {address, forgetful, repeated, doubled, escaped} \subseteq BOOLEAN
    /\ pollTimer \in {"none", "armed", "fired"} /\ others \in Nat
    /\ polls \in [Cycles -> {"idle", "asking", "saving"}]
    /\ \A s \in {seen, stateFile} \cup Range(written) :
          s \in Seq(Arrivals) /\ Len(s) <= MaxSeen
    /\ reloads \in 0 .. MaxReloads

(* A deposit is announced once, also by overlapping polls and after a      *)
(* restart, unless what was announced did not reach the file, or start()   *)
(* came before load(); the txids that are trimmed never come back.         *)
AnnouncedOnce == ~repeated

Loops == Cardinality(UnderWay) + others + (IF pollTimer = "armed" THEN 1 ELSE 0)

(* There is one loop of polls, unless start() came again before the first  *)
(* poll had set the timer; and none once the service has stopped, unless a *)
(* poll was under way then.                                                *)
OneLoop ==
    /\ Loops <= 1 \/ doubled
    /\ running = "stopped" => Loops = 0 \/ escaped

(* Again and again everything a full answer holds has been announced - a   *)
(* deposit that stays among the latest transactions is announced in the    *)
(* end - unless the monitor is off.                                        *)
DepositsAreAnnounced ==
    []<>(\/ Answer(arrived) \subseteq announced
         \/ running = "stopped" \/ (running = "started" /\ ~address))
=============================================================================
