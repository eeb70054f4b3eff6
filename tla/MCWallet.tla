------------------------------ MODULE MCWallet ------------------------------
(* Instances of WalletLife and Onboarding for TLC.  Every behaviour plays   *)
(* in one scene: the wallet in use, or the guided set-up.  The variables of *)
(* the other module keep their initial values.                             *)
EXTENDS WalletLife, Onboarding, TLC

VARIABLE scene

vars == <<keyVars, lifeVars, setupVars, scene>>

Init == LifeInit /\ SetupInit /\ scene \in {"in use", "set-up"}

InUse == scene = "in use" /\ LifeNext /\ UNCHANGED <<setupVars, scene>>
SetUp == scene = "set-up" /\ SetupNext /\ UNCHANGED <<lifeVars, scene>>

Next == InUse \/ SetUp
Spec == Init /\ [][Next]_vars

(* The wallet in use only, with the fairness of its timers and APIs.       *)
FairInUse == LifeInit /\ SetupInit /\ scene = "in use" /\ [][Next]_vars /\ LifeFairness

Symmetry == Permutations(Wallets) \cup Permutations(Slots)

(* Bound: handlers that overlap, or saves that did, and a crash are not     *)
(* explored together.                                                      *)
Crowded == overlapped \/ \A t \in Slots : tasks[t] # Free
OneTrouble == Crowded => crashes = 0

(* Once saves overlapped, no restart reads what they wrote: states that     *)
(* differ only in that are one state.                                      *)
Read ==
    IF overlapped
    THEN <<tempFile = NoFile, [t \in Slots |-> [tasks[t] EXCEPT !.snap = NoFile]]>>
    ELSE <<file, tempFile, tasks>>

(* Every variable of the components has its type.                           *)
WalletTypeOK == LifeTypeOK /\ SetupTypeOK

(* Deposits are noticed without an effect on anything else.                *)
View == <<scene, keyVars, serviceVars, jobs, send, funded, restarts, onboarded, overtaken,
          sessions, temp, offered, pastVars, overlapped, Read>>
=============================================================================
