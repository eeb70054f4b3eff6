---------------------------- MODULE MCWalletSend ----------------------------
(* Instances for TLC of how coins leave the wallet and arrive: the send     *)
(* path, how one send is paid for, and the monitor of deposits.  WalletSend *)
(* lets a send select any spendable coins, with or without change; Funding  *)
(* says which ones.  Every behaviour plays in one scene; the variables of   *)
(* the others keep their initial values.                                    *)
EXTENDS WalletSend, Funding, ReceiveMonitor, TLC

VARIABLE scene

sceneVars == <<vars, fundVars, monitorVars, scene>>

(* The one computation of the other scenes, which nobody makes.             *)
NoFunding == FundInit /\ amount = 10 /\ \A c \in Coins : worth[c] = 1

SceneInit ==
    /\ Init /\ MonitorInit /\ scene \in {"sending", "funding", "monitoring"}
    /\ IF scene = "funding" THEN FundInit ELSE NoFunding

InSending == scene = "sending" /\ Next /\ UNCHANGED <<fundVars, monitorVars, scene>>
InFunding == scene = "funding" /\ FundNext /\ UNCHANGED <<vars, monitorVars, scene>>
InMonitoring == scene = "monitoring" /\ MonitorNext /\ UNCHANGED <<vars, fundVars, scene>>

SceneSpec == SceneInit /\ [][InSending \/ InFunding \/ InMonitoring]_sceneVars

(* Sends, deposits and providers are interchangeable, and so are coins.     *)
Symmetry == Permutations(Sends) \cup Permutations(Deposits) \cup Permutations(Providers)
            \cup Permutations(Coins)
=============================================================================
