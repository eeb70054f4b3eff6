----------------------------- MODULE WalletLife -----------------------------
(***************************************************************************)
(* The life of a wallet in the plugin (src/index.ts): the commands and the  *)
(* tool that make, recover, unlock, lock and delete it, the services that   *)
(* have to follow its address (coin refresh, receive monitor, invoices),    *)
(* a send under way, and the restarts in between.  Every command but lock   *)
(* waits for the audit log or an API after it changed the keystore, so that *)
(* another one may come in.  Coins are known by their owner only.           *)
(***************************************************************************)
EXTENDS WalletKeys

CONSTANTS
    Jobs,           \* commands that can wait at the same time
    Refreshes,      \* coin refreshes that can wait for the API at the same time
    MaxRestarts

ASSUME LifeAssumption == MaxRestarts \in Nat

VARIABLES
    service,        \* registered, loading (service.start() has begun), started
    jobs,           \* an init or a recover that waits for the audit log
    coins,          \* owners of the coins in the cache
    savedCoins,     \* owners of the coins in utxos/cache.json, as a set of answers
    asking,         \* the address a refresh has asked an API about
    refreshTimer,   \* utxoRefreshTimer is set
    watched,        \* the address of the receive monitor
    polling,        \* the receive monitor has been started
    billTo,         \* the address of the invoice manager and the verifier
    send,           \* one executeSend()
    funded,         \* wallets the network knows coins of
    noticed,        \* wallets a deposit to which was notified
    restarts,
    onboarded,      \* history: wallets the onboarding made in this process
    overtaken       \* history: a command came in while something else waited

serviceVars == <<service, coins, savedCoins, asking, refreshTimer, watched, polling, billTo>>
lifeVars == <<service, jobs, coins, savedCoins, asking, refreshTimer, watched, polling,
              billTo, send, funded, noticed, restarts, onboarded, overtaken>>

NoJob == [kind |-> "none", wallet |-> NoWallet]
NoSend == [stage |-> "none", from |-> NoWallet, inputs |-> {}, replaced |-> FALSE]

LifeTypeOK ==
    /\ KeysTypeOK
    /\ service \in {"registered", "loading", "started"}
    /\ jobs \in [Jobs -> {NoJob} \cup [kind : {"init", "recover"}, wallet : Wallets]]
    /\ asking \in [Refreshes -> Wallets \cup {NoWallet}]
    /\ {refreshTimer, polling, overtaken} \subseteq BOOLEAN
    /\ {watched, billTo} \subseteq Wallets \cup {NoWallet}
    /\ send \in {NoSend} \cup [stage : {"fee", "broadcast"}, from : Wallets,
                             inputs : SUBSET Wallets, replaced : BOOLEAN]
    /\ \A set \in {coins, savedCoins, funded, noticed, onboarded} : set \subseteq Wallets
    /\ restarts \in 0 .. MaxRestarts

LifeInit ==
    /\ KeysInit
    /\ service = "registered"
    /\ jobs = [j \in Jobs |-> NoJob]
    /\ coins = {} /\ savedCoins = {}
    /\ asking = [r \in Refreshes |-> NoWallet]
    /\ refreshTimer = FALSE /\ polling = FALSE
    /\ watched = NoWallet /\ billTo = NoWallet
    /\ send = NoSend
    /\ funded = {} /\ noticed = {} /\ onboarded = {}
    /\ restarts = 0
    /\ overtaken = FALSE

-----------------------------------------------------------------------------
(* Something waits whose continuation will use what it read before.        *)
SomethingWaits ==
    \/ \E j \in Jobs : jobs[j] # NoJob
    \/ \E r \in Refreshes : asking[r] # NoWallet
    \/ send # NoSend
    \/ deleting # NoWallet
    \/ service # "started"

Overtakes == overtaken' = (overtaken \/ SomethingWaits)

(* doUtxoRefresh(), up to the request: one more refresh is under way.      *)
AsksFor(w) == \E r \in Refreshes :
    /\ asking[r] = NoWallet
    /\ asking' = [asking EXCEPT ![r] = w]

ServicesFollow_NoInvoices(w) ==
    /\ refreshTimer' = TRUE
    /\ IF IsInitialized /\ Address # NoWallet
       THEN AsksFor(Address) /\ AddressIsRead
       ELSE UNCHANGED <<asking, address, cached>>
    /\ watched' = w
    /\ polling' = TRUE
    /\ UNCHANGED <<billTo, disk, key, made, deleting>>

(* What init, recover and the tool do once the audit log is written; w is  *)
(* the wallet they made, which need not be the wallet of the keystore now. *)
ServicesFollow(w) ==
    /\ refreshTimer' = TRUE
    /\ IF IsInitialized /\ Address # NoWallet
       THEN AsksFor(Address) /\ AddressIsRead
       ELSE UNCHANGED <<asking, address, cached>>
    /\ watched' = w
    /\ polling' = TRUE
    /\ billTo' = w
    /\ UNCHANGED <<disk, key, made, deleting>>

SendSeesKeystoreChange ==
    send' = IF send = NoSend THEN send ELSE [send EXCEPT !.replaced = TRUE]

(* /wallet init and the tool wallet_init.                                  *)
InitCommand(j, w) ==
    /\ jobs[j] = NoJob
    /\ GenerateKeys(w)
    /\ jobs' = [jobs EXCEPT ![j] = [kind |-> "init", wallet |-> w]]
    /\ overtaken' = (overtaken \/ SomethingWaits \/ coins # {})
    /\ SendSeesKeystoreChange
    /\ UNCHANGED <<serviceVars, funded, noticed, restarts, onboarded>>

(* The onboarding calls init() and nothing else (flow.ts:454).             *)
OnboardingCreates(w) ==
    /\ GenerateKeys(w)
    /\ onboarded' = onboarded \cup {w}
    /\ overtaken' = (overtaken \/ SomethingWaits \/ coins # {})
    /\ SendSeesKeystoreChange
    /\ UNCHANGED <<serviceVars, jobs, funded, noticed, restarts>>

RecoverCommand(j, w) ==
    /\ jobs[j] = NoJob
    /\ RecoverKeys(w)
    /\ jobs' = [jobs EXCEPT ![j] = [kind |-> "recover", wallet |-> w]]
    /\ Overtakes
    /\ onboarded' = onboarded \ {w}
    /\ SendSeesKeystoreChange
    /\ UNCHANGED <<serviceVars, funded, noticed, restarts>>

CommandContinues(j) ==
    /\ jobs[j] # NoJob
    /\ jobs' = [jobs EXCEPT ![j] = NoJob]
    /\ coins' = IF jobs[j].kind = "recover" THEN {} ELSE coins
    /\ ServicesFollow(jobs[j].wallet)
    /\ UNCHANGED <<service, savedCoins, send, funded, noticed, restarts, onboarded,
                   overtaken>>

(* /wallet unlock: the keys at once, then a refresh of the balance.        *)
UnlockCommand ==
    /\ key = NoWallet
    /\ OpenKeystore
    /\ AsksFor(Loaded)
    /\ UNCHANGED <<service, jobs, coins, savedCoins, refreshTimer, watched, polling, billTo,
                   send, funded, noticed, restarts, onboarded, overtaken>>

UnlockRefused == key = NoWallet /\ WrongPassphrase /\ UNCHANGED lifeVars

DeleteRefused == IsInitialized /\ deleting = NoWallet /\ WrongPassphrase /\ UNCHANGED lifeVars

LockCommand == key # NoWallet /\ LockKeys /\ UNCHANGED lifeVars

DeleteCommand ==
    /\ DeleteIsConfirmed
    /\ Overtakes
    /\ UNCHANGED <<serviceVars, jobs, send, funded, noticed, restarts, onboarded>>

(* Every file but the audit log goes; coins, timers and addresses in       *)
(* memory stay.                                                            *)
DeleteContinues ==
    /\ DeleteKeystore
    /\ savedCoins' = {}
    /\ UNCHANGED <<service, jobs, coins, asking, refreshTimer, watched, polling, billTo, send,
                   funded, noticed, restarts, onboarded, overtaken>>

-----------------------------------------------------------------------------
RefreshTick ==
    /\ refreshTimer
    /\ IsInitialized /\ Address # NoWallet
    /\ AddressIsRead
    /\ AsksFor(Address)
    /\ UNCHANGED <<disk, key, made, deleting, service, jobs, coins, savedCoins, refreshTimer,
                   watched, polling, billTo, send, funded, noticed, restarts, onboarded,
                   overtaken>>

(* refresh() keeps a cache that is not empty when the answer is.           *)
AnswerIsTaken(answer) ==
    IF answer = {} /\ coins # {}
    THEN UNCHANGED <<coins, savedCoins>>
    ELSE coins' = answer /\ savedCoins' = answer

RefreshAnswered(r) ==
    /\ asking[r] # NoWallet
    /\ asking' = [asking EXCEPT ![r] = NoWallet]
    /\ \/ UNCHANGED <<coins, savedCoins>>                    \* the request fails
       \/ AnswerIsTaken({asking[r]} \cap funded)
    /\ UNCHANGED <<keyVars, service, jobs, refreshTimer, watched, polling, billTo, send,
                   funded, noticed, restarts, onboarded, overtaken>>

Deposit(w) ==
    /\ w \in made \ funded
    /\ funded' = funded \cup {w}
    /\ UNCHANGED <<keyVars, serviceVars, jobs, send, noticed, restarts, onboarded, overtaken>>

MonitorPolls ==
    /\ polling
    /\ watched \in funded \ noticed
    /\ noticed' = noticed \cup {watched}
    /\ UNCHANGED <<keyVars, serviceVars, jobs, send, funded, restarts, onboarded, overtaken>>

-----------------------------------------------------------------------------
(* executeSend(): unlocked and an address, then the fee rate is awaited ... *)
SendStarts ==
    /\ send = NoSend
    /\ key # NoWallet
    /\ send' = [NoSend EXCEPT !.stage = "fee", !.from = Address]
    /\ AddressIsRead
    /\ UNCHANGED <<disk, key, made, deleting, serviceVars, jobs, funded, noticed, restarts,
                   onboarded, overtaken>>

FullySigned_Any(inputs) == inputs # {}

(* ... the coins are those of the cache now, the key is the one of now, the *)
(* change goes to the address of before; the signer throws unless its key   *)
(* signs every input.                                                      *)
FullySigned(inputs) == inputs = {key}

SendSigns == \E inputs \in (SUBSET coins) \ {{}} :
    /\ send.stage = "fee"
    /\ FullySigned(inputs)
    /\ send' = [send EXCEPT !.stage = "broadcast", !.inputs = inputs]
    /\ UNCHANGED <<keyVars, serviceVars, jobs, funded, noticed, restarts, onboarded, overtaken>>

(* Locked meanwhile, no coins, or coins the key does not sign.             *)
SendThrows ==
    /\ send.stage = "fee"
    /\ key = NoWallet \/ coins # {key}
    /\ send' = NoSend
    /\ UNCHANGED <<keyVars, serviceVars, jobs, funded, noticed, restarts, onboarded, overtaken>>

(* The broadcast is over: with a change output, it joins the cache.        *)
SendEnds ==
    /\ send.stage = "broadcast"
    /\ coins' \in {coins, coins \cup {send.from}}
    /\ send' = NoSend
    /\ UNCHANGED <<keyVars, service, savedCoins, asking, refreshTimer, watched, polling,
                   billTo, jobs, funded, noticed, restarts, onboarded, overtaken>>

-----------------------------------------------------------------------------
(* service.start() loads the cached coins, whoever they belong to ...      *)
ServiceLoads ==
    /\ service = "registered"
    /\ service' = "loading"
    /\ coins' = IF savedCoins # {} THEN savedCoins ELSE coins
    /\ UNCHANGED <<keyVars, jobs, savedCoins, asking, refreshTimer, watched, polling, billTo,
                   send, funded, noticed, restarts, onboarded, overtaken>>

(* ... and, the other files read, starts what follows the address.         *)
ServiceStarts ==
    /\ service = "loading"
    /\ service' = "started"
    /\ IF IsInitialized
       THEN /\ AddressIsRead
            /\ billTo' = Address
            /\ watched' = Address
            /\ polling' = (polling \/ Address # NoWallet)
            /\ refreshTimer' = TRUE
            /\ IF Address # NoWallet THEN AsksFor(Address) ELSE UNCHANGED asking
            /\ onboarded' = onboarded \ {Address}
       ELSE UNCHANGED <<address, cached, billTo, watched, polling, refreshTimer, asking,
                        onboarded>>
    /\ UNCHANGED <<disk, key, made, deleting, jobs, coins, savedCoins, send, funded, noticed,
                   restarts, overtaken>>

(* The process ends, with d on the disk: the plugin is registered anew.     *)
ProcessEnds(d) ==
    /\ restarts < MaxRestarts
    /\ restarts' = restarts + 1
    /\ KeysAreForgotten(d)
    /\ service' = "registered"
    /\ jobs' = [j \in Jobs |-> NoJob]
    /\ coins' = {}
    /\ asking' = [r \in Refreshes |-> NoWallet]
    /\ refreshTimer' = FALSE
    /\ watched' = NoWallet
    /\ polling' = FALSE
    /\ billTo' = NoWallet
    /\ send' = NoSend
    /\ onboarded' = {}
    /\ overtaken' = (overtaken \/ ~ savedCoins \subseteq {d})
    /\ UNCHANGED <<savedCoins, funded, noticed>>

LifeRestart == ProcessEnds(disk)

(* The crash tears the keystore that init or recover was writing.          *)
CrashTearsKeystore == ProcessEnds(Torn)

-----------------------------------------------------------------------------
Commands ==
    \/ \E j \in Jobs, w \in Wallets : InitCommand(j, w) \/ RecoverCommand(j, w)
    \/ \E j \in Jobs : CommandContinues(j)
    \/ \E w \in Wallets : OnboardingCreates(w)
    \/ UnlockCommand \/ UnlockRefused \/ LockCommand
    \/ DeleteRefused \/ DeleteCommand \/ DeleteContinues

LifeNext ==
    \/ Commands
    \/ RefreshTick
    \/ \E r \in Refreshes : RefreshAnswered(r)
    \/ \E w \in Wallets : Deposit(w)
    \/ MonitorPolls
    \/ SendStarts \/ SendSigns \/ SendThrows \/ SendEnds
    \/ ServiceLoads \/ ServiceStarts
    \/ LifeRestart \/ CrashTearsKeystore

LifeSpec == LifeInit /\ [][LifeNext]_<<keyVars, lifeVars>>

(* Timers fire, commands and the start go on, an API answers in the end.   *)
LifeFairness ==
    /\ WF_<<keyVars, lifeVars>>(ServiceLoads)
    /\ WF_<<keyVars, lifeVars>>(ServiceStarts)
    /\ WF_<<keyVars, lifeVars>>(MonitorPolls)
    /\ \A j \in Jobs : WF_<<keyVars, lifeVars>>(CommandContinues(j))
    /\ \A r \in Refreshes : WF_<<keyVars, lifeVars>>(RefreshAnswered(r))

FairLifeSpec == LifeSpec /\ LifeFairness

-----------------------------------------------------------------------------
(* The coins in the cache are coins of the wallet's own address, and so are *)
(* those of the file it is reloaded from - unless a wallet was made over a  *)
(* cache of another one, or a command overtook something under way.         *)
CoinsAreOurs ==
    ~overtaken =>
        /\ coins \subseteq {Address}
           \/ \E j \in Jobs : jobs[j].kind = "recover"
        /\ \A r \in Refreshes : asking[r] \in {NoWallet, Address}

(* Once the plugin is started and no command waits, the receive monitor and *)
(* the invoices use the address of the keystore, through every sequence of  *)
(* commands and restarts - unless the onboarding made the wallet, or one    *)
(* command overtook another.                                               *)
ServicesFollowKeystore ==
    /\ service = "started" /\ disk \in Wallets \ onboarded
    /\ \A j \in Jobs : jobs[j] = NoJob
    /\ ~overtaken
    => watched = disk /\ billTo = disk /\ polling

(* Together: what the plugin works with belongs to one wallet.              *)
AllOfOneWallet == CoinsAreOurs /\ ServicesFollowKeystore

(* A signed transaction spends coins of one wallet, and its change goes     *)
(* back to that wallet, unless the keystore was replaced while the send     *)
(* waited.                                                                 *)
ChangeComesBack ==
    send.stage = "broadcast" => send.inputs = {send.from} \/ send.replaced

(* README.md:102 of the program: "Send DOGE to your new address.  You'll    *)
(* get a Telegram notification when it arrives."                           *)
DepositIsNoticed == \A w \in Wallets :
    (w \in funded /\ disk = w) ~> (w \in noticed \/ disk # w)
=============================================================================
