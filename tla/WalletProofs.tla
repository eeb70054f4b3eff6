----------------------------- MODULE WalletProofs -----------------------------
(* Theorems about the life of a wallet (WalletLife) and the guided set-up   *)
(* (Onboarding), for any number of wallets, chats, handlers and restarts;   *)
(* and of the two side by side, as MCWallet puts them together.             *)
EXTENDS MCWallet, TLAPS, FiniteSetTheorems

(***************************************************************************)
(* The key manager                                                         *)
(***************************************************************************)
(* The file, its copy, the address and the key never name two wallets; a    *)
(* torn file counts as one, so that nothing is in memory beside it.         *)
OneWallet ==
    \A u, v \in {disk, cached, address, key} : u = NoWallet \/ v = NoWallet \/ u = v

KeysInv ==
    /\ KeysTypeOK
    /\ OneWallet
    /\ key # NoWallet => address = key
    /\ cached # NoWallet => address = cached
    /\ deleting # NoWallet => address # NoWallet

(* What any step may do to the keys.                                        *)
KeysStep ==
    \/ \E w \in Wallets : SaveKeystore(w)
    \/ OpenKeystore \/ WrongPassphrase \/ LockKeys \/ DeleteIsConfirmed \/ DeleteKeystore
    \/ AddressIsRead /\ UNCHANGED <<disk, key, made, deleting>>
    \/ KeysAreForgotten(disk) \/ KeysAreForgotten(Torn)
    \/ UNCHANGED keyVars

LEMMA KeysInvInit == KeysInit => KeysInv
  BY DEF KeysInit, KeysInv, KeysTypeOK, OneWallet

LEMMA LoadedIsOurs ==
  ASSUME KeysInv
  PROVE  /\ Loaded \in Wallets \cup {NoWallet}
         /\ Address \in Wallets \cup {NoWallet}
         /\ cached # NoWallet => Loaded = cached /\ Address = cached
         /\ cached = NoWallet /\ disk # Torn => Loaded = disk
         /\ disk = Torn => cached = NoWallet /\ address = NoWallet /\ key = NoWallet
                           /\ Loaded = NoWallet /\ Address = NoWallet
         /\ Loaded # NoWallet /\ disk # NoWallet => Loaded = disk
         /\ Loaded # NoWallet => Address = Loaded
         /\ address # NoWallet => Address = address
<1> USE DEF KeysInv, KeysTypeOK, OneWallet
<1>1. Loaded \in Wallets \cup {NoWallet}
  BY WalletsAssumption DEF Loaded
<1>2. disk = Torn => cached = NoWallet /\ address = NoWallet /\ key = NoWallet
  BY WalletsAssumption
<1>3. Loaded # NoWallet => Loaded = cached \/ (cached = NoWallet /\ Loaded = disk)
  BY DEF Loaded
<1>4. Loaded # NoWallet /\ disk # NoWallet => Loaded = disk
  BY <1>3
<1>5. Loaded # NoWallet => Address = Loaded
  BY <1>3 DEF Address
<1> QED
  BY <1>1, <1>2, <1>4, <1>5 DEF Loaded, Address

LEMMA KeysStepKeepsInv ==
  ASSUME KeysInv, KeysStep
  PROVE  KeysInv'
<1> USE DEF KeysInv, KeysTypeOK
<1>1. ASSUME NEW w \in Wallets, SaveKeystore(w) PROVE KeysInv'
  BY <1>1, WalletsAssumption DEF SaveKeystore, OneWallet
<1>2. CASE OpenKeystore
  BY <1>2, LoadedIsOurs, WalletsAssumption DEF OpenKeystore, OneWallet
<1>3. CASE WrongPassphrase
  BY <1>3 DEF WrongPassphrase, OneWallet
<1>4. CASE LockKeys
  BY <1>4 DEF LockKeys, OneWallet
<1>5. CASE DeleteIsConfirmed
  BY <1>5, LoadedIsOurs, WalletsAssumption DEF DeleteIsConfirmed, OneWallet
<1>6. CASE DeleteKeystore
  BY <1>6 DEF DeleteKeystore, OneWallet
<1>7. CASE AddressIsRead /\ UNCHANGED <<disk, key, made, deleting>>
  <2>1. CASE address # NoWallet
    BY <1>7, <2>1 DEF AddressIsRead, Address, OneWallet
  <2>2. CASE address = NoWallet
    <3>1. cached = NoWallet /\ key = NoWallet
      BY <2>2
    <3>2. cached' = Loaded /\ address' = Loaded
      BY <1>7, <2>2 DEF AddressIsRead, Address
    <3> QED
      BY <1>7, <2>2, <3>1, <3>2, LoadedIsOurs DEF OneWallet
  <2> QED
    BY <2>1, <2>2
<1>8. CASE KeysAreForgotten(disk) \/ KeysAreForgotten(Torn)
  BY <1>8, WalletsAssumption DEF KeysAreForgotten, OneWallet
<1>9. CASE UNCHANGED keyVars
  BY <1>9 DEF keyVars, OneWallet
<1> QED
  BY <1>1, <1>2, <1>3, <1>4, <1>5, <1>6, <1>7, <1>8, <1>9 DEF KeysStep

LEMMA KeysInvAgrees == KeysInv => KeysAgree
  BY DEF KeysInv, OneWallet, KeysAgree

(***************************************************************************)
(* WalletLife                                                              *)
(***************************************************************************)
(* Everything but making, recovering and crashing leaves the answer of      *)
(* getAddress() as it is.                                                   *)
QuietKeys ==
    \/ OpenKeystore \/ WrongPassphrase \/ LockKeys \/ DeleteIsConfirmed \/ DeleteKeystore
    \/ AddressIsRead /\ UNCHANGED <<disk, key, made, deleting>>
    \/ UNCHANGED keyVars

LEMMA QuietKeysKeepAddress ==
  ASSUME KeysInv, QuietKeys
  PROVE  /\ Address' = Address
         /\ disk' \in {disk, NoWallet}
         /\ {cached', address', key'} \subseteq {cached, address, key, Loaded, Address, NoWallet}
<1> USE DEF KeysInv, KeysTypeOK
<1>1. CASE OpenKeystore
  BY <1>1, LoadedIsOurs DEF OpenKeystore, Address
<1>2. CASE WrongPassphrase
  BY <1>2 DEF WrongPassphrase, Address, Loaded
<1>3. CASE LockKeys
  BY <1>3 DEF LockKeys, Address, Loaded
<1>4. CASE DeleteIsConfirmed
  BY <1>4, LoadedIsOurs DEF DeleteIsConfirmed, Address
<1>5. CASE DeleteKeystore
  BY <1>5 DEF DeleteKeystore, Address
<1>6. CASE AddressIsRead /\ UNCHANGED <<disk, key, made, deleting>>
  <2>1. CASE address # NoWallet
    BY <1>6, <2>1 DEF AddressIsRead, Address
  <2>2. CASE address = NoWallet
    <3>1. cached' = Loaded /\ address' = Loaded /\ disk' = disk /\ Address = Loaded
      BY <1>6, <2>2 DEF AddressIsRead, Address
    <3>2. Loaded' = Loaded
      BY <3>1, LoadedIsOurs DEF Loaded
    <3>3. Address' = Loaded
      BY <3>1, <3>2 DEF Address
    <3> QED
      BY <1>6, <3>1, <3>3
  <2> QED
    BY <2>1, <2>2
<1>7. CASE UNCHANGED keyVars
  BY <1>7 DEF keyVars, Address, Loaded
<1> QED
  BY <1>1, <1>2, <1>3, <1>4, <1>5, <1>6, <1>7 DEF QuietKeys

Creates ==
    \/ \E j \in Jobs, w \in Wallets : InitCommand(j, w) \/ RecoverCommand(j, w)
    \/ \E w \in Wallets : OnboardingCreates(w)

Ends == LifeRestart \/ CrashTearsKeystore

(* The rest of LifeNext, in which no wallet is made and nothing crashes.    *)
GoesOn ==
    \/ \E j \in Jobs : CommandContinues(j)
    \/ UnlockCommand \/ UnlockRefused \/ LockCommand
    \/ DeleteRefused \/ DeleteCommand \/ DeleteContinues
    \/ RefreshTick
    \/ \E r \in Refreshes : RefreshAnswered(r)
    \/ \E w \in Wallets : Deposit(w)
    \/ MonitorPolls
    \/ SendStarts \/ SendSigns \/ SendThrows \/ SendEnds
    \/ ServiceLoads \/ ServiceStarts

LEMMA LifeNextIs == LifeNext <=> Creates \/ Ends \/ GoesOn
  BY Zenon DEF LifeNext, Commands, Creates, Ends, GoesOn

LEMMA GoesOnIsQuiet == GoesOn => QuietKeys
<1> SUFFICES ASSUME GoesOn PROVE QuietKeys
  OBVIOUS
<1> USE DEF QuietKeys
<1>1. ASSUME NEW j \in Jobs, CommandContinues(j) PROVE QuietKeys
  BY <1>1, Zenon DEF CommandContinues, ServicesFollow, keyVars
<1>2. CASE UnlockCommand \/ UnlockRefused \/ LockCommand \/ DeleteRefused
  BY <1>2, Zenon DEF UnlockCommand, UnlockRefused, LockCommand, DeleteRefused
<1>3. CASE DeleteCommand \/ DeleteContinues
  BY <1>3, Zenon DEF DeleteCommand, DeleteContinues
<1>4. CASE RefreshTick \/ SendStarts
  BY <1>4 DEF RefreshTick, SendStarts
<1>5. CASE \E r \in Refreshes : RefreshAnswered(r)
  BY <1>5 DEF RefreshAnswered
<1>6. CASE \E w \in Wallets : Deposit(w)
  BY <1>6 DEF Deposit
<1>7. CASE MonitorPolls \/ SendSigns \/ SendThrows \/ SendEnds \/ ServiceLoads
  BY <1>7, Zenon DEF MonitorPolls, SendSigns, SendThrows, SendEnds, ServiceLoads, keyVars
<1>8. CASE ServiceStarts
  BY <1>8, Zenon DEF ServiceStarts, keyVars
<1> QED
  BY <1>1, <1>2, <1>3, <1>4, <1>5, <1>6, <1>7, <1>8, Zenon DEF GoesOn

LEMMA LifeStepIsKeysStep == [LifeNext]_<<keyVars, lifeVars>> => KeysStep
<1> SUFFICES ASSUME [LifeNext]_<<keyVars, lifeVars>> PROVE KeysStep
  OBVIOUS
<1>1. CASE GoesOn
  BY <1>1, GoesOnIsQuiet, Zenon DEF QuietKeys, KeysStep
<1>2. CASE Creates
  BY <1>2, Zenon DEF Creates, InitCommand, OnboardingCreates, RecoverCommand, GenerateKeys,
                     RecoverKeys, KeysStep
<1>3. CASE Ends
  BY <1>3, Zenon DEF Ends, LifeRestart, CrashTearsKeystore, ProcessEnds, KeysStep
<1>4. CASE UNCHANGED <<keyVars, lifeVars>>
  BY <1>4, Zenon DEF KeysStep
<1> QED
  BY <1>1, <1>2, <1>3, <1>4, LifeNextIs, Zenon

LEMMA LifeKeysInv == LifeSpec => []KeysInv
<1>1. LifeInit => KeysInv
  BY KeysInvInit DEF LifeInit
<1>2. KeysInv /\ [LifeNext]_<<keyVars, lifeVars>> => KeysInv'
  BY LifeStepIsKeysStep, KeysStepKeepsInv
<1> QED
  BY <1>1, <1>2, PTL DEF LifeSpec

(* What the key manager holds in memory is the wallet of the file, or       *)
(* nothing, through every interleaving of commands, sends, refreshes and    *)
(* restarts, torn keystore files included.                                  *)
THEOREM KeysAgreeInUse == LifeSpec => []KeysAgree
  BY LifeKeysInv, KeysInvAgrees, PTL

-----------------------------------------------------------------------------
(* The other variables of WalletLife, without those of the key manager.     *)
LifeTypes ==
    /\ service \in {"registered", "loading", "started"}
    /\ jobs \in [Jobs -> {NoJob} \cup [kind : {"init", "recover"}, wallet : Wallets]]
    /\ asking \in [Refreshes -> Wallets \cup {NoWallet}]
    /\ refreshTimer \in BOOLEAN /\ polling \in BOOLEAN /\ overtaken \in BOOLEAN
    /\ watched \in Wallets \cup {NoWallet} /\ billTo \in Wallets \cup {NoWallet}
    /\ send \in {NoSend} \cup [stage : {"fee", "broadcast"}, from : Wallets,
                             inputs : SUBSET Wallets, replaced : BOOLEAN]
    /\ coins \subseteq Wallets /\ savedCoins \subseteq Wallets
    /\ funded \subseteq Wallets /\ noticed \subseteq Wallets /\ onboarded \subseteq Wallets
    /\ restarts \in 0 .. MaxRestarts

LEMMA LifeTypeIs == KeysTypeOK /\ LifeTypes => LifeTypeOK
  BY DEF LifeTypeOK, LifeTypes

LEMMA SomethingWaitsIsBoolean == SomethingWaits \in BOOLEAN
  BY DEF SomethingWaits

LEMMA SendTypes ==
  ASSUME LifeTypes
  PROVE  /\ send # NoSend => /\ send.stage \in {"fee", "broadcast"} /\ send.from \in Wallets
                             /\ send.inputs \subseteq Wallets /\ send.replaced \in BOOLEAN
         /\ send.stage \in {"fee", "broadcast"} => send # NoSend
  BY DEF LifeTypes, NoSend

LEMMA SeesKeystoreChange ==
  ASSUME LifeTypes, SendSeesKeystoreChange
  PROVE  /\ send' \in {NoSend} \cup [stage : {"fee", "broadcast"}, from : Wallets,
                                    inputs : SUBSET Wallets, replaced : BOOLEAN]
         /\ send' # NoSend => send # NoSend /\ send'.replaced
         /\ send = NoSend => send' = NoSend
  BY SendTypes DEF SendSeesKeystoreChange, NoSend, LifeTypes

LEMMA CreatesTypes ==
  ASSUME KeysInv, LifeTypes, Creates
  PROVE  LifeTypes'
<1>1. ASSUME NEW j \in Jobs, NEW w \in Wallets, InitCommand(j, w) PROVE LifeTypes'
  <2>1. jobs' \in [Jobs -> {NoJob} \cup [kind : {"init", "recover"}, wallet : Wallets]]
    BY <1>1 DEF InitCommand, LifeTypes
  <2>2. overtaken' \in BOOLEAN
    BY <1>1, SomethingWaitsIsBoolean DEF InitCommand, LifeTypes
  <2> QED
    BY <1>1, <2>1, <2>2, SeesKeystoreChange DEF InitCommand, LifeTypes, serviceVars
<1>2. ASSUME NEW j \in Jobs, NEW w \in Wallets, RecoverCommand(j, w) PROVE LifeTypes'
  <2>1. jobs' \in [Jobs -> {NoJob} \cup [kind : {"init", "recover"}, wallet : Wallets]]
    BY <1>2 DEF RecoverCommand, LifeTypes
  <2>2. overtaken' \in BOOLEAN
    BY <1>2, SomethingWaitsIsBoolean DEF RecoverCommand, Overtakes, LifeTypes
  <2> QED
    BY <1>2, <2>1, <2>2, SeesKeystoreChange DEF RecoverCommand, LifeTypes, serviceVars
<1>3. ASSUME NEW w \in Wallets, OnboardingCreates(w) PROVE LifeTypes'
  <2>2. overtaken' \in BOOLEAN
    BY <1>3, SomethingWaitsIsBoolean DEF OnboardingCreates, LifeTypes
  <2> QED
    BY <1>3, <2>2, SeesKeystoreChange DEF OnboardingCreates, LifeTypes, serviceVars
<1> QED
  BY <1>1, <1>2, <1>3 DEF Creates

LEMMA EndsTypes ==
  ASSUME LifeTypes, Ends
  PROVE  LifeTypes'
<1>1. PICK d : ProcessEnds(d)
  BY DEF Ends, LifeRestart, CrashTearsKeystore
<1>2. restarts' \in 0 .. MaxRestarts
  BY <1>1, LifeAssumption DEF ProcessEnds, LifeTypes
<1>3. overtaken' \in BOOLEAN
  BY <1>1 DEF ProcessEnds, LifeTypes
<1> QED
  BY <1>1, <1>2, <1>3 DEF ProcessEnds, LifeTypes

LEMMA AsksForTypes ==
  ASSUME LifeTypes, NEW w \in Wallets \cup {NoWallet}, AsksFor(w)
  PROVE  /\ asking' \in [Refreshes -> Wallets \cup {NoWallet}]
         /\ \A r \in Refreshes : asking'[r] \in {asking[r], w}
  BY DEF LifeTypes, AsksFor

LEMMA GoesOnTypes ==
  ASSUME KeysInv, LifeTypes, GoesOn
  PROVE  LifeTypes'
<1> USE DEF LifeTypes
<1>1. ASSUME NEW j \in Jobs, CommandContinues(j) PROVE LifeTypes'
  <2>1. /\ jobs[j] \in [kind : {"init", "recover"}, wallet : Wallets]
        /\ jobs' = [jobs EXCEPT ![j] = NoJob]
        /\ coins' \in {coins, {}}
        /\ ServicesFollow(jobs[j].wallet)
        /\ UNCHANGED <<service, savedCoins, send, funded, noticed, restarts, onboarded,
                       overtaken>>
    BY <1>1 DEF CommandContinues
  <2>2. jobs' \in [Jobs -> {NoJob} \cup [kind : {"init", "recover"}, wallet : Wallets]]
    BY <2>1
  <2>3. asking' \in [Refreshes -> Wallets \cup {NoWallet}]
    BY <2>1, LoadedIsOurs, AsksForTypes DEF ServicesFollow
  <2>4. refreshTimer' \in BOOLEAN /\ polling' \in BOOLEAN /\ watched' \in Wallets
        /\ billTo' \in Wallets
    BY <2>1 DEF ServicesFollow
  <2> QED
    BY <2>1, <2>2, <2>3, <2>4
<1>2. CASE UnlockCommand
  <2>1. asking' \in [Refreshes -> Wallets \cup {NoWallet}]
    BY <1>2, LoadedIsOurs, AsksForTypes DEF UnlockCommand
  <2> QED
    BY <1>2, <2>1 DEF UnlockCommand
<1>3. CASE UnlockRefused \/ LockCommand \/ DeleteRefused
  BY <1>3 DEF UnlockRefused, LockCommand, DeleteRefused, lifeVars
<1>4. CASE DeleteCommand
  <2>1. overtaken' \in BOOLEAN
    BY <1>4, SomethingWaitsIsBoolean DEF DeleteCommand, Overtakes
  <2> QED
    BY <1>4, <2>1 DEF DeleteCommand, serviceVars
<1>5. CASE DeleteContinues
  BY <1>5 DEF DeleteContinues
<1>6. CASE RefreshTick
  <2>1. asking' \in [Refreshes -> Wallets \cup {NoWallet}]
    BY <1>6, LoadedIsOurs, AsksForTypes DEF RefreshTick
  <2> QED
    BY <1>6, <2>1 DEF RefreshTick
<1>7. ASSUME NEW r \in Refreshes, RefreshAnswered(r) PROVE LifeTypes'
  <2>1. /\ asking[r] \in Wallets /\ asking' = [asking EXCEPT ![r] = NoWallet]
        /\ coins' \subseteq Wallets /\ savedCoins' \subseteq Wallets
    BY <1>7 DEF RefreshAnswered, AnswerIsTaken
  <2> QED
    BY <1>7, <2>1 DEF RefreshAnswered
<1>8. ASSUME NEW w \in Wallets, Deposit(w) PROVE LifeTypes'
  BY <1>8 DEF Deposit, serviceVars
<1>9. CASE MonitorPolls
  BY <1>9 DEF MonitorPolls, serviceVars
<1>10. CASE SendStarts
  <2>1. Address \in Wallets
    BY <1>10, LoadedIsOurs DEF SendStarts, KeysInv, KeysTypeOK
  <2>2. send' \in [stage : {"fee", "broadcast"}, from : Wallets,
                   inputs : SUBSET Wallets, replaced : BOOLEAN]
    BY <1>10, <2>1 DEF SendStarts, NoSend
  <2> QED
    BY <1>10, <2>2 DEF SendStarts, serviceVars
<1>11. CASE SendSigns
  <2>1. send' \in [stage : {"fee", "broadcast"}, from : Wallets,
                   inputs : SUBSET Wallets, replaced : BOOLEAN]
    <3>1. PICK taken \in (SUBSET coins) \ {{}} :
             /\ send.stage = "fee"
             /\ send' = [send EXCEPT !.stage = "broadcast", !.inputs = taken]
      BY <1>11 DEF SendSigns
    <3>2. send \in [stage : {"fee", "broadcast"}, from : Wallets,
                    inputs : SUBSET Wallets, replaced : BOOLEAN]
      BY <3>1, SendTypes DEF LifeTypes
    <3>3. taken \in SUBSET Wallets
      BY <3>1 DEF LifeTypes
    <3> QED
      BY <3>1, <3>2, <3>3
  <2> QED
    BY <1>11, <2>1 DEF SendSigns, serviceVars
<1>12. CASE SendThrows
  BY <1>12 DEF SendThrows, serviceVars
<1>13. CASE SendEnds
  BY <1>13, SendTypes DEF SendEnds
<1>14. CASE ServiceLoads
  BY <1>14 DEF ServiceLoads
<1>15. CASE ServiceStarts
  <2>1. /\ asking' \in [Refreshes -> Wallets \cup {NoWallet}]
        /\ refreshTimer' \in BOOLEAN /\ polling' \in BOOLEAN
        /\ watched' \in Wallets \cup {NoWallet} /\ billTo' \in Wallets \cup {NoWallet}
        /\ onboarded' \subseteq Wallets
    BY <1>15, LoadedIsOurs, AsksForTypes DEF ServiceStarts
  <2> QED
    BY <1>15, <2>1 DEF ServiceStarts
<1> QED
  BY <1>1, <1>2, <1>3, <1>4, <1>5, <1>6, <1>7, <1>8, <1>9, <1>10, <1>11, <1>12, <1>13, <1>14,
     <1>15, Zenon DEF GoesOn

LEMMA LifeTypesHold == LifeSpec => [](KeysInv /\ LifeTypes)
<1>1. LifeInit => KeysInv /\ LifeTypes
  <2> SUFFICES ASSUME LifeInit PROVE LifeTypes
    BY KeysInvInit DEF LifeInit
  <2>1. restarts \in 0 .. MaxRestarts
    BY LifeAssumption DEF LifeInit
  <2> QED
    BY <2>1 DEF LifeInit, LifeTypes
<1>2. KeysInv /\ LifeTypes /\ [LifeNext]_<<keyVars, lifeVars>> => (KeysInv /\ LifeTypes)'
  <2>1. UNCHANGED lifeVars /\ LifeTypes => LifeTypes'
    BY DEF lifeVars, LifeTypes
  <2> QED
    BY <2>1, LifeStepIsKeysStep, KeysStepKeepsInv, LifeNextIs, CreatesTypes, EndsTypes,
       GoesOnTypes
<1> QED
  BY <1>1, <1>2, PTL DEF LifeSpec

(* The types of WalletLife hold in every reachable state.                   *)
THEOREM LifeTypeCorrect == LifeSpec => []LifeTypeOK
<1>1. KeysInv /\ LifeTypes => LifeTypeOK
  BY LifeTypeIs DEF KeysInv
<1> QED
  BY <1>1, LifeTypesHold, PTL

-----------------------------------------------------------------------------
(* A send that waits for the fee rate was begun with the one wallet there   *)
(* was, and signs with its key or none, unless the keystore was replaced.   *)
SendInv ==
    /\ send.stage = "fee" /\ ~send.replaced
       => {disk, cached, address, key} \subseteq {send.from, NoWallet}
    /\ ChangeComesBack

LEMMA QuietKeepsSendInv ==
  ASSUME KeysInv, SendInv, QuietKeys, UNCHANGED send
  PROVE  SendInv'
<1>1. ASSUME {disk, cached, address, key} \subseteq {send.from, NoWallet}
      PROVE  {disk', cached', address', key'} \subseteq {send.from, NoWallet}
  <2>1. Loaded \in {send.from, NoWallet} /\ Address \in {send.from, NoWallet}
    BY <1>1 DEF Loaded, Address
  <2> QED
    BY <1>1, <2>1, QuietKeysKeepAddress
<1> QED
  BY <1>1 DEF SendInv, ChangeComesBack

LEMMA LifeKeepsSendInv ==
  ASSUME KeysInv, LifeTypes, SendInv, [LifeNext]_<<keyVars, lifeVars>>
  PROVE  SendInv'
<1>1. CASE Creates
  <2>1. SendSeesKeystoreChange
    BY <1>1, Zenon DEF Creates, InitCommand, RecoverCommand, OnboardingCreates
  <2>2. send' = NoSend \/ send'.replaced
    BY <2>1, SeesKeystoreChange
  <2> QED
    BY <2>2 DEF SendInv, ChangeComesBack, NoSend
<1>2. CASE Ends
  <2>1. send' = NoSend
    BY <1>2 DEF Ends, LifeRestart, CrashTearsKeystore, ProcessEnds
  <2> QED
    BY <2>1 DEF SendInv, ChangeComesBack, NoSend
<1>3. CASE SendStarts
  <2>1. /\ key # NoWallet /\ send'.stage = "fee" /\ send'.from = Address
        /\ address = key
    BY <1>3 DEF SendStarts, NoSend, KeysInv
  <2>2. Address = key
    BY <2>1 DEF Address
  <2>3. {disk, cached, address, key} \subseteq {key, NoWallet}
    BY <2>1 DEF KeysInv, OneWallet
  <2>4. {disk', cached', address', key'} \subseteq {key, NoWallet}
    BY <1>3, <2>1, <2>2, <2>3 DEF SendStarts, AddressIsRead
  <2> QED
    BY <2>1, <2>2, <2>4 DEF SendInv, ChangeComesBack
<1>4. CASE SendSigns
  <2>1. PICK inputs \in (SUBSET coins) \ {{}} :
           /\ send.stage = "fee" /\ inputs = {key} /\ UNCHANGED keyVars
           /\ send' = [send EXCEPT !.stage = "broadcast", !.inputs = inputs]
    BY <1>4 DEF SendSigns, FullySigned
  <2>2. key # NoWallet
    BY <2>1, WalletsAssumption DEF LifeTypes
  <2>3. /\ send'.stage = "broadcast" /\ send'.inputs = {key} /\ send'.from = send.from
        /\ send'.replaced = send.replaced
    BY <2>1, SendTypes DEF LifeTypes
  <2>4. send.replaced \/ key = send.from
    BY <2>1, <2>2 DEF SendInv
  <2> QED
    BY <2>3, <2>4 DEF SendInv, ChangeComesBack
<1>5. CASE SendThrows \/ SendEnds
  <2>1. send' = NoSend
    BY <1>5 DEF SendThrows, SendEnds
  <2> QED
    BY <2>1 DEF SendInv, ChangeComesBack, NoSend
<1>6. CASE GoesOn /\ ~SendStarts /\ ~SendSigns /\ ~SendThrows /\ ~SendEnds
  <2>1. UNCHANGED send
    BY <1>6, Zenon DEF GoesOn, CommandContinues, UnlockCommand, UnlockRefused, LockCommand,
       DeleteRefused, DeleteCommand, DeleteContinues, RefreshTick, RefreshAnswered, Deposit,
       MonitorPolls, ServiceLoads, ServiceStarts, lifeVars
  <2> QED
    BY <1>6, <2>1, GoesOnIsQuiet, QuietKeepsSendInv
<1>7. CASE UNCHANGED <<keyVars, lifeVars>>
  BY <1>7 DEF keyVars, lifeVars, SendInv, ChangeComesBack
<1> QED
  BY <1>1, <1>2, <1>3, <1>4, <1>5, <1>6, <1>7, LifeNextIs

(* A transaction the wallet signs spends the coins of one wallet and sends  *)
(* the change back to it, however unlocks, deletions and refreshes meet the *)
(* send, unless a wallet was made or recovered while the send waited.       *)
THEOREM ChangeComesBackHolds == LifeSpec => []ChangeComesBack
<1>1. LifeInit => SendInv
  BY DEF LifeInit, SendInv, ChangeComesBack, NoSend
<1>2. SendInv => ChangeComesBack
  BY DEF SendInv
<1> QED
  BY <1>1, <1>2, LifeKeepsSendInv, LifeTypesHold, PTL DEF LifeSpec

-----------------------------------------------------------------------------
(* As long as no command overtook what was under way: what waits belongs to *)
(* the wallet of the address, and so will what a start reads.               *)
Recovering == \E j \in Jobs : jobs[j].kind = "recover"

CoinsInv ==
    /\ coins \subseteq {Address} \/ Recovering
    /\ \A r \in Refreshes : asking[r] \in {NoWallet, Address}
    /\ send # NoSend => send.from = Address
    /\ service = "registered" => savedCoins \subseteq {Address}

JobsInv == \A j \in Jobs : jobs[j] # NoJob => disk = jobs[j].wallet /\ deleting = NoWallet

(* Who follows the address has been told of the wallet of the keystore.     *)
Followed ==
    service = "started" /\ disk \in Wallets \ onboarded /\ (\A j \in Jobs : jobs[j] = NoJob)
    => watched = disk /\ billTo = disk /\ polling

OneOwnerInv == overtaken \/ (CoinsInv /\ JobsInv /\ Followed)

LEMMA OneOwnerInvInit == LifeInit => OneOwnerInv
  BY DEF LifeInit, KeysInit, OneOwnerInv, CoinsInv, JobsInv, Followed, NoSend, NoJob

LEMMA NothingWaitsMeans ==
  ASSUME ~SomethingWaits
  PROVE  /\ \A j \in Jobs : jobs[j] = NoJob
         /\ \A r \in Refreshes : asking[r] = NoWallet
         /\ send = NoSend /\ deleting = NoWallet /\ service = "started"
  BY DEF SomethingWaits

(* A command that makes a wallet while nothing waits, and no coins of       *)
(* another wallet stay unless they are about to be cleared.                 *)
LEMMA CreatesKeepsOwner ==
  ASSUME LifeTypes, OneOwnerInv, Creates
  PROVE  OneOwnerInv'
<1> SUFFICES ASSUME ~overtaken' PROVE (CoinsInv /\ JobsInv /\ Followed)'
  BY DEF OneOwnerInv
<1>1. /\ ~SomethingWaits
      /\ SendSeesKeystoreChange
      /\ UNCHANGED <<service, coins, savedCoins, asking, refreshTimer, watched, polling, billTo>>
  BY DEF Creates, InitCommand, RecoverCommand, OnboardingCreates, Overtakes, serviceVars
<1>2. /\ \A j \in Jobs : jobs[j] = NoJob
      /\ \A r \in Refreshes : asking'[r] = NoWallet
      /\ send' = NoSend /\ deleting = NoWallet /\ service' = "started"
  BY <1>1, NothingWaitsMeans, SeesKeystoreChange
<1>3. ASSUME NEW j \in Jobs, NEW w \in Wallets,
             \/ InitCommand(j, w) /\ jobs' = [jobs EXCEPT ![j] = [kind |-> "init", wallet |-> w]]
             \/ RecoverCommand(j, w)
                /\ jobs' = [jobs EXCEPT ![j] = [kind |-> "recover", wallet |-> w]]
      PROVE  (CoinsInv /\ JobsInv /\ Followed)'
  <2>1. /\ jobs'[j] # NoJob /\ jobs'[j].wallet = w
        /\ \A k \in Jobs \ {j} : jobs'[k] = NoJob
        /\ InitCommand(j, w) \/ jobs'[j].kind = "recover"
    BY <1>2, <1>3, WalletsAssumption DEF LifeTypes, NoJob
  <2>2. disk' = w /\ deleting' = NoWallet
    BY <1>2, <1>3 DEF InitCommand, RecoverCommand, GenerateKeys, RecoverKeys, SaveKeystore
  <2>3. JobsInv'
    BY <2>1, <2>2 DEF JobsInv
  <2>4. Followed'
    BY <2>1 DEF Followed
  <2>5. coins' = {} \/ Recovering'
    <3>1. CASE InitCommand(j, w)
      BY <1>1, <3>1 DEF InitCommand
    <3>2. CASE jobs'[j].kind = "recover"
      BY <3>2 DEF Recovering
    <3> QED
      BY <2>1, <3>1, <3>2
  <2>6. CoinsInv'
    BY <1>2, <2>5 DEF CoinsInv
  <2> QED
    BY <2>3, <2>4, <2>6
<1>4. ASSUME NEW w \in Wallets, OnboardingCreates(w)
      PROVE  (CoinsInv /\ JobsInv /\ Followed)'
  <2>1. /\ coins' = {} /\ disk' = w /\ w \in onboarded' /\ UNCHANGED jobs
    BY <1>1, <1>4 DEF OnboardingCreates, GenerateKeys, SaveKeystore
  <2> QED
    BY <1>2, <2>1 DEF CoinsInv, JobsInv, Followed
<1> QED
  BY <1>3, <1>4 DEF Creates, InitCommand, RecoverCommand

(* A restart finds coins of the wallet of the file, or is counted.          *)
LEMMA EndsKeepsOwner ==
  ASSUME LifeTypes, OneOwnerInv, Ends
  PROVE  OneOwnerInv'
<1> SUFFICES ASSUME ~overtaken' PROVE (CoinsInv /\ JobsInv /\ Followed)'
  BY DEF OneOwnerInv
<1>1. PICK d : ProcessEnds(d)
  BY DEF Ends, LifeRestart, CrashTearsKeystore
<1>2. /\ disk' = d /\ cached' = NoWallet /\ address' = NoWallet
      /\ service' = "registered" /\ coins' = {} /\ send' = NoSend
      /\ jobs' = [j \in Jobs |-> NoJob] /\ asking' = [r \in Refreshes |-> NoWallet]
      /\ savedCoins' = savedCoins /\ savedCoins \subseteq {d} /\ savedCoins \subseteq Wallets
  BY <1>1 DEF ProcessEnds, KeysAreForgotten, LifeTypes
<1>3. d \in Wallets => Address' = d
  BY <1>2, WalletsAssumption DEF Address, Loaded
<1>4. savedCoins' \subseteq {Address'}
  BY <1>2, <1>3
<1> QED
  BY <1>2, <1>4 DEF CoinsInv, JobsInv, Followed

(* A step that only asks an API, or nothing, for the address.               *)
LEMMA AsksForOurs ==
  ASSUME LifeTypes, NEW w \in Wallets \cup {NoWallet}, w = Address, AsksFor(w), Address' = Address,
         \A r \in Refreshes : asking[r] \in {NoWallet, Address}
  PROVE  \A r \in Refreshes : asking'[r] \in {NoWallet, Address'}
  BY AsksForTypes

LEMMA GoesOnKeepsOwner ==
  ASSUME KeysInv, LifeTypes, OneOwnerInv, GoesOn
  PROVE  OneOwnerInv'
<1> SUFFICES ASSUME ~overtaken' PROVE (CoinsInv /\ JobsInv /\ Followed)'
  BY DEF OneOwnerInv
<1> USE DEF CoinsInv, JobsInv, Followed
<1>a. Address' = Address /\ disk' \in {disk, NoWallet}
  BY GoesOnIsQuiet, QuietKeysKeepAddress
<1>b. ~overtaken
  BY DEF GoesOn, CommandContinues, UnlockCommand, UnlockRefused, LockCommand, DeleteRefused,
         DeleteCommand, DeleteContinues, RefreshTick, RefreshAnswered, Deposit, MonitorPolls,
         SendStarts, SendSigns, SendThrows, SendEnds, ServiceLoads, ServiceStarts, Overtakes,
         lifeVars
<1>c. CoinsInv /\ JobsInv /\ Followed
  BY <1>b DEF OneOwnerInv
<1>d. NoWallet \notin Wallets
  BY WalletsAssumption
<1>1. ASSUME NEW j \in Jobs, CommandContinues(j) PROVE (CoinsInv /\ JobsInv /\ Followed)'
  <2>1. /\ jobs[j] # NoJob /\ jobs' = [jobs EXCEPT ![j] = NoJob]
        /\ coins' = IF jobs[j].kind = "recover" THEN {} ELSE coins
        /\ ServicesFollow(jobs[j].wallet)
        /\ UNCHANGED <<service, savedCoins, send, onboarded>>
    BY <1>1 DEF CommandContinues
  <2>2. /\ disk = jobs[j].wallet /\ deleting = NoWallet /\ disk' = disk /\ deleting' = deleting
        /\ watched' = disk /\ billTo' = disk /\ polling'
    BY <1>c, <2>1 DEF ServicesFollow
  <2>3. \A r \in Refreshes : asking'[r] \in {NoWallet, Address'}
    <3>1. CASE AsksFor(Address)
      BY <1>a, <1>c, <3>1, AsksForOurs, LoadedIsOurs
    <3>2. CASE UNCHANGED asking
      BY <1>a, <1>c, <3>2
    <3> QED
      BY <2>1, <3>1, <3>2 DEF ServicesFollow
  <2>4. coins' \subseteq {Address'} \/ Recovering'
    <3>1. CASE jobs[j].kind = "recover"
      BY <2>1, <3>1
    <3>2. CASE jobs[j].kind # "recover"
      <4>1. Recovering => Recovering'
        BY <2>1, <3>2 DEF Recovering, LifeTypes
      <4> QED
        BY <1>a, <1>c, <2>1, <3>2, <4>1
    <3> QED
      BY <3>1, <3>2
  <2>5. \A k \in Jobs : jobs'[k] # NoJob => jobs'[k] = jobs[k]
    BY <2>1 DEF LifeTypes
  <2> QED
    BY <1>a, <1>c, <2>1, <2>2, <2>3, <2>4, <2>5
<1>2. CASE UnlockCommand
  <2>1. /\ Loaded # NoWallet /\ AsksFor(Loaded)
        /\ UNCHANGED <<disk, deleting, service, jobs, coins, savedCoins, watched, polling, billTo,
                       send, onboarded>>
    BY <1>2 DEF UnlockCommand, OpenKeystore
  <2>2. \A r \in Refreshes : asking'[r] \in {NoWallet, Address'}
    BY <1>a, <1>c, <2>1, AsksForOurs, LoadedIsOurs
  <2> QED
    BY <1>a, <1>c, <2>1, <2>2 DEF Recovering
<1>3. CASE UnlockRefused \/ LockCommand \/ DeleteRefused
  BY <1>3, <1>a, <1>c DEF UnlockRefused, LockCommand, DeleteRefused, lifeVars, WrongPassphrase,
     LockKeys, Recovering
<1>4. CASE DeleteCommand
  <2>1. /\ ~SomethingWaits /\ disk' = disk
        /\ UNCHANGED <<service, jobs, coins, savedCoins, asking, watched, polling, billTo, send,
                       onboarded>>
    BY <1>4 DEF DeleteCommand, DeleteIsConfirmed, Overtakes, serviceVars
  <2>2. \A j \in Jobs : jobs[j] = NoJob
    BY <2>1, NothingWaitsMeans
  <2> QED
    BY <1>a, <1>c, <2>1, <2>2 DEF Recovering
<1>5. CASE DeleteContinues
  <2>1. /\ deleting # NoWallet /\ disk' = NoWallet /\ savedCoins' = {}
        /\ UNCHANGED <<service, jobs, coins, asking, send, onboarded>>
    BY <1>5 DEF DeleteContinues, DeleteKeystore
  <2> QED
    BY <1>a, <1>c, <1>d, <2>1 DEF Recovering
<1>6. CASE RefreshTick
  <2>1. /\ AsksFor(Address)
        /\ UNCHANGED <<disk, deleting, service, jobs, coins, savedCoins, watched, polling, billTo,
                       send, onboarded>>
    BY <1>6 DEF RefreshTick
  <2>2. \A r \in Refreshes : asking'[r] \in {NoWallet, Address'}
    BY <1>a, <1>c, <2>1, AsksForOurs, LoadedIsOurs
  <2> QED
    BY <1>a, <1>c, <2>1, <2>2 DEF Recovering
<1>7. ASSUME NEW r \in Refreshes, RefreshAnswered(r) PROVE (CoinsInv /\ JobsInv /\ Followed)'
  <2>1. /\ asking[r] # NoWallet /\ asking' = [asking EXCEPT ![r] = NoWallet]
        /\ UNCHANGED <<disk, deleting, service, jobs, watched, polling, billTo, send, onboarded>>
        /\ \/ UNCHANGED <<coins, savedCoins>>
           \/ coins' \subseteq {asking[r]} /\ savedCoins' \subseteq {asking[r]}
    BY <1>7 DEF RefreshAnswered, AnswerIsTaken, keyVars
  <2>2. asking[r] = Address
    BY <1>c, <2>1
  <2>3. \A q \in Refreshes : asking'[q] \in {NoWallet, asking[q]}
    BY <2>1 DEF LifeTypes
  <2> QED
    BY <1>a, <1>c, <2>1, <2>2, <2>3 DEF Recovering
<1>8. CASE (\E w \in Wallets : Deposit(w)) \/ MonitorPolls
  <2>1. UNCHANGED <<disk, deleting, service, jobs, coins, savedCoins, asking, watched, polling,
                    billTo, send, onboarded>>
    BY <1>8 DEF Deposit, MonitorPolls, keyVars, serviceVars
  <2> QED
    BY <1>a, <1>c, <2>1 DEF Recovering
<1>9. CASE SendStarts \/ SendSigns \/ SendThrows
  <2>1. UNCHANGED <<disk, deleting, service, jobs, coins, savedCoins, asking, watched, polling,
                    billTo, onboarded>>
    BY <1>9 DEF SendStarts, SendSigns, SendThrows, keyVars, serviceVars
  <2>2. send' # NoSend => send'.from = Address'
    <3>1. CASE SendStarts
      BY <1>a, <3>1 DEF SendStarts, NoSend
    <3>2. CASE SendSigns
      <4>1. send.stage = "fee" /\ send'.from = send.from
        BY <3>2, SendTypes DEF SendSigns, LifeTypes
      <4> QED
        BY <1>a, <1>c, <4>1, SendTypes
    <3>3. CASE SendThrows
      BY <3>3 DEF SendThrows
    <3> QED
      BY <1>9, <3>1, <3>2, <3>3
  <2> QED
    BY <1>a, <1>c, <2>1, <2>2 DEF Recovering
<1>10. CASE SendEnds
  <2>1. /\ send.stage = "broadcast" /\ send' = NoSend
        /\ coins' \in {coins, coins \cup {send.from}}
        /\ UNCHANGED <<disk, deleting, service, jobs, savedCoins, asking, watched, polling,
                       billTo, onboarded>>
    BY <1>10 DEF SendEnds, keyVars
  <2>2. send.from = Address
    BY <1>c, <2>1, SendTypes
  <2> QED
    BY <1>a, <1>c, <2>1, <2>2 DEF Recovering
<1>11. CASE ServiceLoads
  <2>1. /\ service = "registered" /\ service' = "loading"
        /\ coins' = IF savedCoins # {} THEN savedCoins ELSE coins
        /\ UNCHANGED <<disk, deleting, jobs, savedCoins, asking, watched, polling, billTo, send,
                       onboarded>>
    BY <1>11 DEF ServiceLoads, keyVars
  <2> QED
    BY <1>a, <1>c, <2>1 DEF Recovering
<1>12. CASE ServiceStarts
  <2>1. /\ service' = "started" /\ UNCHANGED <<disk, deleting, jobs, coins, savedCoins, send>>
    BY <1>12 DEF ServiceStarts
  <2>2. \A r \in Refreshes : asking'[r] \in {NoWallet, Address'}
    <3>1. CASE AsksFor(Address)
      BY <1>a, <1>c, <3>1, AsksForOurs, LoadedIsOurs
    <3>2. CASE UNCHANGED asking
      BY <1>a, <1>c, <3>2
    <3> QED
      BY <1>12, <3>1, <3>2 DEF ServiceStarts
  <2>3. ASSUME disk' \in Wallets PROVE watched' = disk' /\ billTo' = disk' /\ polling'
    <3>1. disk \in Wallets /\ IsInitialized
      BY <1>d, <2>1, <2>3 DEF IsInitialized
    <3>2. Address = disk
      <4>1. cached = NoWallet => Loaded = disk
        BY <3>1, WalletsAssumption, LoadedIsOurs
      <4>2. cached # NoWallet => Loaded = cached
        BY LoadedIsOurs
      <4>3. Loaded # NoWallet
        BY <1>d, <3>1, <4>1, <4>2
      <4> QED
        BY <1>d, <3>1, <4>3, LoadedIsOurs
    <3> QED
      BY <1>12, <1>d, <2>1, <3>1, <3>2 DEF ServiceStarts
  <2> QED
    BY <1>a, <1>c, <2>1, <2>2, <2>3 DEF Recovering
<1> QED
  BY <1>1, <1>2, <1>3, <1>4, <1>5, <1>6, <1>7, <1>8, <1>9, <1>10, <1>11, <1>12, Zenon DEF GoesOn

LEMMA LifeKeepsOwner ==
  ASSUME KeysInv, LifeTypes, OneOwnerInv, [LifeNext]_<<keyVars, lifeVars>>
  PROVE  OneOwnerInv'
<1>1. CASE UNCHANGED <<keyVars, lifeVars>>
  BY <1>1 DEF keyVars, lifeVars, OneOwnerInv, CoinsInv, JobsInv, Followed, Recovering, Address,
              Loaded
<1> QED
  BY <1>1, LifeNextIs, CreatesKeepsOwner, EndsKeepsOwner, GoesOnKeepsOwner

(* The coins in the cache, the refreshes under way, the receive monitor and *)
(* the invoices belong to the wallet of the keystore, through every         *)
(* sequence of commands, deletions, refreshes, sends and restarts, unless a *)
(* wallet was made or recovered while something waited, or the onboarding   *)
(* made it.                                                                 *)
THEOREM AllOfOneWalletHolds == LifeSpec => []AllOfOneWallet
<1>1. OneOwnerInv => AllOfOneWallet
  BY DEF OneOwnerInv, CoinsInv, Followed, Recovering, AllOfOneWallet, CoinsAreOurs,
         ServicesFollowKeystore
<1> QED
  BY <1>1, OneOwnerInvInit, LifeKeepsOwner, LifeTypesHold, PTL DEF LifeSpec

(***************************************************************************)
(* Onboarding                                                              *)
(***************************************************************************)
(* In the set-up no keystore is removed or written over: there is at most   *)
(* one wallet, and whatever names a wallet names that one - d.  A session   *)
(* or a handler that speaks of limits or completion comes after the phrase  *)
(* was verified; v is what was.                                             *)
SessionOK(s, d, v) ==
    /\ s.phrase \in {d, NoWallet}
    /\ s.state = "limits" => v # {}

SessionsFine(f, d, v) == f \in [Chats -> Session] /\ \A c \in Chats : SessionOK(f[c], d, v)

FileOK(f, d, v) == f = NoFile \/ SessionsFine(f, d, v)

Held == {"seals", "displays", "replies"}

TaskOK(k, d, v) ==
    /\ k.step \notin {"free", "replies"} => k.chat \in Chats
    /\ k.wallet \in {d, NoWallet}
    /\ k.step \in {"judges", "closes", "announces"} => k.wallet # NoWallet
    /\ k.step \in {"unseals", "configures", "completes", "closes", "announces"} => v # {}
    /\ k.shows = "limits" => v # {}
    /\ k.step \in {"hashes", "creates"} => k.origin # ""
    /\ k.origin # "" /\ k.wallet # NoWallet
       => k.step \in Held /\ (k.step = "replies" => k.shows = "phrase")
    /\ FileOK(k.snap, d, v)

SetupTypes ==
    /\ offered \in [Chats -> SUBSET Keyboards]
    /\ tasks \in [Slots -> Task]
    /\ created \subseteq Wallets /\ shown \subseteq Wallets
    /\ verified \subseteq Wallets
    /\ overlapped \in BOOLEAN

OneKeystore ==
    /\ KeysTypeOK
    /\ disk # Torn /\ {cached, address, key} \subseteq {disk, NoWallet}
    /\ made \subseteq {disk} /\ created \subseteq {disk}

OfThisWallet ==
    /\ SessionsFine(sessions, disk, verified)
    /\ FileOK(file, disk, verified) /\ FileOK(tempFile, disk, verified)
    /\ \A t \in Slots : TaskOK(tasks[t], disk, verified)
    /\ \A c \in Chats : "limits" \in offered[c] => verified # {}
    /\ SetupIsOfThisWallet

(* One save at a time, and its temporary file is there when it renames it.  *)
SavesInTurn ==
    /\ \A t, u \in Slots : SaveUnderWay(t) /\ SaveUnderWay(u) => t = u
    /\ \A t \in Slots : tasks[t].awaits = "write" => tasks[t].snap # NoFile
    /\ \A t \in Slots : tasks[t].awaits = "rename" => tempFile # NoFile

SetupInv ==
    /\ SetupTypes /\ OneKeystore /\ OfThisWallet
    /\ overlapped \/ SavesInTurn
    /\ PhraseLossHasCause

-----------------------------------------------------------------------------
(* What holds of a session or a handler goes on to hold when a wallet is    *)
(* made where there was none, and when more is verified.                    *)
LEMMA FineGrows ==
  ASSUME NEW f, NEW d, NEW e, NEW v, NEW x, d = NoWallet \/ e = d, v # {} => x # {}
  PROVE  /\ SessionsFine(f, d, v) => SessionsFine(f, e, x)
         /\ FileOK(f, d, v) => FileOK(f, e, x)
  BY DEF SessionsFine, FileOK, SessionOK

LEMMA TaskGrows ==
  ASSUME NEW k, NEW d, NEW e, NEW v, NEW x, d = NoWallet \/ e = d, v # {} => x # {},
         TaskOK(k, d, v)
  PROVE  TaskOK(k, e, x)
<1>1. FileOK(k.snap, e, x)
  BY FineGrows DEF TaskOK
<1> QED
  BY <1>1 DEF TaskOK

(* A handler takes its next step: it becomes k, but for what it awaits.     *)
Puts(t, k) ==
    \/ \E out \in SUBSET (Chats \cup {NoChat}) : SavesOver(t, k, out)
    \/ Becomes(t, k) /\ k.awaits \in {"", "other"}

Same(a, b) ==
    /\ a.step = b.step /\ a.chat = b.chat /\ a.snap = b.snap /\ a.wallet = b.wallet
    /\ a.origin = b.origin /\ a.shows = b.shows /\ a.count = b.count

LEMMA PutsMeans ==
  ASSUME tasks \in [Slots -> Task], overlapped \in BOOLEAN, NEW t \in Slots, NEW k \in Task,
         Puts(t, k)
  PROVE  /\ tasks' \in [Slots -> Task]
         /\ Same(tasks'[t], k)
         /\ \A u \in Slots \ {t} : Same(tasks'[u], tasks[u]) /\ tasks'[u].awaits = tasks[u].awaits
         /\ overlapped' \in BOOLEAN /\ (overlapped => overlapped')
         /\ tasks'[t].awaits \in {"", "other", "mkdir"}
         /\ ~overlapped' /\ SaveUnderWay(t)' => \A u \in Slots \ {t} : ~SaveUnderWay(u)
<1>1. CASE Becomes(t, k) /\ k.awaits \in {"", "other"}
  BY <1>1 DEF Becomes, Same, SaveUnderWay
<1>2. ASSUME NEW out \in SUBSET (Chats \cup {NoChat}), SavesOver(t, k, out)
      PROVE  /\ tasks' \in [Slots -> Task]
             /\ tasks'[t] = [k EXCEPT !.awaits = "mkdir"]
             /\ \A u \in Slots \ {t} : tasks'[u] \in {tasks[u], [tasks[u] EXCEPT !.holds = "stale"]}
             /\ overlapped' = (overlapped \/ \E u \in Slots \ {t} : SaveUnderWay(u))
  <2>1. /\ tasks' = [u \in Slots |->
                IF u = t THEN [k EXCEPT !.awaits = "mkdir"]
                ELSE IF tasks[u].chat \in out /\ tasks[u].holds = "current"
                THEN [tasks[u] EXCEPT !.holds = "stale"] ELSE tasks[u]]
        /\ overlapped' = (overlapped \/ \E u \in Slots \ {t} : SaveUnderWay(u))
    BY <1>2 DEF SavesOver
  <2>2. [k EXCEPT !.awaits = "mkdir"] \in Task
    BY DEF Task
  <2>3. \A u \in Slots : [tasks[u] EXCEPT !.holds = "stale"] \in Task
    BY DEF Task
  <2> QED
    BY <2>1, <2>2, <2>3
<1>3. CASE \E out \in SUBSET (Chats \cup {NoChat}) : SavesOver(t, k, out)
  <2>1. /\ tasks' \in [Slots -> Task]
        /\ tasks'[t] = [k EXCEPT !.awaits = "mkdir"]
        /\ \A u \in Slots \ {t} : tasks'[u] \in {tasks[u], [tasks[u] EXCEPT !.holds = "stale"]}
        /\ overlapped' = (overlapped \/ \E u \in Slots \ {t} : SaveUnderWay(u))
    BY <1>2, <1>3
  <2>2. \A u \in Slots : LET a == [tasks[u] EXCEPT !.holds = "stale"] IN
           Same(a, tasks[u]) /\ a.awaits = tasks[u].awaits
    BY DEF Task, Same
  <2>3. Same(tasks'[t], k) /\ tasks'[t].awaits = "mkdir"
    BY <2>1 DEF Same, Task
  <2>4. \A u \in Slots \ {t} : Same(tasks'[u], tasks[u]) /\ tasks'[u].awaits = tasks[u].awaits
    BY <2>1, <2>2 DEF Same
  <2> QED
    BY <2>1, <2>3, <2>4
<1> QED
  BY <1>1, <1>3 DEF Puts

-----------------------------------------------------------------------------
(* The step of a handler may rename its temporary file.                     *)
FilesMove(t) ==
    \/ UNCHANGED <<file, tempFile>> /\ (tasks[t].awaits \in {"", "other"} \/ overlapped)
    \/ tasks[t].awaits = "rename" /\ file' = tempFile /\ tempFile' = NoFile

LEMMA FilesMoveIs ==
  ASSUME NEW t \in Slots
  PROVE  /\ Begins(t) => FilesMove(t) /\ tasks[t] = Free
         /\ \A s \in Steps : Arrives(t, s) => FilesMove(t) /\ tasks[t].step = s
<1>1. Free.awaits = ""
  BY DEF Free
<1> QED
  BY <1>1, Zenon DEF Begins, Arrives, FilesMove

(* The answer of the handler that made a wallet is not forgotten when it    *)
(* becomes k.                                                               *)
KeepsPhrase(t, k) ==
    tasks[t].origin # "" /\ tasks[t].wallet # NoWallet
    => k.origin # "" /\ k.wallet = tasks[t].wallet

LEMMA OneKeystoreMeans ==
  ASSUME OneKeystore
  PROVE  /\ disk \in Wallets \cup {NoWallet} /\ NoWallet \notin Wallets
         /\ Loaded \in {disk, NoWallet} /\ Address \in {disk, NoWallet}
         /\ disk # NoWallet => Address = disk
  BY WalletsAssumption DEF OneKeystore, KeysTypeOK, Loaded, Address

(* A handler steps: what it becomes, and the rest of the invariant.         *)
LEMMA HandlerKeeps ==
  ASSUME SetupInv, NEW t \in Slots, NEW k \in Task, Puts(t, k), FilesMove(t),
         OneKeystore', disk = NoWallet \/ disk' = disk,
         verified # {} => verified' # {}, TaskOK(k, disk', verified'),
         SessionsFine(sessions', disk', verified'),
         offered' \in [Chats -> SUBSET Keyboards],
         \A c \in Chats : "limits" \in offered'[c] => verified' # {},
         created' \subseteq Wallets /\ shown' \subseteq Wallets, verified' \subseteq Wallets,
         SetupIsOfThisWallet', dropped \subseteq dropped',
         \A w \in created' \ shown' : disk' = w =>
            \/ k.wallet = w /\ k.origin # ""
            \/ w \in created \ shown /\ disk = w
               /\ (Carries(t, w) => overlapped' \/ (k.wallet = w /\ k.origin # ""))
  PROVE  SetupInv'
<1>1. /\ tasks' \in [Slots -> Task]
      /\ Same(tasks'[t], k)
      /\ \A u \in Slots \ {t} : Same(tasks'[u], tasks[u]) /\ tasks'[u].awaits = tasks[u].awaits
      /\ overlapped' \in BOOLEAN /\ (overlapped => overlapped')
      /\ tasks'[t].awaits \in {"", "other", "mkdir"}
      /\ ~overlapped' /\ SaveUnderWay(t)' => \A u \in Slots \ {t} : ~SaveUnderWay(u)
  BY PutsMeans DEF SetupInv, SetupTypes
<1>2. SetupTypes'
  BY <1>1 DEF SetupTypes
<1>3. OfThisWallet'
  <2>1. FileOK(file', disk', verified') /\ FileOK(tempFile', disk', verified')
    <3>1. FileOK(file, disk', verified') /\ FileOK(tempFile, disk', verified')
      BY FineGrows DEF SetupInv, OfThisWallet
    <3>2. FileOK(NoFile, disk', verified')
      BY DEF FileOK
    <3> QED
      BY <3>1, <3>2 DEF FilesMove
  <2>2. TaskOK(tasks'[t], disk', verified')
    BY <1>1 DEF TaskOK, Same
  <2>3. \A u \in Slots \ {t} : TaskOK(tasks'[u], disk', verified')
    <3> TAKE u \in Slots \ {t}
    <3>1. TaskOK(tasks[u], disk', verified')
      BY TaskGrows DEF SetupInv, OfThisWallet
    <3> QED
      BY <1>1, <3>1 DEF TaskOK, Same
  <2> QED
    BY <2>1, <2>2, <2>3 DEF OfThisWallet
<1>4. overlapped' \/ SavesInTurn'
  <2> SUFFICES ASSUME ~overlapped' PROVE SavesInTurn'
    OBVIOUS
  <2>1. SavesInTurn
    BY <1>1 DEF SetupInv
  <2>2. \A u, v \in Slots : SaveUnderWay(u)' /\ SaveUnderWay(v)' => u = v
    <3> SUFFICES ASSUME NEW u \in Slots, NEW v \in Slots,
                        SaveUnderWay(u)', SaveUnderWay(v)', u # v
                 PROVE  FALSE
      OBVIOUS
    <3>0. \A s \in Slots \ {t} : SaveUnderWay(s)' => SaveUnderWay(s)
      BY <1>1 DEF SaveUnderWay
    <3>1. u # t /\ v # t
      BY <1>1, <3>0
    <3>2. SaveUnderWay(u) /\ SaveUnderWay(v)
      BY <1>1, <3>1 DEF SaveUnderWay
    <3> QED
      BY <2>1, <3>2 DEF SavesInTurn
  <2>3. \A u \in Slots : tasks'[u].awaits = "write" => tasks'[u].snap # NoFile
    BY <1>1, <2>1 DEF SavesInTurn, Same
  <2>4. \A u \in Slots : tasks'[u].awaits = "rename" => tempFile' # NoFile
    <3> SUFFICES ASSUME NEW u \in Slots, tasks'[u].awaits = "rename" PROVE tempFile' # NoFile
      OBVIOUS
    <3>1. u # t /\ tasks[u].awaits = "rename"
      BY <1>1
    <3>2. tasks[t].awaits # "rename"
      BY <2>1, <3>1 DEF SavesInTurn, SaveUnderWay
    <3> QED
      BY <2>1, <3>1, <3>2 DEF FilesMove, SavesInTurn
  <2> QED
    BY <2>2, <2>3, <2>4 DEF SavesInTurn
<1>5. PhraseLossHasCause'
  <2> SUFFICES ASSUME NEW w \in created' \ shown', disk' = w, ~overlapped', w \notin dropped'
               PROVE  \E u \in Slots : Carries(u, w)'
    BY DEF PhraseLossHasCause
  <2>1. CASE k.wallet = w /\ k.origin # ""
    BY <1>1, <2>1 DEF Carries, Same
  <2>2. CASE /\ w \in created \ shown /\ disk = w
             /\ Carries(t, w) => overlapped' \/ (k.wallet = w /\ k.origin # "")
    <3>1. PICK u \in Slots : Carries(u, w)
      BY <1>1, <2>2 DEF SetupInv, PhraseLossHasCause
    <3> QED
      BY <1>1, <2>1, <2>2, <3>1 DEF Carries, Same
  <2> QED
    BY <2>1, <2>2
<1> QED
  BY <1>2, <1>3, <1>4, <1>5 DEF SetupInv

(* No change of a session goes without a save of it.                        *)
Told(t) == UNCHANGED sessions \/ SaveUnderWay(t)'

(* A handler that saves has told the file.                                  *)
LEMMA SavesAreTold ==
  ASSUME NEW t \in Slots, NEW k \in Task, NEW out, SavesOver(t, k, out)
  PROVE  Told(t)
<1>1. tasks'[t] = [k EXCEPT !.awaits = "mkdir"]
  BY DEF SavesOver
<1>2. tasks'[t].awaits = "mkdir"
  BY <1>1 DEF Task
<1> QED
  BY <1>2 DEF Told, SaveUnderWay

(* A handler takes a step: what becomes of the files and of its chat.       *)
Turn(t) == FilesMove(t) /\ Told(t) /\ \E k \in Task : Puts(t, k)

(* A handler that leaves keys, keyboards and history alone.                 *)
Good(t, k) ==
    /\ k \in Task /\ TaskOK(k, disk, verified)
    /\ KeepsPhrase(t, k)

PlainStep(t) ==
    /\ FilesMove(t) /\ Told(t)
    /\ SessionsFine(sessions', disk, verified)
    /\ \E k : Good(t, k) /\ Puts(t, k)

(* A plain step is a turn.                                                  *)
LEMMA PlainIsTurn ==
  ASSUME NEW t, PlainStep(t)
  PROVE  Turn(t)
  BY DEF PlainStep, Turn, Good

LEMMA PlainStepKeeps ==
  ASSUME SetupInv, NEW t \in Slots, PlainStep(t), OneKeystore', disk' = disk,
         UNCHANGED <<offered, created, shown, dropped, verified, announced>>
  PROVE  SetupInv'
<1>1. PICK k : Good(t, k) /\ Puts(t, k)
  BY DEF PlainStep
<1>2. /\ disk' = disk /\ verified' = verified /\ offered' = offered /\ created' = created
      /\ shown' = shown /\ dropped' = dropped /\ announced' = announced
  OBVIOUS
<1>4. SetupIsOfThisWallet'
  BY <1>2 DEF SetupInv, OfThisWallet, SetupIsOfThisWallet
<1>5. /\ FilesMove(t) /\ k \in Task /\ TaskOK(k, disk', verified')
      /\ SessionsFine(sessions', disk', verified')
  BY <1>1, <1>2 DEF PlainStep, Good
<1>6. ASSUME NEW w \in created' \ shown', disk' = w
      PROVE  /\ w \in created \ shown /\ disk = w
             /\ Carries(t, w) => k.wallet = w /\ k.origin # ""
  <2>1. NoWallet \notin Wallets /\ created \subseteq Wallets
    BY WalletsAssumption DEF SetupInv, SetupTypes
  <2> QED
    BY <1>1, <1>2, <1>6, <2>1 DEF Good, KeepsPhrase, Carries
<1>7. /\ offered' \in [Chats -> SUBSET Keyboards]
      /\ \A c \in Chats : "limits" \in offered'[c] => verified' # {}
      /\ created' \subseteq Wallets /\ shown' \subseteq Wallets /\ verified' \subseteq Wallets
  BY <1>2 DEF SetupInv, SetupTypes, OfThisWallet
<1> HIDE DEF FilesMove
<1> QED
  BY <1>1, <1>2, <1>4, <1>5, <1>6, <1>7, HandlerKeeps

LEMMA SessionsMeans ==
  ASSUME SetupInv, NEW c \in Chats
  PROVE  /\ sessions \in [Chats -> Session] /\ sessions[c] \in Session
         /\ SessionOK(sessions[c], disk, verified)
         /\ NoSession \in Session /\ SessionOK(NoSession, disk, verified)
<1>1. NoSession \in Session /\ SessionOK(NoSession, disk, verified)
  BY DEF NoSession, Session, SessionOK, States
<1> QED
  BY <1>1 DEF SetupInv, OfThisWallet, SessionsFine

LEMMA SessionPut ==
  ASSUME SetupInv, NEW c \in Chats, NEW s \in Session, SessionOK(s, disk, verified),
         sessions' = [sessions EXCEPT ![c] = s]
  PROVE  SessionsFine(sessions', disk, verified)
  BY DEF SetupInv, OfThisWallet, SessionsFine

LEMMA UpdatesPlain ==
  ASSUME SetupInv, NEW t \in Slots, FilesMove(t), NEW c \in Chats, NEW s, NEW k, NEW otherwise,
         HasSession(c) => s \in Session /\ SessionOK(s, disk, verified),
         Good(t, k), Good(t, otherwise), otherwise.awaits \in {"", "other"},
         Updates(t, c, s, k, otherwise)
  PROVE  PlainStep(t)
<1>1. CASE HasSession(c)
  <2>1. /\ sessions' = [sessions EXCEPT ![c] = [s EXCEPT !.idle = FALSE]]
        /\ SavesOver(t, k, {})
    BY <1>1 DEF Updates, Saves
  <2>2. [s EXCEPT !.idle = FALSE] \in Session /\ SessionOK([s EXCEPT !.idle = FALSE], disk, verified)
    BY <1>1 DEF Session, SessionOK
  <2>3. SessionsFine(sessions', disk, verified)
    BY <2>1, <2>2, SessionPut
  <2>4. Told(t)
    BY <2>1, SavesAreTold DEF Good
  <2> QED
    BY <2>1, <2>3, <2>4 DEF PlainStep, Puts
<1>2. CASE ~HasSession(c)
  BY <1>2 DEF Updates, PlainStep, Puts, Good, SetupInv, OfThisWallet, Told
<1> QED
  BY <1>1, <1>2

LEMMA ClearsPlain ==
  ASSUME SetupInv, NEW t \in Slots, FilesMove(t), NEW c \in Chats, NEW k, Good(t, k),
         Clears(t, c, k)
  PROVE  PlainStep(t)
<1>1. SessionsFine(sessions', disk, verified)
  BY SessionsMeans, SessionPut DEF Clears
<1>2. Told(t)
  BY SavesAreTold DEF Good, Clears
<1> QED
  BY <1>1, <1>2 DEF PlainStep, Puts, Clears

LEMMA BecomesPlain ==
  ASSUME SetupInv, NEW t \in Slots, FilesMove(t), NEW k, Good(t, k),
         k.awaits \in {"", "other"}, UNCHANGED sessions, Becomes(t, k)
  PROVE  PlainStep(t)
  BY DEF PlainStep, Puts, Good, SetupInv, OfThisWallet, Told

LEMMA WaitsPlain ==
  ASSUME SetupInv, NEW t \in Slots, FilesMove(t), NEW k, Good(t, k), UNCHANGED sessions,
         Waits(t, k)
  PROVE  PlainStep(t)
<1> DEFINE l == [k EXCEPT !.awaits = "other"]
<1>1. l \in Task /\ Same(l, k) /\ l.awaits = "other"
  BY DEF Good, Task, Same
<1>2. Good(t, l)
  BY <1>1 DEF Good, Same, TaskOK, KeepsPhrase
<1>3. Becomes(t, l)
  BY DEF Waits
<1> HIDE DEF l
<1> QED
  BY <1>1, <1>2, <1>3, BecomesPlain

LEMMA FreeGood ==
  /\ Free \in Task /\ Free.origin = "" /\ Free.wallet = NoWallet /\ Free.awaits = ""
  /\ Free.step = "free" /\ Free.shows = "nothing" /\ Free.snap = NoFile
  BY DEF Free, Task, Steps, Keyboards

(* The handlers an action may turn into: step, chat, wallet, origin, and    *)
(* the keyboard it shows.                                                   *)
Reads(k, s, c, w, o, b) ==
    /\ k \in Task /\ k.step = s /\ k.chat = c /\ k.wallet = w /\ k.origin = o /\ k.shows = b
    /\ k.awaits = "" /\ k.snap = NoFile

LEMMA HandlerReads ==
  ASSUME NEW c \in Chats \cup {NoChat}, NEW s \in Steps
  PROVE  Reads(Handler(c, s), s, c, NoWallet, "", "nothing")
  BY DEF Reads, Handler, Free, Task, Keyboards

LEMMA WalletRead ==
  ASSUME NEW k, NEW s, NEW c, NEW w, NEW o, NEW b, Reads(k, s, c, w, o, b),
         NEW x \in Wallets \cup {NoWallet}
  PROVE  Reads([k EXCEPT !.wallet = x], s, c, x, o, b)
  BY DEF Reads, Task

LEMMA OriginRead ==
  ASSUME NEW k, NEW s, NEW c, NEW w, NEW o, NEW b, Reads(k, s, c, w, o, b),
         NEW x \in {"", "text", "button"}
  PROVE  Reads([k EXCEPT !.origin = x], s, c, w, x, b)
  BY DEF Reads, Task

LEMMA AnswerReads ==
  ASSUME NEW c \in Chats \cup {NoChat}, NEW b \in Keyboards
  PROVE  Reads(Answer(c, b), "replies", c, NoWallet, "", b)
<1>1. Reads(Handler(c, "replies"), "replies", c, NoWallet, "", "nothing")
  BY HandlerReads DEF Steps
<1> QED
  BY <1>1 DEF Reads, Answer, Task

LEMMA PhraseAnswerReads ==
  ASSUME NEW c \in Chats, NEW w \in Wallets \cup {NoWallet}
  PROVE  Reads(PhraseAnswer(c, w), "replies", c, w, "", "phrase")
<1>1. Reads(Answer(c, "phrase"), "replies", c, NoWallet, "", "phrase")
  BY AnswerReads DEF Keyboards
<1> QED
  BY <1>1, WalletRead DEF PhraseAnswer

LEMMA NewPhraseReads ==
  ASSUME NEW t \in Slots, tasks[t] \in Task, tasks[t].chat \in Chats
  PROVE  Reads(NewPhrase(t), "replies", tasks[t].chat, tasks[t].wallet, tasks[t].origin, "phrase")
<1>1. tasks[t].wallet \in Wallets \cup {NoWallet} /\ tasks[t].origin \in {"", "text", "button"}
  BY DEF Task
<1>2. Reads(PhraseAnswer(tasks[t].chat, tasks[t].wallet), "replies", tasks[t].chat,
            tasks[t].wallet, "", "phrase")
  BY <1>1, PhraseAnswerReads
<1>3. Reads([PhraseAnswer(tasks[t].chat, tasks[t].wallet) EXCEPT !.origin = tasks[t].origin],
            "replies", tasks[t].chat, tasks[t].wallet, tasks[t].origin, "phrase")
  BY <1>1, <1>2, OriginRead
<1> QED
  BY <1>3 DEF NewPhrase

LEMMA ContinuesReads ==
  ASSUME NEW t \in Slots, tasks[t] \in Task, NEW s \in Steps
  PROVE  /\ Continues(t, s) \in Task /\ Continues(t, s).step = s
         /\ Continues(t, s).chat = tasks[t].chat /\ Continues(t, s).snap = tasks[t].snap
         /\ Continues(t, s).wallet = tasks[t].wallet /\ Continues(t, s).origin = tasks[t].origin
         /\ Continues(t, s).shows = tasks[t].shows
  BY DEF Continues, Task

-----------------------------------------------------------------------------
(* The handler has no phrase to show.                                       *)
Quiet(t) == tasks[t].origin = "" \/ tasks[t].wallet = NoWallet

LEMMA TaskMeans ==
  ASSUME SetupInv, NEW t \in Slots
  PROVE  /\ tasks[t] \in Task /\ TaskOK(tasks[t], disk, verified)
         /\ tasks[t] = Free \/ tasks[t].step \notin Held => Quiet(t)
         /\ tasks[t].step \notin {"free", "replies"} => tasks[t].chat \in Chats
         /\ tasks[t].wallet \in {disk, NoWallet}
         /\ tasks[t].shows \in Keyboards
<1>1. tasks[t] \in Task /\ TaskOK(tasks[t], disk, verified)
  BY DEF SetupInv, SetupTypes, OfThisWallet
<1>2. tasks[t] = Free => Quiet(t)
  BY FreeGood DEF Quiet
<1>3. tasks[t].step \notin Held => Quiet(t)
  BY <1>1 DEF TaskOK, Quiet
<1>4. tasks[t].shows \in Keyboards
  BY <1>1 DEF Task
<1> QED
  BY <1>1, <1>2, <1>3, <1>4 DEF TaskOK

(* Such a handler keeps the invariant.                                      *)
Fits(t, s, w, o, b) ==
    /\ w \in {disk, NoWallet}
    /\ s \in {"judges", "closes", "announces"} => w # NoWallet
    /\ s \in {"unseals", "configures", "completes", "closes", "announces"} => verified # {}
    /\ b = "limits" => verified # {}
    /\ s \in {"hashes", "creates"} => o # ""
    /\ o # "" /\ w # NoWallet => s \in Held /\ (s = "replies" => b = "phrase")
    /\ Quiet(t) \/ (o = tasks[t].origin /\ w = tasks[t].wallet)

LEMMA ReadsGood ==
  ASSUME NEW t, NEW k, NEW s, NEW c \in Chats, NEW w, NEW o, NEW b,
         Reads(k, s, c, w, o, b), Fits(t, s, w, o, b)
  PROVE  Good(t, k) /\ k.awaits = ""
  BY DEF Good, Reads, Fits, TaskOK, FileOK, KeepsPhrase, Quiet

LEMMA HandlersGood ==
  ASSUME SetupInv, NEW t \in Slots, Quiet(t), NEW c \in Chats
  PROVE  /\ Good(t, Free) /\ Free.awaits = ""
         /\ \A s \in {"starts", "restarts", "asks", "asksAgain", "givesUp"} :
               Good(t, Handler(c, s)) /\ Handler(c, s).awaits = ""
         /\ \A b \in {"nothing", "phrase", "failed"} :
               Good(t, Answer(c, b)) /\ Answer(c, b).awaits = ""
         /\ verified # {} =>
               /\ Good(t, Answer(c, "limits")) /\ Answer(c, "limits").awaits = ""
               /\ \A s \in {"unseals", "configures", "completes"} :
                     Good(t, Handler(c, s)) /\ Handler(c, s).awaits = ""
         /\ \A o \in {"text", "button"} : Good(t, [Handler(c, "hashes") EXCEPT !.origin = o])
         /\ \A w \in {disk, NoWallet} :
               /\ Good(t, PhraseAnswer(c, w)) /\ PhraseAnswer(c, w).awaits = ""
               /\ Good(t, [Handler(c, "decrypts") EXCEPT !.wallet = w])
<1>0. disk \in Wallets \cup {NoWallet}
  BY OneKeystoreMeans DEF SetupInv
<1>1. Good(t, Free) /\ Free.awaits = ""
  BY FreeGood DEF Good, TaskOK, FileOK, KeepsPhrase, Quiet
<1>2. ASSUME NEW s \in {"starts", "restarts", "asks", "asksAgain", "givesUp"}
      PROVE  Good(t, Handler(c, s)) /\ Handler(c, s).awaits = ""
  <2>1. Reads(Handler(c, s), s, c, NoWallet, "", "nothing")
    BY HandlerReads DEF Steps
  <2>2. Fits(t, s, NoWallet, "", "nothing")
    BY DEF Fits, Held
  <2> QED
    BY <2>1, <2>2, ReadsGood, Zenon
<1>3. ASSUME NEW b \in {"nothing", "phrase", "failed"}
      PROVE  Good(t, Answer(c, b)) /\ Answer(c, b).awaits = ""
  <2>1. Reads(Answer(c, b), "replies", c, NoWallet, "", b)
    BY AnswerReads DEF Keyboards
  <2>2. Fits(t, "replies", NoWallet, "", b)
    BY DEF Fits, Held
  <2> QED
    BY <2>1, <2>2, ReadsGood, Zenon
<1>4. ASSUME verified # {} PROVE Good(t, Answer(c, "limits")) /\ Answer(c, "limits").awaits = ""
  <2>1. Reads(Answer(c, "limits"), "replies", c, NoWallet, "", "limits")
    BY AnswerReads DEF Keyboards
  <2>2. Fits(t, "replies", NoWallet, "", "limits")
    BY <1>4 DEF Fits, Held
  <2> QED
    BY <2>1, <2>2, ReadsGood, Zenon
<1>5. ASSUME verified # {}, NEW s \in {"unseals", "configures", "completes"}
      PROVE  Good(t, Handler(c, s)) /\ Handler(c, s).awaits = ""
  <2>1. Reads(Handler(c, s), s, c, NoWallet, "", "nothing")
    BY HandlerReads DEF Steps
  <2>2. Fits(t, s, NoWallet, "", "nothing")
    BY <1>5 DEF Fits, Held
  <2> QED
    BY <2>1, <2>2, ReadsGood, Zenon
<1>6. ASSUME NEW o \in {"text", "button"}
      PROVE  Good(t, [Handler(c, "hashes") EXCEPT !.origin = o])
  <2>1. Reads(Handler(c, "hashes"), "hashes", c, NoWallet, "", "nothing")
    BY HandlerReads DEF Steps
  <2>2. Reads([Handler(c, "hashes") EXCEPT !.origin = o], "hashes", c, NoWallet, o, "nothing")
    BY <2>1, OriginRead
  <2>3. Fits(t, "hashes", NoWallet, o, "nothing")
    BY DEF Fits, Held
  <2> QED
    BY <2>2, <2>3, ReadsGood, Zenon
<1>7. ASSUME NEW w \in {disk, NoWallet}
      PROVE  /\ Good(t, PhraseAnswer(c, w)) /\ PhraseAnswer(c, w).awaits = ""
             /\ Good(t, [Handler(c, "decrypts") EXCEPT !.wallet = w])
  <2>1. Reads(PhraseAnswer(c, w), "replies", c, w, "", "phrase")
    BY <1>0, PhraseAnswerReads
  <2>2. Reads(Handler(c, "decrypts"), "decrypts", c, NoWallet, "", "nothing")
    BY HandlerReads DEF Steps
  <2>3. Reads([Handler(c, "decrypts") EXCEPT !.wallet = w], "decrypts", c, w, "", "nothing")
    BY <1>0, <2>2, WalletRead
  <2>4. Good(t, PhraseAnswer(c, w)) /\ PhraseAnswer(c, w).awaits = ""
    <3>1. Fits(t, "replies", w, "", "phrase")
      BY DEF Fits, Held
    <3> QED
      BY <2>1, <3>1, ReadsGood, Zenon
  <2>5. Good(t, [Handler(c, "decrypts") EXCEPT !.wallet = w])
    <3>1. Fits(t, "decrypts", w, "", "nothing")
      BY DEF Fits, Held
    <3> QED
      BY <2>3, <3>1, ReadsGood, Zenon
  <2> QED
    BY <2>4, <2>5
<1> QED
  BY <1>1, <1>2, <1>3, <1>4, <1>5, <1>6, <1>7

(* What a change of a session may be.                                       *)
LEMMA SessionChanges ==
  ASSUME SetupInv, NEW c \in Chats
  PROVE  LET s == sessions[c] IN
         /\ s \in Session /\ SessionOK(s, disk, verified)
         /\ \A x \in States \ {"limits"} : [s EXCEPT !.state = x] \in Session
                                           /\ SessionOK([s EXCEPT !.state = x], disk, verified)
         /\ verified # {} => [s EXCEPT !.state = "limits"] \in Session
                             /\ SessionOK([s EXCEPT !.state = "limits"], disk, verified)
         /\ [s EXCEPT !.words = TRUE, !.round = 0] \in Session
         /\ SessionOK([s EXCEPT !.words = TRUE, !.round = 0], disk, verified)
         /\ [s EXCEPT !.state = "displayed", !.round = 0] \in Session
         /\ SessionOK([s EXCEPT !.state = "displayed", !.round = 0], disk, verified)
  BY SessionsMeans DEF Session, SessionOK, States

LEMMA StartsPlain ==
  ASSUME SetupInv, NEW t \in Slots, Quiet(t), FilesMove(t), NEW c \in Chats, StartsSession(t, c)
  PROVE  PlainStep(t)
<1> DEFINE s == [NoSession EXCEPT !.state = "welcome"]
<1>1. s \in Session /\ SessionOK(s, disk, verified)
  BY DEF NoSession, Session, SessionOK, States
<1>2. sessions' = [sessions EXCEPT ![c] = s] /\ SavesOver(t, Answer(c, "nothing"), {c})
  BY DEF StartsSession
<1> HIDE DEF s
<1>3. SessionsFine(sessions', disk, verified)
  BY <1>1, <1>2, SessionPut
<1>4. Good(t, Answer(c, "nothing"))
  BY HandlersGood
<1>5. Told(t)
  BY <1>2, <1>4, SavesAreTold DEF Good
<1> QED
  BY <1>2, <1>3, <1>4, <1>5 DEF PlainStep, Puts

LEMMA PromptsPlain ==
  ASSUME SetupInv, NEW t \in Slots, Quiet(t), FilesMove(t), NEW c \in Chats,
         PromptsPassphrase(t, c)
  PROVE  PlainStep(t)
<1>1. /\ Good(t, Answer(c, "nothing")) /\ Good(t, Free) /\ Free.awaits = ""
  BY HandlersGood
<1>2. [sessions[c] EXCEPT !.state = "pending"] \in Session
      /\ SessionOK([sessions[c] EXCEPT !.state = "pending"], disk, verified)
  BY SessionChanges DEF States
<1> QED
  BY <1>1, <1>2, UpdatesPlain DEF PromptsPassphrase

LEMMA NewWordsPlain ==
  ASSUME SetupInv, NEW t \in Slots, Quiet(t), FilesMove(t), NEW c \in Chats, NewWords(t, c)
  PROVE  PlainStep(t)
<1>1. Good(t, Answer(c, "nothing")) /\ Good(t, Free) /\ Free.awaits = ""
  BY HandlersGood
<1> QED
  BY <1>1, SessionChanges, UpdatesPlain DEF NewWords

LEMMA OpenedIsOurs ==
  ASSUME SetupInv, NEW c \in Chats
  PROVE  Opened(c) \in {disk, NoWallet}
  BY SessionsMeans DEF Opened, SessionOK

(* The sessions stay fine when only the idleness of one ends.               *)
LEMMA WakesFine ==
  ASSUME SetupInv, NEW c \in Chats, NEW s, s = [sessions[c] EXCEPT !.idle = FALSE],
         sessions' = [sessions EXCEPT ![c] = s]
  PROVE  SessionsFine(sessions', disk, verified)
<1>1. s \in Session /\ SessionOK(s, disk, verified)
  BY SessionsMeans DEF Session, SessionOK
<1> QED
  BY <1>1, SessionPut

LEMMA PressesPlain ==
  ASSUME SetupInv, NEW t \in Slots, NEW c \in Chats, Presses(t, c)
  PROVE  PlainStep(t) /\ UNCHANGED <<keyVars, offered, pastVars>>
<1>1. Begins(t) /\ UNCHANGED <<keyVars, offered, pastVars>>
  BY Zenon DEF Presses, PressStart, PressRetry, PressWeakOk, PressSaved, PressShowAgain,
     PressVerifyRetry, PressLimit, PressResume, PressRestart
<1>2. FilesMove(t) /\ Quiet(t)
  BY <1>1, FilesMoveIs, TaskMeans
<1>3. /\ Good(t, Free) /\ Free.awaits = ""
      /\ \A s \in {"starts", "restarts", "asks", "asksAgain"} :
            Good(t, Handler(c, s)) /\ Handler(c, s).awaits = ""
      /\ \A b \in {"nothing", "phrase", "failed"} :
            Good(t, Answer(c, b)) /\ Answer(c, b).awaits = ""
  BY <1>2, HandlersGood
<1>4. CASE PressStart(t, c) \/ PressRetry(t, c)
  BY <1>1, <1>2, <1>4, PromptsPlain DEF PressStart, PressRetry
<1>5. CASE PressWeakOk(t, c)
  <2>1. Good(t, [Handler(c, "hashes") EXCEPT !.origin = "button"])
    BY <1>2, HandlersGood
  <2>2. CASE c \in temp
    BY <1>1, <1>2, <1>5, <2>1, <2>2, WaitsPlain DEF PressWeakOk
  <2>3. CASE c \notin temp
    BY <1>1, <1>2, <1>5, <2>3, PromptsPlain DEF PressWeakOk
  <2> QED
    BY <2>2, <2>3
<1>6. CASE PressSaved(t, c)
  <2>1. Updates(t, c, [sessions[c] EXCEPT !.words = TRUE, !.round = 0], Handler(c, "asks"), Free)
    BY <1>6 DEF PressSaved
  <2> QED
    BY <1>1, <1>2, <1>3, <2>1, SessionChanges, UpdatesPlain
<1>7. CASE PressShowAgain(t, c)
  <2>1. Good(t, [Handler(c, "decrypts") EXCEPT !.wallet = Opened(c)])
    BY <1>2, HandlersGood, OpenedIsOurs
  <2>2. CASE sessions[c].idle
    BY <1>1, <1>2, <1>3, <1>7, <2>2, ClearsPlain DEF PressShowAgain
  <2>3. CASE ~sessions[c].idle /\ Sealed(c)
    BY <1>1, <1>2, <1>7, <2>1, <2>3, WaitsPlain DEF PressShowAgain
  <2>4. CASE ~sessions[c].idle /\ ~Sealed(c)
    BY <1>1, <1>2, <1>3, <1>7, <2>4, BecomesPlain DEF PressShowAgain
  <2> QED
    BY <2>2, <2>3, <2>4
<1>8. CASE PressVerifyRetry(t, c)
  <2>1. \/ Clears(t, c, Handler(c, "asksAgain"))
        \/ UNCHANGED sessions /\ Becomes(t, Free)
        \/ NewWords(t, c)
    BY <1>8 DEF PressVerifyRetry
  <2>2. CASE Clears(t, c, Handler(c, "asksAgain"))
    BY <1>1, <1>2, <1>3, <2>2, ClearsPlain
  <2>3. CASE UNCHANGED sessions /\ Becomes(t, Free)
    BY <1>1, <1>2, <1>3, <2>3, BecomesPlain
  <2> QED
    BY <1>1, <1>2, <2>1, <2>2, <2>3, NewWordsPlain
<1>9. CASE PressLimit(t, c)
  <2>1. verified # {}
    BY <1>9 DEF PressLimit, SetupInv, OfThisWallet
  <2>2. Good(t, Handler(c, "configures")) /\ Good(t, Handler(c, "completes"))
    BY <1>2, <2>1, HandlersGood
  <2>3. CASE HasSession(c)
    <3>1. /\ sessions' = [sessions EXCEPT ![c] = [sessions[c] EXCEPT !.idle = FALSE]]
          /\ SavesOver(t, Handler(c, "configures"), {})
      BY <1>9, <2>3 DEF PressLimit, Saves, SetupInv, OfThisWallet, SessionsFine
    <3>2. SessionsFine(sessions', disk, verified)
      BY <3>1, WakesFine
    <3>3. Told(t)
      BY <2>2, <3>1, SavesAreTold DEF Good
    <3> QED
      BY <1>1, <1>2, <2>2, <3>1, <3>2, <3>3 DEF PlainStep, Puts
  <2>4. CASE ~HasSession(c)
    BY <1>1, <1>2, <1>9, <2>2, <2>4, WaitsPlain DEF PressLimit
  <2> QED
    BY <2>3, <2>4
<1>10. CASE PressResume(t, c)
  <2>1. \/ Clears(t, c, Handler(c, "starts"))
        \/ StartsSession(t, c)
        \/ PromptsPassphrase(t, c)
        \/ NewWords(t, c)
        \/ UNCHANGED sessions
           /\ Waits(t, [Handler(c, "decrypts") EXCEPT !.wallet = Opened(c)])
        \/ UNCHANGED sessions
           /\ Becomes(t, IF sessions[c].state = "limits" THEN Answer(c, "limits") ELSE Free)
    BY <1>10, Zenon DEF PressResume
  <2>2. CASE Clears(t, c, Handler(c, "starts"))
    BY <1>1, <1>2, <1>3, <2>2, ClearsPlain
  <2>3. CASE StartsSession(t, c)
    BY <1>1, <1>2, <2>3, StartsPlain
  <2>4. CASE PromptsPassphrase(t, c)
    BY <1>1, <1>2, <2>4, PromptsPlain
  <2>5. CASE NewWords(t, c)
    BY <1>1, <1>2, <2>5, NewWordsPlain
  <2>6. CASE /\ UNCHANGED sessions
             /\ Waits(t, [Handler(c, "decrypts") EXCEPT !.wallet = Opened(c)])
    <3>1. Good(t, [Handler(c, "decrypts") EXCEPT !.wallet = Opened(c)])
      BY <1>2, HandlersGood, OpenedIsOurs
    <3> QED
      BY <1>1, <1>2, <2>6, <3>1, WaitsPlain
  <2>7. CASE /\ UNCHANGED sessions
             /\ Becomes(t, IF sessions[c].state = "limits" THEN Answer(c, "limits") ELSE Free)
    <3>1. CASE sessions[c].state = "limits"
      <4>1. verified # {}
        BY <3>1, SessionsMeans DEF SessionOK
      <4>2. Good(t, Answer(c, "limits")) /\ Answer(c, "limits").awaits = ""
        BY <1>2, <4>1, HandlersGood
      <4> QED
        BY <1>1, <1>2, <2>7, <3>1, <4>2, BecomesPlain
    <3>2. CASE sessions[c].state # "limits"
      BY <1>1, <1>2, <1>3, <2>7, <3>2, BecomesPlain
    <3> QED
      BY <3>1, <3>2
  <2> QED
    BY <2>1, <2>2, <2>3, <2>4, <2>5, <2>6, <2>7
<1>11. CASE PressRestart(t, c)
  BY <1>1, <1>2, <1>3, <1>11, ClearsPlain DEF PressRestart
<1> QED
  BY <1>4, <1>5, <1>6, <1>7, <1>8, <1>9, <1>10, <1>11, Zenon DEF Presses

LEMMA TextsPlain ==
  ASSUME SetupInv, NEW t \in Slots, NEW c \in Chats, Texts(t, c)
  PROVE  PlainStep(t) /\ UNCHANGED <<keyVars, offered, pastVars>>
<1>1. Begins(t) /\ UNCHANGED <<keyVars, offered, pastVars>>
  BY Zenon DEF Texts, WalletCommand, TextInExpiredSession, TextWeakPassphrase,
     TextStrongPassphrase, TextWords
<1>2. FilesMove(t) /\ Quiet(t)
  BY <1>1, FilesMoveIs, TaskMeans
<1>3. /\ Good(t, Free) /\ Free.awaits = ""
      /\ Good(t, Answer(c, "nothing")) /\ Good(t, Handler(c, "starts"))
  BY <1>2, HandlersGood
<1>4. CASE WalletCommand(t, c)
  <2>1. \/ Clears(t, c, Handler(c, "starts"))
        \/ UNCHANGED sessions /\ Becomes(t, Free)
        \/ StartsSession(t, c)
    BY <1>4 DEF WalletCommand
  <2>2. CASE Clears(t, c, Handler(c, "starts"))
    BY <1>1, <1>2, <1>3, <2>2, ClearsPlain
  <2>3. CASE UNCHANGED sessions /\ Becomes(t, Free)
    BY <1>1, <1>2, <1>3, <2>3, BecomesPlain
  <2> QED
    BY <1>1, <1>2, <2>1, <2>2, <2>3, StartsPlain
<1>5. CASE TextInExpiredSession(t, c)
  BY <1>1, <1>2, <1>3, <1>5, ClearsPlain DEF TextInExpiredSession
<1>6. CASE TextWeakPassphrase(t, c)
  <2>1. Updates(t, c, [sessions[c] EXCEPT !.state = "weak"], Answer(c, "nothing"), Free)
    BY <1>6 DEF TextWeakPassphrase
  <2>2. [sessions[c] EXCEPT !.state = "weak"] \in Session
        /\ SessionOK([sessions[c] EXCEPT !.state = "weak"], disk, verified)
    BY SessionChanges DEF States
  <2> QED
    BY <1>1, <1>2, <1>3, <2>1, <2>2, UpdatesPlain
<1>7. CASE TextStrongPassphrase(t, c)
  <2>1. Good(t, [Handler(c, "hashes") EXCEPT !.origin = "text"])
    BY <1>2, HandlersGood
  <2> QED
    BY <1>1, <1>2, <1>7, <2>1, WaitsPlain DEF TextStrongPassphrase
<1>8. ASSUME NEW claim \in shown \cup {NoWallet}, TextWords(t, c, claim)
      PROVE  PlainStep(t)
  <2> DEFINE k == [Handler(c, "checks") EXCEPT !.wallet = Opened(c), !.claim = claim,
                                               !.words = sessions[c].words]
  <2>1. Good(t, k)
    <3>1. Reads(Handler(c, "checks"), "checks", c, NoWallet, "", "nothing")
      BY HandlerReads DEF Steps
    <3>2. /\ claim \in Wallets \cup {NoWallet} /\ Opened(c) \in Wallets \cup {NoWallet}
          /\ sessions[c].words \in BOOLEAN
      BY SessionsMeans, OpenedIsOurs, OneKeystoreMeans DEF SetupInv, SetupTypes, Session
    <3>3. Reads(k, "checks", c, Opened(c), "", "nothing")
      BY <3>1, <3>2 DEF Reads, Task
    <3>4. Fits(t, "checks", Opened(c), "", "nothing")
      BY <1>2, OpenedIsOurs DEF Fits, Held
    <3> QED
      BY <3>3, <3>4, ReadsGood, Zenon
  <2>2. UNCHANGED sessions /\ (Waits(t, k) \/ Becomes(t, Free))
    BY <1>8 DEF TextWords
  <2> HIDE DEF k
  <2>3. CASE Waits(t, k)
    BY <1>2, <2>1, <2>2, <2>3, WaitsPlain
  <2>4. CASE Becomes(t, Free)
    BY <1>2, <1>3, <2>2, <2>4, BecomesPlain
  <2> QED
    BY <2>2, <2>3, <2>4
<1> QED
  BY <1>1, <1>4, <1>5, <1>6, <1>7, <1>8, Zenon DEF Texts

-----------------------------------------------------------------------------
(* Handlers that go on without making, showing, verifying or announcing.    *)
GoesOnPlainly(t) ==
    \/ AnswerIsReady(t) \/ StartsOver(t) \/ SealsPhrase(t) \/ DisplaysPhrase(t)
    \/ AsksForWords(t) \/ ShowsDecrypted(t) \/ AsksAgain(t) \/ GivesUp(t) \/ UnsealsPhrase(t)
    \/ CountsFailure(t) \/ WritesLimit(t) \/ ClosesSession(t)

LEMMA GoesOnPlainlyIs ==
  ASSUME SetupInv, NEW t \in Slots, GoesOnPlainly(t)
  PROVE  PlainStep(t) /\ UNCHANGED <<keyVars, offered, pastVars>>
<1> DEFINE c == tasks[t].chat
<1>1. UNCHANGED <<keyVars, offered, pastVars>>
  BY Zenon DEF GoesOnPlainly, AnswerIsReady, StartsOver, SealsPhrase, DisplaysPhrase,
     AsksForWords, ShowsDecrypted, AsksAgain, GivesUp, UnsealsPhrase, CountsFailure,
     WritesLimit, ClosesSession
<1> SUFFICES PlainStep(t)
  BY <1>1
<1>0. /\ tasks[t] \in Task /\ TaskOK(tasks[t], disk, verified)
      /\ tasks[t].step \notin {"free", "replies"} => c \in Chats
  BY TaskMeans
<1>2. CASE AnswerIsReady(t)
  <2>1. /\ Arrives(t, "replies") /\ UNCHANGED sessions
        /\ \/ tasks[t].shows = "nothing" /\ Becomes(t, Free)
           \/ tasks[t].shows # "nothing" /\ Becomes(t, [tasks[t] EXCEPT !.awaits = ""])
    BY <1>2 DEF AnswerIsReady
  <2>2. FilesMove(t) /\ tasks[t].step = "replies"
    BY <2>1, FilesMoveIs DEF Steps
  <2>3. CASE tasks[t].shows = "nothing" /\ Becomes(t, Free)
    <3>1. Good(t, Free) /\ Free.awaits = ""
      BY <1>0, <2>2, <2>3, FreeGood DEF Good, TaskOK, FileOK, KeepsPhrase
    <3> QED
      BY <2>1, <2>2, <2>3, <3>1, BecomesPlain
  <2>4. CASE Becomes(t, [tasks[t] EXCEPT !.awaits = ""])
    <3> DEFINE k == [tasks[t] EXCEPT !.awaits = ""]
    <3>a. k \in Task /\ k.awaits = "" /\ Same(k, tasks[t])
      BY <1>0 DEF Task, Same
    <3> HIDE DEF k
    <3>b. TaskOK(k, disk, verified) /\ KeepsPhrase(t, k)
      BY <1>0, <3>a DEF TaskOK, KeepsPhrase, Same
    <3>1. Good(t, [tasks[t] EXCEPT !.awaits = ""]) /\ [tasks[t] EXCEPT !.awaits = ""].awaits = ""
      BY <3>a, <3>b DEF Good, k
    <3> QED
      BY <2>1, <2>2, <2>4, <3>1, BecomesPlain
  <2> QED
    BY <2>1, <2>3, <2>4
<1>3. CASE StartsOver(t)
  <2>1. (Arrives(t, "starts") \/ Arrives(t, "restarts")) /\ StartsSession(t, c)
    BY <1>3 DEF StartsOver
  <2>2. FilesMove(t) /\ tasks[t].step \in {"starts", "restarts"}
    BY <2>1, FilesMoveIs DEF Steps
  <2>3. Quiet(t) /\ c \in Chats
    BY <2>2, TaskMeans DEF Held
  <2> QED
    BY <2>1, <2>2, <2>3, StartsPlain
<1>4. CASE SealsPhrase(t)
  <2> DEFINE s == [sessions[c] EXCEPT !.phrase = tasks[t].wallet,
                                      !.opens = (tasks[t].holds = "current")]
  <2>1. Arrives(t, "seals") /\ Updates(t, c, s, Continues(t, "displays"), NewPhrase(t))
    BY <1>4 DEF SealsPhrase
  <2>2. FilesMove(t) /\ tasks[t].step = "seals" /\ c \in Chats
    BY <1>0, <2>1, FilesMoveIs DEF Steps
  <2>3. s \in Session /\ SessionOK(s, disk, verified)
    <3>1. tasks[t].wallet \in Wallets \cup {NoWallet} /\ tasks[t].wallet \in {disk, NoWallet}
      BY <1>0 DEF Task, TaskOK
    <3>2. (tasks[t].holds = "current") \in BOOLEAN
      OBVIOUS
    <3>3. sessions[c] \in Session /\ SessionOK(sessions[c], disk, verified)
      BY <2>2, SessionsMeans
    <3>4. s \in Session
      BY <3>1, <3>2, <3>3 DEF Session
    <3>5. s.phrase = tasks[t].wallet /\ s.state = sessions[c].state
      BY <3>3 DEF Session
    <3> QED
      BY <3>1, <3>3, <3>4, <3>5 DEF SessionOK
  <2>4. Good(t, Continues(t, "displays"))
    <3> DEFINE k == Continues(t, "displays")
    <3>1. /\ k \in Task /\ k.step = "displays" /\ k.chat = c /\ k.snap = tasks[t].snap
          /\ k.wallet = tasks[t].wallet /\ k.origin = tasks[t].origin /\ k.shows = tasks[t].shows
      BY <1>0, ContinuesReads DEF Steps
    <3> HIDE DEF k
    <3>2. Good(t, k)
      BY <1>0, <2>2, <3>1 DEF Good, TaskOK, KeepsPhrase, Held
    <3> QED
      BY <3>2 DEF k
  <2>5. Good(t, NewPhrase(t)) /\ NewPhrase(t).awaits = ""
    BY <1>0, <2>2, NewPhraseReads DEF Good, Reads, TaskOK, FileOK, KeepsPhrase, Held
  <2> HIDE DEF s
  <2> QED
    BY <2>1, <2>2, <2>3, <2>4, <2>5, UpdatesPlain
<1>5. CASE DisplaysPhrase(t)
  <2>1. /\ Arrives(t, "displays")
        /\ Updates(t, c, [sessions[c] EXCEPT !.state = "displayed"], NewPhrase(t), NewPhrase(t))
    BY <1>5 DEF DisplaysPhrase
  <2>2. FilesMove(t) /\ tasks[t].step = "displays" /\ c \in Chats
    BY <1>0, <2>1, FilesMoveIs DEF Steps
  <2>3. [sessions[c] EXCEPT !.state = "displayed"] \in Session
        /\ SessionOK([sessions[c] EXCEPT !.state = "displayed"], disk, verified)
    BY <2>2, SessionChanges DEF States
  <2>5. Good(t, NewPhrase(t)) /\ NewPhrase(t).awaits = ""
    BY <1>0, <2>2, NewPhraseReads DEF Good, Reads, TaskOK, FileOK, KeepsPhrase, Held
  <2> QED
    BY <2>1, <2>2, <2>3, <2>5, UpdatesPlain
<1>6. CASE AsksForWords(t)
  <2>1. /\ Arrives(t, "asks")
        /\ Updates(t, c, [sessions[c] EXCEPT !.state = "verifying"], Answer(c, "nothing"), Free)
    BY <1>6 DEF AsksForWords
  <2>2. FilesMove(t) /\ c \in Chats /\ Quiet(t)
    BY <1>0, <2>1, FilesMoveIs, TaskMeans DEF Steps, Held
  <2>3. [sessions[c] EXCEPT !.state = "verifying"] \in Session
        /\ SessionOK([sessions[c] EXCEPT !.state = "verifying"], disk, verified)
    BY <2>2, SessionChanges DEF States
  <2>4. Good(t, Answer(c, "nothing")) /\ Good(t, Free) /\ Free.awaits = ""
    BY <2>2, HandlersGood
  <2> QED
    BY <2>1, <2>2, <2>3, <2>4, UpdatesPlain
<1>7. CASE ShowsDecrypted(t)
  <2>1. /\ Arrives(t, "decrypts") /\ UNCHANGED sessions
        /\ Becomes(t, PhraseAnswer(c, tasks[t].wallet)) \/ Becomes(t, Free)
    BY <1>7 DEF ShowsDecrypted
  <2>2. FilesMove(t) /\ c \in Chats /\ Quiet(t)
    BY <1>0, <2>1, FilesMoveIs, TaskMeans DEF Steps, Held
  <2>3. /\ Good(t, PhraseAnswer(c, tasks[t].wallet)) /\ Good(t, Free)
        /\ PhraseAnswer(c, tasks[t].wallet).awaits = "" /\ Free.awaits = ""
    BY <2>2, HandlersGood, TaskMeans
  <2> QED
    BY <2>1, <2>2, <2>3, BecomesPlain
<1>8. CASE AsksAgain(t)
  <2>1. Arrives(t, "asksAgain") /\ NewWords(t, c)
    BY <1>8 DEF AsksAgain
  <2>2. FilesMove(t) /\ c \in Chats /\ Quiet(t)
    BY <1>0, <2>1, FilesMoveIs, TaskMeans DEF Steps, Held
  <2> QED
    BY <2>1, <2>2, NewWordsPlain
<1>9. CASE GivesUp(t)
  <2>1. Arrives(t, "givesUp") /\ UNCHANGED sessions /\ Becomes(t, Free)
    BY <1>9 DEF GivesUp
  <2>2. FilesMove(t) /\ c \in Chats /\ Quiet(t)
    BY <1>0, <2>1, FilesMoveIs, TaskMeans DEF Steps, Held
  <2> QED
    BY <2>1, <2>2, HandlersGood, BecomesPlain
<1>10. CASE UnsealsPhrase(t)
  <2>1. /\ Arrives(t, "unseals")
        /\ Updates(t, c, [sessions[c] EXCEPT !.state = "limits"], Answer(c, "limits"),
                   Answer(c, "limits"))
    BY <1>10 DEF UnsealsPhrase
  <2>2. FilesMove(t) /\ c \in Chats /\ Quiet(t) /\ verified # {}
    BY <1>0, <2>1, FilesMoveIs, TaskMeans DEF Steps, Held, TaskOK
  <2>3. Good(t, Answer(c, "limits")) /\ Answer(c, "limits").awaits = ""
    BY <2>2, HandlersGood
  <2>4. [sessions[c] EXCEPT !.state = "limits"] \in Session
        /\ SessionOK([sessions[c] EXCEPT !.state = "limits"], disk, verified)
    BY <2>2, SessionChanges
  <2> QED
    BY <2>1, <2>2, <2>3, <2>4, UpdatesPlain
<1>11. CASE CountsFailure(t)
  <2>1. /\ Arrives(t, "counts")
        /\ \/ Updates(t, c, [sessions[c] EXCEPT !.state = "displayed", !.round = 0],
                      PhraseAnswer(c, tasks[t].wallet), PhraseAnswer(c, tasks[t].wallet))
           \/ UNCHANGED sessions /\ Becomes(t, Answer(c, "failed"))
    BY <1>11 DEF CountsFailure
  <2>2. FilesMove(t) /\ c \in Chats /\ Quiet(t)
    BY <1>0, <2>1, FilesMoveIs, TaskMeans DEF Steps, Held
  <2>3. Good(t, Answer(c, "failed")) /\ Answer(c, "failed").awaits = ""
    BY <2>2, HandlersGood
  <2>4. /\ Good(t, PhraseAnswer(c, tasks[t].wallet))
        /\ PhraseAnswer(c, tasks[t].wallet).awaits = ""
    BY <2>2, HandlersGood, TaskMeans
  <2>5. [sessions[c] EXCEPT !.state = "displayed", !.round = 0] \in Session
        /\ SessionOK([sessions[c] EXCEPT !.state = "displayed", !.round = 0], disk, verified)
    BY <2>2, SessionChanges
  <2>6. CASE UNCHANGED sessions /\ Becomes(t, Answer(c, "failed"))
    BY <2>2, <2>3, <2>6, BecomesPlain
  <2> QED
    BY <2>1, <2>2, <2>4, <2>5, <2>6, UpdatesPlain
<1>12. CASE WritesLimit(t)
  <2>1. Arrives(t, "configures") /\ UNCHANGED sessions /\ Waits(t, Handler(c, "completes"))
    BY <1>12 DEF WritesLimit
  <2>2. FilesMove(t) /\ c \in Chats /\ Quiet(t) /\ verified # {}
    BY <1>0, <2>1, FilesMoveIs, TaskMeans DEF Steps, Held, TaskOK
  <2>3. Good(t, Handler(c, "completes"))
    BY <2>2, HandlersGood
  <2> QED
    BY <2>1, <2>2, <2>3, WaitsPlain
<1>13. CASE ClosesSession(t)
  <2>1. Arrives(t, "closes") /\ Clears(t, c, Continues(t, "announces"))
    BY <1>13 DEF ClosesSession
  <2>2. FilesMove(t) /\ tasks[t].step = "closes" /\ c \in Chats
    BY <1>0, <2>1, FilesMoveIs DEF Steps
  <2>3. Good(t, Continues(t, "announces"))
    <3> DEFINE k == Continues(t, "announces")
    <3>1. /\ k \in Task /\ k.step = "announces" /\ k.chat = c /\ k.snap = tasks[t].snap
          /\ k.wallet = tasks[t].wallet /\ k.origin = tasks[t].origin /\ k.shows = tasks[t].shows
      BY <1>0, ContinuesReads DEF Steps
    <3> HIDE DEF k
    <3>2. Good(t, k)
      BY <1>0, <2>2, <3>1 DEF Good, TaskOK, KeepsPhrase, Held
    <3> QED
      BY <3>2 DEF k
  <2> QED
    BY <2>1, <2>2, <2>3, ClearsPlain
<1> QED
  BY <1>2, <1>3, <1>4, <1>5, <1>6, <1>7, <1>8, <1>9, <1>10, <1>11, <1>12, <1>13, Zenon
     DEF GoesOnPlainly

LEMMA SameKeystore ==
  ASSUME OneKeystore, UNCHANGED keyVars, UNCHANGED created
  PROVE  OneKeystore' /\ disk' = disk
<1>1. /\ disk' = disk /\ cached' = cached /\ address' = address /\ key' = key /\ made' = made
      /\ deleting' = deleting /\ created' = created
  BY DEF keyVars
<1> QED
  BY <1>1 DEF OneKeystore, KeysTypeOK

LEMMA PlainKeeps ==
  ASSUME SetupInv, NEW t \in Slots, PlainStep(t), UNCHANGED <<keyVars, offered, pastVars>>
  PROVE  SetupInv'
<1>1. OneKeystore' /\ disk' = disk
  BY SameKeystore DEF SetupInv, pastVars
<1> QED
  BY <1>1, PlainStepKeeps DEF pastVars

-----------------------------------------------------------------------------
(* Steps that change only sessions, or what the invariant does not mention. *)
LEMMA SessionsKeep ==
  ASSUME SetupInv, SessionsFine(sessions', disk, verified),
         UNCHANGED <<keyVars, file, tempFile, tasks, offered, created, shown, dropped, verified,
                     announced, overlapped>>
  PROVE  SetupInv'
<1>1. OneKeystore' /\ disk' = disk
  BY SameKeystore DEF SetupInv
<1>2. SetupTypes'
  BY DEF SetupInv, SetupTypes
<1>3. OfThisWallet'
  BY <1>1 DEF SetupInv, OfThisWallet, SetupIsOfThisWallet
<1>4. overlapped' \/ SavesInTurn'
  BY DEF SetupInv, SavesInTurn, SaveUnderWay
<1>5. PhraseLossHasCause'
  BY <1>1 DEF SetupInv, PhraseLossHasCause, Carries
<1> QED
  BY <1>1, <1>2, <1>3, <1>4, <1>5 DEF SetupInv

LEMMA IdlesKeeps ==
  ASSUME SetupInv, NEW c \in Chats, Idles(c)
  PROVE  SetupInv'
<1>1. sessions' = [sessions EXCEPT ![c] = [sessions[c] EXCEPT !.idle = TRUE]]
  BY DEF Idles, SetupInv, OfThisWallet, SessionsFine
<1>2. /\ [sessions[c] EXCEPT !.idle = TRUE] \in Session
      /\ SessionOK([sessions[c] EXCEPT !.idle = TRUE], disk, verified)
  BY SessionsMeans DEF Session, SessionOK
<1>3. SessionsFine(sessions', disk, verified)
  BY <1>1, <1>2, SessionPut
<1> QED
  BY <1>3, SessionsKeep DEF Idles, pastVars

LEMMA PassphraseExpiresKeeps ==
  ASSUME SetupInv, NEW c \in Chats, PassphraseExpires(c)
  PROVE  SetupInv'
<1>1. SessionsFine(sessions', disk, verified)
  BY DEF PassphraseExpires, SetupInv, OfThisWallet
<1> QED
  BY <1>1, SessionsKeep DEF PassphraseExpires, pastVars

LEMMA CleansUpKeeps ==
  ASSUME SetupInv, NEW t \in Slots, CleansUp(t)
  PROVE  SetupInv' /\ (Turn(t) \/ UNCHANGED <<file, tempFile, sessions, tasks, overlapped>>)
<1> DEFINE expired == {c \in Chats : sessions[c].idle}
<1>1. /\ Begins(t)
      /\ \/ UNCHANGED <<sessions, tasks, overlapped>>
         \/ /\ sessions' = [c \in Chats |-> IF c \in expired THEN NoSession ELSE sessions[c]]
            /\ SavesOver(t, Answer(NoChat, "nothing"), expired)
      /\ UNCHANGED <<keyVars, offered, created, shown, dropped, verified, announced>>
  BY DEF CleansUp
<1>2. CASE UNCHANGED <<sessions, tasks, overlapped>>
  BY <1>1, <1>2, SessionsKeep DEF Begins, SetupInv, OfThisWallet
<1>3. CASE /\ sessions' = [c \in Chats |-> IF c \in expired THEN NoSession ELSE sessions[c]]
           /\ SavesOver(t, Answer(NoChat, "nothing"), expired)
  <2>1. SessionsFine(sessions', disk, verified)
    BY <1>3, SessionsMeans DEF SessionsFine
  <2>2. FilesMove(t) /\ Quiet(t)
    BY <1>1, FilesMoveIs, TaskMeans
  <2>3. Reads(Answer(NoChat, "nothing"), "replies", NoChat, NoWallet, "", "nothing")
    BY AnswerReads DEF Keyboards
  <2>4. Good(t, Answer(NoChat, "nothing"))
    BY <2>2, <2>3 DEF Reads, Good, TaskOK, FileOK, KeepsPhrase, Quiet
  <2>5. PlainStep(t)
    <3>1. Told(t)
      BY <1>3, <2>4, SavesAreTold DEF Good
    <3> QED
      BY <1>3, <2>1, <2>2, <2>4, <3>1 DEF PlainStep, Puts
  <2> QED
    BY <1>1, <2>5, SameKeystore, PlainStepKeeps, PlainIsTurn DEF SetupInv
<1> QED
  BY <1>1, <1>2, <1>3

LEMMA CrashKeeps ==
  ASSUME SetupInv, Crash
  PROVE  SetupInv'
<1>1. /\ disk' = disk /\ cached' = NoWallet /\ address' = NoWallet /\ key' = NoWallet
      /\ deleting' = NoWallet /\ made' = made
      /\ sessions' = IF file = NoFile THEN NoSessions ELSE file
      /\ tasks' = [t \in Slots |-> Free]
      /\ dropped' = dropped \cup {w \in created \ shown : \E t \in Slots : Carries(t, w)}
      /\ UNCHANGED <<file, tempFile, offered, created, shown, verified, announced, overlapped>>
  BY DEF Crash, KeysAreForgotten
<1>2. OneKeystore'
  BY <1>1 DEF SetupInv, OneKeystore, KeysTypeOK
<1>3. SetupTypes'
  BY <1>1, FreeGood DEF SetupInv, SetupTypes
<1>4. OfThisWallet'
  <2>1. SessionsFine(NoSessions, disk, verified)
    BY SessionsMeans DEF SessionsFine, NoSessions
  <2>2. SessionsFine(sessions', disk', verified')
    BY <1>1, <2>1 DEF SetupInv, OfThisWallet, FileOK
  <2>3. TaskOK(Free, disk, verified)
    BY FreeGood DEF TaskOK, FileOK
  <2> QED
    BY <1>1, <2>2, <2>3 DEF SetupInv, OfThisWallet, SetupIsOfThisWallet
<1>5. SavesInTurn'
  BY <1>1, FreeGood DEF SavesInTurn, SaveUnderWay
<1>6. PhraseLossHasCause'
  BY <1>1 DEF SetupInv, PhraseLossHasCause
<1> QED
  BY <1>2, <1>3, <1>4, <1>5, <1>6 DEF SetupInv

-----------------------------------------------------------------------------
(* A save under way.                                                        *)
LEMMA SnapshotFine ==
  ASSUME SetupInv
  PROVE  SessionsFine(Snapshot, disk, verified) /\ Snapshot # NoFile
<1>1. ASSUME NEW c \in Chats
      PROVE  /\ [sessions[c] EXCEPT !.idle = FALSE] \in Session
             /\ SessionOK([sessions[c] EXCEPT !.idle = FALSE], disk, verified)
  BY SessionsMeans DEF Session, SessionOK
<1>2. SessionsFine(Snapshot, disk, verified)
  BY <1>1 DEF Snapshot, SessionsFine
<1> QED
  BY <1>2, FilesAssumption DEF SessionsFine

LEMMA SaveMakesDirectoryKeeps ==
  ASSUME SetupInv, NEW t \in Slots, SaveMakesDirectory(t)
  PROVE  SetupInv'
<1> DEFINE k == [tasks[t] EXCEPT !.awaits = "write", !.snap = Snapshot]
<1>1. tasks[t] \in Task /\ TaskOK(tasks[t], disk, verified) /\ tasks[t].awaits = "mkdir"
  BY TaskMeans DEF SaveMakesDirectory
<1>2. /\ k \in Task /\ k.awaits = "write" /\ k.snap = Snapshot /\ k.step = tasks[t].step
      /\ k.chat = tasks[t].chat /\ k.wallet = tasks[t].wallet /\ k.origin = tasks[t].origin
      /\ k.shows = tasks[t].shows
  BY <1>1, SnapshotFine DEF Task, SessionsFine
<1>3. tasks' = [tasks EXCEPT ![t] = k]
  BY DEF SaveMakesDirectory, SetupInv, SetupTypes
<1>4. UNCHANGED <<keyVars, sessions, file, tempFile, offered, created, shown, dropped, verified,
                  announced, overlapped>>
  BY DEF SaveMakesDirectory, pastVars
<1> HIDE DEF k
<1>5. OneKeystore' /\ disk' = disk
  BY <1>4, SameKeystore DEF SetupInv
<1>6. SetupTypes'
  BY <1>2, <1>3, <1>4 DEF SetupInv, SetupTypes
<1>7. OfThisWallet'
  <2>1. TaskOK(k, disk, verified)
    BY <1>1, <1>2, SnapshotFine DEF TaskOK, FileOK
  <2> QED
    BY <1>3, <1>4, <1>5, <2>1 DEF SetupInv, SetupTypes, OfThisWallet, SetupIsOfThisWallet
<1>8. overlapped' \/ SavesInTurn'
  BY <1>1, <1>2, <1>3, <1>4, SnapshotFine DEF SetupInv, SetupTypes, SavesInTurn, SaveUnderWay
<1>9. PhraseLossHasCause'
  <2>1. \A w : \A u \in Slots : Carries(u, w) => Carries(u, w)'
    BY <1>2, <1>3 DEF Carries, SetupInv, SetupTypes
  <2> QED
    BY <1>4, <1>5, <2>1 DEF SetupInv, PhraseLossHasCause
<1> QED
  BY <1>5, <1>6, <1>7, <1>8, <1>9 DEF SetupInv

LEMMA SaveWritesKeeps ==
  ASSUME SetupInv, NEW t \in Slots, SaveWrites(t)
  PROVE  SetupInv'
<1> DEFINE k == [tasks[t] EXCEPT !.awaits = "rename", !.snap = NoFile]
<1>1. tasks[t] \in Task /\ TaskOK(tasks[t], disk, verified) /\ tasks[t].awaits = "write"
  BY TaskMeans DEF SaveWrites
<1>2. /\ k \in Task /\ k.awaits = "rename" /\ k.snap = NoFile /\ k.step = tasks[t].step
      /\ k.chat = tasks[t].chat /\ k.wallet = tasks[t].wallet /\ k.origin = tasks[t].origin
      /\ k.shows = tasks[t].shows
  BY <1>1 DEF Task
<1>3. tasks' = [tasks EXCEPT ![t] = k] /\ tempFile' = tasks[t].snap
  BY DEF SaveWrites, SetupInv, SetupTypes
<1>4. UNCHANGED <<keyVars, sessions, file, offered, created, shown, dropped, verified,
                  announced, overlapped>>
  BY DEF SaveWrites, pastVars
<1> HIDE DEF k
<1>5. OneKeystore' /\ disk' = disk
  BY <1>4, SameKeystore DEF SetupInv
<1>6. SetupTypes'
  BY <1>2, <1>3, <1>4 DEF SetupInv, SetupTypes
<1>7. OfThisWallet'
  <2>1. TaskOK(k, disk, verified) /\ FileOK(tasks[t].snap, disk, verified)
    BY <1>1, <1>2 DEF TaskOK, FileOK
  <2> QED
    BY <1>3, <1>4, <1>5, <2>1 DEF SetupInv, SetupTypes, OfThisWallet, SetupIsOfThisWallet
<1>8. overlapped' \/ SavesInTurn'
  BY <1>1, <1>2, <1>3, <1>4 DEF SetupInv, SetupTypes, SavesInTurn, SaveUnderWay
<1>9. PhraseLossHasCause'
  <2>1. \A w : \A u \in Slots : Carries(u, w) => Carries(u, w)'
    BY <1>2, <1>3 DEF Carries, SetupInv, SetupTypes
  <2> QED
    BY <1>4, <1>5, <2>1 DEF SetupInv, PhraseLossHasCause
<1> QED
  BY <1>5, <1>6, <1>7, <1>8, <1>9 DEF SetupInv

(* A rename that finds no temporary file: saves have overlapped.            *)
LEMMA SaveFailsKeeps ==
  ASSUME SetupInv, NEW t \in Slots, SaveFails(t)
  PROVE  SetupInv'
<1> DEFINE c == tasks[t].chat
<1>1. /\ overlapped /\ FilesMove(t) /\ c \in Chats \cup {NoChat}
      /\ UNCHANGED <<keyVars, offered, created, shown, dropped, verified, announced>>
  BY TaskMeans DEF SaveFails, SetupInv, SavesInTurn, FilesMove, Task, pastVars
<1>2. OneKeystore' /\ disk' = disk
  BY <1>1, SameKeystore DEF SetupInv
<1>3. PICK k : /\ k \in Task /\ TaskOK(k, disk, verified) /\ Puts(t, k)
               /\ SessionsFine(sessions', disk, verified)
  <2>1. CASE Clears(t, c, Answer(c, "nothing"))
    <3>1. Reads(Answer(c, "nothing"), "replies", c, NoWallet, "", "nothing")
      BY <1>1, AnswerReads DEF Keyboards
    <3>2. Answer(c, "nothing") \in Task /\ TaskOK(Answer(c, "nothing"), disk, verified)
      BY <3>1 DEF Reads, TaskOK, FileOK
    <3>3. SessionsFine(sessions', disk, verified)
      <4>1. CASE c \in Chats
        BY <2>1, <4>1, SessionsMeans, SessionPut DEF Clears
      <4>2. CASE c \notin Chats
        <5>1. sessions' = sessions
          BY <2>1, <4>2 DEF Clears, SetupInv, OfThisWallet, SessionsFine
        <5> QED
          BY <5>1 DEF SetupInv, OfThisWallet
      <4> QED
        BY <4>1, <4>2
    <3>4. Puts(t, Answer(c, "nothing"))
      <4>1. SavesOver(t, Answer(c, "nothing"), {c})
        BY <2>1 DEF Clears
      <4> QED
        BY <1>1, <4>1 DEF Puts
    <3> QED
      BY <3>2, <3>3, <3>4
  <2>2. CASE UNCHANGED sessions /\ Becomes(t, Free)
    <3>1. TaskOK(Free, disk, verified)
      BY FreeGood DEF TaskOK, FileOK
    <3> QED
      BY <2>2, <3>1, FreeGood DEF Puts, SetupInv, OfThisWallet
  <2> QED
    BY <2>1, <2>2 DEF SaveFails
<1>4. overlapped'
  BY <1>1, <1>3, PutsMeans DEF SetupInv, SetupTypes
<1>5. SetupIsOfThisWallet'
  BY <1>1, <1>2 DEF SetupInv, OfThisWallet, SetupIsOfThisWallet
<1>6. /\ offered' \in [Chats -> SUBSET Keyboards]
      /\ \A d \in Chats : "limits" \in offered'[d] => verified' # {}
      /\ created' \subseteq Wallets /\ shown' \subseteq Wallets /\ verified' \subseteq Wallets
  BY <1>1 DEF SetupInv, SetupTypes, OfThisWallet
<1>7. /\ TaskOK(k, disk', verified') /\ SessionsFine(sessions', disk', verified')
      /\ verified' = verified /\ created' \ shown' = created \ shown /\ dropped' = dropped
  BY <1>1, <1>2, <1>3
<1> QED
  BY <1>1, <1>2, <1>3, <1>4, <1>5, <1>6, <1>7, HandlerKeeps

LEMMA AnswerIsShownKeeps ==
  ASSUME SetupInv, NEW t \in Slots, AnswerIsShown(t)
  PROVE  SetupInv' /\ Turn(t)
<1>1. /\ Becomes(t, Free) /\ Free.awaits = "" /\ tasks[t].awaits = ""
      /\ offered' = [offered EXCEPT ![tasks[t].chat] = @ \cup {tasks[t].shows}]
      /\ shown' = shown \cup ({tasks[t].wallet} \ {NoWallet})
      /\ UNCHANGED <<keyVars, sessions, file, tempFile, created, dropped, verified, announced>>
  BY FreeGood DEF AnswerIsShown
<1>2. OneKeystore' /\ disk' = disk
  BY <1>1, SameKeystore DEF SetupInv
<1>3. /\ tasks[t] \in Task /\ TaskOK(tasks[t], disk, verified) /\ tasks[t].shows \in Keyboards
      /\ tasks[t].wallet \in Wallets \cup {NoWallet}
  BY TaskMeans DEF Task
<1>4. offered' \in [Chats -> SUBSET Keyboards]
  BY <1>1, <1>3 DEF SetupInv, SetupTypes
<1>5. \A c \in Chats : "limits" \in offered'[c] => verified' # {}
  BY <1>1, <1>3 DEF SetupInv, SetupTypes, OfThisWallet, TaskOK
<1>6. created' \subseteq Wallets /\ shown' \subseteq Wallets /\ verified' \subseteq Wallets
  BY <1>1, <1>3 DEF SetupInv, SetupTypes
<1>7. SetupIsOfThisWallet'
  BY <1>1, <1>2 DEF SetupInv, OfThisWallet, SetupIsOfThisWallet
<1>8. /\ Free \in Task /\ Puts(t, Free) /\ FilesMove(t) /\ TaskOK(Free, disk', verified')
      /\ SessionsFine(sessions', disk', verified')
  BY <1>1, <1>2, FreeGood DEF Puts, FilesMove, TaskOK, FileOK, SetupInv, OfThisWallet
<1>9. ASSUME NEW w \in created' \ shown', disk' = w
      PROVE  w \in created \ shown /\ disk = w /\ ~Carries(t, w)
  <2>1. NoWallet \notin Wallets
    BY WalletsAssumption
  <2> QED
    BY <1>1, <1>2, <1>6, <1>9, <2>1 DEF Carries
<1> QED
  BY <1>1, <1>2, <1>4, <1>5, <1>6, <1>7, <1>8, <1>9, HandlerKeeps DEF Turn, Told

-----------------------------------------------------------------------------
(* The wallet is made: there was none, and no phrase was verified.          *)
LEMMA CreatesWalletKeeps ==
  ASSUME SetupInv, NEW t \in Slots, FilesMove(t), NEW c \in Chats, c = tasks[t].chat,
         tasks[t].step \in {"hashes", "creates"}, NEW session \in Session,
         session = sessions[c] \/ (session = NoSession /\ ~HasSession(c)),
         CreatesWallet(t, c, session),
         UNCHANGED <<offered, shown, dropped, verified, announced>>
  PROVE  SetupInv' /\ Turn(t)
<1>a. Quiet(t) /\ tasks[t] \in Task /\ tasks[t].origin # ""
  BY TaskMeans DEF Held, TaskOK
<1>1. CASE /\ IsInitialized
           /\ Clears(t, c, Answer(c, "nothing"))
           /\ UNCHANGED <<keyVars, created>>
  <2>1. PlainStep(t)
    BY <1>a, <1>1, HandlersGood, ClearsPlain
  <2> QED
    BY <1>1, <2>1, SameKeystore, PlainStepKeeps, PlainIsTurn DEF SetupInv
<1>2. ASSUME NEW w \in Wallets, GenerateKeys(w), created' = created \cup {w},
             LET made_w == [tasks[t] EXCEPT !.wallet = w, !.holds = "current", !.step = "seals"]
                 phrase == [PhraseAnswer(c, w) EXCEPT !.origin = tasks[t].origin]
             IN IF session.hashed
                THEN sessions' = [sessions EXCEPT ![c] = session] /\ Waits(t, made_w)
                ELSE Updates(t, c, [session EXCEPT !.state = "displayed"], phrase, phrase)
      PROVE  SetupInv' /\ Turn(t)
  <2> DEFINE made_w == [tasks[t] EXCEPT !.wallet = w, !.holds = "current", !.step = "seals"]
             phrase == [PhraseAnswer(c, w) EXCEPT !.origin = tasks[t].origin]
  <2>1. /\ disk = NoWallet /\ disk' = w /\ cached' = w /\ key' = w /\ address' = w
        /\ made' = made \cup {w} /\ deleting' = deleting
    BY <1>2 DEF GenerateKeys, SaveKeystore, IsInitialized
  <2>2. NoWallet \notin Wallets /\ Torn # w
    BY WalletsAssumption
  <2>3. created = {} /\ made = {} /\ verified = {} /\ announced = {}
    BY <2>1, <2>2 DEF SetupInv, SetupTypes, OneKeystore, KeysTypeOK, OfThisWallet,
                      SetupIsOfThisWallet
  <2>4. OneKeystore'
    BY <1>2, <2>1, <2>2, <2>3 DEF OneKeystore, KeysTypeOK, SetupInv
  <2>5. \A k \in Slots : FileOK(tasks[k].snap, disk, verified) /\ FileOK(tasks[k].snap, w, verified)
    BY <2>1, FineGrows DEF SetupInv, OfThisWallet, TaskOK
  <2>6. /\ \/ sessions' = sessions
           \/ \E s \in Session : /\ SessionOK(s, disk, verified)
                                 /\ sessions' = [sessions EXCEPT ![c] = s]
        /\ Waits(t, made_w) \/ Becomes(t, phrase) \/ SavesOver(t, phrase, {})
        /\ UNCHANGED sessions \/ SavesOver(t, phrase, {})
    <3> HIDE DEF made_w, phrase
    <3>1. CASE session.hashed
      <4>1. session = sessions[c]
        BY <3>1 DEF NoSession
      <4>2. UNCHANGED sessions
        BY <1>2, <3>1, <4>1, SessionsMeans
      <4> QED
        BY <1>2, <3>1, <4>1, <4>2, SessionsMeans DEF made_w
    <3>2. CASE ~session.hashed
      <4>1. Updates(t, c, [session EXCEPT !.state = "displayed"], phrase, phrase)
        BY <1>2, <3>2 DEF phrase
      <4>2. CASE HasSession(c)
        <5>1. /\ sessions' = [sessions EXCEPT ![c] =
                     [[session EXCEPT !.state = "displayed"] EXCEPT !.idle = FALSE]]
              /\ SavesOver(t, phrase, {}) /\ session = sessions[c]
          BY <4>1, <4>2 DEF Updates, Saves
        <5>2. /\ [[session EXCEPT !.state = "displayed"] EXCEPT !.idle = FALSE] \in Session
              /\ SessionOK([[session EXCEPT !.state = "displayed"] EXCEPT !.idle = FALSE],
                           disk, verified)
          BY <5>1, SessionsMeans DEF Session, SessionOK, States
        <5> QED
          BY <5>1, <5>2
      <4>3. CASE ~HasSession(c)
        BY <4>1, <4>3 DEF Updates
      <4> QED
        BY <4>2, <4>3
    <3> QED
      BY <3>1, <3>2
  <2>7. SessionsFine(sessions', disk', verified')
    <3>1. SessionsFine(sessions', disk, verified)
      BY <2>6, SessionPut DEF SetupInv, OfThisWallet
    <3> QED
      BY <2>1, <3>1, FineGrows
  <2>8. PICK k : /\ k \in Task /\ Puts(t, k) /\ k.wallet = w /\ k.origin # ""
                 /\ TaskOK(k, w, verified)
                 /\ SavesOver(t, phrase, {}) => k = phrase
    <3>1. CASE Waits(t, made_w) /\ ~SavesOver(t, phrase, {})
      <4> DEFINE k == [made_w EXCEPT !.awaits = "other"]
      <4>1. /\ k \in Task /\ k.step = "seals" /\ k.chat = c /\ k.snap = tasks[t].snap
            /\ k.wallet = w /\ k.origin = tasks[t].origin /\ k.shows = tasks[t].shows
            /\ k.awaits = "other"
        BY <1>a DEF Task, Steps
      <4>2. Becomes(t, k)
        BY <3>1 DEF Waits
      <4> HIDE DEF k
      <4>3. tasks[t].shows # "limits"
        BY <2>3, TaskMeans DEF TaskOK
      <4>4. TaskOK(k, w, verified)
        BY <1>a, <2>5, <4>1, <4>3 DEF TaskOK, Held
      <4> HIDE DEF phrase
      <4> QED
        BY <1>a, <3>1, <4>1, <4>2, <4>4 DEF Puts
    <3>2. CASE Becomes(t, phrase) \/ SavesOver(t, phrase, {})
      <4>1. tasks[t].origin \in {"", "text", "button"}
        BY <1>a DEF Task
      <4>2. Reads(PhraseAnswer(c, w), "replies", c, w, "", "phrase")
        BY PhraseAnswerReads
      <4>3. Reads(phrase, "replies", c, w, tasks[t].origin, "phrase")
        BY <4>1, <4>2, OriginRead
      <4> HIDE DEF phrase
      <4>4. TaskOK(phrase, w, verified)
        BY <4>3 DEF Reads, TaskOK, FileOK, Held
      <4> QED
        BY <1>a, <3>2, <4>3, <4>4 DEF Puts, Reads
    <3> QED
      BY <2>6, <3>1, <3>2
  <2>9. SetupIsOfThisWallet'
    BY <2>3 DEF SetupIsOfThisWallet
  <2>10. /\ offered' \in [Chats -> SUBSET Keyboards]
         /\ \A d \in Chats : "limits" \in offered'[d] => verified' # {}
         /\ created' \subseteq Wallets /\ shown' \subseteq Wallets /\ verified' \subseteq Wallets
    BY <1>2 DEF SetupInv, SetupTypes, OfThisWallet
  <2> HIDE DEF made_w, phrase
  <2>11. Told(t)
    BY <2>6, <2>8, SavesAreTold DEF Told
  <2>12. Turn(t)
    BY <2>8, <2>11 DEF Turn
  <2> QED
    BY <2>1, <2>4, <2>7, <2>8, <2>9, <2>10, <2>12, HandlerKeeps
<1> QED
  BY <1>1, <1>2, Zenon DEF CreatesWallet

LEMMA CreationKeeps ==
  ASSUME SetupInv, NEW t \in Slots, HashesPassphrase(t) \/ CreatesWithHash(t)
  PROVE  SetupInv' /\ Turn(t)
<1> DEFINE c == tasks[t].chat
<1>0. UNCHANGED <<offered, shown, dropped, verified, announced>>
  BY DEF HashesPassphrase, CreatesWithHash
<1>1. CASE HashesPassphrase(t)
  <2>1. Arrives(t, "hashes")
    BY <1>1 DEF HashesPassphrase
  <2>2. FilesMove(t) /\ tasks[t].step = "hashes" /\ c \in Chats
    BY <2>1, FilesMoveIs, TaskMeans DEF Steps
  <2>3. CASE HasSession(c)
    <3> DEFINE s == [sessions[c] EXCEPT !.hashed = TRUE, !.opens = FALSE, !.idle = FALSE]
               k == Continues(t, "creates")
    <3>1. /\ sessions' = [sessions EXCEPT ![c].hashed = TRUE, ![c].opens = FALSE,
                                          ![c].idle = FALSE]
          /\ SavesOver(t, k, {c}) /\ UNCHANGED <<keyVars, created>>
      BY <1>1, <2>3 DEF HashesPassphrase
    <3>2. sessions' = [sessions EXCEPT ![c] = s]
      BY <2>2, <3>1, SessionsMeans
    <3>3. s \in Session /\ SessionOK(s, disk, verified)
      <4>1. sessions[c] \in Session /\ SessionOK(sessions[c], disk, verified)
        BY <2>2, SessionsMeans
      <4>2. s \in Session
        BY <4>1 DEF Session
      <4>3. s.phrase = sessions[c].phrase /\ s.state = sessions[c].state
        BY <4>1 DEF Session
      <4> QED
        BY <4>1, <4>2, <4>3 DEF SessionOK
    <3>4. SessionsFine(sessions', disk, verified)
      BY <2>2, <3>2, <3>3, SessionPut
    <3>5. Good(t, k)
      <4>1. /\ k \in Task /\ k.step = "creates" /\ k.chat = c /\ k.snap = tasks[t].snap
            /\ k.wallet = tasks[t].wallet /\ k.origin = tasks[t].origin
            /\ k.shows = tasks[t].shows
        BY TaskMeans, ContinuesReads DEF Steps
      <4>2. TaskOK(tasks[t], disk, verified)
        BY TaskMeans
      <4> HIDE DEF k
      <4> QED
        BY <2>2, <4>1, <4>2 DEF Good, TaskOK, KeepsPhrase, Held
    <3>6. PlainStep(t)
      <4>1. Told(t)
        BY <3>1, <3>5, SavesAreTold DEF Good
      <4> QED
        BY <2>2, <3>1, <3>4, <3>5, <4>1 DEF PlainStep, Puts
    <3> QED
      BY <1>0, <3>1, <3>6, SameKeystore, PlainStepKeeps, PlainIsTurn DEF SetupInv
  <2>4. CASE ~HasSession(c)
    <3>1. CreatesWallet(t, c, NoSession)
      BY <1>1, <2>4 DEF HashesPassphrase
    <3> QED
      BY <1>0, <2>2, <2>4, <3>1, SessionsMeans, CreatesWalletKeeps
  <2> QED
    BY <2>3, <2>4
<1>2. CASE CreatesWithHash(t)
  <2>1. Arrives(t, "creates") /\ CreatesWallet(t, c, sessions[c])
    BY <1>2 DEF CreatesWithHash
  <2>2. FilesMove(t) /\ tasks[t].step = "creates" /\ c \in Chats
    BY <2>1, FilesMoveIs, TaskMeans DEF Steps
  <2> QED
    BY <1>0, <2>1, <2>2, SessionsMeans, CreatesWalletKeeps
<1> QED
  BY <1>1, <1>2

-----------------------------------------------------------------------------
(* An answer is judged: right, and the phrase is verified, or wrong.        *)
LEMMA JudgesKeeps ==
  ASSUME SetupInv, NEW t \in Slots, FilesMove(t), Quiet(t), NEW c \in Chats,
         tasks[t].wallet # NoWallet, NEW session \in Session, NEW total,
         session = sessions[c] \/ (session = NoSession /\ ~HasSession(c)),
         Judges(t, c, session, total),
         UNCHANGED <<keyVars, offered, created, shown, dropped, announced>>
  PROVE  SetupInv' /\ Turn(t)
<1>1. OneKeystore' /\ disk' = disk
  BY SameKeystore DEF SetupInv
<1>2. tasks[t].wallet = disk /\ disk \in Wallets
  BY TaskMeans, OneKeystoreMeans DEF SetupInv
<1>3. CASE Clears(t, c, Handler(c, "givesUp")) /\ UNCHANGED <<guesses, verified>>
  <2>1. PlainStep(t)
    BY <1>3, HandlersGood, ClearsPlain
  <2> QED
    BY <1>1, <1>3, <2>1, PlainStepKeeps, PlainIsTurn
<1>4. CASE /\ verified' = verified \cup {tasks[t].wallet}
           /\ Updates(t, c, [session EXCEPT !.phrase = NoWallet, !.opens = FALSE],
                      Handler(c, "unseals"), Answer(c, "limits"))
  <2> DEFINE s == [[session EXCEPT !.phrase = NoWallet, !.opens = FALSE] EXCEPT !.idle = FALSE]
  <2>1. verified' = verified \cup {disk} /\ verified' # {}
    BY <1>2, <1>4
  <2>2. \/ /\ sessions' = [sessions EXCEPT ![c] = s] /\ session = sessions[c]
           /\ SavesOver(t, Handler(c, "unseals"), {})
        \/ sessions' = sessions /\ Becomes(t, Answer(c, "limits"))
    BY <1>4 DEF Updates, Saves
  <2>3. session = sessions[c] => s \in Session /\ SessionOK(s, disk, verified)
    BY SessionsMeans DEF Session, SessionOK
  <2> HIDE DEF s
  <2>4. SessionsFine(sessions', disk', verified')
    <3>1. SessionsFine(sessions', disk, verified)
      BY <2>2, <2>3, SessionPut DEF SetupInv, OfThisWallet
    <3> QED
      BY <1>1, <2>1, <3>1, FineGrows
  <2>5. PICK k : k \in Task /\ Puts(t, k) /\ TaskOK(k, disk', verified') /\ Told(t)
    <3>1. Reads(Handler(c, "unseals"), "unseals", c, NoWallet, "", "nothing")
      BY HandlerReads DEF Steps
    <3>2. Reads(Answer(c, "limits"), "replies", c, NoWallet, "", "limits")
      BY AnswerReads DEF Keyboards
    <3>3. TaskOK(Handler(c, "unseals"), disk', verified') /\ TaskOK(Answer(c, "limits"), disk', verified')
      BY <2>1, <3>1, <3>2 DEF Reads, TaskOK, FileOK
    <3>4. Told(t)
      BY <2>2, <3>1, SavesAreTold DEF Told, Reads
    <3> QED
      BY <2>2, <3>1, <3>2, <3>3, <3>4 DEF Puts, Reads
  <2>6. SetupIsOfThisWallet'
    BY <1>1, <2>1 DEF SetupInv, OfThisWallet, SetupIsOfThisWallet
  <2>7. /\ offered' \in [Chats -> SUBSET Keyboards]
        /\ created' \subseteq Wallets /\ shown' \subseteq Wallets /\ verified' \subseteq Wallets
    BY <1>2, <2>1 DEF SetupInv, SetupTypes
  <2>8. ASSUME NEW w \in created' \ shown', disk' = w
        PROVE  w \in created \ shown /\ disk = w /\ ~Carries(t, w)
    BY <1>1, <1>2, <2>8, WalletsAssumption DEF Carries, Quiet
  <2>9. Turn(t)
    BY <2>5 DEF Turn
  <2> QED
    BY <1>1, <2>1, <2>4, <2>5, <2>6, <2>7, <2>8, <2>9, HandlerKeeps
<1>5. CASE /\ UNCHANGED verified
           /\ Updates(t, c, [session EXCEPT !.round = OneMore(@, RoundLimit)],
                      [Handler(c, "counts") EXCEPT !.wallet = tasks[t].wallet,
                                                   !.count = OneMore(session.round, RoundLimit)],
                      Answer(c, "failed"))
  <2> DEFINE s == [session EXCEPT !.round = OneMore(@, RoundLimit)]
             k == [Handler(c, "counts") EXCEPT !.wallet = tasks[t].wallet,
                                               !.count = OneMore(session.round, RoundLimit)]
  <2>1. OneMore(session.round, RoundLimit) \in Nat
    BY DEF OneMore, Session
  <2>2. HasSession(c) => s \in Session /\ SessionOK(s, disk, verified)
    <3> SUFFICES ASSUME HasSession(c) PROVE s \in Session /\ SessionOK(s, disk, verified)
      OBVIOUS
    <3>1. session \in Session /\ SessionOK(session, disk, verified)
      BY SessionsMeans
    <3>2. s = [session EXCEPT !.round = OneMore(session.round, RoundLimit)]
      OBVIOUS
    <3>3. s \in Session /\ s.phrase = session.phrase /\ s.state = session.state
      BY <2>1, <3>1, <3>2 DEF Session
    <3> QED
      BY <3>1, <3>3 DEF SessionOK
  <2>3. Good(t, k)
    <3>1. Reads(Handler(c, "counts"), "counts", c, NoWallet, "", "nothing")
      BY HandlerReads DEF Steps
    <3>2. Reads(k, "counts", c, disk, "", "nothing")
      BY <1>2, <2>1, <3>1 DEF Reads, Task
    <3>3. Fits(t, "counts", disk, "", "nothing")
      BY DEF Fits, Held
    <3> HIDE DEF k
    <3> QED
      BY <3>2, <3>3, ReadsGood, Zenon
  <2>4. Good(t, Answer(c, "failed")) /\ Answer(c, "failed").awaits = ""
    BY HandlersGood
  <2>5. Updates(t, c, s, k, Answer(c, "failed"))
    BY <1>5
  <2> HIDE DEF s, k
  <2>6. PlainStep(t)
    BY <2>2, <2>3, <2>4, <2>5, UpdatesPlain
  <2> QED
    BY <1>1, <1>5, <2>6, PlainStepKeeps, PlainIsTurn
<1> QED
  BY <1>3, <1>4, <1>5, Zenon DEF Judges

LEMMA ChecksKeeps ==
  ASSUME SetupInv, NEW t \in Slots, ChecksWords(t) \/ JudgesWords(t)
  PROVE  SetupInv' /\ Turn(t)
<1> DEFINE c == tasks[t].chat
<1>0. UNCHANGED <<keyVars, offered, created, shown, dropped, announced>>
  BY DEF ChecksWords, JudgesWords
<1>1. tasks[t] \in Task /\ TaskOK(tasks[t], disk, verified)
  BY TaskMeans
<1>2. CASE ChecksWords(t)
  <2>1. Arrives(t, "checks")
    BY <1>2 DEF ChecksWords
  <2>2. FilesMove(t) /\ tasks[t].step = "checks" /\ c \in Chats /\ Quiet(t)
    BY <2>1, FilesMoveIs, TaskMeans DEF Steps, Held
  <2>3. CASE Becomes(t, Free) /\ UNCHANGED <<sessions, guesses, verified>>
    <3>1. PlainStep(t)
      BY <2>2, <2>3, HandlersGood, BecomesPlain
    <3> QED
      BY <1>0, <2>3, <3>1, SameKeystore, PlainStepKeeps, PlainIsTurn DEF SetupInv
  <2>4. CASE /\ tasks[t].wallet # NoWallet
             /\ sessions' = [sessions EXCEPT ![c].total = OneMore(@, TotalLimit), ![c].idle = FALSE]
             /\ Saves(t, [Continues(t, "judges") EXCEPT
                             !.count = OneMore(sessions[c].total, TotalLimit)])
             /\ UNCHANGED <<guesses, verified>>
    <3> DEFINE n == OneMore(sessions[c].total, TotalLimit)
               s == [sessions[c] EXCEPT !.total = n, !.idle = FALSE]
               k == [Continues(t, "judges") EXCEPT !.count = n]
    <3>1. sessions[c] \in Session /\ SessionOK(sessions[c], disk, verified)
          /\ sessions \in [Chats -> Session]
      BY <2>2, SessionsMeans
    <3>2. n \in Nat
      BY <3>1 DEF OneMore, Session
    <3>3. s \in Session /\ s.phrase = sessions[c].phrase /\ s.state = sessions[c].state
      <4> HIDE DEF n
      <4> QED
        BY <3>1, <3>2 DEF Session
    <3>4. sessions' = [sessions EXCEPT ![c] = s]
      BY <2>2, <2>4, <3>1
    <3>5. SessionsFine(sessions', disk, verified)
      <4>1. SessionOK(s, disk, verified)
        BY <3>1, <3>3 DEF SessionOK
      <4> HIDE DEF s
      <4> QED
        BY <2>2, <3>3, <3>4, <4>1, SessionPut
    <3>6. Good(t, k)
      <4> DEFINE l == Continues(t, "judges")
      <4>1. /\ l \in Task /\ l.step = "judges" /\ l.chat = c /\ l.snap = tasks[t].snap
            /\ l.wallet = tasks[t].wallet /\ l.origin = tasks[t].origin /\ l.shows = tasks[t].shows
        BY <1>1, ContinuesReads DEF Steps
      <4> HIDE DEF l, n
      <4>2. k = [l EXCEPT !.count = n]
        BY DEF l
      <4>3. /\ k \in Task /\ k.step = "judges" /\ k.chat = c /\ k.snap = tasks[t].snap
            /\ k.wallet = tasks[t].wallet /\ k.origin = tasks[t].origin /\ k.shows = tasks[t].shows
        BY <3>2, <4>1, <4>2 DEF Task
      <4> HIDE DEF k
      <4> QED
        BY <1>1, <2>2, <2>4, <4>3 DEF Good, TaskOK, KeepsPhrase, Held
    <3>7. SavesOver(t, k, {})
      BY <2>4 DEF Saves
    <3> HIDE DEF k
    <3>8. PlainStep(t)
      <4>1. Told(t)
        BY <3>6, <3>7, SavesAreTold DEF Good
      <4> QED
        BY <2>2, <3>5, <3>6, <3>7, <4>1 DEF PlainStep, Puts
    <3> QED
      BY <1>0, <2>4, <3>8, SameKeystore, PlainStepKeeps, PlainIsTurn DEF SetupInv
  <2>5. CASE tasks[t].wallet # NoWallet /\ ~HasSession(c) /\ Judges(t, c, NoSession, 1)
    <3>1. NoSession \in Session
      BY <2>2, SessionsMeans
    <3> QED
      BY <1>0, <2>2, <2>5, <3>1, JudgesKeeps
  <2> QED
    BY <1>2, <2>3, <2>4, <2>5, Zenon DEF ChecksWords
<1>3. CASE JudgesWords(t)
  <2>1. Arrives(t, "judges") /\ Judges(t, c, sessions[c], tasks[t].count)
    BY <1>3 DEF JudgesWords
  <2>2. FilesMove(t) /\ tasks[t].step = "judges" /\ c \in Chats /\ Quiet(t)
    BY <2>1, FilesMoveIs, TaskMeans DEF Steps, Held
  <2>3. tasks[t].wallet # NoWallet /\ sessions[c] \in Session
    BY <1>1, <2>2, SessionsMeans DEF TaskOK
  <2> QED
    BY <1>0, <2>1, <2>2, <2>3, JudgesKeeps
<1> QED
  BY <1>2, <1>3

LEMMA CompletesKeeps ==
  ASSUME SetupInv, NEW t \in Slots, Completes(t)
  PROVE  SetupInv' /\ Turn(t)
<1> DEFINE c == tasks[t].chat
           closes == [Handler(c, "closes") EXCEPT !.wallet = Address]
           announces == [Handler(c, "announces") EXCEPT !.wallet = Address]
<1>1. /\ Arrives(t, "completes") /\ AddressIsRead
      /\ UNCHANGED <<disk, key, made, deleting, offered, created, shown, dropped, verified,
                     announced>>
      /\ \/ UNCHANGED sessions /\ Becomes(t, Free)
         \/ /\ Address # NoWallet
            /\ sessions' = [sessions EXCEPT ![c].state = "complete"] /\ Saves(t, closes)
         \/ Address # NoWallet /\ Clears(t, c, announces)
  BY DEF Completes, pastVars
<1>2. FilesMove(t) /\ tasks[t].step = "completes" /\ c \in Chats /\ Quiet(t)
  BY <1>1, FilesMoveIs, TaskMeans DEF Steps, Held
<1>3. verified # {} /\ Address \in {disk, NoWallet} /\ Address \in Wallets \cup {NoWallet}
  BY <1>2, TaskMeans, OneKeystoreMeans DEF TaskOK, SetupInv
<1>4. OneKeystore'
  <2>1. address' = Address /\ cached' \in {cached, Loaded}
    BY <1>1 DEF AddressIsRead
  <2>2. Loaded \in {disk, NoWallet} /\ Address \in {disk, NoWallet}
        /\ disk \in Wallets \cup {NoWallet}
    BY OneKeystoreMeans DEF SetupInv
  <2> QED
    BY <1>1, <2>1, <2>2 DEF SetupInv, OneKeystore, KeysTypeOK
<1>5. PlainStep(t)
  <2>1. CASE UNCHANGED sessions /\ Becomes(t, Free)
    BY <1>2, <2>1, HandlersGood, BecomesPlain
  <2>2. CASE /\ Address # NoWallet
             /\ sessions' = [sessions EXCEPT ![c].state = "complete"] /\ Saves(t, closes)
    <3>1. Reads(Handler(c, "closes"), "closes", c, NoWallet, "", "nothing")
      BY <1>2, HandlerReads DEF Steps
    <3>2. Reads(closes, "closes", c, Address, "", "nothing")
      BY <1>3, <3>1, WalletRead
    <3>3. Fits(t, "closes", Address, "", "nothing")
      BY <1>2, <1>3, <2>2 DEF Fits, Held
    <3> HIDE DEF closes
    <3>4. Good(t, closes)
      BY <1>2, <3>2, <3>3, ReadsGood, Zenon
    <3>5. sessions' = [sessions EXCEPT ![c] = [sessions[c] EXCEPT !.state = "complete"]]
      BY <1>2, <2>2, SessionsMeans
    <3>6. [sessions[c] EXCEPT !.state = "complete"] \in Session
          /\ SessionOK([sessions[c] EXCEPT !.state = "complete"], disk, verified)
      BY <1>2, SessionChanges DEF States
    <3>7. SessionsFine(sessions', disk, verified)
      BY <1>2, <3>5, <3>6, SessionPut
    <3>8. Told(t)
      BY <2>2, <3>4, SavesAreTold DEF Good, Saves
    <3> QED
      BY <1>2, <2>2, <3>4, <3>7, <3>8 DEF PlainStep, Puts, Saves
  <2>3. CASE Address # NoWallet /\ Clears(t, c, announces)
    <3>1. Reads(Handler(c, "announces"), "announces", c, NoWallet, "", "nothing")
      BY <1>2, HandlerReads DEF Steps
    <3>2. Reads(announces, "announces", c, Address, "", "nothing")
      BY <1>3, <3>1, WalletRead
    <3>3. Fits(t, "announces", Address, "", "nothing")
      BY <1>2, <1>3, <2>3 DEF Fits, Held
    <3> HIDE DEF announces
    <3>4. Good(t, announces)
      BY <1>2, <3>2, <3>3, ReadsGood, Zenon
    <3> QED
      BY <1>2, <2>3, <3>4, ClearsPlain
  <2> HIDE DEF closes, announces
  <2> QED
    BY <1>1, <2>1, <2>2, <2>3
<1> QED
  BY <1>1, <1>4, <1>5, PlainStepKeeps, PlainIsTurn

LEMMA AnnouncesWalletKeeps ==
  ASSUME SetupInv, NEW t \in Slots, AnnouncesWallet(t)
  PROVE  SetupInv' /\ Turn(t)
<1>1. /\ Arrives(t, "announces") /\ Becomes(t, Free)
      /\ announced' = announced \cup {tasks[t].wallet}
      /\ UNCHANGED <<keyVars, sessions, offered, created, shown, dropped, verified>>
  BY DEF AnnouncesWallet
<1>2. FilesMove(t) /\ tasks[t].step = "announces" /\ Quiet(t)
  BY <1>1, FilesMoveIs, TaskMeans DEF Steps, Held
<1>3. OneKeystore' /\ disk' = disk
  BY <1>1, SameKeystore DEF SetupInv
<1>4. tasks[t].wallet \in verified
  <2>1. tasks[t].wallet = disk /\ verified # {}
    BY <1>2, TaskMeans DEF TaskOK
  <2> QED
    BY <2>1 DEF SetupInv, OfThisWallet, SetupIsOfThisWallet
<1>5. SetupIsOfThisWallet'
  BY <1>1, <1>3, <1>4 DEF SetupInv, OfThisWallet, SetupIsOfThisWallet
<1>6. /\ Free \in Task /\ Puts(t, Free) /\ TaskOK(Free, disk', verified')
      /\ SessionsFine(sessions', disk', verified')
  BY <1>1, <1>3, FreeGood DEF Puts, TaskOK, FileOK, SetupInv, OfThisWallet
<1>7. /\ offered' \in [Chats -> SUBSET Keyboards]
      /\ \A c \in Chats : "limits" \in offered'[c] => verified' # {}
      /\ created' \subseteq Wallets /\ shown' \subseteq Wallets /\ verified' \subseteq Wallets
  BY <1>1 DEF SetupInv, SetupTypes, OfThisWallet
<1>8. ASSUME NEW w \in created' \ shown', disk' = w
      PROVE  w \in created \ shown /\ disk = w /\ ~Carries(t, w)
  <2>1. w \in Wallets /\ w # NoWallet
    BY <1>7, WalletsAssumption
  <2> QED
    BY <1>1, <1>2, <1>3, <1>8, <2>1 DEF Carries, Quiet
<1> QED
  BY <1>1, <1>2, <1>3, <1>5, <1>6, <1>7, <1>8, HandlerKeeps DEF Turn, Told

-----------------------------------------------------------------------------
LEMMA SetupInvInit == SetupInit => SetupInv
<1> SUFFICES ASSUME SetupInit PROVE SetupInv
  OBVIOUS
<1>1. OneKeystore
  BY WalletsAssumption DEF SetupInit, KeysInit, OneKeystore, KeysTypeOK
<1>2. SetupTypes
  BY FreeGood DEF SetupInit, SetupTypes
<1>3. SetupIsOfThisWallet
  BY DEF SetupInit, SetupIsOfThisWallet
<1>4. SessionsFine(sessions, disk, verified)
  BY DEF SetupInit, KeysInit, NoSessions, NoSession, SessionsFine, Session, SessionOK, States
<1>5. OfThisWallet
  BY <1>3, <1>4, FreeGood DEF SetupInit, OfThisWallet, FileOK, TaskOK
<1>6. SavesInTurn /\ PhraseLossHasCause
  BY FreeGood DEF SetupInit, SavesInTurn, SaveUnderWay, PhraseLossHasCause
<1> QED
  BY <1>1, <1>2, <1>5, <1>6 DEF SetupInv

LEMMA HandlerGoesOnKeeps ==
  ASSUME SetupInv, NEW t \in Slots, HandlerGoesOn(t)
  PROVE  SetupInv' /\ (Turn(t) \/ SaveMakesDirectory(t) \/ SaveWrites(t) \/ SaveFails(t))
<1>1. GoesOnPlainly(t) => SetupInv' /\ Turn(t)
  BY GoesOnPlainlyIs, PlainKeeps, PlainIsTurn
<1> QED
  BY <1>1, SaveMakesDirectoryKeeps, SaveWritesKeeps, SaveFailsKeeps, AnswerIsShownKeeps,
     CreationKeeps, ChecksKeeps, CompletesKeeps, AnnouncesWalletKeeps, Zenon
     DEF HandlerGoesOn, GoesOnPlainly

LEMMA SetupNextKeepsInv == SetupInv /\ [SetupNext]_<<keyVars, setupVars>> => SetupInv'
<1> SUFFICES ASSUME SetupInv, [SetupNext]_<<keyVars, setupVars>> PROVE SetupInv'
  OBVIOUS
<1>1. ASSUME NEW t \in Slots, NEW c \in Chats, Presses(t, c) \/ Texts(t, c) PROVE SetupInv'
  BY <1>1, PressesPlain, TextsPlain, PlainKeeps
<1>2. ASSUME NEW t \in Slots, HandlerGoesOn(t) \/ CleansUp(t) PROVE SetupInv'
  BY <1>2, HandlerGoesOnKeeps, CleansUpKeeps
<1>3. ASSUME NEW c \in Chats, Idles(c) \/ PassphraseExpires(c) PROVE SetupInv'
  BY <1>3, IdlesKeeps, PassphraseExpiresKeeps
<1>4. CASE UNCHANGED <<keyVars, setupVars>>
  BY <1>4, SessionsKeep DEF setupVars, SetupInv, OfThisWallet
<1> QED
  BY <1>1, <1>2, <1>3, <1>4, CrashKeeps, Zenon DEF SetupNext

LEMMA SetupInvHolds == SetupSpec => []SetupInv
  BY SetupInvInit, SetupNextKeepsInv, PTL DEF SetupSpec

(* The wallet of the keystore is the only one ever verified or announced as *)
(* ready, and it is verified before it is announced, whatever old keyboard  *)
(* is pressed, whichever handlers interleave and whenever the process ends. *)
THEOREM SetupIsOfThisWalletHolds == SetupSpec => []SetupIsOfThisWallet
<1>1. SetupInv => SetupIsOfThisWallet
  BY DEF SetupInv, OfThisWallet
<1> QED
  BY <1>1, SetupInvHolds, PTL

(* A recovery phrase is lost before the owner saw it only to a crash under  *)
(* the handler that made the wallet, or to saves that met on one temporary  *)
(* file.                                                                   *)
THEOREM PhraseLossHasCauseHolds == SetupSpec => []PhraseLossHasCause
<1>1. SetupInv => PhraseLossHasCause
  BY DEF SetupInv
<1> QED
  BY <1>1, SetupInvHolds, PTL

-----------------------------------------------------------------------------
(* The file and the sessions.  Until two saves overlap, the file holds the  *)
(* sessions, or one save is on its way with them.                           *)
InFile(f) == IF f = NoFile THEN NoSessions ELSE f

Awake(f) == f # NoFile => \A c \in Chats : ~f[c].idle

SavesCarry ==
    /\ Awake(file)
    /\ (\A t \in Slots : ~SaveUnderWay(t)) => InFile(file) = Snapshot
    /\ \A t \in Slots : tasks[t].awaits = "write" => tasks[t].snap = Snapshot
    /\ \A t \in Slots : tasks[t].awaits = "rename" => tempFile = Snapshot

FilesInv == overlapped \/ SavesCarry

LEMMA SnapshotIsAwake ==
  ASSUME SetupInv
  PROVE  Awake(Snapshot)
  BY SessionsMeans DEF Awake, Snapshot, Session

(* A turn.                                                                  *)
LEMMA TurnKeepsFiles ==
  ASSUME SetupInv, SetupInv', FilesInv, NEW t \in Slots, Turn(t)
  PROVE  FilesInv'
<1> SUFFICES ASSUME ~overlapped' PROVE SavesCarry'
  BY DEF FilesInv
<1>1. PICK k \in Task : Puts(t, k)
  BY DEF Turn
<1>2. /\ \A u \in Slots \ {t} : tasks'[u].snap = tasks[u].snap /\ tasks'[u].awaits = tasks[u].awaits
      /\ tasks'[t].awaits \in {"", "other", "mkdir"}
      /\ ~overlapped
      /\ SaveUnderWay(t)' => \A u \in Slots \ {t} : ~SaveUnderWay(u)
  BY <1>1, PutsMeans DEF SetupInv, SetupTypes, Same
<1>3. SavesInTurn /\ SavesCarry /\ SavesInTurn'
  BY <1>2 DEF SetupInv, FilesInv
<1>4. FilesMove(t)
  BY DEF Turn
<1>5. Awake(file')
  BY <1>3, <1>4, SnapshotIsAwake DEF FilesMove, SavesCarry
<1>6. CASE SaveUnderWay(t)'
  <2>1. \A u \in Slots : tasks'[u].awaits \notin {"write", "rename"}
    BY <1>2, <1>6 DEF SaveUnderWay
  <2> QED
    BY <1>5, <1>6, <2>1 DEF SavesCarry, Awake
<1>7. CASE ~SaveUnderWay(t)'
  <2>1. Snapshot' = Snapshot
    BY <1>7 DEF Turn, Told, Snapshot
  <2>2. ASSUME NEW u \in Slots, SaveUnderWay(u)'
        PROVE  u # t /\ SaveUnderWay(u) /\ UNCHANGED <<file, tempFile>>
    <3>1. u # t /\ SaveUnderWay(u)
      BY <1>2, <1>7, <2>2 DEF SaveUnderWay
    <3>2. ~SaveUnderWay(t)
      BY <1>3, <3>1 DEF SavesInTurn
    <3> QED
      BY <1>4, <3>1, <3>2 DEF FilesMove, SaveUnderWay
  <2>3. ASSUME \A u \in Slots : ~SaveUnderWay(u)' PROVE InFile(file') = Snapshot
    <3>1. CASE SaveUnderWay(t)
      <4>1. \A u \in Slots : SaveUnderWay(u) => u = t
        BY <1>3, <3>1 DEF SavesInTurn
      <4>2. tasks[t].awaits = "rename" /\ file' = tempFile
        BY <1>2, <1>4, <3>1 DEF FilesMove, SaveUnderWay
      <4> QED
        BY <1>3, <4>2, SnapshotFine DEF SavesCarry, InFile
    <3>2. CASE ~SaveUnderWay(t)
      <4>1. \A u \in Slots : ~SaveUnderWay(u)
        BY <1>2, <2>3, <3>2 DEF SaveUnderWay
      <4>2. file' = file
        BY <1>4, <3>2 DEF FilesMove, SaveUnderWay
      <4> QED
        BY <1>3, <4>1, <4>2 DEF SavesCarry
    <3> QED
      BY <3>1, <3>2
  <2>4. InFile(file)' = InFile(file')
    BY DEF InFile
  <2> QED
    BY <1>2, <1>3, <1>5, <2>1, <2>2, <2>3, <2>4 DEF SavesCarry, SaveUnderWay, Awake
<1> QED
  BY <1>6, <1>7

(* The steps of a save.                                                     *)
LEMMA SaveKeepsFiles ==
  ASSUME SetupInv, SetupInv', FilesInv, NEW t \in Slots,
         SaveMakesDirectory(t) \/ SaveWrites(t) \/ SaveFails(t)
  PROVE  FilesInv'
<1> SUFFICES ASSUME ~overlapped' PROVE SavesCarry'
  BY DEF FilesInv
<1>1. /\ tasks \in [Slots -> Task] /\ tasks[t] \in Task /\ NoFile # Snapshot
  BY SnapshotFine DEF SetupInv, SetupTypes
<1>2. CASE SaveFails(t)
  <2>1. tasks[t].awaits = "rename" /\ tempFile = NoFile
    BY <1>2 DEF SaveFails
  <2>2. overlapped
    BY <2>1 DEF SetupInv, SavesInTurn
  <2>3. overlapped'
    BY <1>2, <2>2 DEF SaveFails, Clears, SavesOver, Becomes
  <2> QED
    BY <2>3
<1>3. CASE SaveMakesDirectory(t)
  <2> DEFINE k == [tasks[t] EXCEPT !.awaits = "write", !.snap = Snapshot]
  <2>1. /\ tasks' = [tasks EXCEPT ![t] = k] /\ UNCHANGED <<sessions, file, tempFile, overlapped>>
        /\ tasks[t].awaits = "mkdir"
    BY <1>1, <1>3 DEF SaveMakesDirectory
  <2>2. k.awaits = "write" /\ k.snap = Snapshot
    BY <1>1 DEF Task
  <2> HIDE DEF k
  <2>3. /\ tasks'[t] = k /\ \A u \in Slots \ {t} : tasks'[u] = tasks[u]
        /\ SavesCarry /\ Snapshot' = Snapshot
    BY <1>1, <2>1 DEF FilesInv, Snapshot
  <2>4. SaveUnderWay(t)'
    BY <2>2, <2>3 DEF SaveUnderWay
  <2> QED
    BY <2>1, <2>2, <2>3, <2>4 DEF SavesCarry, Awake
<1>4. CASE SaveWrites(t)
  <2> DEFINE k == [tasks[t] EXCEPT !.awaits = "rename", !.snap = NoFile]
  <2>1. /\ tasks' = [tasks EXCEPT ![t] = k] /\ UNCHANGED <<sessions, file, overlapped>>
        /\ tasks[t].awaits = "write" /\ tempFile' = tasks[t].snap
    BY <1>1, <1>4 DEF SaveWrites
  <2>2. k.awaits = "rename"
    BY <1>1 DEF Task
  <2> HIDE DEF k
  <2>3. /\ tasks'[t] = k /\ \A u \in Slots \ {t} : tasks'[u] = tasks[u]
        /\ SavesCarry /\ SavesInTurn /\ Snapshot' = Snapshot
    BY <1>1, <2>1 DEF FilesInv, Snapshot, SetupInv
  <2>4. SaveUnderWay(t)' /\ SaveUnderWay(t)
    BY <2>1, <2>2, <2>3 DEF SaveUnderWay
  <2>5. tempFile' = Snapshot
    BY <2>1, <2>3 DEF SavesCarry
  <2>6. \A u \in Slots \ {t} : ~SaveUnderWay(u)
    BY <2>3, <2>4 DEF SavesInTurn
  <2>7. \A u \in Slots \ {t} : ~SaveUnderWay(u)'
    BY <2>3, <2>6 DEF SaveUnderWay
  <2>8. \A u \in Slots : tasks'[u].awaits = "write" => u # t /\ SaveUnderWay(u)'
    BY <2>2, <2>3 DEF SaveUnderWay
  <2> QED
    BY <2>1, <2>2, <2>3, <2>4, <2>5, <2>7, <2>8 DEF SavesCarry, Awake
<1> QED
  BY <1>2, <1>3, <1>4

(* A crash: the sessions are read back from the file.                       *)
LEMMA CrashKeepsFiles ==
  ASSUME SetupInv, SetupInv', FilesInv, Crash
  PROVE  FilesInv'
<1> SUFFICES ASSUME ~overlapped' PROVE SavesCarry'
  BY DEF FilesInv
<1>1. /\ sessions' = InFile(file) /\ tasks' = [t \in Slots |-> Free]
      /\ UNCHANGED <<file, tempFile, overlapped>>
  BY DEF Crash, InFile
<1>2. SavesCarry
  BY <1>1 DEF FilesInv
<1>3. \A t \in Slots : tasks'[t].awaits = ""
  BY <1>1, FreeGood
<1>4. sessions' \in [Chats -> Session]
  BY DEF SetupInv, OfThisWallet, SessionsFine
<1>5. \A c \in Chats : ~sessions'[c].idle
  BY <1>1, <1>2 DEF SavesCarry, Awake, InFile, NoSessions, NoSession
<1>6. \A c \in Chats : [sessions'[c] EXCEPT !.idle = FALSE] = sessions'[c]
  BY <1>4, <1>5 DEF Session
<1>7. Snapshot' = sessions'
  BY <1>4, <1>6 DEF Snapshot
<1> QED
  BY <1>1, <1>2, <1>3, <1>7 DEF SavesCarry, Awake, InFile

(* What leaves the files alone, but for the idleness of a session.          *)
LEMMA StillKeepsFiles ==
  ASSUME SetupInv, FilesInv, Snapshot' = Snapshot, UNCHANGED <<file, tempFile, tasks, overlapped>>
  PROVE  FilesInv'
  BY DEF FilesInv, SavesCarry, Awake, InFile, SaveUnderWay

LEMMA IdleIsNotSaved ==
  ASSUME SetupInv, NEW c \in Chats, Idles(c) \/ PassphraseExpires(c)
  PROVE  Snapshot' = Snapshot
<1>1. sessions' = sessions \/ sessions' = [sessions EXCEPT ![c].idle = TRUE]
  BY DEF Idles, PassphraseExpires
<1>2. sessions \in [Chats -> Session]
  BY SessionsMeans
<1>3. \A d \in Chats : [sessions'[d] EXCEPT !.idle = FALSE] = [sessions[d] EXCEPT !.idle = FALSE]
  <2> TAKE d \in Chats
  <2>1. sessions'[d] = sessions[d] \/ sessions'[d] = [sessions[d] EXCEPT !.idle = TRUE]
    BY <1>1, <1>2
  <2>2. sessions[d] \in Session
    BY <1>2
  <2> QED
    BY <2>1, <2>2 DEF Session
<1> QED
  BY <1>3 DEF Snapshot

(* Every step.                                                              *)
LEMMA SetupNextKeepsFiles ==
  ASSUME SetupInv, FilesInv, [SetupNext]_<<keyVars, setupVars>>
  PROVE  FilesInv'
<1>0. SetupInv'
  BY SetupNextKeepsInv
<1>1. ASSUME NEW t \in Slots, NEW c \in Chats, Presses(t, c) \/ Texts(t, c) PROVE FilesInv'
  BY <1>0, <1>1, PressesPlain, TextsPlain, PlainIsTurn, TurnKeepsFiles
<1>2. ASSUME NEW t \in Slots, HandlerGoesOn(t) PROVE FilesInv'
  BY <1>0, <1>2, HandlerGoesOnKeeps, TurnKeepsFiles, SaveKeepsFiles
<1>3. ASSUME NEW t \in Slots, CleansUp(t) PROVE FilesInv'
  <2>1. CASE Turn(t)
    BY <1>0, <2>1, TurnKeepsFiles
  <2>2. CASE UNCHANGED <<file, tempFile, sessions, tasks, overlapped>>
    <3>1. Snapshot' = Snapshot
      BY <2>2 DEF Snapshot
    <3> QED
      BY <2>2, <3>1, StillKeepsFiles
  <2> QED
    BY <1>3, <2>1, <2>2, CleansUpKeeps
<1>4. ASSUME NEW c \in Chats, Idles(c) \/ PassphraseExpires(c) PROVE FilesInv'
  <2>1. UNCHANGED <<file, tempFile, tasks, overlapped>>
    BY <1>4 DEF Idles, PassphraseExpires
  <2> QED
    BY <1>4, <2>1, IdleIsNotSaved, StillKeepsFiles
<1>5. CASE UNCHANGED <<keyVars, setupVars>>
  <2>1. UNCHANGED <<sessions, file, tempFile, tasks, overlapped>>
    BY <1>5 DEF setupVars
  <2>2. Snapshot' = Snapshot
    BY <2>1 DEF Snapshot
  <2> QED
    BY <2>1, <2>2, StillKeepsFiles
<1>6. CASE Crash
  BY <1>0, <1>6, CrashKeepsFiles
<1> QED
  BY <1>1, <1>2, <1>3, <1>4, <1>5, <1>6, Zenon DEF SetupNext

(* Nothing was saved at first.                                              *)
LEMMA FilesInvInit ==
  SetupInit => FilesInv
<1> SUFFICES ASSUME SetupInit PROVE SavesCarry
  BY DEF FilesInv
<1>1. Snapshot = NoSessions
  <2>1. [NoSession EXCEPT !.idle = FALSE] = NoSession
    <3>1. NoSession \in Session /\ NoSession.idle = FALSE
      BY DEF NoSession, Session, States
    <3>2. \A s \in Session : s.idle = FALSE => [s EXCEPT !.idle = FALSE] = s
      BY DEF Session
    <3> HIDE DEF NoSession
    <3> QED
      BY <3>1, <3>2
  <2>2. sessions = NoSessions /\ \A c \in Chats : NoSessions[c] = NoSession
    BY DEF SetupInit, NoSessions
  <2> HIDE DEF NoSession
  <2> QED
    BY <2>1, <2>2 DEF Snapshot, NoSessions
<1>2. \A t \in Slots : tasks[t].awaits = ""
  BY FreeGood DEF SetupInit
<1> QED
  BY <1>1, <1>2 DEF SetupInit, SavesCarry, Awake, InFile

(* When no handler is under way the file holds the sessions, whatever       *)
(* handlers interleaved and crashed before, unless two saves overlapped.    *)
THEOREM FileCatchesUpHolds ==
  SetupSpec => []FileCatchesUp
<1>1. SetupInv /\ FilesInv => FileCatchesUp
  BY FreeGood DEF FilesInv, SavesCarry, FileCatchesUp, SaveUnderWay, InFile
<1>2. SetupInit => SetupInv /\ FilesInv
  BY SetupInvInit, FilesInvInit
<1>3. SetupInv /\ FilesInv /\ [SetupNext]_<<keyVars, setupVars>> => (SetupInv /\ FilesInv)'
  BY SetupNextKeepsInv, SetupNextKeepsFiles
<1> QED
  BY <1>1, <1>2, <1>3, PTL DEF SetupSpec

-----------------------------------------------------------------------------
(* The answers compared with a recovery phrase.  The count that limits them *)
(* is in the session, and the session may be dropped under the handlers     *)
(* that hold an answer, or come back from the file after a crash.  So the   *)
(* invariant bounds the answers by the count of a session that has the      *)
(* phrase, in memory or on file, and by the handlers that hold an answer    *)
(* when no session has it.                                                  *)

(* Which handlers hold an answer to compare, which of those have counted it *)
(* below the limit, and which one has a phrase to seal.                     *)
Asks(k) == k.step \in {"checks", "judges"} /\ k.wallet # NoWallet
Counts(k) == Asks(k) /\ k.step = "judges" /\ k.count < TotalLimit
Seals(k) == k.step = "seals" /\ k.wallet # NoWallet

Asking == {t \in Slots : Asks(tasks[t])}
Counted == {t \in Slots : Counts(tasks[t])}

(* Answers compared with the phrase of the wallet that is there.            *)
Guessed == IF disk \in Wallets THEN guesses[disk] ELSE 0

Phrased(f, c) == f[c].phrase # NoWallet
OnePhrase(f) == \A c, d \in Chats : Phrased(f, c) /\ Phrased(f, d) => c = d

(* What the counter of a session allows; one answer for every other handler, *)
(* again after every crash.                                                 *)
Cap(n) == IF n < TotalLimit THEN n ELSE TotalLimit - 1
Others == Cardinality(Slots) - 1
Spare == crashes * Others

InMemory ==
    /\ OnePhrase(sessions)
    /\ \A t \in Slots, c \in Chats :
          Asks(tasks[t]) /\ Phrased(sessions, c) => tasks[t].chat = c
    /\ \A c \in Chats : Phrased(sessions, c) =>
          Guessed + Cardinality(Counted) <= Cap(sessions[c].total) + Spare
    /\ (\A c \in Chats : ~Phrased(sessions, c)) =>
          Guessed + Cardinality(Asking) <= TotalLimit - 1 + Spare + Others
    /\ \A t \in Slots : Seals(tasks[t]) =>
          /\ Guessed = 0
          /\ \A c \in Chats : ~Phrased(sessions, c)
          /\ \A u \in Slots : ~Asks(tasks[u]) /\ (Seals(tasks[u]) => u = t)

(* What a crash would bring back.                                           *)
OnFile(f) ==
    /\ OnePhrase(f)
    /\ \A c \in Chats : Phrased(f, c) =>
          /\ (\E d \in Chats : Phrased(sessions, d)) => Guessed <= Cap(f[c].total) + Spare
          /\ (\A d \in Chats : ~Phrased(sessions, d)) =>
                Guessed + Cardinality(Asking) <= Cap(f[c].total) + Spare + Others

GuessTypes ==
    /\ guesses \in [Wallets -> 0 .. MaxGuesses]
    /\ crashes \in 0 .. MaxCrashes
    /\ \A w \in Wallets : w # disk => guesses[w] = 0

GuessInv ==
    /\ GuessTypes
    /\ \/ overlapped /\ crashes > 0
       \/ InMemory /\ (overlapped \/ OnFile(InFile(file)))

-----------------------------------------------------------------------------
(* Counting handlers.                                                       *)
LEMMA HandlersAreCounted ==
  ASSUME NEW A \in SUBSET Slots, NEW B \in SUBSET Slots
  PROVE  /\ Cardinality(A) \in Nat /\ Cardinality(Slots) \in Nat \ {0}
         /\ A \subseteq B => Cardinality(A) <= Cardinality(B)
         /\ \A t \in B : A \subseteq B \ {t} => Cardinality(A) + 1 <= Cardinality(B)
         /\ \A t \in Slots : A \subseteq B \cup {t} => Cardinality(A) <= Cardinality(B) + 1
<1>1. IsFiniteSet(Slots) /\ Slots # {}
  BY OnboardingAssumption
<1>2. IsFiniteSet(A) /\ IsFiniteSet(B)
  BY <1>1, FS_Subset
<1>3. /\ Cardinality(A) \in Nat /\ Cardinality(B) \in Nat /\ Cardinality(Slots) \in Nat
      /\ Cardinality(Slots) # 0
  BY <1>1, <1>2, FS_CardinalityType, FS_EmptySet
<1>4. A \subseteq B => Cardinality(A) <= Cardinality(B)
  BY <1>2, FS_Subset
<1>5. ASSUME NEW t \in B, A \subseteq B \ {t} PROVE Cardinality(A) + 1 <= Cardinality(B)
  <2>1. IsFiniteSet(B \ {t}) /\ Cardinality(B \ {t}) = Cardinality(B) - 1
    BY <1>2, FS_RemoveElement
  <2>2. Cardinality(A) <= Cardinality(B \ {t})
    BY <1>5, <2>1, FS_Subset
  <2> QED
    BY <1>3, <2>1, <2>2
<1>6. ASSUME NEW t \in Slots, A \subseteq B \cup {t} PROVE Cardinality(A) <= Cardinality(B) + 1
  <2>0. /\ IsFiniteSet(B \cup {t})
        /\ Cardinality(B \cup {t}) = IF t \in B THEN Cardinality(B) ELSE Cardinality(B) + 1
    BY <1>2, FS_AddElement
  <2>1. IsFiniteSet(B \cup {t}) /\ Cardinality(B \cup {t}) <= Cardinality(B) + 1
    BY <1>3, <2>0
  <2>2. Cardinality(A) <= Cardinality(B \cup {t}) /\ Cardinality(B \cup {t}) \in Nat
    BY <1>6, <2>1, FS_Subset, FS_CardinalityType
  <2> QED
    BY <1>3, <2>1, <2>2
<1> QED
  BY <1>3, <1>4, <1>5, <1>6

(* What a session still allows, before and after one more answer.           *)
LEMMA CapBounds ==
  ASSUME NEW n \in Nat
  PROVE  /\ Cap(n) \in Nat /\ Cap(n) <= TotalLimit - 1
         /\ OneMore(n, TotalLimit) \in Nat
         /\ Cap(n) <= Cap(OneMore(n, TotalLimit))
         /\ OneMore(n, TotalLimit) < TotalLimit => Cap(OneMore(n, TotalLimit)) = Cap(n) + 1
<1>1. TotalLimit \in Nat /\ TotalLimit > 1
  BY OnboardingAssumption
<1> QED
  BY <1>1 DEF Cap, OneMore

(* The bound of the property, in terms of the invariant.                    *)
LEMMA SpareIs ==
  ASSUME crashes \in Nat
  PROVE  /\ Others \in Nat /\ Spare \in Nat
         /\ TotalLimit \in Nat /\ TotalLimit > 1
         /\ (crashes + 1) * (Cardinality(Slots) - 1) = Spare + Others
<1>1. Cardinality(Slots) \in Nat \ {0}
  BY HandlersAreCounted
<1>2. Others \in Nat
  BY <1>1 DEF Others
<1>3. Spare \in Nat
  BY <1>2 DEF Spare
<1>4. (crashes + 1) * Others = crashes * Others + Others
  BY <1>2
<1> QED
  BY <1>2, <1>3, <1>4, OnboardingAssumption DEF Spare, Others

(* The counters are numbers.                                                *)
LEMMA GuessedIs ==
  ASSUME GuessTypes
  PROVE  /\ Guessed \in Nat /\ crashes \in Nat /\ guesses \in [Wallets -> Nat]
         /\ MaxGuesses \in Nat
<1>1. Cardinality(Slots) \in Nat
  BY HandlersAreCounted
<1>2. MaxGuesses \in Nat
  BY <1>1, OnboardingAssumption DEF MaxGuesses
<1> QED
  BY <1>2, OnboardingAssumption DEF GuessTypes, Guessed

LEMMA GuessedAtMost ==
  ASSUME SetupInv, GuessTypes, InMemory
  PROVE  Guessed <= TotalLimit - 1 + Spare + Others
<1>0. /\ Guessed \in Nat /\ Others \in Nat /\ Spare \in Nat /\ TotalLimit \in Nat
      /\ TotalLimit > 1
  BY GuessedIs, SpareIs
<1>1. Cardinality(Asking) \in Nat /\ Cardinality(Counted) \in Nat
  BY HandlersAreCounted DEF Asking, Counted
<1>2. CASE \E c \in Chats : Phrased(sessions, c)
  <2>1. PICK c \in Chats : Guessed + Cardinality(Counted) <= Cap(sessions[c].total) + Spare
    BY <1>2 DEF InMemory
  <2>2. sessions[c].total \in Nat
    BY SessionsMeans DEF Session
  <2>3. Cap(sessions[c].total) <= TotalLimit - 1 /\ Cap(sessions[c].total) \in Nat
    BY <2>2, CapBounds
  <2> QED
    BY <1>0, <1>1, <2>1, <2>3
<1>3. CASE \A c \in Chats : ~Phrased(sessions, c)
  BY <1>0, <1>1, <1>3 DEF InMemory
<1> QED
  BY <1>2, <1>3

(* The bound of the property follows.                                       *)
LEMMA GuessInvBounds == SetupInv /\ GuessInv => GuessesAreBounded
<1> SUFFICES ASSUME SetupInv, GuessInv, ~(overlapped /\ crashes > 0), NEW w \in Wallets
             PROVE  guesses[w] < TotalLimit + (crashes + 1) * (Cardinality(Slots) - 1)
  BY DEF GuessesAreBounded
<1>1. GuessTypes /\ InMemory
  BY DEF GuessInv
<1>2. /\ Guessed \in Nat /\ crashes \in Nat /\ guesses[w] \in Nat
      /\ Others \in Nat /\ Spare \in Nat /\ TotalLimit \in Nat /\ TotalLimit > 1
      /\ (crashes + 1) * (Cardinality(Slots) - 1) = Spare + Others
  BY <1>1, GuessedIs, SpareIs
<1>3. Guessed <= TotalLimit - 1 + Spare + Others
  BY <1>1, GuessedAtMost
<1>4. guesses[w] <= Guessed
  BY <1>1, <1>2 DEF GuessTypes, Guessed
<1> QED
  BY <1>2, <1>3, <1>4

-----------------------------------------------------------------------------
(* The turn of a handler that puts no new phrase and no new answer into the *)
(* set-up; it may compare the answer it holds.                              *)
Kept(s, r) == s.phrase # NoWallet => r.phrase = s.phrase /\ r.total = s.total

Calm(t) ==
    /\ \A c \in Chats : Kept(sessions'[c], sessions[c])
    /\ tasks'[t].step \notin {"checks", "judges", "seals"}

NonePhrased == \A c \in Chats : ~Phrased(sessions, c)

Compares(t) ==
    \/ Guessed' = Guessed
    \/ /\ Guessed' <= Guessed + 1
       /\ Asks(tasks[t])
       /\ NonePhrased \/ (Counts(tasks[t]) /\ SaveUnderWay(t)')

(* A turn leaves what the other handlers hold.                              *)
LEMMA OthersStay ==
  ASSUME SetupInv, NEW t \in Slots, NEW k \in Task, Puts(t, k)
  PROVE  /\ \A u \in Slots \ {t} :
               /\ Asks(tasks'[u]) <=> Asks(tasks[u])
               /\ Counts(tasks'[u]) <=> Counts(tasks[u])
               /\ Seals(tasks'[u]) <=> Seals(tasks[u])
               /\ tasks'[u].chat = tasks[u].chat
         /\ Asks(tasks'[t]) <=> Asks(k)
         /\ Counts(tasks'[t]) <=> Counts(k)
         /\ Seals(tasks'[t]) <=> Seals(k)
         /\ tasks'[t].chat = k.chat /\ tasks'[t].step = k.step
<1>1. /\ Same(tasks'[t], k)
      /\ \A u \in Slots \ {t} : Same(tasks'[u], tasks[u])
  BY PutsMeans DEF SetupInv, SetupTypes
<1> QED
  BY <1>1 DEF Same, Asks, Counts, Seals

(* What such a turn does to the numbers.                                    *)
LEMMA CalmCounts ==
  ASSUME SetupInv, GuessTypes, GuessTypes', NEW t \in Slots, NEW k \in Task,
         Puts(t, k), Calm(t), crashes' = crashes
  PROVE  /\ \A u \in Slots \ {t} :
               /\ Asks(tasks'[u]) <=> Asks(tasks[u])
               /\ Counts(tasks'[u]) <=> Counts(tasks[u])
               /\ Seals(tasks'[u]) <=> Seals(tasks[u])
               /\ tasks'[u].chat = tasks[u].chat
         /\ ~Asks(tasks'[t]) /\ ~Counts(tasks'[t]) /\ ~Seals(tasks'[t])
         /\ \A c \in Chats : Phrased(sessions', c) =>
               Phrased(sessions, c) /\ sessions'[c].total = sessions[c].total
         /\ Guessed \in Nat /\ Guessed' \in Nat /\ Spare' = Spare
         /\ Others \in Nat /\ Spare \in Nat /\ TotalLimit \in Nat
         /\ Cardinality(Counted') \in Nat /\ Cardinality(Counted') <= Cardinality(Counted)
         /\ Cardinality(Asking') \in Nat /\ Cardinality(Asking') <= Cardinality(Asking)
         /\ Cardinality(Counted) \in Nat /\ Cardinality(Asking) \in Nat
         /\ Counts(tasks[t]) => Cardinality(Counted') + 1 <= Cardinality(Counted)
         /\ Asks(tasks[t]) => Cardinality(Asking') + 1 <= Cardinality(Asking)
         /\ Cardinality(Asking') <= Others
<1>1. /\ \A u \in Slots \ {t} :
               /\ Asks(tasks'[u]) <=> Asks(tasks[u])
               /\ Counts(tasks'[u]) <=> Counts(tasks[u])
               /\ Seals(tasks'[u]) <=> Seals(tasks[u])
               /\ tasks'[u].chat = tasks[u].chat
      /\ ~Asks(tasks'[t]) /\ ~Counts(tasks'[t]) /\ ~Seals(tasks'[t])
  BY OthersStay DEF Calm, Asks, Counts, Seals
<1>2. \A c \in Chats : Phrased(sessions', c) =>
          Phrased(sessions, c) /\ sessions'[c].total = sessions[c].total
  BY DEF Calm, Kept, Phrased
<1>3. /\ Guessed \in Nat /\ Guessed' \in Nat /\ Spare' = Spare /\ Others \in Nat /\ Spare \in Nat
      /\ TotalLimit \in Nat
  <2>1. Guessed \in Nat /\ Others \in Nat /\ Spare \in Nat /\ TotalLimit \in Nat
    BY GuessedIs, SpareIs
  <2>2. Guessed' \in Nat
    BY OnboardingAssumption DEF GuessTypes, Guessed
  <2>3. Spare' = Spare
    BY DEF Spare
  <2> QED
    BY <2>1, <2>2, <2>3
<1>4. /\ Counted' \subseteq Counted \ {t} /\ Asking' \subseteq Asking \ {t}
      /\ Counted \in SUBSET Slots /\ Asking \in SUBSET Slots
      /\ Counted' \in SUBSET Slots /\ Asking' \in SUBSET Slots
      /\ Asks(tasks[t]) => t \in Asking
      /\ Counts(tasks[t]) => t \in Counted
  BY <1>1 DEF Counted, Asking
<1>5. /\ Cardinality(Counted') \in Nat /\ Cardinality(Counted') <= Cardinality(Counted)
      /\ Cardinality(Asking') \in Nat /\ Cardinality(Asking') <= Cardinality(Asking)
      /\ Cardinality(Counted) \in Nat /\ Cardinality(Asking) \in Nat
      /\ Counts(tasks[t]) => Cardinality(Counted') + 1 <= Cardinality(Counted)
      /\ Asks(tasks[t]) => Cardinality(Asking') + 1 <= Cardinality(Asking)
      /\ Cardinality(Asking') <= Others
  <2>1. /\ Cardinality(Counted') \in Nat /\ Cardinality(Counted') <= Cardinality(Counted)
        /\ Cardinality(Counted) \in Nat
        /\ Counts(tasks[t]) => Cardinality(Counted') + 1 <= Cardinality(Counted)
    <3>1. Counted' \subseteq Counted
      BY <1>4
    <3> QED
      BY <1>4, <3>1, HandlersAreCounted
  <2>2. /\ Cardinality(Asking') \in Nat /\ Cardinality(Asking') <= Cardinality(Asking)
        /\ Cardinality(Asking) \in Nat
        /\ Asks(tasks[t]) => Cardinality(Asking') + 1 <= Cardinality(Asking)
    <3>1. Asking' \subseteq Asking
      BY <1>4
    <3> QED
      BY <1>4, <3>1, HandlersAreCounted
  <2>3. Cardinality(Asking') <= Others
    <3>1. Asking' \subseteq Slots \ {t} /\ Slots \in SUBSET Slots
      BY <1>4
    <3>2. Cardinality(Asking') + 1 <= Cardinality(Slots) /\ Cardinality(Slots) \in Nat
      BY <1>4, <3>1, HandlersAreCounted
    <3> QED
      BY <2>2, <3>2 DEF Others
  <2> QED
    BY <2>1, <2>2, <2>3
<1> QED
  BY <1>1, <1>2, <1>3, <1>5

(* The part of the invariant about the sessions in memory.                  *)
LEMMA CalmInMemory ==
  ASSUME SetupInv, GuessTypes, GuessTypes', InMemory, NEW t \in Slots, NEW k \in Task,
         Puts(t, k), Calm(t), Compares(t), crashes' = crashes
  PROVE  InMemory'
<1>1. /\ \A u \in Slots \ {t} :
               /\ Asks(tasks'[u]) <=> Asks(tasks[u])
               /\ Counts(tasks'[u]) <=> Counts(tasks[u])
               /\ Seals(tasks'[u]) <=> Seals(tasks[u])
               /\ tasks'[u].chat = tasks[u].chat
      /\ ~Asks(tasks'[t]) /\ ~Counts(tasks'[t]) /\ ~Seals(tasks'[t])
  BY CalmCounts
<1>2. \A c \in Chats : Phrased(sessions', c) =>
          Phrased(sessions, c) /\ sessions'[c].total = sessions[c].total
  BY CalmCounts
<1>3. /\ Guessed \in Nat /\ Guessed' \in Nat /\ Spare' = Spare /\ Others \in Nat /\ Spare \in Nat
      /\ TotalLimit \in Nat
  BY CalmCounts
<1>5. /\ Cardinality(Counted') \in Nat /\ Cardinality(Counted') <= Cardinality(Counted)
      /\ Cardinality(Asking') \in Nat /\ Cardinality(Asking') <= Cardinality(Asking)
      /\ Cardinality(Counted) \in Nat /\ Cardinality(Asking) \in Nat
      /\ Counts(tasks[t]) => Cardinality(Counted') + 1 <= Cardinality(Counted)
      /\ Asks(tasks[t]) => Cardinality(Asking') + 1 <= Cardinality(Asking)
      /\ Cardinality(Asking') <= Others
  BY CalmCounts
<1>6. OnePhrase(sessions')
  BY <1>2 DEF InMemory, OnePhrase
<1>7. ASSUME NEW u \in Slots, NEW c \in Chats, Asks(tasks'[u]), Phrased(sessions', c)
      PROVE  tasks'[u].chat = c
  BY <1>1, <1>2, <1>7 DEF InMemory
<1>8. ASSUME NEW c \in Chats, Phrased(sessions', c)
      PROVE  Guessed' + Cardinality(Counted') <= Cap(sessions'[c].total) + Spare'
  <2>1. Phrased(sessions, c) /\ sessions'[c].total = sessions[c].total
    BY <1>2, <1>8
  <2>2. Guessed + Cardinality(Counted) <= Cap(sessions[c].total) + Spare
    BY <2>1 DEF InMemory
  <2>3. Guessed' + Cardinality(Counted') <= Guessed + Cardinality(Counted)
    <3>1. ~NonePhrased
      BY <2>1 DEF NonePhrased
    <3>2. Guessed' = Guessed \/ (Guessed' <= Guessed + 1 /\ Counts(tasks[t]))
      BY <3>1 DEF Compares
    <3> QED
      BY <1>3, <1>5, <3>2
  <2>4. sessions[c].total \in Nat
    BY SessionsMeans DEF Session
  <2>5. Cap(sessions[c].total) \in Nat
    BY <2>4, CapBounds
  <2>6. Guessed' + Cardinality(Counted') <= Cap(sessions[c].total) + Spare
    BY <1>3, <1>5, <2>2, <2>3, <2>5
  <2> QED
    BY <1>3, <2>1, <2>6
<1>9. ASSUME \A c \in Chats : ~Phrased(sessions', c)
      PROVE  Guessed' + Cardinality(Asking') <= TotalLimit - 1 + Spare' + Others
  <2>1. CASE NonePhrased
    <3>1. Guessed + Cardinality(Asking) <= TotalLimit - 1 + Spare + Others
      BY <2>1 DEF InMemory, NonePhrased
    <3>2. Guessed' + Cardinality(Asking') <= Guessed + Cardinality(Asking)
      BY <1>3, <1>5 DEF Compares
    <3> QED
      BY <1>3, <1>5, <3>1, <3>2
  <2>2. CASE ~NonePhrased
    <3>1. PICK c \in Chats : Guessed + Cardinality(Counted) <= Cap(sessions[c].total) + Spare
      BY <2>2 DEF InMemory, NonePhrased
    <3>2. sessions[c].total \in Nat
      BY SessionsMeans DEF Session
    <3>3. Cap(sessions[c].total) \in Nat /\ Cap(sessions[c].total) <= TotalLimit - 1
      BY <3>2, CapBounds
    <3>4. Guessed' <= Guessed + Cardinality(Counted)
      <4>1. Guessed' = Guessed \/ (Guessed' <= Guessed + 1 /\ Counts(tasks[t]))
        BY <2>2 DEF Compares
      <4> QED
        BY <1>3, <1>5, <4>1
    <3> QED
      BY <1>3, <1>5, <3>1, <3>3, <3>4
  <2> QED
    BY <2>1, <2>2
<1>10. ASSUME NEW u \in Slots, Seals(tasks'[u])
       PROVE  /\ Guessed' = 0
              /\ \A c \in Chats : ~Phrased(sessions', c)
              /\ \A v \in Slots : ~Asks(tasks'[v]) /\ (Seals(tasks'[v]) => v = u)
  <2>1. u # t /\ Seals(tasks[u])
    BY <1>1, <1>10
  <2>2. /\ Guessed = 0 /\ \A c \in Chats : ~Phrased(sessions, c)
        /\ \A v \in Slots : ~Asks(tasks[v]) /\ (Seals(tasks[v]) => v = u)
    BY <2>1 DEF InMemory
  <2> QED
    BY <1>1, <1>2, <2>1, <2>2 DEF Compares
<1> QED
  BY <1>6, <1>7, <1>8, <1>9, <1>10 DEF InMemory, Others

(* Unless saves overlap, a turn that changes a session finds the sessions   *)
(* in the file, or puts them there.                                         *)
LEMMA TurnMovesFile ==
  ASSUME SetupInv, FilesInv, NEW t \in Slots, Turn(t), ~overlapped'
  PROVE  \/ InFile(file') = Snapshot
         \/ file' = file /\ sessions' = sessions /\ ~SaveUnderWay(t)'
<1>1. PICK k \in Task : Puts(t, k)
  BY DEF Turn
<1>2. /\ ~overlapped
      /\ SaveUnderWay(t)' => \A u \in Slots \ {t} : ~SaveUnderWay(u)
  BY <1>1, PutsMeans DEF SetupInv, SetupTypes
<1>3. SavesCarry
  BY <1>2 DEF FilesInv
<1>4. CASE tasks[t].awaits = "rename" /\ file' = tempFile
  BY <1>3, <1>4, SnapshotFine DEF SavesCarry, InFile
<1>5. CASE file' = file /\ tasks[t].awaits \in {"", "other"}
  <2>1. CASE SaveUnderWay(t)'
    <3>1. \A u \in Slots : ~SaveUnderWay(u)
      BY <1>2, <1>5, <2>1 DEF SaveUnderWay
    <3> QED
      BY <1>3, <1>5, <3>1 DEF SavesCarry, InFile
  <2>2. CASE ~SaveUnderWay(t)'
    BY <1>5, <2>2 DEF Turn, Told
  <2> QED
    BY <2>1, <2>2
<1> QED
  BY <1>2, <1>4, <1>5 DEF Turn, FilesMove

(* A snapshot has the phrases and the counts of the sessions.               *)
LEMMA SnapshotPhrases ==
  ASSUME SetupInv, NEW c \in Chats
  PROVE  /\ Phrased(Snapshot, c) <=> Phrased(sessions, c)
         /\ Snapshot[c].total = sessions[c].total /\ sessions[c].total \in Nat
<1>1. sessions[c] \in Session
  BY SessionsMeans
<1>2. Snapshot[c] = [sessions[c] EXCEPT !.idle = FALSE]
  BY DEF Snapshot
<1> QED
  BY <1>1, <1>2 DEF Session, Phrased

(* The part about the sessions in the file.                                 *)
LEMMA CalmOnFile ==
  ASSUME SetupInv, FilesInv, GuessTypes, GuessTypes', InMemory, OnFile(InFile(file)),
         NEW t \in Slots, NEW k \in Task, Puts(t, k), Turn(t), Calm(t), Compares(t),
         crashes' = crashes, ~overlapped'
  PROVE  OnFile(InFile(file))'
<1>1. /\ Guessed \in Nat /\ Guessed' \in Nat /\ Spare' = Spare /\ Others \in Nat /\ Spare \in Nat
      /\ Cardinality(Counted') \in Nat /\ Cardinality(Counted) \in Nat
      /\ Cardinality(Asking') \in Nat /\ Cardinality(Asking) \in Nat
      /\ Cardinality(Asking') <= Cardinality(Asking)
      /\ Counts(tasks[t]) => Cardinality(Counted') + 1 <= Cardinality(Counted)
      /\ Asks(tasks[t]) => Cardinality(Asking') + 1 <= Cardinality(Asking)
      /\ Cardinality(Asking') <= Others
  BY CalmCounts
<1>2. CASE InFile(file') = Snapshot
  <2>1. OnePhrase(Snapshot)
    BY SnapshotPhrases DEF InMemory, OnePhrase
  <2>2. ASSUME NEW c \in Chats, Phrased(Snapshot, c)
        PROVE  Guessed' <= Cap(Snapshot[c].total) + Spare /\ Cap(Snapshot[c].total) \in Nat
    <3>1. Phrased(sessions, c) /\ Snapshot[c].total = sessions[c].total /\ sessions[c].total \in Nat
      BY <2>2, SnapshotPhrases
    <3>2. Guessed + Cardinality(Counted) <= Cap(sessions[c].total) + Spare
      BY <3>1 DEF InMemory
    <3>3. Guessed' <= Guessed + Cardinality(Counted)
      <4>1. Guessed' = Guessed \/ (Guessed' <= Guessed + 1 /\ Counts(tasks[t]))
        BY <3>1 DEF Compares, NonePhrased
      <4> QED
        BY <1>1, <4>1
    <3>4. Cap(sessions[c].total) \in Nat
      BY <3>1, CapBounds
    <3> QED
      BY <1>1, <3>1, <3>2, <3>3, <3>4
  <2>3. ASSUME NEW c \in Chats, Phrased(Snapshot, c)
        PROVE  Guessed' + Cardinality(Asking') <= Cap(Snapshot[c].total) + Spare + Others
    BY <1>1, <2>2, <2>3
  <2> QED
    BY <1>1, <1>2, <2>1, <2>2, <2>3 DEF OnFile, InFile, Others
<1>3. CASE file' = file /\ sessions' = sessions /\ ~SaveUnderWay(t)'
  <2> DEFINE f == InFile(file)
  <2>1. OnePhrase(f) /\ InFile(file') = f
    BY <1>3 DEF OnFile
  <2>2. ASSUME NEW c \in Chats, Phrased(f, c), NEW d \in Chats, Phrased(sessions, d)
        PROVE  Guessed' <= Cap(f[c].total) + Spare
    <3>1. Guessed' = Guessed
      BY <1>3, <2>2 DEF Compares, NonePhrased
    <3> QED
      BY <2>2, <3>1 DEF OnFile
  <2>3. ASSUME NEW c \in Chats, Phrased(f, c), \A d \in Chats : ~Phrased(sessions, d)
        PROVE  Guessed' + Cardinality(Asking') <= Cap(f[c].total) + Spare + Others
    <3>1. Guessed + Cardinality(Asking) <= Cap(f[c].total) + Spare + Others
      BY <2>3 DEF OnFile
    <3>2. Guessed' + Cardinality(Asking') <= Guessed + Cardinality(Asking)
      BY <1>1 DEF Compares
    <3>3. f[c].total \in Nat
      BY DEF InFile, NoSessions, NoSession, SetupInv, OfThisWallet, FileOK, SessionsFine, Session
    <3>4. Cap(f[c].total) \in Nat
      BY <3>3, CapBounds
    <3> HIDE DEF f
    <3> QED
      BY <1>1, <3>1, <3>2, <3>4
  <2> HIDE DEF f
  <2> QED
    BY <1>1, <1>3, <2>1, <2>2, <2>3 DEF OnFile, InFile, Others
<1> QED
  BY <1>2, <1>3, TurnMovesFile

(* Such a turn keeps the invariant.                                         *)
LEMMA CalmKeepsGuesses ==
  ASSUME SetupInv, FilesInv, GuessInv, GuessTypes', NEW t \in Slots,
         Turn(t), Calm(t), InMemory => Compares(t), crashes' = crashes
  PROVE  GuessInv'
<1>1. PICK k \in Task : Puts(t, k)
  BY DEF Turn
<1>2. overlapped => overlapped'
  BY <1>1, PutsMeans DEF SetupInv, SetupTypes
<1>3. CASE overlapped /\ crashes > 0
  BY <1>2, <1>3 DEF GuessInv
<1>4. CASE InMemory /\ (overlapped \/ OnFile(InFile(file)))
  <2>1. InMemory'
    BY <1>1, <1>4, CalmInMemory DEF GuessInv
  <2>2. overlapped' \/ OnFile(InFile(file))'
    BY <1>1, <1>2, <1>4, CalmOnFile DEF GuessInv
  <2> QED
    BY <2>1, <2>2 DEF GuessInv
<1> QED
  BY <1>3, <1>4 DEF GuessInv

-----------------------------------------------------------------------------
(* The forms such a turn takes.                                             *)
Still(k) == k \in Task /\ k.step \notin {"checks", "judges", "seals"}

Keeping(s, c) == s \in Session /\ Kept(s, sessions[c])

(* The handler becomes k, which has no answer and no phrase to seal.        *)
LEMMA StillPuts ==
  ASSUME SetupInv, NEW t \in Slots, NEW k, Still(k), \A c \in Chats : Kept(sessions'[c], sessions[c]),
         \/ Becomes(t, k) \/ Waits(t, k)
         \/ \E out : SavesOver(t, k, out)
  PROVE  Calm(t)
<1>1. tasks \in [Slots -> Task]
  BY DEF SetupInv, SetupTypes
<1>2. tasks'[t].step = k.step
  <2>1. CASE Becomes(t, k)
    BY <1>1, <2>1 DEF Becomes
  <2>2. CASE Waits(t, k)
    BY <1>1, <2>2 DEF Waits, Becomes, Still, Task
  <2>3. ASSUME NEW out, SavesOver(t, k, out) PROVE tasks'[t].step = k.step
    BY <2>3 DEF SavesOver, Still, Task
  <2> QED
    BY <2>1, <2>2, <2>3
<1> QED
  BY <1>2 DEF Calm, Still

(* The changes of a session that leave it its phrase and its count.         *)
LEMMA KeepingChanges ==
  ASSUME SetupInv, NEW c \in Chats
  PROVE  LET s == sessions[c] IN
         /\ Keeping(s, c) /\ Keeping(NoSession, c)
         /\ Keeping([s EXCEPT !.idle = FALSE], c)
         /\ \A x \in States : Keeping([s EXCEPT !.state = x], c)
         /\ Keeping([s EXCEPT !.words = TRUE, !.round = 0], c)
         /\ Keeping([s EXCEPT !.state = "displayed", !.round = 0], c)
         /\ Keeping([s EXCEPT !.hashed = TRUE, !.opens = FALSE, !.idle = FALSE], c)
         /\ Keeping([s EXCEPT !.phrase = NoWallet, !.opens = FALSE], c)
         /\ \A n \in Nat : Keeping([s EXCEPT !.round = n], c)
<1>1. sessions[c] \in Session
  BY SessionsMeans
<1>2. NoSession \in Session /\ NoSession.phrase = NoWallet
  BY SessionsMeans DEF NoSession
<1> HIDE DEF NoSession
<1> QED
  BY <1>1, <1>2 DEF Keeping, Kept, Session, States

LEMMA AllKept ==
  ASSUME SetupInv
  PROVE  \A c \in Chats : Kept(sessions[c], sessions[c])
  BY DEF Kept

LEMMA PutKept ==
  ASSUME SetupInv, NEW c, NEW s, c \in Chats => Keeping(s, c),
         sessions' = [sessions EXCEPT ![c] = s]
  PROVE  \A d \in Chats : Kept(sessions'[d], sessions[d])
<1>1. DOMAIN sessions = Chats
  BY DEF SetupInv, OfThisWallet, SessionsFine
<1> QED
  BY <1>1 DEF Keeping, Kept

(* Updates, clears and starts of a session with such changes.               *)
LEMMA UpdatesCalm ==
  ASSUME SetupInv, NEW t \in Slots, NEW c \in Chats, NEW s, NEW k, NEW otherwise,
         HasSession(c) => Keeping(s, c), Still(k), Still(otherwise),
         Updates(t, c, s, k, otherwise)
  PROVE  Calm(t)
<1>1. CASE HasSession(c)
  <2>1. /\ sessions' = [sessions EXCEPT ![c] = [s EXCEPT !.idle = FALSE]]
        /\ SavesOver(t, k, {})
    BY <1>1 DEF Updates, Saves
  <2>2. Keeping([s EXCEPT !.idle = FALSE], c)
    BY <1>1 DEF Keeping, Kept, Session
  <2>3. \A d \in Chats : Kept(sessions'[d], sessions[d])
    BY <2>1, <2>2, PutKept
  <2> QED
    BY <2>1, <2>3, StillPuts
<1>2. CASE ~HasSession(c)
  <2>1. sessions' = sessions /\ Becomes(t, otherwise)
    BY <1>2 DEF Updates
  <2> QED
    BY <2>1, AllKept, StillPuts
<1> QED
  BY <1>1, <1>2

LEMMA ClearsCalm ==
  ASSUME SetupInv, NEW t \in Slots, NEW c, NEW k, Still(k), Clears(t, c, k)
  PROVE  Calm(t)
<1>1. c \in Chats => Keeping(NoSession, c)
  BY KeepingChanges
<1>2. \A d \in Chats : Kept(sessions'[d], sessions[d])
  BY <1>1, PutKept DEF Clears
<1> QED
  BY <1>2, StillPuts DEF Clears

LEMMA PutsCalm ==
  ASSUME SetupInv, NEW t \in Slots, NEW k, Still(k), UNCHANGED sessions,
         Becomes(t, k) \/ Waits(t, k)
  PROVE  Calm(t)
  BY AllKept, StillPuts

(* Handlers with no answer and no phrase to seal.                           *)
LEMMA StillHandlers ==
  ASSUME NEW c \in Chats \cup {NoChat}
  PROVE  /\ Still(Free)
         /\ \A s \in Steps \ {"checks", "judges", "seals"} :
               /\ Still(Handler(c, s))
               /\ \A w \in Wallets \cup {NoWallet} : Still([Handler(c, s) EXCEPT !.wallet = w])
               /\ \A o \in {"", "text", "button"} : Still([Handler(c, s) EXCEPT !.origin = o])
         /\ \A b \in Keyboards : Still(Answer(c, b))
         /\ c \in Chats => \A w \in Wallets \cup {NoWallet} :
               /\ Still(PhraseAnswer(c, w))
               /\ \A o \in {"", "text", "button"} : Still([PhraseAnswer(c, w) EXCEPT !.origin = o])
<1>1. Still(Free)
  BY FreeGood DEF Still
<1>2. ASSUME NEW s \in Steps \ {"checks", "judges", "seals"}
      PROVE  /\ Still(Handler(c, s))
             /\ \A w \in Wallets \cup {NoWallet} : Still([Handler(c, s) EXCEPT !.wallet = w])
             /\ \A o \in {"", "text", "button"} : Still([Handler(c, s) EXCEPT !.origin = o])
  <2>1. Reads(Handler(c, s), s, c, NoWallet, "", "nothing")
    BY HandlerReads
  <2>2. \A w \in Wallets \cup {NoWallet} :
           Reads([Handler(c, s) EXCEPT !.wallet = w], s, c, w, "", "nothing")
    BY <2>1, WalletRead
  <2>3. \A o \in {"", "text", "button"} :
           Reads([Handler(c, s) EXCEPT !.origin = o], s, c, NoWallet, o, "nothing")
    BY <2>1, OriginRead
  <2> QED
    BY <2>1, <2>2, <2>3 DEF Reads, Still
<1>3. ASSUME NEW b \in Keyboards PROVE Still(Answer(c, b))
  <2>1. Reads(Answer(c, b), "replies", c, NoWallet, "", b)
    BY AnswerReads
  <2> QED
    BY <2>1 DEF Reads, Still
<1>4. ASSUME c \in Chats, NEW w \in Wallets \cup {NoWallet}
      PROVE  /\ Still(PhraseAnswer(c, w))
             /\ \A o \in {"", "text", "button"} : Still([PhraseAnswer(c, w) EXCEPT !.origin = o])
  <2>1. Reads(PhraseAnswer(c, w), "replies", c, w, "", "phrase")
    BY <1>4, PhraseAnswerReads
  <2>2. \A o \in {"", "text", "button"} :
           Reads([PhraseAnswer(c, w) EXCEPT !.origin = o], "replies", c, w, o, "phrase")
    BY <2>1, OriginRead
  <2> QED
    BY <2>1, <2>2 DEF Reads, Still
<1> QED
  BY <1>1, <1>2, <1>3, <1>4

LEMMA StartsCalm ==
  ASSUME SetupInv, NEW t \in Slots, NEW c \in Chats, StartsSession(t, c)
  PROVE  Calm(t)
<1> DEFINE s == [NoSession EXCEPT !.state = "welcome"]
<1>1. Keeping(s, c)
  BY DEF Keeping, Kept, NoSession, Session, States
<1>2. sessions' = [sessions EXCEPT ![c] = s] /\ SavesOver(t, Answer(c, "nothing"), {c})
  BY DEF StartsSession
<1> HIDE DEF s
<1>3. Still(Answer(c, "nothing"))
  BY StillHandlers DEF Keyboards
<1>4. \A d \in Chats : Kept(sessions'[d], sessions[d])
  BY <1>1, <1>2, PutKept
<1> QED
  BY <1>2, <1>3, <1>4, StillPuts

LEMMA PromptsCalm ==
  ASSUME SetupInv, NEW t \in Slots, NEW c \in Chats, PromptsPassphrase(t, c)
  PROVE  Calm(t)
<1>1. Still(Answer(c, "nothing")) /\ Still(Free)
  BY StillHandlers DEF Keyboards
<1>2. Keeping([sessions[c] EXCEPT !.state = "pending"], c)
  BY KeepingChanges DEF States
<1> QED
  BY <1>1, <1>2, UpdatesCalm DEF PromptsPassphrase

LEMMA NewWordsCalm ==
  ASSUME SetupInv, NEW t \in Slots, NEW c \in Chats, NewWords(t, c)
  PROVE  Calm(t)
<1>1. Still(Answer(c, "nothing")) /\ Still(Free)
  BY StillHandlers DEF Keyboards
<1>2. Keeping([sessions[c] EXCEPT !.words = TRUE, !.round = 0], c)
  BY KeepingChanges
<1> QED
  BY <1>1, <1>2, UpdatesCalm DEF NewWords

(* Every button.                                                            *)
LEMMA PressesCalm ==
  ASSUME SetupInv, NEW t \in Slots, NEW c \in Chats, Presses(t, c)
  PROVE  Calm(t)
<1>1. /\ Still(Free)
      /\ \A s \in {"starts", "restarts", "asks", "asksAgain", "configures", "completes"} :
            Still(Handler(c, s))
      /\ Still([Handler(c, "hashes") EXCEPT !.origin = "button"])
      /\ Still([Handler(c, "decrypts") EXCEPT !.wallet = Opened(c)])
      /\ Still(Answer(c, "nothing")) /\ Still(Answer(c, "limits"))
  BY StillHandlers, OpenedIsOurs, OneKeystoreMeans DEF Steps, Keyboards, SetupInv
<1>2. CASE PressStart(t, c) \/ PressRetry(t, c)
  BY <1>2, PromptsCalm DEF PressStart, PressRetry
<1>3. CASE PressWeakOk(t, c)
  BY <1>1, <1>3, PutsCalm, PromptsCalm DEF PressWeakOk
<1>4. CASE PressSaved(t, c)
  <2>1. Updates(t, c, [sessions[c] EXCEPT !.words = TRUE, !.round = 0], Handler(c, "asks"), Free)
    BY <1>4 DEF PressSaved
  <2>2. Keeping([sessions[c] EXCEPT !.words = TRUE, !.round = 0], c)
    BY KeepingChanges
  <2> QED
    BY <1>1, <2>1, <2>2, UpdatesCalm
<1>5. CASE PressShowAgain(t, c)
  <2>1. \/ Clears(t, c, Answer(c, "nothing"))
        \/ UNCHANGED sessions /\ Waits(t, [Handler(c, "decrypts") EXCEPT !.wallet = Opened(c)])
        \/ UNCHANGED sessions /\ Becomes(t, Free)
    BY <1>5, Zenon DEF PressShowAgain
  <2> QED
    BY <1>1, <2>1, ClearsCalm, PutsCalm
<1>6. CASE PressVerifyRetry(t, c)
  <2>1. \/ Clears(t, c, Handler(c, "asksAgain"))
        \/ UNCHANGED sessions /\ Becomes(t, Free)
        \/ NewWords(t, c)
    BY <1>6 DEF PressVerifyRetry
  <2> QED
    BY <1>1, <2>1, ClearsCalm, PutsCalm, NewWordsCalm
<1>7. CASE PressLimit(t, c)
  <2>1. CASE HasSession(c)
    <3>1. /\ sessions' = [sessions EXCEPT ![c] = [sessions[c] EXCEPT !.idle = FALSE]]
          /\ SavesOver(t, Handler(c, "configures"), {})
      BY <1>7, <2>1 DEF PressLimit, Saves, SetupInv, OfThisWallet, SessionsFine
    <3>2. \A d \in Chats : Kept(sessions'[d], sessions[d])
      <4>1. Keeping([sessions[c] EXCEPT !.idle = FALSE], c)
        BY KeepingChanges
      <4> QED
        BY <3>1, <4>1, PutKept
    <3> QED
      BY <1>1, <3>1, <3>2, StillPuts
  <2>2. CASE ~HasSession(c)
    BY <1>1, <1>7, <2>2, PutsCalm DEF PressLimit
  <2> QED
    BY <2>1, <2>2
<1>8. CASE PressResume(t, c)
  <2>1. \/ Clears(t, c, Handler(c, "starts"))
        \/ StartsSession(t, c)
        \/ PromptsPassphrase(t, c)
        \/ NewWords(t, c)
        \/ UNCHANGED sessions
           /\ Waits(t, [Handler(c, "decrypts") EXCEPT !.wallet = Opened(c)])
        \/ UNCHANGED sessions
           /\ Becomes(t, IF sessions[c].state = "limits" THEN Answer(c, "limits") ELSE Free)
    BY <1>8, Zenon DEF PressResume
  <2>2. Still(IF sessions[c].state = "limits" THEN Answer(c, "limits") ELSE Free)
    BY <1>1
  <2> QED
    BY <1>1, <2>1, <2>2, ClearsCalm, StartsCalm, PromptsCalm, NewWordsCalm, PutsCalm
<1>9. CASE PressRestart(t, c)
  BY <1>1, <1>9, ClearsCalm DEF PressRestart
<1> QED
  BY <1>2, <1>3, <1>4, <1>5, <1>6, <1>7, <1>8, <1>9, Zenon DEF Presses

(* A text is such a turn too, or an answer to compare.                      *)
AnswerComes(t, c) == \E claim \in shown \cup {NoWallet} : TextWords(t, c, claim) /\ Sealed(c)

LEMMA TextsCalm ==
  ASSUME SetupInv, NEW t \in Slots, NEW c \in Chats, Texts(t, c), ~AnswerComes(t, c)
  PROVE  Calm(t)
<1>1. /\ Still(Free) /\ Still(Handler(c, "starts")) /\ Still(Answer(c, "nothing"))
      /\ Still([Handler(c, "hashes") EXCEPT !.origin = "text"])
  BY StillHandlers DEF Steps, Keyboards
<1>2. CASE WalletCommand(t, c)
  <2>1. \/ Clears(t, c, Handler(c, "starts"))
        \/ UNCHANGED sessions /\ Becomes(t, Free)
        \/ StartsSession(t, c)
    BY <1>2 DEF WalletCommand
  <2> QED
    BY <1>1, <2>1, ClearsCalm, PutsCalm, StartsCalm
<1>3. CASE TextInExpiredSession(t, c)
  BY <1>1, <1>3, ClearsCalm DEF TextInExpiredSession
<1>4. CASE TextWeakPassphrase(t, c)
  <2>1. Updates(t, c, [sessions[c] EXCEPT !.state = "weak"], Answer(c, "nothing"), Free)
    BY <1>4 DEF TextWeakPassphrase
  <2>2. Keeping([sessions[c] EXCEPT !.state = "weak"], c)
    BY KeepingChanges DEF States
  <2> QED
    BY <1>1, <2>1, <2>2, UpdatesCalm
<1>5. CASE TextStrongPassphrase(t, c)
  BY <1>1, <1>5, PutsCalm DEF TextStrongPassphrase
<1>6. ASSUME NEW claim \in shown \cup {NoWallet}, TextWords(t, c, claim)
      PROVE  Calm(t)
  BY <1>1, <1>6, PutsCalm DEF TextWords, AnswerComes
<1> QED
  BY <1>2, <1>3, <1>4, <1>5, <1>6, Zenon DEF Texts

(* The handlers that go on, but for the one that puts a phrase in a session. *)
PhraseIsSealed(t) == SealsPhrase(t) /\ Seals(tasks[t]) /\ HasSession(tasks[t].chat)

LEMMA GoesOnCalm ==
  ASSUME SetupInv, NEW t \in Slots, GoesOnPlainly(t), ~PhraseIsSealed(t)
  PROVE  Calm(t)
<1> DEFINE c == tasks[t].chat
           w == tasks[t].wallet
<1>0. /\ tasks[t] \in Task /\ w \in Wallets \cup {NoWallet} /\ c \in Chats \cup {NoChat}
      /\ tasks[t].origin \in {"", "text", "button"}
      /\ tasks[t].step \notin {"free", "replies"} => c \in Chats
  BY TaskMeans DEF Task
<1>a. /\ Still(Free) /\ Still(Handler(c, "completes"))
      /\ \A b \in Keyboards : Still(Answer(c, b))
      /\ c \in Chats => Still(PhraseAnswer(c, w)) /\ Still(NewPhrase(t))
  BY <1>0, StillHandlers DEF Steps, NewPhrase
<1>b. Still(Continues(t, "displays")) /\ Still(Continues(t, "announces"))
  <2>1. /\ Continues(t, "displays") \in Task /\ Continues(t, "displays").step = "displays"
        /\ Continues(t, "announces") \in Task /\ Continues(t, "announces").step = "announces"
    BY <1>0, ContinuesReads DEF Steps
  <2> QED
    BY <2>1 DEF Still
<1>2. CASE AnswerIsReady(t)
  <2>1. /\ tasks[t].step = "replies" /\ UNCHANGED sessions
        /\ Becomes(t, Free) \/ Becomes(t, [tasks[t] EXCEPT !.awaits = ""])
    BY <1>2 DEF AnswerIsReady, Arrives
  <2>2. Still([tasks[t] EXCEPT !.awaits = ""])
    BY <1>0, <2>1 DEF Still, Task
  <2> QED
    BY <1>a, <2>1, <2>2, PutsCalm
<1>3. CASE StartsOver(t)
  <2>1. StartsSession(t, c) /\ tasks[t].step \in {"starts", "restarts"}
    BY <1>3 DEF StartsOver, Arrives
  <2> QED
    BY <1>0, <2>1, StartsCalm
<1>4. CASE SealsPhrase(t)
  <2> DEFINE s == [sessions[c] EXCEPT !.phrase = w, !.opens = (tasks[t].holds = "current")]
  <2>1. tasks[t].step = "seals" /\ Updates(t, c, s, Continues(t, "displays"), NewPhrase(t))
    BY <1>4 DEF SealsPhrase, Arrives
  <2>2. HasSession(c) => Keeping(s, c)
    <3> SUFFICES ASSUME HasSession(c) PROVE Keeping(s, c)
      OBVIOUS
    <3>1. w = NoWallet
      BY <1>4, <2>1 DEF PhraseIsSealed, Seals
    <3>2. sessions[c] \in Session
      BY <1>0, <2>1, SessionsMeans
    <3>3. (tasks[t].holds = "current") \in BOOLEAN
      OBVIOUS
    <3>4. s \in Session /\ s.phrase = NoWallet
      BY <3>1, <3>2, <3>3 DEF Session
    <3> QED
      BY <3>4 DEF Keeping, Kept
  <2> HIDE DEF s
  <2> QED
    BY <1>0, <1>a, <1>b, <2>1, <2>2, UpdatesCalm
<1>5. CASE DisplaysPhrase(t)
  <2>1. /\ tasks[t].step = "displays"
        /\ Updates(t, c, [sessions[c] EXCEPT !.state = "displayed"], NewPhrase(t), NewPhrase(t))
    BY <1>5 DEF DisplaysPhrase, Arrives
  <2>2. Keeping([sessions[c] EXCEPT !.state = "displayed"], c)
    BY <1>0, <2>1, KeepingChanges DEF States
  <2> QED
    BY <1>0, <1>a, <2>1, <2>2, UpdatesCalm
<1>6. CASE AsksForWords(t)
  <2>1. /\ tasks[t].step = "asks"
        /\ Updates(t, c, [sessions[c] EXCEPT !.state = "verifying"], Answer(c, "nothing"), Free)
    BY <1>6 DEF AsksForWords, Arrives
  <2>2. Keeping([sessions[c] EXCEPT !.state = "verifying"], c)
    BY <1>0, <2>1, KeepingChanges DEF States
  <2> QED
    BY <1>0, <1>a, <2>1, <2>2, UpdatesCalm DEF Keyboards
<1>7. CASE ShowsDecrypted(t)
  <2>1. /\ tasks[t].step = "decrypts" /\ UNCHANGED sessions
        /\ Becomes(t, PhraseAnswer(c, w)) \/ Becomes(t, Free)
    BY <1>7 DEF ShowsDecrypted, Arrives
  <2> QED
    BY <1>0, <1>a, <2>1, PutsCalm
<1>8. CASE AsksAgain(t)
  <2>1. tasks[t].step = "asksAgain" /\ NewWords(t, c)
    BY <1>8 DEF AsksAgain, Arrives
  <2> QED
    BY <1>0, <2>1, NewWordsCalm
<1>9. CASE GivesUp(t)
  BY <1>a, <1>9, PutsCalm DEF GivesUp
<1>10. CASE UnsealsPhrase(t)
  <2>1. /\ tasks[t].step = "unseals"
        /\ Updates(t, c, [sessions[c] EXCEPT !.state = "limits"], Answer(c, "limits"),
                   Answer(c, "limits"))
    BY <1>10 DEF UnsealsPhrase, Arrives
  <2>2. Keeping([sessions[c] EXCEPT !.state = "limits"], c)
    BY <1>0, <2>1, KeepingChanges DEF States
  <2> QED
    BY <1>0, <1>a, <2>1, <2>2, UpdatesCalm DEF Keyboards
<1>11. CASE CountsFailure(t)
  <2>1. /\ tasks[t].step = "counts"
        /\ \/ Updates(t, c, [sessions[c] EXCEPT !.state = "displayed", !.round = 0],
                      PhraseAnswer(c, w), PhraseAnswer(c, w))
           \/ UNCHANGED sessions /\ Becomes(t, Answer(c, "failed"))
    BY <1>11 DEF CountsFailure, Arrives
  <2>2. Keeping([sessions[c] EXCEPT !.state = "displayed", !.round = 0], c)
    BY <1>0, <2>1, KeepingChanges
  <2> QED
    BY <1>0, <1>a, <2>1, <2>2, UpdatesCalm, PutsCalm DEF Keyboards
<1>12. CASE WritesLimit(t)
  BY <1>a, <1>12, PutsCalm DEF WritesLimit
<1>13. CASE ClosesSession(t)
  BY <1>b, <1>13, ClearsCalm DEF ClosesSession
<1> QED
  BY <1>2, <1>3, <1>4, <1>5, <1>6, <1>7, <1>8, <1>9, <1>10, <1>11, <1>12, <1>13, Zenon
     DEF GoesOnPlainly

(* The handlers that end the set-up, and an answer that reaches the chat.   *)
LEMMA CompletesCalm ==
  ASSUME SetupInv, NEW t \in Slots, Completes(t) \/ AnnouncesWallet(t) \/ AnswerIsShown(t)
  PROVE  Calm(t)
<1> DEFINE c == tasks[t].chat
<1>0. tasks[t].step = "completes" => c \in Chats
  BY TaskMeans
<1>1. Still(Free)
  BY FreeGood DEF Still
<1>2. CASE Completes(t)
  <2>0. tasks[t].step = "completes" /\ c \in Chats
    BY <1>0, <1>2 DEF Completes, Arrives
  <2>1. /\ Still([Handler(c, "closes") EXCEPT !.wallet = Address])
        /\ Still([Handler(c, "announces") EXCEPT !.wallet = Address])
    BY <2>0, StillHandlers, OneKeystoreMeans DEF Steps, SetupInv
  <2>2. \/ UNCHANGED sessions /\ Becomes(t, Free)
        \/ /\ sessions' = [sessions EXCEPT ![c].state = "complete"]
           /\ Saves(t, [Handler(c, "closes") EXCEPT !.wallet = Address])
        \/ Clears(t, c, [Handler(c, "announces") EXCEPT !.wallet = Address])
    BY <1>2 DEF Completes
  <2>3. CASE /\ sessions' = [sessions EXCEPT ![c].state = "complete"]
             /\ Saves(t, [Handler(c, "closes") EXCEPT !.wallet = Address])
    <3>1. sessions' = [sessions EXCEPT ![c] = [sessions[c] EXCEPT !.state = "complete"]]
      BY <2>0, <2>3, SessionsMeans
    <3>2. Keeping([sessions[c] EXCEPT !.state = "complete"], c)
      BY <2>0, KeepingChanges DEF States
    <3>3. \A d \in Chats : Kept(sessions'[d], sessions[d])
      BY <3>1, <3>2, PutKept
    <3> QED
      BY <2>1, <2>3, <3>3, StillPuts DEF Saves
  <2> QED
    BY <1>1, <2>1, <2>2, <2>3, PutsCalm, ClearsCalm
<1>3. CASE AnnouncesWallet(t)
  BY <1>1, <1>3, PutsCalm DEF AnnouncesWallet
<1>4. CASE AnswerIsShown(t)
  BY <1>1, <1>4, PutsCalm DEF AnswerIsShown
<1> QED
  BY <1>2, <1>3, <1>4

(* The clean-up after a start.                                              *)
LEMMA CleansUpCalm ==
  ASSUME SetupInv, NEW t \in Slots, CleansUp(t), ~UNCHANGED <<sessions, tasks, overlapped>>
  PROVE  Calm(t)
<1>1. PICK expired \in SUBSET Chats :
         /\ sessions' = [c \in Chats |-> IF c \in expired THEN NoSession ELSE sessions[c]]
         /\ SavesOver(t, Answer(NoChat, "nothing"), expired)
  <2> DEFINE expired == {c \in Chats : sessions[c].idle}
  <2>1. /\ expired \in SUBSET Chats
        /\ sessions' = [c \in Chats |-> IF c \in expired THEN NoSession ELSE sessions[c]]
        /\ SavesOver(t, Answer(NoChat, "nothing"), expired)
    BY DEF CleansUp
  <2> QED
    BY <2>1
<1>2. Still(Answer(NoChat, "nothing"))
  BY StillHandlers DEF Keyboards
<1>3. \A d \in Chats : Kept(sessions'[d], sessions[d])
  BY <1>1 DEF Kept, NoSession
<1> QED
  BY <1>1, <1>2, <1>3, StillPuts

(* A rename that fails: Calm, but the file may not have been told.          *)
LEMMA SaveFailsCalm ==
  ASSUME SetupInv, NEW t \in Slots, SaveFails(t)
  PROVE  Calm(t) /\ \E k \in Task : Puts(t, k)
<1> DEFINE c == tasks[t].chat
<1>1. c \in Chats \cup {NoChat}
  BY TaskMeans DEF Task
<1>2. Still(Free) /\ Free.awaits = "" /\ Still(Answer(c, "nothing"))
  BY <1>1, StillHandlers, FreeGood DEF Keyboards
<1>3. CASE Clears(t, c, Answer(c, "nothing"))
  <2>1. SavesOver(t, Answer(c, "nothing"), {c})
    BY <1>3 DEF Clears
  <2> QED
    BY <1>1, <1>2, <1>3, <2>1, ClearsCalm DEF Puts, Still
<1>4. CASE UNCHANGED sessions /\ Becomes(t, Free)
  BY <1>2, <1>4, PutsCalm DEF Puts, Still
<1> QED
  BY <1>3, <1>4 DEF SaveFails

-----------------------------------------------------------------------------
(* Nothing that counts changes.                                             *)
SameGuesses == UNCHANGED <<disk, guesses, crashes>>

LEMMA SameGuessesMeans ==
  ASSUME GuessTypes, SameGuesses
  PROVE  GuessTypes' /\ Guessed' = Guessed /\ Spare' = Spare /\ crashes' = crashes
  BY DEF SameGuesses, GuessTypes, Guessed, Spare

LEMMA CalmTurnKeepsGuesses ==
  ASSUME SetupInv, FilesInv, GuessInv, NEW t \in Slots, Turn(t), Calm(t), SameGuesses
  PROVE  GuessInv'
<1>1. GuessTypes' /\ Guessed' = Guessed /\ crashes' = crashes
  BY SameGuessesMeans DEF GuessInv
<1> QED
  BY <1>1, CalmKeepsGuesses DEF Compares

(* A step that changes neither sessions nor handlers as far as they count.  *)
LEMMA StillKeepsGuesses ==
  ASSUME SetupInv, GuessInv, SameGuesses, UNCHANGED <<file, overlapped>>,
         \A u \in Slots : /\ Asks(tasks'[u]) <=> Asks(tasks[u])
                          /\ Counts(tasks'[u]) <=> Counts(tasks[u])
                          /\ Seals(tasks'[u]) <=> Seals(tasks[u])
                          /\ tasks'[u].chat = tasks[u].chat,
         \A c \in Chats : sessions'[c].phrase = sessions[c].phrase
                          /\ sessions'[c].total = sessions[c].total
  PROVE  GuessInv'
<1>1. GuessTypes' /\ Guessed' = Guessed /\ Spare' = Spare /\ crashes' = crashes
  BY SameGuessesMeans DEF GuessInv
<1>2. Asking' = Asking /\ Counted' = Counted
  BY DEF Asking, Counted
<1>3. \A c \in Chats : (Phrased(sessions', c) <=> Phrased(sessions, c))
                        /\ sessions'[c].total = sessions[c].total
  BY DEF Phrased
<1>4. InMemory => InMemory'
  BY <1>1, <1>2, <1>3 DEF InMemory, OnePhrase, Others
<1>5. OnFile(InFile(file)) => OnFile(InFile(file))'
  <2>1. PICK f : f = InFile(file)
    OBVIOUS
  <2>2. InFile(file)' = f
    BY <2>1 DEF InFile
  <2>3. (\E d \in Chats : Phrased(sessions', d)) <=> (\E d \in Chats : Phrased(sessions, d))
    BY <1>3
  <2> QED
    BY <1>1, <1>2, <2>1, <2>2, <2>3 DEF OnFile, Others
<1> QED
  BY <1>1, <1>4, <1>5 DEF GuessInv

(* The steps of a save.                                                     *)
LEMMA SaveStepsKeepGuesses ==
  ASSUME SetupInv, GuessInv, NEW t \in Slots, SaveMakesDirectory(t) \/ SaveWrites(t)
  PROVE  GuessInv'
<1>1. SameGuesses /\ UNCHANGED <<file, overlapped, sessions>>
  BY DEF SaveMakesDirectory, SaveWrites, SameGuesses, keyVars, pastVars
<1>2. \A u \in Slots : tasks[u] \in Task
  BY TaskMeans
<1>3. PICK a, s : tasks' = [tasks EXCEPT ![t] = [tasks[t] EXCEPT !.awaits = a, !.snap = s]]
  <2>1. CASE SaveMakesDirectory(t)
    BY <2>1 DEF SaveMakesDirectory, SetupInv, SetupTypes
  <2>2. CASE SaveWrites(t)
    BY <2>2 DEF SaveWrites, SetupInv, SetupTypes
  <2> QED
    BY <2>1, <2>2
<1>4. \A u \in Slots : /\ tasks'[u].step = tasks[u].step /\ tasks'[u].wallet = tasks[u].wallet
                       /\ tasks'[u].count = tasks[u].count /\ tasks'[u].chat = tasks[u].chat
  <2> DEFINE k == [tasks[t] EXCEPT !.awaits = a, !.snap = s]
  <2>1. /\ k.step = tasks[t].step /\ k.wallet = tasks[t].wallet
        /\ k.count = tasks[t].count /\ k.chat = tasks[t].chat
    BY <1>2 DEF Task
  <2>2. tasks' = [tasks EXCEPT ![t] = k] /\ tasks \in [Slots -> Task]
    BY <1>3 DEF SetupInv, SetupTypes
  <2> HIDE DEF k
  <2> QED
    BY <2>1, <2>2
<1> QED
  BY <1>1, <1>4, StillKeepsGuesses DEF Asks, Counts, Seals

LEMMA SaveFailsKeepsGuesses ==
  ASSUME SetupInv, GuessInv, NEW t \in Slots, SaveFails(t)
  PROVE  GuessInv'
<1>1. SameGuesses /\ overlapped
  BY DEF SaveFails, SameGuesses, keyVars, pastVars, SetupInv, SavesInTurn
<1>2. PICK k \in Task : Puts(t, k)
  BY SaveFailsCalm
<1>3. Calm(t) /\ overlapped'
  BY <1>1, <1>2, SaveFailsCalm, PutsMeans DEF SetupInv, SetupTypes
<1>4. GuessTypes' /\ Guessed' = Guessed /\ crashes' = crashes
  BY <1>1, SameGuessesMeans DEF GuessInv
<1>5. InMemory => InMemory'
  BY <1>2, <1>3, <1>4, CalmInMemory DEF GuessInv, Compares
<1> QED
  BY <1>1, <1>3, <1>4, <1>5 DEF GuessInv

(* Time passes.                                                             *)
LEMMA IdlesKeepsGuesses ==
  ASSUME SetupInv, GuessInv, NEW c \in Chats, Idles(c) \/ PassphraseExpires(c)
  PROVE  GuessInv'
<1>1. SameGuesses /\ UNCHANGED <<file, overlapped, tasks>>
  BY DEF Idles, PassphraseExpires, SameGuesses, keyVars, pastVars
<1>2. \A d \in Chats : sessions[d] \in Session
  BY SessionsMeans
<1>3. \A d \in Chats : sessions'[d].phrase = sessions[d].phrase
                        /\ sessions'[d].total = sessions[d].total
  BY <1>2 DEF Idles, PassphraseExpires, SetupInv, OfThisWallet, SessionsFine, Session
<1> QED
  BY <1>1, <1>3, StillKeepsGuesses

(* A crash drops the handlers, and takes the sessions from the file.        *)
LEMMA CrashKeepsGuesses ==
  ASSUME SetupInv, GuessInv, Crash
  PROVE  GuessInv'
<1>1. /\ crashes < MaxCrashes /\ crashes' = crashes + 1 /\ disk' = disk /\ guesses' = guesses
      /\ sessions' = InFile(file) /\ tasks' = [t \in Slots |-> Free]
      /\ file' = file /\ overlapped' = overlapped
  BY DEF Crash, KeysAreForgotten, InFile
<1>2. crashes \in Nat /\ Guessed \in Nat
  BY GuessedIs DEF GuessInv
<1>3. GuessTypes'
  BY <1>1, <1>2, OnboardingAssumption DEF GuessInv, GuessTypes
<1>4. CASE overlapped
  BY <1>1, <1>2, <1>3, <1>4 DEF GuessInv
<1>5. CASE ~overlapped
  <2>1. InMemory /\ OnFile(InFile(file))
    BY <1>5 DEF GuessInv
  <2>2. /\ Others \in Nat /\ Spare \in Nat /\ TotalLimit \in Nat /\ TotalLimit > 1
        /\ Guessed' = Guessed /\ Spare' = Spare + Others
    <3>1. /\ Others \in Nat /\ Spare \in Nat /\ TotalLimit \in Nat /\ TotalLimit > 1
      BY <1>2, SpareIs
    <3>2. (crashes + 1) * Others = crashes * Others + Others
      BY <1>2, <3>1
    <3> QED
      BY <1>1, <3>1, <3>2 DEF Guessed, Spare, Others
  <2>3. \A u \in Slots : ~Asks(tasks'[u]) /\ ~Counts(tasks'[u]) /\ ~Seals(tasks'[u])
    BY <1>1, FreeGood DEF Asks, Counts, Seals
  <2>4. Cardinality(Asking') = 0 /\ Cardinality(Counted') = 0
    <3>1. Asking' = {} /\ Counted' = {}
      BY <2>3 DEF Asking, Counted
    <3> QED
      BY <3>1, FS_EmptySet
  <2>5. PICK f : f = InFile(file) /\ f = sessions'
    BY <1>1
  <2>6. \A c \in Chats : f[c].total \in Nat
    BY <2>5 DEF InFile, NoSessions, NoSession, SetupInv, OfThisWallet, FileOK, SessionsFine, Session
  <2>7. Guessed <= TotalLimit - 1 + Spare + Others
    BY <2>1, GuessedAtMost DEF GuessInv
  <2>8. ASSUME NEW c \in Chats, Phrased(f, c)
        PROVE  Guessed <= Cap(f[c].total) + Spare'
    <3>1. Cap(f[c].total) \in Nat
      BY <2>6, CapBounds
    <3>2. \/ Guessed <= Cap(f[c].total) + Spare
          \/ Guessed + Cardinality(Asking) <= Cap(f[c].total) + Spare + Others
      BY <2>1, <2>5, <2>8 DEF OnFile
    <3>3. Cardinality(Asking) \in Nat
      BY HandlersAreCounted DEF Asking
    <3> QED
      BY <1>2, <2>2, <3>1, <3>2, <3>3
  <2>9. OnePhrase(f)
    BY <2>1, <2>5 DEF OnFile
  <2>10. InMemory'
    BY <1>2, <2>2, <2>3, <2>4, <2>5, <2>7, <2>8, <2>9 DEF InMemory, Others
  <2>11. OnFile(InFile(file))'
    <3>1. InFile(file)' = f
      BY <1>1, <2>5 DEF InFile
    <3> QED
      BY <2>2, <2>5, <2>8, <2>9, <3>1 DEF OnFile, Phrased
  <2> QED
    BY <1>3, <2>10, <2>11 DEF GuessInv
<1> QED
  BY <1>4, <1>5

(* A new answer, in the chat with the phrase.                               *)
LEMMA AnswerComesKeepsGuesses ==
  ASSUME SetupInv, GuessInv, NEW t \in Slots, NEW c \in Chats, AnswerComes(t, c)
  PROVE  GuessInv'
<1>1. PICK claim \in shown \cup {NoWallet} : TextWords(t, c, claim) /\ Sealed(c)
  BY DEF AnswerComes
<1> DEFINE k == [[Handler(c, "checks") EXCEPT !.wallet = Opened(c), !.claim = claim,
                                              !.words = sessions[c].words]
                 EXCEPT !.awaits = "other"]
<1>2. /\ Phrased(sessions, c) /\ tasks[t] = Free /\ UNCHANGED <<file, sessions, overlapped>>
      /\ tasks' = [tasks EXCEPT ![t] = k]
  BY <1>1 DEF TextWords, Sealed, Begins, Waits, Becomes, Phrased
<1>3. SameGuesses
  BY <1>1 DEF TextWords, SameGuesses, keyVars, pastVars
<1>4. k.step = "checks" /\ k.chat = c
  BY DEF Handler, Free
<1>5. GuessTypes' /\ Guessed' = Guessed /\ Spare' = Spare /\ crashes' = crashes
  BY <1>3, SameGuessesMeans DEF GuessInv
<1> HIDE DEF k
<1>6. /\ tasks'[t] = k /\ \A u \in Slots \ {t} : tasks'[u] = tasks[u]
  BY <1>2 DEF SetupInv, SetupTypes
<1>7. /\ ~Asks(tasks[t]) /\ ~Counts(tasks[t]) /\ ~Seals(tasks[t])
      /\ ~Counts(tasks'[t]) /\ ~Seals(tasks'[t])
  BY <1>2, <1>4, <1>6, FreeGood DEF Asks, Counts, Seals
<1>8. Counted' = Counted
  BY <1>6, <1>7 DEF Counted
<1>9. ASSUME InMemory PROVE InMemory'
  <2>1. \A u \in Slots, d \in Chats : Asks(tasks'[u]) /\ Phrased(sessions, d) => tasks'[u].chat = d
    BY <1>2, <1>4, <1>6, <1>9 DEF InMemory, OnePhrase
  <2>2. \A u \in Slots : ~Seals(tasks'[u])
    BY <1>2, <1>6, <1>7, <1>9 DEF InMemory
  <2> QED
    BY <1>2, <1>5, <1>8, <1>9, <2>1, <2>2 DEF InMemory, OnePhrase, Phrased
<1>10. OnFile(InFile(file)) => OnFile(InFile(file))'
  <2>1. PICK f : f = InFile(file)
    OBVIOUS
  <2>2. InFile(file)' = f /\ \E d \in Chats : Phrased(sessions', d)
    BY <1>2, <2>1 DEF InFile
  <2> QED
    BY <1>2, <1>5, <2>1, <2>2 DEF OnFile
<1> QED
  BY <1>2, <1>5, <1>9, <1>10 DEF GuessInv

(* An answer is counted before it is compared.                              *)
AnswerIsCounted(t) == LET c == tasks[t].chat IN
    /\ Asks(tasks[t]) /\ tasks[t].step = "checks"
    /\ sessions' = [sessions EXCEPT ![c].total = OneMore(@, TotalLimit), ![c].idle = FALSE]
    /\ Saves(t, [Continues(t, "judges") EXCEPT !.count = OneMore(sessions[c].total, TotalLimit)])

(* The count goes up with the answers that are counted.                     *)
LEMMA AnswerIsCountedKeepsGuesses ==
  ASSUME SetupInv, FilesInv, GuessInv, NEW t \in Slots, Turn(t), AnswerIsCounted(t), SameGuesses
  PROVE  GuessInv'
<1> DEFINE c == tasks[t].chat
           n == OneMore(sessions[c].total, TotalLimit)
           k == [Continues(t, "judges") EXCEPT !.count = n]
<1>1. tasks[t] \in Task /\ c \in Chats /\ tasks[t].step = "checks" /\ Asks(tasks[t])
  BY TaskMeans DEF AnswerIsCounted
<1>2. sessions[c].total \in Nat /\ \A d \in Chats : sessions[d] \in Session
  BY <1>1, SessionsMeans DEF Session
<1>3. n \in Nat
  BY <1>2, CapBounds
<1>4. SavesOver(t, k, {})
  BY DEF AnswerIsCounted, Saves
<1>5. /\ \A d \in Chats : (Phrased(sessions', d) <=> Phrased(sessions, d))
      /\ \A d \in Chats \ {c} : sessions'[d].total = sessions[d].total
      /\ sessions'[c].total = n
  <2> HIDE DEF c, n
  <2>1. sessions' = [sessions EXCEPT ![c].total = n, ![c].idle = FALSE]
    BY DEF AnswerIsCounted, c, n
  <2> QED
    BY <1>1, <1>2, <2>1 DEF SetupInv, OfThisWallet, SessionsFine, Session, Phrased
<1>6. /\ k \in Task /\ k.step = "judges" /\ k.chat = c /\ k.wallet = tasks[t].wallet
      /\ k.count = n
  <2>1. /\ Continues(t, "judges") \in Task /\ Continues(t, "judges").step = "judges"
        /\ Continues(t, "judges").chat = c /\ Continues(t, "judges").wallet = tasks[t].wallet
    BY <1>1, ContinuesReads DEF Steps
  <2> HIDE DEF n
  <2> QED
    BY <1>3, <2>1 DEF Task
<1> HIDE DEF k, n
<1>7. Puts(t, k)
  BY <1>4 DEF Puts
<1>8. /\ \A u \in Slots \ {t} :
            /\ Asks(tasks'[u]) <=> Asks(tasks[u])
            /\ Counts(tasks'[u]) <=> Counts(tasks[u])
            /\ Seals(tasks'[u]) <=> Seals(tasks[u])
            /\ tasks'[u].chat = tasks[u].chat
      /\ Asks(tasks'[t]) /\ tasks'[t].chat = c /\ ~Seals(tasks'[t])
      /\ Counts(tasks'[t]) => n < TotalLimit
      /\ SaveUnderWay(t)'
  <2>1. Asks(k) /\ ~Seals(k) /\ (Counts(k) => n < TotalLimit)
    BY <1>1, <1>6 DEF Asks, Seals, Counts
  <2>2. SaveUnderWay(t)'
    BY <1>4, <1>6 DEF SavesOver, SaveUnderWay, Task
  <2>3. k \in Task /\ Puts(t, k)
    BY <1>6, <1>7
  <2>4. \A u \in Slots \ {t} :
               /\ Asks(tasks'[u]) <=> Asks(tasks[u])
               /\ Counts(tasks'[u]) <=> Counts(tasks[u])
               /\ Seals(tasks'[u]) <=> Seals(tasks[u])
               /\ tasks'[u].chat = tasks[u].chat
    BY <2>3, OthersStay
  <2>5. /\ Asks(tasks'[t]) <=> Asks(k)
        /\ Counts(tasks'[t]) <=> Counts(k)
        /\ Seals(tasks'[t]) <=> Seals(k)
        /\ tasks'[t].chat = k.chat
    BY <2>3, OthersStay
  <2> QED
    BY <1>6, <2>1, <2>2, <2>4, <2>5
<1>9. /\ Asking' = Asking
      /\ Counted' \subseteq Counted \cup {t}
      /\ n >= TotalLimit => Counted' \subseteq Counted
  BY <1>1, <1>3, <1>8, OnboardingAssumption DEF Asking, Counted
<1>10. /\ Cardinality(Counted) \in Nat /\ Cardinality(Counted') \in Nat
       /\ Cardinality(Counted') <= Cardinality(Counted) + 1
       /\ n >= TotalLimit => Cardinality(Counted') <= Cardinality(Counted)
  <2>1. Counted \in SUBSET Slots /\ Counted' \in SUBSET Slots
    BY DEF Counted
  <2> QED
    BY <1>9, <2>1, HandlersAreCounted
<1>11. /\ GuessTypes' /\ Guessed' = Guessed /\ Spare' = Spare /\ crashes' = crashes
       /\ Guessed \in Nat /\ Spare \in Nat /\ TotalLimit \in Nat
  BY SameGuessesMeans, GuessedIs, SpareIs DEF GuessInv
<1>12. ASSUME InMemory PROVE InMemory'
  <2>1. \A u \in Slots, d \in Chats : Asks(tasks'[u]) /\ Phrased(sessions', d) => tasks'[u].chat = d
    BY <1>1, <1>5, <1>8, <1>12 DEF InMemory
  <2>2. \A u \in Slots : ~Seals(tasks'[u])
    BY <1>1, <1>8, <1>12 DEF InMemory
  <2>3. ASSUME NEW d \in Chats, Phrased(sessions', d)
        PROVE  Guessed' + Cardinality(Counted') <= Cap(sessions'[d].total) + Spare'
    <3>1. d = c /\ Phrased(sessions, c)
      BY <1>1, <1>5, <1>12, <2>3 DEF InMemory
    <3>2. Guessed + Cardinality(Counted) <= Cap(sessions[c].total) + Spare
      BY <1>1, <1>12, <3>1 DEF InMemory
    <3>3. /\ Cap(sessions[c].total) \in Nat /\ Cap(n) \in Nat
          /\ Cap(sessions[c].total) <= Cap(n)
          /\ n < TotalLimit => Cap(n) = Cap(sessions[c].total) + 1
      BY <1>2, <1>3, CapBounds DEF n
    <3>4. Guessed + Cardinality(Counted') <= Cap(n) + Spare
      BY <1>3, <1>10, <1>11, <3>2, <3>3
    <3> QED
      BY <1>5, <1>11, <3>1, <3>4
  <2>4. OnePhrase(sessions')
    BY <1>5, <1>12 DEF InMemory, OnePhrase
  <2>5. (\A d \in Chats : ~Phrased(sessions', d)) =>
            Guessed' + Cardinality(Asking') <= TotalLimit - 1 + Spare' + Others
    BY <1>5, <1>9, <1>11, <1>12 DEF InMemory
  <2> QED
    BY <2>1, <2>2, <2>3, <2>4, <2>5 DEF InMemory, Others
<1>13. ASSUME InMemory, ~overlapped' PROVE OnFile(InFile(file))'
  <2>1. InFile(file') = Snapshot
    BY <1>8, <1>13, TurnMovesFile
  <2>2. PICK f : f = Snapshot
    OBVIOUS
  <2>3. OnePhrase(f)
    BY <1>13, <2>2, SnapshotPhrases DEF InMemory, OnePhrase
  <2>4. ASSUME NEW d \in Chats, Phrased(f, d)
        PROVE  Phrased(sessions', d) /\ Guessed <= Cap(f[d].total) + Spare
    <3>1. /\ Phrased(sessions, d) /\ f[d].total = sessions[d].total /\ sessions[d].total \in Nat
      BY <2>2, <2>4, SnapshotPhrases
    <3>2. Guessed + Cardinality(Counted) <= Cap(f[d].total) + Spare
      BY <1>13, <3>1 DEF InMemory
    <3>3. Cap(f[d].total) \in Nat
      BY <3>1, CapBounds
    <3> QED
      BY <1>5, <1>10, <1>11, <3>1, <3>2, <3>3
  <2>5. InFile(file)' = f
    BY <2>1, <2>2 DEF InFile
  <2>6. \A d \in Chats : Phrased(f, d) => \E e \in Chats : Phrased(sessions', e)
    BY <2>4
  <2> HIDE DEF c
  <2> QED
    BY <1>11, <2>3, <2>4, <2>5, <2>6 DEF OnFile, Others
<1>14. overlapped => overlapped'
  BY <1>6, <1>7, PutsMeans DEF SetupInv, SetupTypes
<1> QED
  BY <1>11, <1>12, <1>13, <1>14 DEF GuessInv

(* The phrase of a new wallet reaches a session; nothing was compared yet.  *)
LEMMA PhraseIsSealedKeepsGuesses ==
  ASSUME SetupInv, FilesInv, GuessInv, NEW t \in Slots, Turn(t), PhraseIsSealed(t), SameGuesses
  PROVE  GuessInv'
<1> DEFINE c == tasks[t].chat
           w == tasks[t].wallet
           s == [[sessions[c] EXCEPT !.phrase = w, !.opens = (tasks[t].holds = "current")]
                 EXCEPT !.idle = FALSE]
<1>1. /\ tasks[t] \in Task /\ c \in Chats /\ w \in Wallets \cup {NoWallet} /\ w # NoWallet
      /\ Seals(tasks[t])
  BY TaskMeans DEF PhraseIsSealed, Seals, Task
<1>2. sessions' = [sessions EXCEPT ![c] = s] /\ SavesOver(t, Continues(t, "displays"), {})
  BY DEF PhraseIsSealed, SealsPhrase, Updates, Saves
<1>3. sessions[c] \in Session
  BY <1>1, SessionsMeans
<1>4. s.phrase = w /\ s.total = sessions[c].total /\ s.total \in Nat
  BY <1>3 DEF Session
<1> HIDE DEF s
<1>5. /\ sessions'[c] = s /\ \A d \in Chats \ {c} : sessions'[d] = sessions[d]
  BY <1>1, <1>2 DEF SetupInv, OfThisWallet, SessionsFine
<1>6. /\ Continues(t, "displays") \in Task /\ Continues(t, "displays").step = "displays"
  BY <1>1, ContinuesReads DEF Steps
<1>7. /\ \A u \in Slots \ {t} :
            /\ Asks(tasks'[u]) <=> Asks(tasks[u])
            /\ Counts(tasks'[u]) <=> Counts(tasks[u])
            /\ Seals(tasks'[u]) <=> Seals(tasks[u])
      /\ ~Asks(tasks'[t]) /\ ~Counts(tasks'[t]) /\ ~Seals(tasks'[t])
  <2>1. Puts(t, Continues(t, "displays"))
    BY <1>2 DEF Puts
  <2> QED
    BY <1>6, <2>1, OthersStay DEF Asks, Counts, Seals
<1>8. /\ GuessTypes' /\ Guessed' = Guessed /\ Spare' = Spare /\ crashes' = crashes
      /\ Spare \in Nat
  BY SameGuessesMeans, GuessedIs, SpareIs DEF GuessInv
<1>9. ASSUME InMemory PROVE InMemory' /\ (~overlapped' => OnFile(InFile(file))')
  <2>1. /\ Guessed = 0 /\ \A d \in Chats : ~Phrased(sessions, d)
        /\ \A u \in Slots : ~Asks(tasks[u]) /\ (Seals(tasks[u]) => u = t)
    BY <1>1, <1>9 DEF InMemory
  <2>2. \A u \in Slots : ~Asks(tasks'[u]) /\ ~Counts(tasks'[u]) /\ ~Seals(tasks'[u])
    BY <1>7, <2>1 DEF Counts
  <2>3. Cardinality(Counted') = 0
    <3>1. Counted' = {}
      BY <2>2 DEF Counted
    <3> QED
      BY <3>1, FS_EmptySet
  <2>4. \A d \in Chats : Phrased(sessions', d) <=> d = c
    BY <1>1, <1>4, <1>5, <2>1 DEF Phrased
  <2>5. InMemory'
    <3>1. Cap(s.total) \in Nat
      BY <1>4, CapBounds
    <3>2. Guessed' + Cardinality(Counted') <= Cap(s.total) + Spare'
      BY <1>8, <2>1, <2>3, <3>1
    <3>3. OnePhrase(sessions')
      BY <2>4 DEF OnePhrase
    <3>4. \E d \in Chats : Phrased(sessions', d)
      BY <1>1, <2>4
    <3> HIDE DEF c
    <3> QED
      BY <1>5, <2>2, <2>4, <3>2, <3>3, <3>4 DEF InMemory
  <2>6. ASSUME ~overlapped' PROVE OnFile(InFile(file))'
    <3>1. sessions' # sessions
      BY <1>1, <2>1, <2>4
    <3>2. InFile(file') = Snapshot
      BY <2>6, <3>1, TurnMovesFile
    <3>3. \A d \in Chats : ~Phrased(Snapshot, d)
      BY <2>1, SnapshotPhrases
    <3>4. PICK f : f = Snapshot
      OBVIOUS
    <3>5. InFile(file)' = f /\ \A d \in Chats : ~Phrased(f, d)
      BY <3>2, <3>3, <3>4 DEF InFile
    <3> QED
      BY <3>5 DEF OnFile, OnePhrase
  <2> QED
    BY <2>5, <2>6
<1>10. overlapped => overlapped'
  BY <1>2 DEF SavesOver
<1> QED
  BY <1>8, <1>9, <1>10 DEF GuessInv

(* A wallet is made: nobody has its phrase but the handler that made it.    *)
LEMMA CreationKeepsGuesses ==
  ASSUME SetupInv, GuessTypes, NEW t \in Slots, Turn(t), disk = NoWallet, disk' \in Wallets,
         UNCHANGED <<guesses, crashes>>, \A c \in Chats : ~Phrased(sessions', c),
         tasks'[t].step \notin {"checks", "judges"}
  PROVE  GuessInv'
<1>1. PICK k \in Task : Puts(t, k)
  BY DEF Turn
<1>2. \A u \in Slots : ~Asks(tasks[u]) /\ ~Seals(tasks[u])
  BY TaskMeans DEF Asks, Seals
<1>3. \A u \in Slots : ~Asks(tasks'[u]) /\ ~Counts(tasks'[u]) /\ (Seals(tasks'[u]) => u = t)
  BY <1>1, <1>2, OthersStay DEF Asks, Counts
<1>4. Cardinality(Asking') = 0
  <2>1. Asking' = {}
    BY <1>3 DEF Asking
  <2> QED
    BY <2>1, FS_EmptySet
<1>5. \A w \in Wallets : guesses[w] = 0
  BY WalletsAssumption DEF GuessTypes
<1>6. GuessTypes' /\ Guessed' = 0 /\ Spare' = Spare
  BY <1>5 DEF GuessTypes, Guessed, Spare
<1>7. Spare \in Nat /\ Others \in Nat /\ TotalLimit \in Nat /\ TotalLimit > 1
  BY GuessedIs, SpareIs
<1>8. InMemory'
  BY <1>3, <1>4, <1>6, <1>7 DEF InMemory, OnePhrase, Others
<1>9. OnFile(InFile(file))'
  <2>1. \A c \in Chats : ~Phrased(InFile(file'), c)
    <3>1. FileOK(file', disk, verified)
      BY DEF SetupInv, OfThisWallet, Turn, FilesMove, FileOK
    <3> QED
      BY <3>1 DEF Phrased, InFile, NoSessions, NoSession, FileOK, SessionsFine, SessionOK
  <2> QED
    BY <2>1 DEF OnFile, OnePhrase, InFile
<1> QED
  BY <1>6, <1>8, <1>9 DEF GuessInv

-----------------------------------------------------------------------------
(* An answer is compared: one more, by a handler that had counted it, unless *)
(* the session had gone.                                                    *)
LEMMA OneMoreGuess ==
  ASSUME SetupInv, GuessTypes, NEW t \in Slots, Asks(tasks[t]), disk' = disk, crashes' = crashes,
         guesses' = [guesses EXCEPT ![tasks[t].wallet] = OneMore(@, MaxGuesses)]
  PROVE  GuessTypes' /\ Guessed' <= Guessed + 1
<1>1. tasks[t].wallet = disk /\ disk \in Wallets
  BY TaskMeans, OneKeystoreMeans DEF SetupInv, Asks
<1>2. MaxGuesses \in Nat /\ guesses[disk] \in 0 .. MaxGuesses /\ crashes \in 0 .. MaxCrashes
  BY <1>1, GuessedIs DEF GuessTypes
<1>3. /\ OneMore(guesses[disk], MaxGuesses) \in 0 .. MaxGuesses
      /\ OneMore(guesses[disk], MaxGuesses) <= guesses[disk] + 1
  BY <1>2 DEF OneMore
<1>4. /\ guesses \in [Wallets -> 0 .. MaxGuesses]
      /\ guesses' = [guesses EXCEPT ![disk] = OneMore(guesses[disk], MaxGuesses)]
  BY <1>1 DEF GuessTypes
<1>5. /\ guesses' \in [Wallets -> 0 .. MaxGuesses] /\ guesses'[disk] <= guesses[disk] + 1
      /\ \A w \in Wallets : w # disk => guesses'[w] = guesses[w]
  BY <1>1, <1>3, <1>4
<1> QED
  BY <1>1, <1>2, <1>5 DEF GuessTypes, Guessed

LEMMA JudgesCalm ==
  ASSUME SetupInv, NEW t \in Slots, NEW c \in Chats, NEW session \in Session, NEW total,
         session = sessions[c] \/ (session = NoSession /\ ~HasSession(c)),
         Judges(t, c, session, total)
  PROVE  Calm(t)
<1>1. /\ Still(Handler(c, "givesUp")) /\ Still(Handler(c, "unseals"))
      /\ Still(Answer(c, "limits")) /\ Still(Answer(c, "failed"))
  BY StillHandlers DEF Steps, Keyboards
<1>2. CASE Clears(t, c, Handler(c, "givesUp"))
  BY <1>1, <1>2, ClearsCalm
<1>3. CASE Updates(t, c, [session EXCEPT !.phrase = NoWallet, !.opens = FALSE],
                   Handler(c, "unseals"), Answer(c, "limits"))
  <2>1. HasSession(c) => Keeping([session EXCEPT !.phrase = NoWallet, !.opens = FALSE], c)
    BY KeepingChanges
  <2> QED
    BY <1>1, <1>3, <2>1, UpdatesCalm
<1>4. CASE Updates(t, c, [session EXCEPT !.round = OneMore(@, RoundLimit)],
                   [Handler(c, "counts") EXCEPT !.wallet = tasks[t].wallet,
                                                !.count = OneMore(session.round, RoundLimit)],
                   Answer(c, "failed"))
  <2> DEFINE n == OneMore(session.round, RoundLimit)
             s == [session EXCEPT !.round = n]
             k == [Handler(c, "counts") EXCEPT !.wallet = tasks[t].wallet, !.count = n]
  <2>1. n \in Nat
    BY DEF OneMore, Session
  <2>2. Updates(t, c, s, k, Answer(c, "failed"))
    BY <1>4
  <2> HIDE DEF n
  <2>3. HasSession(c) => Keeping(s, c)
    BY <2>1, KeepingChanges
  <2>4. Still(k)
    <3>1. Reads(Handler(c, "counts"), "counts", c, NoWallet, "", "nothing")
      BY HandlerReads DEF Steps
    <3>2. tasks[t].wallet \in Wallets \cup {NoWallet}
      BY TaskMeans, OneKeystoreMeans DEF SetupInv
    <3> QED
      BY <2>1, <3>1, <3>2 DEF Reads, Still, Task
  <2> HIDE DEF s, k
  <2> QED
    BY <1>1, <2>2, <2>3, <2>4, UpdatesCalm
<1> QED
  BY <1>2, <1>3, <1>4, Zenon DEF Judges

(* The comparison itself.                                                   *)
LEMMA JudgesKeepsGuesses ==
  ASSUME SetupInv, FilesInv, GuessInv, NEW t \in Slots, Turn(t), Asks(tasks[t]),
         NEW c \in Chats, c = tasks[t].chat, NEW session \in Session, NEW total,
         session = sessions[c] \/ (session = NoSession /\ ~HasSession(c)),
         HasSession(c) => tasks[t].step = "judges" /\ total = tasks[t].count,
         Judges(t, c, session, total), disk' = disk, crashes' = crashes
  PROVE  GuessInv'
<1>1. Calm(t)
  BY JudgesCalm
<1>2. CASE UNCHANGED guesses
  <2>1. SameGuesses
    BY <1>2 DEF SameGuesses
  <2> QED
    BY <1>1, <2>1, CalmTurnKeepsGuesses
<1>3. CASE ~UNCHANGED guesses
  <2>1. /\ ~(total >= TotalLimit)
        /\ guesses' = [guesses EXCEPT ![tasks[t].wallet] = OneMore(@, MaxGuesses)]
        /\ HasSession(c) => \E k \in Task : Saves(t, k)
    <3>1. ~(total >= TotalLimit)
      BY <1>3 DEF Judges
    <3>2. guesses' = [guesses EXCEPT ![tasks[t].wallet] = OneMore(@, MaxGuesses)]
      BY <3>1, Zenon DEF Judges
    <3>3. HasSession(c) => \E k \in Task : Saves(t, k)
      <4>1. OneMore(session.round, RoundLimit) \in Nat
        BY DEF OneMore, Session
      <4>2. /\ Handler(c, "unseals") \in Task /\ Handler(c, "counts") \in Task
            /\ tasks[t].wallet \in Wallets \cup {NoWallet}
        <5>1. /\ Reads(Handler(c, "unseals"), "unseals", c, NoWallet, "", "nothing")
              /\ Reads(Handler(c, "counts"), "counts", c, NoWallet, "", "nothing")
          BY HandlerReads DEF Steps
        <5>2. tasks[t].wallet \in Wallets \cup {NoWallet}
          BY TaskMeans, OneKeystoreMeans DEF SetupInv
        <5> QED
          BY <5>1, <5>2 DEF Reads
      <4>3. [Handler(c, "counts") EXCEPT !.wallet = tasks[t].wallet,
                                         !.count = OneMore(session.round, RoundLimit)] \in Task
        BY <4>1, <4>2 DEF Task
      <4>4. HasSession(c) =>
              \/ Saves(t, Handler(c, "unseals"))
              \/ Saves(t, [Handler(c, "counts") EXCEPT !.wallet = tasks[t].wallet,
                                                       !.count = OneMore(session.round, RoundLimit)])
        BY <3>1, Zenon DEF Judges, Updates
      <4> QED
        BY <4>2, <4>3, <4>4, Zenon
    <3> QED
      BY <3>1, <3>2, <3>3
  <2>2. GuessTypes' /\ Guessed' <= Guessed + 1
    BY <2>1, OneMoreGuess DEF GuessInv
  <2>3. ASSUME InMemory, ~NonePhrased PROVE Counts(tasks[t]) /\ SaveUnderWay(t)'
    <3>1. Phrased(sessions, c)
      BY <2>3 DEF InMemory, NonePhrased
    <3>2. HasSession(c)
      BY <3>1 DEF Phrased, HasSession, NoSession
    <3>3. tasks[t].count < TotalLimit
      <4>1. tasks[t].count \in Nat /\ TotalLimit \in Nat
        BY TaskMeans, OnboardingAssumption DEF Task
      <4> QED
        BY <2>1, <3>2, <4>1
    <3>4. SaveUnderWay(t)'
      <4>1. PICK k \in Task : Saves(t, k)
        BY <2>1, <3>2
      <4> QED
        BY <4>1 DEF Saves, SavesOver, SaveUnderWay, Task
    <3> QED
      BY <3>2, <3>3, <3>4 DEF Counts
  <2>4. InMemory => Compares(t)
    BY <2>2, <2>3 DEF Compares
  <2> QED
    BY <1>1, <2>2, <2>4, CalmKeepsGuesses
<1> QED
  BY <1>2, <1>3

(* Both steps at which an answer may be compared.                           *)
LEMMA ChecksKeepsGuesses ==
  ASSUME SetupInv, FilesInv, GuessInv, NEW t \in Slots, ChecksWords(t) \/ JudgesWords(t)
  PROVE  GuessInv'
<1> DEFINE c == tasks[t].chat
<1>0. Turn(t)
  BY ChecksKeeps
<1>1. disk' = disk /\ crashes' = crashes
  BY DEF ChecksWords, JudgesWords, keyVars
<1>2. tasks[t] \in Task /\ TaskOK(tasks[t], disk, verified)
  BY TaskMeans
<1>3. CASE ChecksWords(t)
  <2>1. tasks[t].step = "checks" /\ c \in Chats
    BY <1>3, TaskMeans DEF ChecksWords, Arrives
  <2>2. CASE Becomes(t, Free) /\ UNCHANGED <<sessions, guesses, verified>>
    <3>1. SameGuesses /\ Still(Free)
      BY <1>1, <2>2, FreeGood DEF SameGuesses, Still
    <3>2. Calm(t)
      BY <2>2, <3>1, PutsCalm
    <3> QED
      BY <1>0, <3>1, <3>2, CalmTurnKeepsGuesses
  <2>3. CASE /\ tasks[t].wallet # NoWallet
             /\ sessions' = [sessions EXCEPT ![c].total = OneMore(@, TotalLimit), ![c].idle = FALSE]
             /\ Saves(t, [Continues(t, "judges") EXCEPT
                             !.count = OneMore(sessions[c].total, TotalLimit)])
             /\ UNCHANGED <<guesses, verified>>
    <3>1. SameGuesses /\ AnswerIsCounted(t)
      BY <1>1, <2>1, <2>3 DEF SameGuesses, AnswerIsCounted, Asks
    <3> QED
      BY <1>0, <3>1, AnswerIsCountedKeepsGuesses
  <2>4. CASE tasks[t].wallet # NoWallet /\ ~HasSession(c) /\ Judges(t, c, NoSession, 1)
    <3>1. NoSession \in Session /\ Asks(tasks[t])
      BY <2>1, <2>4, SessionsMeans DEF Asks
    <3> QED
      BY <1>0, <1>1, <2>1, <2>4, <3>1, JudgesKeepsGuesses
  <2> QED
    BY <1>3, <2>2, <2>3, <2>4, Zenon DEF ChecksWords
<1>4. CASE JudgesWords(t)
  <2>1. Arrives(t, "judges") /\ Judges(t, c, sessions[c], tasks[t].count)
    BY <1>4 DEF JudgesWords
  <2>2. tasks[t].step = "judges" /\ c \in Chats
    BY <2>1, TaskMeans DEF Arrives
  <2>3. Asks(tasks[t]) /\ sessions[c] \in Session
    BY <1>2, <2>2, SessionsMeans DEF TaskOK, Asks
  <2> QED
    BY <1>0, <1>1, <2>1, <2>2, <2>3, JudgesKeepsGuesses
<1> QED
  BY <1>3, <1>4

-----------------------------------------------------------------------------
(* The wallet is made, or the handler stops before that.                    *)
LEMMA CreatesWalletKeepsGuesses ==
  ASSUME SetupInv, FilesInv, GuessInv, NEW t \in Slots, Turn(t), NEW c \in Chats,
         NEW session \in Session, tasks[t] \in Task,
         session = sessions[c] \/ (session = NoSession /\ ~HasSession(c)),
         CreatesWallet(t, c, session), UNCHANGED <<guesses, crashes>>
  PROVE  GuessInv'
<1>1. CASE Clears(t, c, Answer(c, "nothing")) /\ UNCHANGED keyVars
  <2>1. Calm(t) /\ SameGuesses
    BY <1>1, StillHandlers, ClearsCalm DEF SameGuesses, keyVars, Keyboards
  <2> QED
    BY <2>1, CalmTurnKeepsGuesses
<1>2. ASSUME NEW w \in Wallets, GenerateKeys(w),
             LET made_w == [tasks[t] EXCEPT !.wallet = w, !.holds = "current", !.step = "seals"]
                 phrase == [PhraseAnswer(c, w) EXCEPT !.origin = tasks[t].origin]
             IN IF session.hashed
                THEN sessions' = [sessions EXCEPT ![c] = session] /\ Waits(t, made_w)
                ELSE Updates(t, c, [session EXCEPT !.state = "displayed"], phrase, phrase)
      PROVE  GuessInv'
  <2> DEFINE made_w == [tasks[t] EXCEPT !.wallet = w, !.holds = "current", !.step = "seals"]
             phrase == [PhraseAnswer(c, w) EXCEPT !.origin = tasks[t].origin]
             s == [session EXCEPT !.state = "displayed"]
  <2>1. disk = NoWallet /\ disk' \in Wallets
    BY <1>2 DEF GenerateKeys, SaveKeystore, IsInitialized
  <2>2. \A d \in Chats : ~Phrased(sessions, d)
    BY <2>1, SessionsMeans DEF SessionOK, Phrased
  <2>3. sessions \in [Chats -> Session] /\ NoSession.phrase = NoWallet
    BY SessionsMeans DEF NoSession
  <2>4. session.phrase = NoWallet
    BY <2>2, <2>3 DEF Phrased
  <2>5. CASE sessions' = [sessions EXCEPT ![c] = session] /\ Waits(t, made_w)
    <3>1. \A d \in Chats : ~Phrased(sessions', d)
      BY <2>2, <2>3, <2>4, <2>5 DEF Phrased
    <3>2. tasks'[t].step = "seals"
      BY <2>5 DEF Waits, Becomes, Task, SetupInv, SetupTypes
    <3> QED
      BY <1>2, <2>1, <3>1, <3>2, CreationKeepsGuesses DEF GuessInv
  <2>6. CASE Updates(t, c, s, phrase, phrase)
    <3>1. s.phrase = NoWallet /\ [s EXCEPT !.idle = FALSE].phrase = NoWallet
      BY <2>4 DEF Session
    <3>2. Still(phrase) /\ phrase \in Task /\ phrase.step = "replies"
      <4>1. tasks[t].origin \in {"", "text", "button"}
        BY DEF Task
      <4>2. Reads(PhraseAnswer(c, w), "replies", c, w, "", "phrase")
        BY PhraseAnswerReads
      <4>3. Reads(phrase, "replies", c, w, tasks[t].origin, "phrase")
        BY <4>1, <4>2, OriginRead
      <4> QED
        BY <4>3 DEF Reads, Still
    <3> HIDE DEF s, phrase
    <3>3. \A d \in Chats : ~Phrased(sessions', d)
      BY <2>2, <2>3, <2>6, <3>1 DEF Updates, Phrased
    <3>4. Puts(t, phrase) \/ Becomes(t, phrase)
      BY <2>6 DEF Updates, Saves, Puts
    <3>5. tasks'[t].step = "replies"
      BY <3>2, <3>4, OthersStay DEF Becomes, SetupInv, SetupTypes
    <3> QED
      BY <1>2, <2>1, <3>3, <3>5, CreationKeepsGuesses DEF GuessInv
  <2> HIDE DEF made_w, phrase, s
  <2> QED
    BY <1>2, <2>5, <2>6 DEF made_w, phrase, s
<1> QED
  BY <1>1, <1>2, Zenon DEF CreatesWallet

(* Both steps at which a wallet may be made.                                *)
LEMMA MakingKeepsGuesses ==
  ASSUME SetupInv, FilesInv, GuessInv, NEW t \in Slots, HashesPassphrase(t) \/ CreatesWithHash(t)
  PROVE  GuessInv'
<1> DEFINE c == tasks[t].chat
<1>0. Turn(t) /\ tasks[t] \in Task
  BY CreationKeeps, TaskMeans
<1>1. UNCHANGED <<guesses, crashes>>
  BY DEF HashesPassphrase, CreatesWithHash
<1>2. CASE HashesPassphrase(t)
  <2>1. c \in Chats
    BY <1>2, TaskMeans DEF HashesPassphrase, Arrives
  <2>2. CASE HasSession(c)
    <3> DEFINE s == [sessions[c] EXCEPT !.hashed = TRUE, !.opens = FALSE, !.idle = FALSE]
    <3>1. /\ sessions' = [sessions EXCEPT ![c].hashed = TRUE, ![c].opens = FALSE,
                                          ![c].idle = FALSE]
          /\ SavesOver(t, Continues(t, "creates"), {c}) /\ UNCHANGED keyVars
      BY <1>2, <2>2 DEF HashesPassphrase
    <3>2. sessions' = [sessions EXCEPT ![c] = s] /\ Keeping(s, c)
      BY <2>1, <3>1, SessionsMeans, KeepingChanges
    <3> HIDE DEF s
    <3>3. \A d \in Chats : Kept(sessions'[d], sessions[d])
      BY <3>2, PutKept
    <3>4. Still(Continues(t, "creates"))
      BY <1>0, ContinuesReads DEF Still, Steps
    <3>5. Calm(t) /\ SameGuesses
      BY <1>1, <3>1, <3>3, <3>4, StillPuts DEF SameGuesses, keyVars
    <3> QED
      BY <1>0, <3>5, CalmTurnKeepsGuesses
  <2>3. CASE ~HasSession(c)
    <3>1. CreatesWallet(t, c, NoSession)
      BY <1>2, <2>3 DEF HashesPassphrase
    <3> QED
      BY <1>0, <1>1, <2>1, <2>3, <3>1, SessionsMeans, CreatesWalletKeepsGuesses
  <2> QED
    BY <2>2, <2>3
<1>3. CASE CreatesWithHash(t)
  <2>1. Arrives(t, "creates") /\ CreatesWallet(t, c, sessions[c])
    BY <1>3 DEF CreatesWithHash
  <2>2. c \in Chats
    BY <2>1, TaskMeans DEF Arrives
  <2> QED
    BY <1>0, <1>1, <2>1, <2>2, SessionsMeans, CreatesWalletKeepsGuesses
<1> QED
  BY <1>2, <1>3

-----------------------------------------------------------------------------
(* Every step keeps the invariant.                                          *)
LEMMA HandlerGoesOnKeepsGuesses ==
  ASSUME SetupInv, FilesInv, GuessInv, NEW t \in Slots, HandlerGoesOn(t)
  PROVE  GuessInv'
<1>1. CASE SaveMakesDirectory(t) \/ SaveWrites(t) \/ SaveFails(t)
  BY <1>1, SaveStepsKeepGuesses, SaveFailsKeepsGuesses
<1>2. CASE GoesOnPlainly(t)
  <2>1. Turn(t) /\ SameGuesses
    BY <1>2, GoesOnPlainlyIs, PlainIsTurn DEF SameGuesses, keyVars, pastVars
  <2> QED
    BY <1>2, <2>1, GoesOnCalm, CalmTurnKeepsGuesses, PhraseIsSealedKeepsGuesses
<1>3. CASE Completes(t) \/ AnnouncesWallet(t) \/ AnswerIsShown(t)
  <2>1. Turn(t)
    BY <1>3, CompletesKeeps, AnnouncesWalletKeeps, AnswerIsShownKeeps
  <2>2. SameGuesses
    BY <1>3 DEF Completes, AnnouncesWallet, AnswerIsShown, SameGuesses, keyVars, pastVars
  <2> QED
    BY <1>3, <2>1, <2>2, CompletesCalm, CalmTurnKeepsGuesses
<1> QED
  BY <1>1, <1>2, <1>3, MakingKeepsGuesses, ChecksKeepsGuesses, Zenon
     DEF HandlerGoesOn, GoesOnPlainly

LEMMA CleansUpKeepsGuesses ==
  ASSUME SetupInv, FilesInv, GuessInv, NEW t \in Slots, CleansUp(t)
  PROVE  GuessInv'
<1>1. SameGuesses
  BY DEF CleansUp, SameGuesses, keyVars
<1>2. CASE UNCHANGED <<sessions, tasks, overlapped>>
  <2>1. UNCHANGED file
    BY DEF CleansUp, Begins
  <2> QED
    BY <1>1, <1>2, <2>1, StillKeepsGuesses
<1>3. CASE ~UNCHANGED <<sessions, tasks, overlapped>>
  <2>1. Turn(t)
    BY <1>3, CleansUpKeeps
  <2> QED
    BY <1>1, <1>3, <2>1, CleansUpCalm, CalmTurnKeepsGuesses
<1> QED
  BY <1>2, <1>3

LEMMA SetupNextKeepsGuesses ==
  ASSUME SetupInv, FilesInv, GuessInv, [SetupNext]_<<keyVars, setupVars>>
  PROVE  GuessInv'
<1>1. ASSUME NEW t \in Slots, NEW c \in Chats, Presses(t, c) \/ Texts(t, c) PROVE GuessInv'
  <2>1. Turn(t) /\ SameGuesses
    BY <1>1, PressesPlain, TextsPlain, PlainIsTurn DEF SameGuesses, keyVars, pastVars
  <2> QED
    BY <1>1, <2>1, PressesCalm, TextsCalm, CalmTurnKeepsGuesses, AnswerComesKeepsGuesses
<1>2. ASSUME NEW t \in Slots, HandlerGoesOn(t) \/ CleansUp(t) PROVE GuessInv'
  BY <1>2, HandlerGoesOnKeepsGuesses, CleansUpKeepsGuesses
<1>3. ASSUME NEW c \in Chats, Idles(c) \/ PassphraseExpires(c) PROVE GuessInv'
  BY <1>3, IdlesKeepsGuesses
<1>4. CASE UNCHANGED <<keyVars, setupVars>>
  <2>1. SameGuesses /\ UNCHANGED <<file, overlapped, tasks, sessions>>
    BY <1>4 DEF SameGuesses, keyVars, setupVars
  <2> QED
    BY <2>1, StillKeepsGuesses
<1> QED
  BY <1>1, <1>2, <1>3, <1>4, CrashKeepsGuesses, Zenon DEF SetupNext

(* Nothing was compared at first.                                           *)
LEMMA GuessInvInit == SetupInit => GuessInv
<1> SUFFICES ASSUME SetupInit PROVE GuessInv
  OBVIOUS
<1>1. /\ \A t \in Slots : tasks[t] = Free
      /\ \A c \in Chats : sessions[c] = NoSession
      /\ InFile(file) = NoSessions /\ crashes = 0 /\ guesses = [w \in Wallets |-> 0]
  BY DEF SetupInit, InFile, NoSessions
<1>2. /\ \A t \in Slots : ~Asks(tasks[t]) /\ ~Counts(tasks[t]) /\ ~Seals(tasks[t])
      /\ \A c \in Chats : ~Phrased(sessions, c) /\ ~Phrased(InFile(file), c)
  <2>1. \A t \in Slots : ~Asks(tasks[t]) /\ ~Counts(tasks[t]) /\ ~Seals(tasks[t])
    BY <1>1, FreeGood DEF Asks, Counts, Seals
  <2>2. NoSession.phrase = NoWallet /\ \A c \in Chats : InFile(file)[c] = NoSession
    BY <1>1 DEF NoSessions, NoSession
  <2> QED
    BY <1>1, <2>1, <2>2 DEF Phrased
<1>3. Asking = {} /\ Counted = {}
  BY <1>2 DEF Asking, Counted
<1>4. Cardinality(Asking) = 0
  BY <1>3, FS_EmptySet
<1>5. /\ TotalLimit \in Nat /\ TotalLimit > 1 /\ Others \in Nat /\ Spare \in Nat
      /\ MaxCrashes \in Nat /\ MaxGuesses \in Nat
  <2>1. Cardinality(Slots) \in Nat
    BY HandlersAreCounted
  <2> QED
    BY <1>1, <2>1, SpareIs, OnboardingAssumption DEF MaxGuesses
<1>6. GuessTypes /\ Guessed = 0
  BY <1>1, <1>5 DEF GuessTypes, Guessed
<1>7. InMemory
  BY <1>2, <1>4, <1>5, <1>6 DEF InMemory, OnePhrase
<1>8. OnFile(InFile(file))
  BY <1>2 DEF OnFile, OnePhrase
<1> QED
  BY <1>6, <1>7, <1>8 DEF GuessInv

LEMMA GuessInvHolds == SetupSpec => [](SetupInv /\ FilesInv /\ GuessInv)
<1>1. SetupInit => SetupInv /\ FilesInv /\ GuessInv
  BY SetupInvInit, FilesInvInit, GuessInvInit
<1>2. SetupInv /\ FilesInv /\ GuessInv /\ [SetupNext]_<<keyVars, setupVars>>
      => (SetupInv /\ FilesInv /\ GuessInv)'
  BY SetupNextKeepsInv, SetupNextKeepsFiles, SetupNextKeepsGuesses
<1> QED
  BY <1>1, <1>2, PTL DEF SetupSpec

(* However many chats, handlers and crashes there are, fewer answers than   *)
(* the limit are compared with a recovery phrase, but for one of every      *)
(* other handler, again after every crash - unless saves overlapped and a   *)
(* crash brought an old count back.                                         *)
THEOREM GuessesAreBoundedHolds == SetupSpec => []GuessesAreBounded
<1>1. SetupInv /\ FilesInv /\ GuessInv => GuessesAreBounded
  BY GuessInvBounds
<1> QED
  BY <1>1, GuessInvHolds, PTL

-----------------------------------------------------------------------------
LEMMA SetupStepIsKeysStep == [SetupNext]_<<keyVars, setupVars>> => KeysStep
<1> SUFFICES ASSUME [SetupNext]_<<keyVars, setupVars>> PROVE KeysStep
  OBVIOUS
<1>1. ASSUME NEW t \in Slots, NEW c \in Chats, Presses(t, c) \/ Texts(t, c) PROVE KeysStep
  BY <1>1, Zenon DEF Presses, PressStart, PressRetry, PressWeakOk, PressSaved, PressShowAgain,
     PressVerifyRetry, PressLimit, PressResume, PressRestart, Texts, WalletCommand,
     TextInExpiredSession, TextWeakPassphrase, TextStrongPassphrase, TextWords, KeysStep
<1>2. ASSUME NEW t \in Slots, HashesPassphrase(t) \/ CreatesWithHash(t) PROVE KeysStep
  BY <1>2, Zenon DEF HashesPassphrase, CreatesWithHash, CreatesWallet, GenerateKeys, KeysStep
<1>3. ASSUME NEW t \in Slots, Completes(t) PROVE KeysStep
  BY <1>3, Zenon DEF Completes, KeysStep
<1>4. ASSUME NEW t \in Slots, HandlerGoesOn(t) PROVE KeysStep
  <2>1. CASE GoesOnPlainly(t)
    BY <2>1, Zenon DEF GoesOnPlainly, AnswerIsReady, StartsOver, SealsPhrase, DisplaysPhrase,
       AsksForWords, ShowsDecrypted, AsksAgain, GivesUp, UnsealsPhrase, CountsFailure,
       WritesLimit, ClosesSession, KeysStep
  <2>2. CASE SaveMakesDirectory(t) \/ SaveWrites(t) \/ SaveFails(t) \/ AnswerIsShown(t)
             \/ ChecksWords(t) \/ JudgesWords(t) \/ AnnouncesWallet(t)
    BY <2>2, Zenon DEF SaveMakesDirectory, SaveWrites, SaveFails, AnswerIsShown, ChecksWords,
       JudgesWords, AnnouncesWallet, KeysStep
  <2> QED
    BY <1>2, <1>3, <1>4, <2>1, <2>2, Zenon DEF HandlerGoesOn, GoesOnPlainly
<1>5. ASSUME NEW t \in Slots, CleansUp(t) PROVE KeysStep
  BY <1>5, Zenon DEF CleansUp, KeysStep
<1>6. ASSUME NEW c \in Chats, Idles(c) \/ PassphraseExpires(c) PROVE KeysStep
  BY <1>6, Zenon DEF Idles, PassphraseExpires, KeysStep
<1>7. CASE Crash
  BY <1>7, Zenon DEF Crash, KeysStep
<1>8. CASE UNCHANGED <<keyVars, setupVars>>
  BY <1>8, Zenon DEF KeysStep
<1> QED
  BY <1>1, <1>4, <1>5, <1>6, <1>7, <1>8, Zenon DEF SetupNext

(* The key manager holds the wallet of the file, or nothing, through every  *)
(* interleaving of set-up handlers and restarts as well.                    *)
THEOREM KeysAgreeInSetup == SetupSpec => []KeysAgree
<1>1. SetupInit => KeysInv
  BY KeysInvInit DEF SetupInit
<1>2. KeysInv /\ [SetupNext]_<<keyVars, setupVars>> => KeysInv'
  BY SetupStepIsKeysStep, KeysStepKeepsInv
<1> QED
  BY <1>1, <1>2, KeysInvAgrees, PTL DEF SetupSpec

(***************************************************************************)
(* The types of both, as one system                                        *)
(***************************************************************************)
(* What the set-up keeps beside the variables of its invariants.            *)
SetupRest == temp \subseteq Chats /\ cleanupDue \in BOOLEAN /\ dropped \subseteq Wallets

(* Buttons and texts.                                                       *)
LEMMA PressesMoveRest ==
  ASSUME NEW t \in Slots, NEW c \in Chats, Presses(t, c) \/ Texts(t, c)
  PROVE  temp' \subseteq temp \cup Chats /\ UNCHANGED <<cleanupDue, dropped>>
<1>1. CASE Presses(t, c)
  <2>1. temp' = temp \/ temp' = temp \ {c}
    BY <1>1, Zenon DEF Presses, PressStart, PressRetry, PressWeakOk, PressSaved, PressShowAgain,
       PressVerifyRetry, PressLimit, PressResume, PressRestart
  <2>2. UNCHANGED pastVars
    BY <1>1, Zenon DEF Presses, PressStart, PressRetry, PressWeakOk, PressSaved, PressShowAgain,
       PressVerifyRetry, PressLimit, PressResume, PressRestart
  <2> QED
    BY <2>1, <2>2 DEF pastVars
<1>2. CASE Texts(t, c)
  <2>1. temp' = temp \/ temp' = temp \cup {c}
    BY <1>2, Zenon DEF Texts, WalletCommand, TextInExpiredSession, TextWeakPassphrase,
       TextStrongPassphrase, TextWords
  <2>2. UNCHANGED pastVars
    BY <1>2, Zenon DEF Texts, WalletCommand, TextInExpiredSession, TextWeakPassphrase,
       TextStrongPassphrase, TextWords
  <2> QED
    BY <2>1, <2>2 DEF pastVars
<1> QED
  BY <1>1, <1>2

(* The handlers that go on.                                                 *)
LEMMA HandlersMoveRest ==
  ASSUME NEW t \in Slots, HandlerGoesOn(t)
  PROVE  temp' \subseteq temp /\ UNCHANGED <<cleanupDue, dropped>>
<1> DEFINE c == tasks[t].chat
<1>1. CASE GoesOnPlainly(t)
  <2>1. temp' = temp \/ temp' = temp \ {c}
    BY <1>1, Zenon DEF GoesOnPlainly, AnswerIsReady, StartsOver, SealsPhrase, DisplaysPhrase,
       AsksForWords, ShowsDecrypted, AsksAgain, GivesUp, UnsealsPhrase, CountsFailure,
       WritesLimit, ClosesSession
  <2>2. UNCHANGED pastVars
    BY <1>1, Zenon DEF GoesOnPlainly, AnswerIsReady, StartsOver, SealsPhrase, DisplaysPhrase,
       AsksForWords, ShowsDecrypted, AsksAgain, GivesUp, UnsealsPhrase, CountsFailure,
       WritesLimit, ClosesSession
  <2> QED
    BY <2>1, <2>2 DEF pastVars
<1>2. CASE HashesPassphrase(t) \/ CreatesWithHash(t)
  <2>1. temp' = temp \/ temp' = temp \ {c}
    BY <1>2, Zenon DEF HashesPassphrase, CreatesWithHash, CreatesWallet
  <2>2. UNCHANGED <<cleanupDue, dropped>>
    BY <1>2 DEF HashesPassphrase, CreatesWithHash
  <2> QED
    BY <2>1, <2>2
<1>3. CASE Completes(t) \/ AnnouncesWallet(t) \/ AnswerIsShown(t) \/ ChecksWords(t) \/ JudgesWords(t)
           \/ SaveMakesDirectory(t) \/ SaveWrites(t) \/ SaveFails(t)
  <2>1. temp' = temp \/ temp' = temp \ {c}
    BY <1>3, Zenon DEF Completes, AnnouncesWallet, AnswerIsShown, ChecksWords, JudgesWords,
       SaveMakesDirectory, SaveWrites, SaveFails
  <2>2. UNCHANGED <<cleanupDue, dropped>>
    BY <1>3, Zenon DEF Completes, AnnouncesWallet, AnswerIsShown, ChecksWords, JudgesWords,
       SaveMakesDirectory, SaveWrites, SaveFails, pastVars
  <2> QED
    BY <2>1, <2>2
<1> QED
  BY <1>1, <1>2, <1>3, Zenon DEF HandlerGoesOn, GoesOnPlainly

(* Every step.                                                              *)
LEMMA SetupNextKeepsRest ==
  ASSUME SetupInv, SetupRest, [SetupNext]_<<keyVars, setupVars>>
  PROVE  SetupRest'
<1>1. ASSUME NEW t \in Slots, NEW c \in Chats, Presses(t, c) \/ Texts(t, c) PROVE SetupRest'
  BY <1>1, PressesMoveRest DEF SetupRest
<1>2. ASSUME NEW t \in Slots, HandlerGoesOn(t) PROVE SetupRest'
  BY <1>2, HandlersMoveRest DEF SetupRest
<1>3. ASSUME NEW t \in Slots, CleansUp(t) PROVE SetupRest'
  BY <1>3 DEF CleansUp, SetupRest
<1>4. ASSUME NEW c \in Chats, Idles(c) \/ PassphraseExpires(c) PROVE SetupRest'
  BY <1>4 DEF Idles, PassphraseExpires, SetupRest, pastVars
<1>5. CASE Crash
  <2>1. created \subseteq Wallets
    BY DEF SetupInv, SetupTypes
  <2> QED
    BY <1>5, <2>1 DEF Crash, SetupRest
<1>6. CASE UNCHANGED <<keyVars, setupVars>>
  BY <1>6 DEF setupVars, SetupRest
<1> QED
  BY <1>1, <1>2, <1>3, <1>4, <1>5, <1>6, Zenon DEF SetupNext

(* All of it.                                                               *)
SetupAll == SetupInv /\ FilesInv /\ GuessInv /\ SetupRest

(* The types of the set-up follow.                                          *)
LEMMA SetupAllTyped == SetupAll => SetupTypeOK
<1> SUFFICES ASSUME SetupAll PROVE SetupTypeOK
  OBVIOUS
<1>1. /\ KeysTypeOK /\ sessions \in [Chats -> Session] /\ tasks \in [Slots -> Task]
      /\ \A f \in {file, tempFile} : f = NoFile \/ f \in [Chats -> Session]
  BY DEF SetupAll, SetupInv, SetupTypes, OneKeystore, OfThisWallet, SessionsFine, FileOK
<1>2. /\ offered \in [Chats -> SUBSET Keyboards] /\ overlapped \in BOOLEAN
      /\ created \subseteq Wallets /\ shown \subseteq Wallets /\ verified \subseteq Wallets
      /\ announced \subseteq verified
  BY DEF SetupAll, SetupInv, SetupTypes, OfThisWallet, SetupIsOfThisWallet
<1>3. crashes \in 0 .. MaxCrashes /\ guesses \in [Wallets -> 0 .. MaxGuesses]
  BY DEF SetupAll, GuessInv, GuessTypes
<1> QED
  BY <1>1, <1>2, <1>3 DEF SetupAll, SetupRest, SetupTypeOK

LEMMA SetupAllInit == SetupInit => SetupAll
  BY SetupInvInit, FilesInvInit, GuessInvInit DEF SetupAll, SetupRest, SetupInit

LEMMA SetupNextKeepsAll == SetupAll /\ [SetupNext]_<<keyVars, setupVars>> => SetupAll'
  BY SetupNextKeepsInv, SetupNextKeepsFiles, SetupNextKeepsGuesses, SetupNextKeepsRest
     DEF SetupAll

(* The types of the set-up hold in every reachable state.                   *)
THEOREM SetupTypeCorrect == SetupSpec => []SetupTypeOK
  BY SetupAllInit, SetupNextKeepsAll, SetupAllTyped, PTL DEF SetupSpec

(* A wallet in use or in the set-up: every variable of both components has  *)
(* its type.                                                                *)
THEOREM WalletTypeCorrect == Spec => []WalletTypeOK
<1> DEFINE Both == /\ scene \in {"in use", "set-up"}
                   /\ KeysInv /\ LifeTypes /\ SetupTypeOK
                   /\ scene = "set-up" => SetupAll
<1>1. Both => WalletTypeOK
  BY LifeTypeIs DEF WalletTypeOK, KeysInv
<1>2. Init => Both
  <2> SUFFICES ASSUME Init PROVE Both
    OBVIOUS
  <2>1. KeysInv /\ SetupAll /\ scene \in {"in use", "set-up"}
    BY KeysInvInit, SetupAllInit, Zenon DEF Init, LifeInit
  <2>2. LifeInit
    BY DEF Init
  <2>3. restarts \in 0 .. MaxRestarts
    BY <2>2, LifeAssumption DEF LifeInit
  <2>4. LifeTypes
    BY <2>2, <2>3 DEF LifeInit, LifeTypes
  <2> QED
    BY <2>1, <2>4, SetupAllTyped
<1>3. Both /\ [Next]_vars => Both'
  <2> SUFFICES ASSUME Both, [Next]_vars PROVE Both'
    OBVIOUS
  <2>1. CASE InUse
    <3>1. LifeNext /\ UNCHANGED <<setupVars, scene>> /\ scene = "in use"
      BY <2>1 DEF InUse
    <3>2. KeysInv'
      BY <3>1, LifeStepIsKeysStep, KeysStepKeepsInv
    <3>3. LifeTypes'
      BY <3>1, LifeNextIs, CreatesTypes, EndsTypes, GoesOnTypes
    <3>4. SetupTypeOK'
      BY <3>1, <3>2 DEF KeysInv, SetupTypeOK, setupVars
    <3> QED
      BY <3>1, <3>2, <3>3, <3>4
  <2>2. CASE SetUp
    <3>1. SetupNext /\ UNCHANGED <<lifeVars, scene>> /\ scene = "set-up"
      BY <2>2 DEF SetUp
    <3>2. KeysInv'
      BY <3>1, SetupStepIsKeysStep, KeysStepKeepsInv
    <3>3. LifeTypes'
      BY <3>1 DEF lifeVars, LifeTypes
    <3>4. SetupAll' /\ SetupTypeOK'
      <4>1. SetupAll'
        BY <3>1, SetupNextKeepsAll
      <4>2. SetupAll' => SetupTypeOK'
        BY SetupAllTyped, PTL
      <4> QED
        BY <4>1, <4>2
    <3> QED
      BY <3>1, <3>2, <3>3, <3>4
  <2>3. CASE UNCHANGED vars
    <3>1. UNCHANGED <<keyVars, setupVars, lifeVars, scene>>
      BY <2>3 DEF vars
    <3>2. KeysInv'
      BY <3>1, LifeStepIsKeysStep, KeysStepKeepsInv
    <3>3. LifeTypes'
      BY <3>1 DEF lifeVars, LifeTypes
    <3>4. SetupTypeOK'
      BY <3>1, <3>2 DEF KeysInv, SetupTypeOK, setupVars
    <3>5. scene = "set-up" => SetupAll'
      BY <3>1, SetupNextKeepsAll
    <3> QED
      BY <3>1, <3>2, <3>3, <3>4, <3>5
  <2> QED
    BY <2>1, <2>2, <2>3 DEF Next
<1> QED
  BY <1>1, <1>2, <1>3, PTL DEF Spec
=============================================================================
