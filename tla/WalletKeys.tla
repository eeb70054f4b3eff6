----------------------------- MODULE WalletKeys -----------------------------
(***************************************************************************)
(* The key manager (src/src/keys/manager.ts): the keystore file, the copy   *)
(* of it in memory, the address and the private key.  Each may name another *)
(* wallet, because the commands change them at different moments and        *)
(* /wallet delete removes the file behind the manager's back               *)
(* (src/index.ts:1931).  A wallet stands for its phrase, its key pair and   *)
(* its address.  The operators are the manager's methods; the modules that  *)
(* extend this one say who calls them, and when.                            *)
(***************************************************************************)
EXTENDS Naturals, FiniteSets

CONSTANTS
    Wallets,    \* the wallets that can be generated or recovered
    NoWallet,
    Torn        \* a keystore file that a crash left half written

ASSUME WalletsAssumption ==
    /\ NoWallet \notin Wallets
    /\ Torn \notin Wallets \cup {NoWallet}

VARIABLES
    disk,       \* the wallet in keys/wallet.json
    cached,     \* _cachedKeystore
    address,    \* _address
    key,        \* the wallet whose private key is in memory
    made,       \* wallets that exist: generated, or recovered from a phrase
    deleting    \* the wallet whose passphrase a /wallet delete has checked

keyVars == <<disk, cached, address, key, made, deleting>>

KeysTypeOK ==
    /\ disk \in Wallets \cup {NoWallet, Torn}
    /\ {cached, address, key, deleting} \subseteq Wallets \cup {NoWallet}
    /\ made \subseteq Wallets

KeysInit ==
    /\ disk = NoWallet
    /\ cached = NoWallet
    /\ address = NoWallet
    /\ key = NoWallet
    /\ made = {}
    /\ deleting = NoWallet

-----------------------------------------------------------------------------
(* existsSync(): a torn file counts.                                       *)
IsInitialized == disk # NoWallet

Loaded_Unchecked == IF cached # NoWallet THEN cached ELSE disk

(* loadKeystoreFromDisk(): the copy in memory first, then the file.        *)
Loaded ==
    IF cached # NoWallet THEN cached
    ELSE IF disk = Torn THEN NoWallet ELSE disk

(* getAddress(): the address in memory first, then the keystore's.         *)
Address == IF address # NoWallet THEN address ELSE Loaded

AddressIsRead ==
    /\ address' = Address
    /\ cached' = IF address # NoWallet THEN cached ELSE Loaded

SaveKeystore_StaleCache(w) ==
    /\ disk' = w /\ key' = w /\ address' = w
    /\ made' = made \cup {w}
    /\ UNCHANGED <<cached, deleting>>

SaveKeystore(w) ==
    /\ disk' = w
    /\ cached' = w
    /\ key' = w
    /\ address' = w
    /\ made' = made \cup {w}
    /\ UNCHANGED deleting

(* init(): a fresh phrase, unless a keystore file exists.                  *)
GenerateKeys(w) ==
    /\ ~IsInitialized
    /\ w \notin made
    /\ SaveKeystore(w)

(* recover(): overwrites whatever keystore is there.                       *)
RecoverKeys(w) == SaveKeystore(w)

(* unlock() with the passphrase of the keystore it loads.                  *)
OpenKeystore ==
    /\ Loaded # NoWallet
    /\ cached' = Loaded
    /\ address' = Loaded
    /\ key' = Loaded
    /\ UNCHANGED <<disk, made, deleting>>

(* unlock() with another one: the next attempt reads the file again.       *)
WrongPassphrase ==
    /\ Loaded # NoWallet
    /\ cached' = NoWallet
    /\ UNCHANGED <<disk, address, key, made, deleting>>

LockKeys ==
    /\ key' = NoWallet
    /\ UNCHANGED <<disk, cached, address, made, deleting>>

(* /wallet delete unlocks to check the passphrase, locks again, and waits  *)
(* for the audit log ...  (Bound: one deletion at a time.)                 *)
DeleteIsConfirmed ==
    /\ deleting = NoWallet
    /\ IsInitialized
    /\ Loaded # NoWallet
    /\ cached' = Loaded
    /\ address' = Loaded
    /\ key' = NoWallet
    /\ deleting' = Loaded
    /\ UNCHANGED <<disk, made>>

(* ... then removes the files, and leaves the memory as it is.             *)
DeleteKeystore ==
    /\ deleting # NoWallet
    /\ disk' = NoWallet
    /\ deleting' = NoWallet
    /\ UNCHANGED <<cached, address, key, made>>

(* The process ends; what it leaves on the disk is d: writeFileSync() of a  *)
(* keystore writes in place, and a crash can cut it short.                 *)
KeysAreForgotten(d) ==
    /\ disk' = d
    /\ cached' = NoWallet
    /\ address' = NoWallet
    /\ key' = NoWallet
    /\ deleting' = NoWallet
    /\ UNCHANGED made

-----------------------------------------------------------------------------
(* While a keystore file exists, what the manager holds in memory - the     *)
(* copy of the keystore, the address it answers with, the key it signs      *)
(* with - is that file's wallet or nothing, in whatever order wallets are   *)
(* made, recovered, unlocked, deleted and restarted.                        *)
KeysAgree ==
    /\ disk # NoWallet => {cached, address, key} \subseteq {disk, NoWallet}
    /\ key # NoWallet => address = key
=============================================================================
