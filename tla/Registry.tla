------------------------------- MODULE Registry -------------------------------
(***************************************************************************)
(* How a Quackstro Protocol client finds a provider: discoverProviders()   *)
(* over the RegistryWatcher of src/qp/chain.  A scan asks an API for the   *)
(* transactions of each registry address in turn and lists the             *)
(* advertisements above the block it has scanned; several calls of         *)
(* callService() may scan at once, and share directory and checkpoints.    *)
(*                                                                         *)
(* An advertisement stands for its price.  Directory and checkpoints are   *)
(* in memory and are made anew with the client.  A block stays where it    *)
(* is: reorganisations of the chain are left out.                          *)
(***************************************************************************)
EXTENDS Integers, FiniteSets

CONSTANTS
    Ads,        \* prices of the advertisements for one skill
    OwnAds,     \* those of the client's own address
    Categories, \* number of registry addresses
    TxLimit,    \* transactions an API answers with
    Ttl,        \* ttlBlocks of an advertisement
    MaxTip,     \* bound: height of the chain
    Searches    \* calls of discoverProviders()

ASSUME RegistryAssumption ==
    /\ Ads \subseteq Nat \ {0} /\ IsFiniteSet(Ads) /\ OwnAds \subseteq Ads
    /\ Categories \in Nat \ {0}
    /\ TxLimit \in Nat /\ Ttl \in Nat /\ MaxTip \in Nat

VARIABLES
    tip,        \* height of the chain
    home,       \* the registry an advertisement is sent to,
    minedAt,    \*   and its block; 0: not mined
    directory,  \* the ServiceDirectory
    checkpoint, \* lastScannedBlock of each category
    recent,     \* is lastScanTime less than the minimum interval ago?
    search,     \* where each discoverProviders() stands
    deal        \* what the last of them to answer was told, and its best offer

(* History variables, which no guard reads.                                *)
VARIABLES
    shown,      \* the greatest height an answer for a category was made at
    skipped     \* advertisements that an answer left out, not listed since

chainVars == <<tip, home, minedAt>>
registryVars == <<chainVars, directory, checkpoint, recent, search, deal, shown, skipped>>

Steps == {"idle", "asking", "deciding", "done", "failed"}

(* The category being asked about, and its checkpoint before the request.  *)
Search == [step : Steps, category : 1..Categories, from : Nat]

At(s) == [step |-> s, category |-> 1, from |-> 0]

(* Height and budget of the decision; the price, 0 if there is no offer.   *)
Deal == [height : Nat, budget : Nat, pick : Nat]

RegistryInit ==
    /\ tip = 0
    /\ home \in [Ads -> 1..Categories]
    /\ minedAt = [a \in Ads |-> 0]
    /\ directory = {}
    /\ checkpoint = [c \in 1..Categories |-> 0]
    /\ recent = FALSE
    /\ search = [d \in Searches |-> At("idle")]
    /\ deal = [height |-> 0, budget |-> 0, pick |-> 0]
    /\ shown = [c \in 1..Categories |-> 0]
    /\ skipped = {}

Greater(m, n) == IF m >= n THEN m ELSE n

-----------------------------------------------------------------------------
(* The chain: a block holds any of the advertisements under way.           *)
BlockMined ==
    /\ tip < MaxTip
    /\ tip' = tip + 1
    /\ \E S \in SUBSET {a \in Ads : minedAt[a] = 0} :
          minedAt' = [a \in Ads |-> IF a \in S THEN tip + 1 ELSE minedAt[a]]
    /\ UNCHANGED <<home, directory, checkpoint, recent, search, deal, shown,
                   skipped>>

(* The height of a chain an API answers from: it may lag, and SoChain says *)
(* 0 when it does not know.                                                *)
Heights == 0..tip

(* What an API whose chain is h blocks high has of a registry address,     *)
OnChain(c, h) == {a \in Ads : home[a] = c /\ minedAt[a] \in 1..h}

(* and what it answers: no more than TxLimit transactions, other payments  *)
(* to the address among them, without those SoChain could not look up.     *)
Answers(c, h) == {S \in SUBSET OnChain(c, h) : Cardinality(S) <= TxLimit}

-----------------------------------------------------------------------------
(* scan() *)

(* A search begins, and scans unless somebody has just done so.            *)
SearchBegins(d) ==
    /\ search[d].step = "idle"
    /\ search' = [search EXCEPT ![d] =
          IF recent THEN At("deciding")
          ELSE [At("asking") EXCEPT !.from = checkpoint[1]]]
    /\ UNCHANGED <<chainVars, directory, checkpoint, recent, deal, shown, skipped>>

(* matchesFilter() passes what lies above the checkpoint read before the   *)
(* request; scan() passes over what the directory has.                     *)
News(d, S) == {a \in S : minedAt[a] > search[d].from} \ directory

Advances_Shared(c, N) ==
    checkpoint' = [k \in 1..Categories |->
       IF N = {} THEN checkpoint[k]
       ELSE Greater(checkpoint[k],
                    CHOOSE m \in {minedAt[a] : a \in N} : \A a \in N : minedAt[a] <= m)]

(* Each listing moves the checkpoint of its category up to its block.      *)
Advances(c, N) ==
    IF N = {} THEN checkpoint' = checkpoint
    ELSE \E a \in N : /\ \A b \in N : minedAt[b] <= minedAt[a]
                      /\ checkpoint' = [checkpoint EXCEPT ![c] = Greater(@, minedAt[a])]

(* scan() goes on to the next category, or notes the time.                 *)
GoesOn(d, c) ==
    IF c < Categories
    THEN /\ search' = [search EXCEPT ![d] = [@ EXCEPT !.category = c + 1,
                                                      !.from = checkpoint'[c + 1]]]
         /\ recent' = recent
    ELSE /\ search' = [search EXCEPT ![d] = At("deciding")]
         /\ recent' = TRUE

(* An API answers the scan.                                                *)
ScanAnswered(d) ==
    /\ search[d].step = "asking"
    /\ LET c == search[d].category IN
       \E h \in Heights : \E S \in Answers(c, h) :
          /\ directory' = directory \cup News(d, S)
          /\ Advances(c, News(d, S))
          /\ GoesOn(d, c)
          /\ shown' = [shown EXCEPT ![c] = Greater(@, h)]
          /\ skipped' = (skipped \cup (OnChain(c, h) \ S)) \ directory'
    /\ UNCHANGED <<chainVars, deal>>

(* minScanIntervalMs passes.                                               *)
IntervalPasses ==
    /\ recent
    /\ recent' = FALSE
    /\ UNCHANGED <<chainVars, directory, checkpoint, search, deal, shown, skipped>>

-----------------------------------------------------------------------------
(* discoverProviders() after its scan, and callService(), which takes the  *)
(* first of the providers sorted by price.                                 *)

(* expiresAtBlock of a listing                                             *)
Expires(a) == minedAt[a] + Ttl

(* getActive() and the filters by price and address.                       *)
Offers(h, b) == {a \in directory \ OwnAds : Expires(a) > h /\ a <= b}

(* getNetworkInfo() answers.                                               *)
SearchDecides(d) ==
    /\ search[d].step = "deciding"
    /\ search' = [search EXCEPT ![d] = At("done")]
    /\ \E h \in Heights, b \in Ads :
          \/ /\ Offers(h, b) = {}
             /\ deal' = [height |-> h, budget |-> b, pick |-> 0]
          \/ \E a \in Offers(h, b) :
                /\ \A o \in Offers(h, b) : a <= o
                /\ deal' = [height |-> h, budget |-> b, pick |-> a]
    /\ UNCHANGED <<chainVars, directory, checkpoint, recent, shown, skipped>>

(* A request fails with every API: the call fails, what was listed stays.  *)
SearchFails(d) ==
    /\ search[d].step \in {"asking", "deciding"}
    /\ search' = [search EXCEPT ![d] = At("failed")]
    /\ UNCHANGED <<chainVars, directory, checkpoint, recent, deal, shown, skipped>>

-----------------------------------------------------------------------------
RegistryNext ==
    \/ BlockMined \/ IntervalPasses
    \/ \E d \in Searches :
          \/ SearchBegins(d) \/ ScanAnswered(d) \/ SearchDecides(d) \/ SearchFails(d)

RegistrySpec == RegistryInit /\ [][RegistryNext]_registryVars

-----------------------------------------------------------------------------
(* Properties.                                                             *)

(* Types of all variables.                                                 *)
RegistryTypeOK ==
    /\ tip \in Nat
    /\ home \in [Ads -> 1..Categories]
    /\ minedAt \in [Ads -> Nat]
    /\ directory \subseteq Ads
    /\ checkpoint \in [1..Categories -> Nat]
    /\ recent \in BOOLEAN
    /\ search \in [Searches -> Search]
    /\ deal \in Deal
    /\ shown \in [1..Categories -> Nat]
    /\ skipped \subseteq Ads

Shown(a) == minedAt[a] \in 1..shown[home[a]]

(* What the checkpoint has passed is listed: an advertisement in a block   *)
(* that some answer was made after is in the directory, unless an answer   *)
(* left it out.  Scans that overlap, lag, fail half-way or are not made    *)
(* lose nothing (scan(), matchesFilter()).                                 *)
ListingsComplete == \A a \in Ads : Shown(a) => a \in directory \cup skipped

Decides(d) == search[d].step = "deciding" /\ search'[d].step = "done"

(* The service a call buys is the cheapest the client could know of: a     *)
(* provider that is alive at the height the client was told, within the    *)
(* budget and on the chain an answer was made from is neither missed nor   *)
(* passed over for a dearer one, unless an answer left it out              *)
(* (discoverProviders(), callService()).                                   *)
CheapestIsPicked ==
    [][\A d \in Searches : Decides(d) =>
          \A a \in Ads \ OwnAds :
             /\ Shown(a) /\ a \notin skipped
             /\ Expires(a) > deal'.height
             /\ a <= deal'.budget
             => deal'.pick # 0 /\ deal'.pick <= a]_registryVars

=============================================================================
