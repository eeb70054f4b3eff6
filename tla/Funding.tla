------------------------------- MODULE Funding -------------------------------
(***************************************************************************)
(* How executeSend() of index.ts pays for one transaction: the fee rate,   *)
(* the coins selectCoins() of src/utxo/selection.ts takes, and the fee and *)
(* the change buildTransaction() of src/tx/builder.ts computes again from  *)
(* them.  Amounts are in koinu; rates are whole koinu per byte, as the     *)
(* providers round them.  No caller gives the builder opReturnData.        *)
(***************************************************************************)
EXTENDS Integers, FiniteSets, FiniteSetsExt

CONSTANTS
    Coins,        \* outputs the wallet may find spendable
    Worths,       \* values of a coin explored
    Amounts,      \* amounts sent
    Rates,        \* fee rates a provider may answer, which may be 0
    FallbackRate, \* cfg.fees.fallbackFeePerKb / 1000
    MaxFee,       \* the builder's safety cap, or 0 for none
    Dust,         \* DUST_THRESHOLD
    InputSize, OutputSize, Overhead \* INPUT_SIZE, OUTPUT_SIZE, TX_OVERHEAD

ASSUME FundingAssumption ==
    /\ IsFiniteSet(Coins)
    /\ Worths \subseteq Nat /\ Amounts \subseteq Nat \ {0} /\ Rates \subseteq Nat
    /\ FallbackRate \in Nat /\ MaxFee \in Nat
    /\ Dust \in Nat \ {0} /\ InputSize \in Nat /\ OutputSize \in Nat /\ Overhead \in Nat

VARIABLES
    worth,   \* value of each coin
    usable,  \* what getSpendableUtxos() returned
    amount,  \* amountKoinu
    rate,    \* feeRate
    chosen,  \* the selected coins,
    total,   \*   their sum,
    fee,     \*   the fee and
    change,  \*   the change of the selection
    built,   \* fee and change of the transaction
    funding  \* where the computation stands, or why it threw

fundVars == <<worth, usable, amount, rate, chosen, total, fee, change, built, funding>>

Unbuilt == [fee |-> 0, change |-> 0]

Refusals == {"insufficient", "amount is dust", "no fee rate", "short", "above the cap"}

(* estimateFee() and estimateFeeForTx(): n inputs, m outputs.              *)
FeeDue(n, m) == (Overhead + n * InputSize + m * OutputSize) * rate

FundInit ==
    /\ worth \in [Coins -> Worths] /\ amount \in Amounts
    /\ usable = {} /\ rate = 0 /\ chosen = {} /\ total = 0 /\ fee = 0 /\ change = 0
    /\ built = Unbuilt /\ funding = "rate"

-----------------------------------------------------------------------------
(* getFeeRate(): a provider's answer, or the configured rate without one.  *)
LearnsRate ==
    /\ funding = "rate" /\ funding' = "coins"
    /\ rate' \in Rates \cup {FallbackRate}
    /\ UNCHANGED <<worth, usable, amount, chosen, total, fee, change, built>>

(* getSpendableUtxos(), after the answer: any coins may be unlocked and    *)
(* confirmed by then.                                                      *)
ReadsCoins ==
    /\ funding = "coins"
    /\ usable' \in SUBSET Coins
    /\ funding' = IF usable' = {} THEN "insufficient" ELSE "matching"
    /\ UNCHANGED <<worth, amount, rate, chosen, total, fee, change, built>>

(* The value left over once n inputs and m outputs are paid for.           *)
Remainder(sum, n, m) == sum - amount - FeeDue(n, m)

(* A coin that pays alone, but for dust that goes to the miner.            *)
Matches(c) == Remainder(worth[c], 1, 1) >= 0 /\ Remainder(worth[c], 1, 1) < Dust

Selects(S, sum, f, c) ==
    /\ chosen' = S /\ total' = sum /\ fee' = f /\ change' = c
    /\ funding' = "building"

(* tryExactMatch(): the first one in the order of the cache.               *)
TakesExactMatch ==
    /\ funding = "matching"
    /\ \E c \in usable : Matches(c) /\ Selects({c}, worth[c], worth[c] - amount, 0)
    /\ UNCHANGED <<worth, usable, amount, rate, built>>

FindsNoMatch ==
    /\ funding = "matching" /\ \A c \in usable : ~Matches(c)
    /\ funding' = "picking"
    /\ UNCHANGED <<worth, usable, amount, rate, chosen, total, fee, change, built>>

-----------------------------------------------------------------------------
(* largestFirst() *)

Largest_First(S) == S

Largest(S) == {c \in S : \A d \in S : worth[d] <= worth[c]}

(* What a pass of the loop does once n coins with this sum are selected:   *)
(* return with change, return without, or go on.                           *)
Judges(S, sum) ==
    LET n == Cardinality(S) IN
    \/ /\ Remainder(sum, n, 2) >= Dust
       /\ Selects(S, sum, FeeDue(n, 2), Remainder(sum, n, 2))
    \/ /\ Remainder(sum, n, 2) < Dust /\ Remainder(sum, n, 1) >= 0
       /\ Selects(S, sum, sum - amount, 0)
    \/ /\ Remainder(sum, n, 2) < Dust /\ Remainder(sum, n, 1) < 0
       /\ chosen' = S /\ total' = sum
       /\ UNCHANGED <<fee, change, funding>>

PicksLargest ==
    /\ funding = "picking"
    /\ \E c \in Largest(usable \ chosen) : Judges(chosen \cup {c}, total + worth[c])
    /\ UNCHANGED <<worth, usable, amount, rate, built>>

RunsOut ==
    /\ funding = "picking" /\ chosen = usable
    /\ funding' = "insufficient"
    /\ UNCHANGED <<worth, usable, amount, rate, chosen, total, fee, change, built>>

-----------------------------------------------------------------------------
(* buildTransaction() on the selected coins *)

Refuses(why) ==
    /\ funding' = why
    /\ UNCHANGED <<worth, usable, amount, rate, chosen, total, fee, change, built>>

BuilderRefuses ==
    /\ funding = "building"
    /\ \/ amount < Dust /\ Refuses("amount is dust")
       \/ amount >= Dust /\ rate = 0 /\ Refuses("no fee rate")

BuilderAnswers_KeepsDust ==
    LET n == Cardinality(chosen) IN
    IF Remainder(total, n, 2) >= 0
    THEN [fee |-> FeeDue(n, 2), change |-> Remainder(total, n, 2)]
    ELSE [fee |-> total - amount, change |-> 0]

(* actualFee and the change output, for the coins' sum                     *)
BuilderAnswers ==
    LET n == Cardinality(chosen) IN
    IF Remainder(total, n, 2) >= Dust
    THEN [fee |-> FeeDue(n, 2), change |-> Remainder(total, n, 2)]
    ELSE [fee |-> total - amount, change |-> 0]

(* It refuses coins that do not pay for it, and a fee above the cap.       *)
Builds ==
    /\ funding = "building" /\ amount >= Dust /\ rate > 0
    /\ built' = BuilderAnswers
    /\ funding' = CASE Remainder(total, Cardinality(chosen), 1) < 0 -> "short"
                   [] MaxFee > 0 /\ built'.fee > MaxFee -> "above the cap"
                   [] OTHER -> "built"
    /\ UNCHANGED <<worth, usable, amount, rate, chosen, total, fee, change>>

FundNext ==
    \/ LearnsRate \/ ReadsCoins \/ TakesExactMatch \/ FindsNoMatch
    \/ PicksLargest \/ RunsOut \/ BuilderRefuses \/ Builds

FundSpec == FundInit /\ [][FundNext]_fundVars

-----------------------------------------------------------------------------
(* Properties *)

(* Every variable has its type.                                            *)
FundTypeOK ==
    /\ worth \in [Coins -> Worths] /\ amount \in Amounts
    /\ usable \subseteq Coins /\ chosen \subseteq usable
    /\ rate \in Nat /\ total \in Nat /\ fee \in Nat /\ change \in Nat
    /\ built \in [fee : Int, change : Nat]
    /\ funding \in {"rate", "coins", "matching", "picking", "building", "built"} \cup Refusals

(* The builder computes the fee and the change of the selection, from the  *)
(* coins alone, and never finds them short.  Nothing is lost: what the     *)
(* coins are worth is sent, comes back as change above the dust threshold, *)
(* or is the fee, which is what the rate asks for and less than an output  *)
(* and dust above it, and within the cap.                                  *)
FundedExactly ==
    /\ funding = "built" =>
        LET n == Cardinality(chosen) IN
        /\ built.fee = fee /\ built.change = change
        /\ total = amount + built.fee + built.change
        /\ built.change = 0 \/ built.change >= Dust
        /\ built.fee >= FeeDue(n, 1) /\ built.fee < FeeDue(n, 2) + Dust
        /\ MaxFee = 0 \/ built.fee <= MaxFee
    /\ funding # "short" /\ (funding = "insufficient" => chosen = usable)

(* What the coins of S leave for change once they pay without it.          *)
Surplus(S) == MapThenSumSet(LAMBDA c : worth[c], S) - amount - FeeDue(Cardinality(S), 1)

(* A transaction is refused for want of money only if no choice of coins   *)
(* could pay for it, and for its fee only if it needs so many bytes; the   *)
(* choice that is made has the fewest coins, whatever the order in which   *)
(* the cache holds them.                                                   *)
ChoosesWell ==
    /\ funding = "insufficient" => \A S \in (SUBSET usable) \ {{}} : Surplus(S) < 0
    /\ funding = "above the cap" => FeeDue(Cardinality(chosen), 2) + Dust > MaxFee
    /\ funding \in {"building", "built", "above the cap"} =>
        /\ total = MapThenSumSet(LAMBDA c : worth[c], chosen)
        /\ \A S \in (SUBSET usable) \ {{}} :
              Surplus(S) >= 0 => Cardinality(S) >= Cardinality(chosen)
=============================================================================
