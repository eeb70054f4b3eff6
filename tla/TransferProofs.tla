--------------------------- MODULE TransferProofs ---------------------------
(* Theorems about what surrounds the send path: how one transaction is paid *)
(* for (Funding), what its broadcast tells of it (Dispatch), and the loop    *)
(* that watches for deposits (ReceiveMonitor).                              *)
EXTENDS Funding, Dispatch, ReceiveMonitor, FiniteSetTheorems, SequenceTheorems, TLAPS

(***************************************************************************)
(* Funding: for every mix of coins, amount, fee rate, dust threshold, cap   *)
(* and size of inputs and outputs.                                          *)
(***************************************************************************)
(* The fee is a natural number, and an output more never costs less.        *)
LEMMA FeeDueGrows ==
  ASSUME rate \in Nat, NEW n \in Nat
  PROVE  /\ FeeDue(n, 1) \in Nat /\ FeeDue(n, 2) \in Nat
         /\ FeeDue(n, 1) <= FeeDue(n, 2)
<1>1. InputSize \in Nat /\ OutputSize \in Nat /\ Overhead \in Nat
  BY FundingAssumption
<1> DEFINE one == Overhead + n * InputSize + 1 * OutputSize
           two == Overhead + n * InputSize + 2 * OutputSize
<1>2. n * InputSize \in Nat
  BY <1>1
<1>3. one \in Nat /\ two \in Nat /\ two = one + OutputSize
  BY <1>1, <1>2
<1> HIDE DEF one, two
<1>4. one * rate \in Nat /\ two * rate \in Nat /\ OutputSize * rate \in Nat
  BY <1>1, <1>3
<1>5. two * rate = one * rate + OutputSize * rate
  BY <1>1, <1>3, <1>4
<1>6. FeeDue(n, 1) = one * rate /\ FeeDue(n, 2) = two * rate
  BY DEF FeeDue, one, two
<1> QED
  BY <1>4, <1>5, <1>6

(* What is left over, with and without change, once n coins are chosen.     *)
LEMMA RemainderTypes ==
  ASSUME rate \in Nat, amount \in Nat, NEW sum \in Nat, NEW n \in Nat
  PROVE  /\ Remainder(sum, n, 1) \in Int /\ Remainder(sum, n, 2) \in Int
         /\ Remainder(sum, n, 2) <= Remainder(sum, n, 1)
         /\ Remainder(sum, n, 1) = sum - amount - FeeDue(n, 1)
         /\ Remainder(sum, n, 2) = sum - amount - FeeDue(n, 2)
  BY FeeDueGrows DEF Remainder

LEMMA CountIsNat ==
  ASSUME NEW S \in SUBSET Coins
  PROVE  Cardinality(S) \in Nat
  BY FundingAssumption, FS_Subset, FS_CardinalityType

-----------------------------------------------------------------------------
Given == /\ worth \in [Coins -> Worths] /\ worth \in [Coins -> Nat]
         /\ amount \in Amounts /\ amount \in Nat
         /\ usable \subseteq Coins /\ chosen \subseteq usable
         /\ rate \in Nat /\ total \in Nat /\ fee \in Nat /\ change \in Nat

Before == {"rate", "coins", "matching"}

(* The fee and the change that belong to the chosen coins: what the         *)
(* selection computes on its way through its branches, and the builder      *)
(* afterwards in its own.                                                   *)
Agrees(f, c) ==
    LET n == Cardinality(chosen) IN
    \/ /\ Remainder(total, n, 2) >= Dust
       /\ f = FeeDue(n, 2) /\ c = Remainder(total, n, 2)
    \/ /\ Remainder(total, n, 2) < Dust /\ Remainder(total, n, 1) >= 0
       /\ f = total - amount /\ c = 0

(* The inductive invariant: nothing is chosen before the loop begins, the   *)
(* loop has given up only after every coin, and what was chosen pays for    *)
(* what was computed from it.                                               *)
FundInv ==
    /\ Given
    /\ funding \in {"rate", "coins", "matching", "picking", "building", "built"} \cup Refusals
    /\ funding # "short"
    /\ funding \in Before => chosen = {} /\ total = 0
    /\ funding \in {"rate", "coins"} => usable = {}
    /\ funding = "insufficient" => chosen = usable
    /\ funding \in {"building", "built", "amount is dust", "no fee rate", "above the cap"} => Agrees(fee, change)
    /\ funding \in {"built", "above the cap"} => built = [fee |-> fee, change |-> change]
    /\ funding \notin {"built", "above the cap"} => built = Unbuilt
    /\ funding = "built" => (MaxFee = 0 \/ fee <= MaxFee)

LEMMA InitEstablishesFundInv == FundInit => FundInv
<1> SUFFICES ASSUME FundInit PROVE FundInv
  OBVIOUS
<1>1. /\ worth \in [Coins -> Worths] /\ worth \in [Coins -> Nat]
      /\ amount \in Amounts /\ amount \in Nat
  BY FundingAssumption DEF FundInit
<1> QED
  BY <1>1 DEF FundInit, FundInv, Given, Before

(* Fee rate and amount stay, so what is left of a sum stays too.            *)
LEMMA RemainderStays ==
  ASSUME UNCHANGED <<amount, rate>>, NEW sum, NEW n, NEW m
  PROVE  Remainder(sum, n, m)' = Remainder(sum, n, m) /\ FeeDue(n, m)' = FeeDue(n, m)
  BY DEF Remainder, FeeDue

(* A single coin that matches agrees with the builder: its change would be  *)
(* dust.                                                                    *)
LEMMA MatchAgrees ==
  ASSUME FundInv, NEW c \in usable, Matches(c),
         Selects({c}, worth[c], worth[c] - amount, 0), UNCHANGED <<worth, usable, amount, rate, built>>
  PROVE  Given' /\ Agrees(fee, change)'
<1>1. PICK s \in Nat : s = worth[c]
  BY DEF FundInv, Given
<1>2. Cardinality({c}) = 1
  BY FS_Singleton
<1>3. /\ Remainder(s, 1, 1) \in Int /\ Remainder(s, 1, 2) \in Int
      /\ Remainder(s, 1, 2) <= Remainder(s, 1, 1)
  BY RemainderTypes DEF FundInv, Given
<1>4. Remainder(s, 1, 2) < Dust /\ Remainder(s, 1, 1) >= 0
  BY <1>1, <1>3, FundingAssumption DEF Matches
<1>5. chosen' = {c} /\ total' = s /\ fee' = s - amount' /\ change' = 0
  BY <1>1 DEF Selects
<1>6. Remainder(s, 1, 2)' < Dust /\ Remainder(s, 1, 1)' >= 0
  BY <1>4, RemainderStays
<1>7. Agrees(fee, change)'
  BY <1>2, <1>5, <1>6 DEF Agrees
<1>8. amount' = amount /\ amount \in Nat /\ usable' = usable
  BY DEF FundInv, Given
<1>12. Remainder(s, 1, 1) = s - amount - FeeDue(1, 1) /\ FeeDue(1, 1) \in Nat
  BY RemainderTypes, FeeDueGrows DEF FundInv, Given
<1>9. fee' \in Nat /\ total' \in Nat /\ change' \in Nat
  BY <1>4, <1>5, <1>8, <1>12
<1>10. chosen' \subseteq usable'
  BY <1>5, <1>8
<1>11. Given'
  BY <1>9, <1>10 DEF FundInv, Given
<1> QED
  BY <1>7, <1>11

(* A pass of the loop agrees with the builder when it returns, and leaves   *)
(* the coins it took and their sum when it goes on.                         *)
LEMMA JudgesAgrees ==
  ASSUME FundInv, NEW c \in usable, Judges(chosen \cup {c}, total + worth[c]), funding = "picking",
         UNCHANGED <<worth, usable, amount, rate, built>>
  PROVE  /\ Given'
         /\ \/ funding' = "building" /\ Agrees(fee, change)'
            \/ funding' = "picking"
<1>1. PICK s \in Nat : s = total + worth[c]
  BY DEF FundInv, Given
<1>2. PICK n \in Nat : n = Cardinality(chosen \cup {c})
  BY CountIsNat DEF FundInv, Given
<1>3. /\ Remainder(s, n, 1) \in Int /\ Remainder(s, n, 2) \in Int
      /\ FeeDue(n, 1) \in Nat /\ FeeDue(n, 2) \in Nat /\ Dust \in Nat
      /\ Remainder(s, n, 1) = s - amount - FeeDue(n, 1)
  BY RemainderTypes, FeeDueGrows, FundingAssumption DEF FundInv, Given
<1>4. chosen' = chosen \cup {c} /\ total' = s /\ Cardinality(chosen') = n
  BY <1>1, <1>2 DEF Judges, Selects
<1>5. /\ Remainder(s, n, 1)' = Remainder(s, n, 1) /\ Remainder(s, n, 2)' = Remainder(s, n, 2)
      /\ FeeDue(n, 2)' = FeeDue(n, 2)
  BY RemainderStays
<1>6. CASE /\ Remainder(s, n, 2) >= Dust
           /\ Selects(chosen \cup {c}, s, FeeDue(n, 2), Remainder(s, n, 2))
  <2>1. fee' = FeeDue(n, 2) /\ change' = Remainder(s, n, 2) /\ funding' = "building"
    BY <1>6 DEF Selects
  <2>2. Agrees(fee, change)'
    BY <1>4, <1>5, <1>6, <2>1 DEF Agrees
  <2>3. fee' \in Nat /\ change' \in Nat
    BY <1>3, <1>6, <2>1
  <2> QED
    BY <1>4, <2>1, <2>2, <2>3 DEF FundInv, Given
<1>7. CASE /\ Remainder(s, n, 2) < Dust /\ Remainder(s, n, 1) >= 0
           /\ Selects(chosen \cup {c}, s, s - amount, 0)
  <2>1. fee' = s - amount /\ change' = 0 /\ funding' = "building"
    BY <1>7 DEF Selects
  <2>2. Agrees(fee, change)'
    BY <1>4, <1>5, <1>7, <2>1 DEF Agrees
  <2>3. amount \in Nat
    BY DEF FundInv, Given
  <2>4. fee' \in Nat /\ change' \in Nat
    BY <1>3, <1>7, <2>1, <2>3
  <2> QED
    BY <1>4, <2>1, <2>2, <2>4 DEF FundInv, Given
<1>8. CASE UNCHANGED <<fee, change, funding>>
  BY <1>4, <1>8 DEF FundInv, Given
<1> QED
  BY <1>1, <1>2, <1>6, <1>7, <1>8 DEF Judges

(* What the builder answers is what the selection computed, and is enough.  *)
LEMMA BuilderAgrees ==
  ASSUME FundInv, funding = "building"
  PROVE  /\ BuilderAnswers = [fee |-> fee, change |-> change]
         /\ ~(Remainder(total, Cardinality(chosen), 1) < 0)
<1>1. PICK n \in Nat : n = Cardinality(chosen)
  BY CountIsNat DEF FundInv, Given
<1>2. /\ Remainder(total, n, 1) \in Int /\ Remainder(total, n, 2) \in Int
      /\ Remainder(total, n, 2) <= Remainder(total, n, 1)
  BY RemainderTypes DEF FundInv, Given
<1>3. Dust \in Nat
  BY FundingAssumption
<1>4. Agrees(fee, change)
  BY DEF FundInv
<1> QED
  BY <1>1, <1>2, <1>3, <1>4 DEF Agrees, BuilderAnswers

LEMMA StepPreservesFundInv == FundInv /\ [FundNext]_fundVars => FundInv'
<1> SUFFICES ASSUME FundInv, [FundNext]_fundVars PROVE FundInv'
  OBVIOUS
<1> USE DEF Before, Refusals
<1>1. CASE LearnsRate
  <2>1. rate' \in Nat
    BY <1>1, FundingAssumption DEF LearnsRate
  <2> QED
    BY <1>1, <2>1 DEF LearnsRate, FundInv, Given
<1>2. CASE ReadsCoins
  BY <1>2 DEF ReadsCoins, FundInv, Given
<1>3. CASE TakesExactMatch
  <2>1. PICK c \in usable : Matches(c) /\ Selects({c}, worth[c], worth[c] - amount, 0)
    BY <1>3 DEF TakesExactMatch
  <2>2. Given' /\ Agrees(fee, change)' /\ funding' = "building"
    BY <1>3, <2>1, MatchAgrees DEF TakesExactMatch, Selects
  <2> QED
    BY <1>3, <2>2 DEF TakesExactMatch, FundInv
<1>4. CASE FindsNoMatch
  BY <1>4 DEF FindsNoMatch, FundInv, Given
<1>5. CASE PicksLargest
  <2>1. PICK c \in usable : Judges(chosen \cup {c}, total + worth[c])
    BY <1>5 DEF PicksLargest, Largest
  <2>2. Given' /\ ((funding' = "building" /\ Agrees(fee, change)') \/ funding' = "picking")
    BY <1>5, <2>1, JudgesAgrees DEF PicksLargest
  <2> QED
    BY <1>5, <2>2 DEF PicksLargest, FundInv
<1>6. CASE RunsOut
  BY <1>6 DEF RunsOut, FundInv, Given
<1>7. CASE BuilderRefuses
  <2>1. funding = "building" /\ funding' \in {"amount is dust", "no fee rate"}
        /\ UNCHANGED <<worth, usable, amount, rate, chosen, total, fee, change, built>>
    BY <1>7 DEF BuilderRefuses, Refuses
  <2>2. Agrees(fee, change)'
    BY <2>1 DEF FundInv, Agrees, Remainder, FeeDue
  <2> QED
    BY <2>1, <2>2 DEF FundInv, Given
<1>8. CASE Builds
  <2>1. built' = [fee |-> fee, change |-> change]
    BY <1>8, BuilderAgrees DEF Builds
  <2>2. funding' = IF MaxFee > 0 /\ fee > MaxFee THEN "above the cap" ELSE "built"
    <3> funding = "building"
      BY <1>8 DEF Builds
    <3>1. ~(Remainder(total, Cardinality(chosen), 1) < 0)
      BY BuilderAgrees
    <3>4. built'.fee = fee
      BY <2>1
    <3>2. CASE MaxFee > 0 /\ fee > MaxFee
      BY <1>8, <3>1, <3>4, <3>2 DEF Builds
    <3>3. CASE ~(MaxFee > 0 /\ fee > MaxFee)
      BY <1>8, <3>1, <3>4, <3>3 DEF Builds
    <3> QED
      BY <3>2, <3>3
  <2>3. funding = "building" /\ UNCHANGED <<worth, usable, amount, rate, chosen, total, fee, change>>
    BY <1>8 DEF Builds
  <2>4. Agrees(fee, change)'
    BY <2>3 DEF FundInv, Agrees, Remainder, FeeDue
  <2>5. Given'
    BY <2>3 DEF FundInv, Given
  <2>6. funding' \in {"above the cap", "built"}
    BY <2>2
  <2>7. funding' = "built" => (MaxFee = 0 \/ fee' <= MaxFee)
    <3>1. fee \in Nat
      BY DEF FundInv, Given
    <3>2. MaxFee \in Nat
      BY FundingAssumption
    <3> QED
      BY <2>2, <2>3, <3>1, <3>2
  <2>8. built' = [fee |-> fee', change |-> change']
    BY <2>1, <2>3
  <2> QED
    BY <2>4, <2>5, <2>6, <2>7, <2>8 DEF FundInv
<1>9. CASE UNCHANGED fundVars
  <2>1. Agrees(fee, change)' = Agrees(fee, change)
    BY <1>9 DEF fundVars, Agrees, Remainder, FeeDue
  <2> QED
    BY <1>9, <2>1 DEF fundVars, FundInv, Given
<1> QED
  BY <1>1, <1>2, <1>3, <1>4, <1>5, <1>6, <1>7, <1>8, <1>9 DEF FundNext

LEMMA FundInvariantHolds == FundSpec => []FundInv
  BY InitEstablishesFundInv, StepPreservesFundInv, PTL DEF FundSpec

-----------------------------------------------------------------------------
(* Selection and builder never disagree: whenever a transaction is built,   *)
(* its fee and change are those the coins were selected for, nothing is     *)
(* lost, the change is no dust, the fee is what the rate asks for and at    *)
(* most an output and dust more, and the builder never finds the coins      *)
(* short - for every amount, rate, dust threshold and cap.                  *)
THEOREM FundedExactlyHolds == FundSpec => []FundedExactly
<1>1. FundInv => FundedExactly
  <2> SUFFICES ASSUME FundInv PROVE FundedExactly
    OBVIOUS
  <2>1. CASE funding = "built"
    <3>1. PICK n \in Nat : n = Cardinality(chosen)
      BY CountIsNat DEF FundInv, Given
    <3>2. /\ Remainder(total, n, 1) = total - amount - FeeDue(n, 1)
          /\ Remainder(total, n, 2) = total - amount - FeeDue(n, 2)
          /\ FeeDue(n, 1) \in Nat /\ FeeDue(n, 2) \in Nat /\ FeeDue(n, 1) <= FeeDue(n, 2)
      BY RemainderTypes, FeeDueGrows DEF FundInv, Given
    <3>4. total \in Nat /\ amount \in Nat /\ fee \in Nat /\ change \in Nat
      BY DEF FundInv, Given
    <3>5. Dust \in Nat \ {0}
      BY FundingAssumption
    <3>3. Agrees(fee, change) /\ built.fee = fee /\ built.change = change
          /\ (MaxFee = 0 \/ fee <= MaxFee)
      BY <2>1 DEF FundInv
    <3> QED
      BY <2>1, <3>1, <3>2, <3>3, <3>4, <3>5 DEF FundedExactly, Agrees
  <2>2. CASE funding # "built"
    BY <2>2 DEF FundInv, FundedExactly
  <2> QED
    BY <2>1, <2>2
<1> QED
  BY <1>1, FundInvariantHolds, PTL

(* The types of Funding hold in every reachable state; in particular no fee *)
(* and no change becomes negative.                                          *)
THEOREM FundTypeCorrect == FundSpec => []FundTypeOK
<1>1. FundInv => FundTypeOK
  <2> SUFFICES ASSUME FundInv PROVE FundTypeOK
    OBVIOUS
  <2>1. fee \in Nat /\ change \in Nat
    BY DEF FundInv, Given
  <2>2. built = [fee |-> fee, change |-> change] \/ built = [fee |-> 0, change |-> 0]
    BY DEF FundInv, Unbuilt
  <2>3. built \in [fee : Int, change : Nat]
    BY <2>1, <2>2
  <2> QED
    BY <2>3 DEF FundInv, Given, FundTypeOK
<1> QED
  BY <1>1, FundInvariantHolds, PTL

-----------------------------------------------------------------------------
(* Of finitely many sets, one has none of the others below it.             *)
LEMMA SmallestSet ==
  ASSUME NEW S, IsFiniteSet(S), NEW B \in SUBSET SUBSET S, B # {}
  PROVE  \E m \in B : \A x \in B : x \subseteq m => x = m
<1>1. IsWellFoundedOn(StrictSubsetOrdering(S), SUBSET S)
  BY FS_StrictSubsetOrderingWellFounded, FS_FiniteSubsetsOfFinite
<1>2. PICK m \in B : \A x \in B : <<x, m>> \notin StrictSubsetOrdering(S)
  BY <1>1, WFMin
<1>3. ASSUME NEW x \in B, x \subseteq m, x # m PROVE FALSE
  <2>1. <<x, m>> \in (SUBSET S) \X (SUBSET S)
    OBVIOUS
  <2> QED
    BY <1>2, <1>3, <2>1 DEF StrictSubsetOrdering
<1> QED
  BY <1>3

(* What coins are worth together: the sum of the model takes them out one   *)
(* by one, in an order nobody knows.                                         *)
Pick(s) == CHOOSE x \in s : TRUE

WorthOf(w, S) == MapThenSumSet(LAMBDA c : w[c], S)

(* f is the recursion of that sum, on the subsets of T.                     *)
SumOn(w, f, T) ==
    f = [s \in SUBSET T |-> IF s = {} THEN 0 ELSE w[Pick(s)] + f[s \ {Pick(s)}]]

(* The sum is what any such function gives.                                 *)
LEMMA WorthOfIs ==
  ASSUME NEW w, NEW S
  PROVE  WorthOf(w, S) = (CHOOSE f : SumOn(w, f, S))[S]
  BY DEF WorthOf, MapThenSumSet, MapThenFoldSet, SumOn, Pick

LEMMA PickIn ==
  ASSUME NEW s, s # {}
  PROVE  Pick(s) \in s
  BY DEF Pick

(* There is one such function for every finite set, and where two are      *)
(* defined they agree.                                                      *)
LEMMA SumsAgree ==
  ASSUME NEW w, NEW f, NEW g, NEW T, NEW U, SumOn(w, f, T), SumOn(w, g, U),
         NEW S, S \subseteq T, S \subseteq U, IsFiniteSet(S)
  PROVE  f[S] = g[S]
<1> DEFINE B == {s \in SUBSET S : f[s] # g[s]}
<1> SUFFICES ASSUME B # {} PROVE FALSE
  OBVIOUS
<1>1. PICK m \in B : \A x \in B : x \subseteq m => x = m
  <2>1. B \in SUBSET SUBSET S
    OBVIOUS
  <2> HIDE DEF B
  <2> QED
    BY <2>1, SmallestSet
<1>2. m \in SUBSET T /\ m \in SUBSET U
  OBVIOUS
<1>3. /\ f[m] = IF m = {} THEN 0 ELSE w[Pick(m)] + f[m \ {Pick(m)}]
      /\ g[m] = IF m = {} THEN 0 ELSE w[Pick(m)] + g[m \ {Pick(m)}]
  <2> HIDE DEF B
  <2>1. f[m] = IF m = {} THEN 0 ELSE w[Pick(m)] + f[m \ {Pick(m)}]
    BY <1>2 DEF SumOn
  <2>2. g[m] = IF m = {} THEN 0 ELSE w[Pick(m)] + g[m \ {Pick(m)}]
    BY <1>2 DEF SumOn
  <2> QED
    BY <2>1, <2>2
<1>4. m # {}
  BY <1>3
<1>5. m \ {Pick(m)} \notin B
  BY <1>1, <1>4, PickIn
<1> QED
  BY <1>3, <1>4, <1>5

(* Every finite set of coins has its recursion.                             *)
LEMMA SumExists ==
  ASSUME NEW w, NEW S, IsFiniteSet(S)
  PROVE  \E f : SumOn(w, f, S)
<1> DEFINE B == {s \in SUBSET S : ~\E f : SumOn(w, f, s)}
<1> SUFFICES ASSUME B # {} PROVE FALSE
  OBVIOUS
<1>1. PICK m \in B : \A x \in B : x \subseteq m => x = m
  <2>1. B \in SUBSET SUBSET S
    OBVIOUS
  <2> HIDE DEF B
  <2> QED
    BY <2>1, SmallestSet
<1> DEFINE F(t) == CHOOSE f : SumOn(w, f, t)
           val(s) == IF s = {} THEN 0 ELSE w[Pick(s)] + F(s \ {Pick(s)})[s \ {Pick(s)}]
           g == [s \in SUBSET m |-> val(s)]
<1>2. ASSUME NEW t \in SUBSET m, t # m PROVE SumOn(w, F(t), t)
  <2>1. t \notin B
    BY <1>1, <1>2
  <2> QED
    BY <2>1
<1>3. ASSUME NEW t \in SUBSET m, t # m PROVE F(t)[t] = val(t)
  <2>1. SumOn(w, F(t), t)
    BY <1>2, <1>3
  <2>2. F(t)[t] = IF t = {} THEN 0 ELSE w[Pick(t)] + F(t)[t \ {Pick(t)}]
    <3> HIDE DEF F
    <3> QED
      BY <2>1 DEF SumOn
  <2>3. ASSUME t # {} PROVE F(t)[t \ {Pick(t)}] = F(t \ {Pick(t)})[t \ {Pick(t)}]
    <3>1. t \ {Pick(t)} \in SUBSET m /\ t \ {Pick(t)} # m
      BY <1>3, <2>3, PickIn
    <3>2. SumOn(w, F(t \ {Pick(t)}), t \ {Pick(t)})
      BY <3>1, <1>2
    <3>3. IsFiniteSet(t \ {Pick(t)})
      BY <3>1, FS_Subset
    <3> HIDE DEF F
    <3> QED
      BY <2>1, <3>2, <3>3, SumsAgree
  <2> QED
    BY <2>2, <2>3
<1>4. ASSUME NEW s \in SUBSET m
      PROVE  g[s] = IF s = {} THEN 0 ELSE w[Pick(s)] + g[s \ {Pick(s)}]
  <2>1. g[s] = val(s)
    OBVIOUS
  <2>2. CASE s = {}
    BY <2>1, <2>2
  <2>3. CASE s # {}
    <3>1. s \ {Pick(s)} \in SUBSET m /\ s \ {Pick(s)} # m
      BY <2>3, PickIn
    <3>2. g[s \ {Pick(s)}] = val(s \ {Pick(s)})
      BY <3>1
    <3>3. F(s \ {Pick(s)})[s \ {Pick(s)}] = val(s \ {Pick(s)})
      BY <3>1, <1>3
    <3>4. val(s) = w[Pick(s)] + F(s \ {Pick(s)})[s \ {Pick(s)}]
      BY <2>3
    <3> HIDE DEF val, F, g
    <3> QED
      BY <2>1, <2>3, <3>2, <3>3, <3>4
  <2> QED
    BY <2>2, <2>3
<1>5. SumOn(w, g, m)
  <2>1. g = [s \in SUBSET m |-> g[s]]
    OBVIOUS
  <2> HIDE DEF g
  <2> QED
    BY <2>1, <1>4 DEF SumOn
<1> QED
  BY <1>5

(* What the sum is, without the recursion ...                               *)
LEMMA WorthSum ==
  ASSUME NEW w, NEW S, IsFiniteSet(S)
  PROVE  /\ S = {} => WorthOf(w, S) = 0
         /\ S # {} => WorthOf(w, S) = w[Pick(S)] + WorthOf(w, S \ {Pick(S)})
<1> DEFINE F(t) == CHOOSE f : SumOn(w, f, t)
           rest == S \ {Pick(S)}
<1>1. IsFiniteSet(rest) /\ rest \subseteq S
  BY FS_Subset
<1>2. SumOn(w, F(S), S) /\ SumOn(w, F(rest), rest)
  BY <1>1, SumExists
<1>3. WorthOf(w, S) = F(S)[S] /\ WorthOf(w, rest) = F(rest)[rest]
  BY WorthOfIs
<1> HIDE DEF F
<1>4. F(S)[S] = IF S = {} THEN 0 ELSE w[Pick(S)] + F(S)[rest]
  <2>1. S \in SUBSET S
    OBVIOUS
  <2> QED
    BY <1>2, <2>1 DEF SumOn
<1>5. F(S)[rest] = F(rest)[rest]
  BY <1>1, <1>2, SumsAgree
<1> QED
  BY <1>3, <1>4, <1>5

(* ... and that it is a natural number.                                     *)
LEMMA WorthIsNat ==
  ASSUME NEW C, NEW w \in [C -> Nat], NEW S \in SUBSET C, IsFiniteSet(S)
  PROVE  WorthOf(w, S) \in Nat
<1> DEFINE B == {s \in SUBSET S : WorthOf(w, s) \notin Nat}
<1> SUFFICES ASSUME B # {} PROVE FALSE
  OBVIOUS
<1>1. PICK m \in B : \A x \in B : x \subseteq m => x = m
  <2>1. B \in SUBSET SUBSET S
    OBVIOUS
  <2> HIDE DEF B
  <2> QED
    BY <2>1, SmallestSet
<1>2. IsFiniteSet(m)
  BY FS_Subset
<1>3. m # {}
  <2>1. WorthOf(w, m) # 0
    OBVIOUS
  <2> QED
    BY <1>2, <2>1, WorthSum
<1>4. m \ {Pick(m)} \notin B
  BY <1>1, <1>3, PickIn
<1>5. WorthOf(w, m \ {Pick(m)}) \in Nat
  BY <1>4
<1>6. w[Pick(m)] \in Nat
  BY <1>3, PickIn
<1>7. WorthOf(w, m) = w[Pick(m)] + WorthOf(w, m \ {Pick(m)})
  BY <1>2, <1>3, WorthSum
<1> QED
  BY <1>5, <1>6, <1>7

(* Whichever element is taken out first.                                   *)
LEMMA WorthWithout ==
  ASSUME NEW C, NEW w \in [C -> Nat], NEW S \in SUBSET C, IsFiniteSet(S), NEW y \in S
  PROVE  WorthOf(w, S) = w[y] + WorthOf(w, S \ {y})
<1> DEFINE Off(s) == {x \in s : WorthOf(w, s) # w[x] + WorthOf(w, s \ {x})}
           B == {s \in SUBSET S : Off(s) # {}}
<1> SUFFICES ASSUME B # {} PROVE FALSE
  OBVIOUS
<1>1. PICK m \in B : \A s \in B : s \subseteq m => s = m
  <2>1. B \in SUBSET SUBSET S
    OBVIOUS
  <2> HIDE DEF B
  <2> QED
    BY <2>1, SmallestSet
<1>2. PICK x \in m : WorthOf(w, m) # w[x] + WorthOf(w, m \ {x})
  OBVIOUS
<1>3. PICK p \in m : p = Pick(m)
  BY PickIn
<1>4. IsFiniteSet(m) /\ IsFiniteSet((m \ {x}) \ {p})
  BY FS_Subset
<1>5. WorthOf(w, m) = w[p] + WorthOf(w, m \ {p})
  BY <1>3, <1>4, WorthSum
<1>6. p # x
  BY <1>2, <1>5
<1>7. WorthOf(w, m \ {p}) = w[x] + WorthOf(w, (m \ {p}) \ {x})
  <2>1. m \ {p} \notin B
    BY <1>1
  <2> QED
    BY <2>1, <1>6
<1>8. WorthOf(w, m \ {x}) = w[p] + WorthOf(w, (m \ {x}) \ {p})
  <2>1. m \ {x} \notin B
    BY <1>1
  <2> QED
    BY <2>1, <1>6
<1>9. (m \ {p}) \ {x} = (m \ {x}) \ {p}
  OBVIOUS
<1>10. WorthOf(w, (m \ {x}) \ {p}) \in Nat /\ w[x] \in Nat /\ w[p] \in Nat
  BY <1>4, WorthIsNat
<1> QED
  BY <1>2, <1>5, <1>7, <1>8, <1>9, <1>10

(* Elements no better than those they replace, and no more of them, are    *)
(* worth no more.                                                          *)
LEMMA WorthExchange ==
  ASSUME NEW C, NEW w \in [C -> Nat], NEW S \in SUBSET C, IsFiniteSet(S),
         NEW D \in SUBSET C, IsFiniteSet(D), Cardinality(S) <= Cardinality(D),
         \A c \in D, d \in S \ D : w[d] <= w[c]
  PROVE  WorthOf(w, S) <= WorthOf(w, D)
<1> DEFINE Beaten(s, t) == /\ Cardinality(s) <= Cardinality(t)
                           /\ \A c \in t, d \in s \ t : w[d] <= w[c]
           B == {s \in SUBSET S : \E t \in SUBSET D :
                      Beaten(s, t) /\ ~(WorthOf(w, s) <= WorthOf(w, t))}
<1> SUFFICES ASSUME B # {} PROVE FALSE
  OBVIOUS
<1>1. PICK m \in B : \A s \in B : s \subseteq m => s = m
  <2>1. B \in SUBSET SUBSET S
    OBVIOUS
  <2> HIDE DEF B
  <2> QED
    BY <2>1, SmallestSet
<1>2. PICK t \in SUBSET D : Beaten(m, t) /\ ~(WorthOf(w, m) <= WorthOf(w, t))
  OBVIOUS
<1>3. IsFiniteSet(m) /\ IsFiniteSet(t)
  BY FS_Subset
<1>4. WorthOf(w, m) \in Nat /\ WorthOf(w, t) \in Nat
  BY <1>3, WorthIsNat
<1>5. m # {}
  <2>1. m = {} => WorthOf(w, m) = 0
    BY <1>3, WorthSum
  <2> QED
    BY <1>2, <1>4, <2>1
<1>6. t # {}
  <2>1. Cardinality(m) \in Nat /\ Cardinality(m) # 0
    BY <1>3, <1>5, FS_CardinalityType, FS_EmptySet
  <2>2. Cardinality({}) = 0
    BY FS_EmptySet
  <2> QED
    BY <1>2, <2>1, <2>2
<1>7. ASSUME NEW d \in m, NEW c \in t, w[d] <= w[c],
             \A x \in t \ {c}, y \in (m \ {d}) \ (t \ {c}) : w[y] <= w[x]
      PROVE  FALSE
  <2>1. m \ {d} \notin B
    BY <1>1
  <2>2. /\ Cardinality(m \ {d}) = Cardinality(m) - 1
        /\ Cardinality(t \ {c}) = Cardinality(t) - 1
        /\ Cardinality(m) \in Nat /\ Cardinality(t) \in Nat
    BY <1>3, FS_RemoveElement, FS_CardinalityType
  <2>3. Cardinality(m \ {d}) <= Cardinality(t \ {c})
    BY <1>2, <2>2
  <2>4. Beaten(m \ {d}, t \ {c})
    BY <1>7, <2>3
  <2>5. WorthOf(w, m \ {d}) <= WorthOf(w, t \ {c})
    BY <2>1, <2>4
  <2>6. IsFiniteSet(m \ {d}) /\ IsFiniteSet(t \ {c})
    BY <1>3, FS_Subset
  <2>7. WorthOf(w, m \ {d}) \in Nat /\ WorthOf(w, t \ {c}) \in Nat
    BY <2>6, WorthIsNat
  <2>8. WorthOf(w, m) = w[d] + WorthOf(w, m \ {d}) /\ WorthOf(w, t) = w[c] + WorthOf(w, t \ {c})
    BY <1>3, WorthWithout
  <2>9. w[d] \in Nat /\ w[c] \in Nat
    OBVIOUS
  <2> QED
    BY <1>2, <1>7, <2>5, <2>7, <2>8, <2>9
<1>8. CASE m \cap t # {}
  <2>1. PICK x : x \in m /\ x \in t
    BY <1>8
  <2>2. w[x] \in Nat
    BY <2>1
  <2>3. \A u \in t \ {x}, y \in (m \ {x}) \ (t \ {x}) : w[y] <= w[u]
    BY <1>2
  <2> QED
    BY <1>7, <2>1, <2>2, <2>3
<1>9. CASE m \cap t = {}
  <2>1. PICK d \in m, c \in t : TRUE
    BY <1>5, <1>6
  <2>2. m \ t = m
    BY <1>9
  <2>3. \A u \in t, y \in m : w[y] <= w[u]
    BY <1>2, <2>2
  <2>4. \A u \in t \ {c}, y \in (m \ {d}) \ (t \ {c}) : w[y] <= w[u]
    BY <2>3
  <2> QED
    BY <1>7, <2>3, <2>4
<1> QED
  BY <1>8, <1>9

-----------------------------------------------------------------------------
(* What a choice of coins leaves, by their sum.                             *)
LEMMA SurplusIs ==
  ASSUME NEW S
  PROVE  Surplus(S) = WorthOf(worth, S) - amount - FeeDue(Cardinality(S), 1)
  BY DEF Surplus, WorthOf

LEMMA SurplusStays ==
  ASSUME UNCHANGED <<worth, amount, rate>>, NEW S
  PROVE  Surplus(S)' = Surplus(S)
<1>1. Surplus(S)' = WorthOf(worth', S) - amount' - FeeDue(Cardinality(S), 1)'
  BY DEF Surplus, WorthOf, MapThenSumSet, MapThenFoldSet
<1>2. FeeDue(Cardinality(S), 1)' = FeeDue(Cardinality(S), 1)
  BY RemainderStays
<1> QED
  BY <1>1, <1>2, SurplusIs

(* The numbers a choice stands for.                                         *)
LEMMA SurplusTypes ==
  ASSUME Given, NEW S \in SUBSET usable
  PROVE  /\ IsFiniteSet(S) /\ Cardinality(S) \in Nat /\ WorthOf(worth, S) \in Nat
         /\ FeeDue(Cardinality(S), 1) \in Nat /\ Surplus(S) \in Int
<1>1. S \in SUBSET Coins /\ worth \in [Coins -> Nat] /\ rate \in Nat /\ amount \in Nat
  BY DEF Given
<1>2. IsFiniteSet(S) /\ Cardinality(S) \in Nat
  BY <1>1, FundingAssumption, FS_Subset, FS_CardinalityType
<1>3. WorthOf(worth, S) \in Nat
  BY <1>1, <1>2, WorthIsNat
<1>4. FeeDue(Cardinality(S), 1) \in Nat
  BY <1>1, <1>2, FeeDueGrows
<1> QED
  BY <1>1, <1>2, <1>3, <1>4, SurplusIs

(* The inductive invariant: the sum is that of the chosen coins; while the  *)
(* loop runs these are the most valuable, and no choice of as few would     *)
(* do.                                                                      *)
TheMostValuable == \A c \in chosen, d \in usable \ chosen : worth[d] <= worth[c]

NoneOfUpTo(n) == \A S \in (SUBSET usable) \ {{}} : Cardinality(S) <= n => Surplus(S) < 0

NoneBelow(n) == \A S \in (SUBSET usable) \ {{}} : Surplus(S) >= 0 => Cardinality(S) >= n

ChoiceInv ==
    /\ FundInv
    /\ total = WorthOf(worth, chosen)
    /\ funding = "picking" => TheMostValuable
    /\ funding \in {"picking", "insufficient"} => NoneOfUpTo(Cardinality(chosen))
    /\ funding \in {"building", "built", "above the cap"} => NoneBelow(Cardinality(chosen))
    /\ funding = "above the cap" => fee > MaxFee

LEMMA NothingIsWorthNothing ==
  ASSUME NEW w
  PROVE  WorthOf(w, {}) = 0
  BY WorthSum, FS_EmptySet

LEMMA InitEstablishesChoiceInv == FundInit => ChoiceInv
<1> SUFFICES ASSUME FundInit PROVE ChoiceInv
  OBVIOUS
<1>1. FundInv
  BY InitEstablishesFundInv
<1>2. total = 0 /\ chosen = {} /\ funding = "rate"
  BY DEF FundInit
<1>3. total = WorthOf(worth, chosen)
  BY <1>2, NothingIsWorthNothing
<1> QED
  BY <1>1, <1>2, <1>3 DEF ChoiceInv

(* No choice of coins is empty, and none is larger than all of them.        *)
LEMMA ChoiceCounts ==
  ASSUME Given, NEW S \in (SUBSET usable) \ {{}}
  PROVE  Cardinality(S) >= 1 /\ Cardinality(S) <= Cardinality(usable) /\ Cardinality(S) \in Nat
<1>1. IsFiniteSet(usable)
  BY FundingAssumption, FS_Subset DEF Given
<1>2. IsFiniteSet(S) /\ Cardinality(S) <= Cardinality(usable)
  BY <1>1, FS_Subset
<1>3. Cardinality(S) \in Nat /\ Cardinality(S) # 0
  BY <1>2, FS_CardinalityType, FS_EmptySet
<1> QED
  BY <1>2, <1>3

(* One coin that pays alone is a choice no other undercuts.                 *)
LEMMA OneCoinIsFewest ==
  ASSUME Given, NEW c \in usable
  PROVE  /\ WorthOf(worth, {c}) = worth[c]
         /\ NoneBelow(Cardinality({c}))
<1>1. Cardinality({c}) = 1 /\ IsFiniteSet({c})
  BY FS_Singleton
<1>2. {c} \in SUBSET Coins /\ worth \in [Coins -> Nat] /\ worth[c] \in Nat
  BY DEF Given
<1>3. WorthOf(worth, {c}) = worth[c] + WorthOf(worth, {c} \ {c})
  BY <1>1, <1>2, WorthWithout
<1>4. {c} \ {c} = {}
  OBVIOUS
<1>5. NoneBelow(1)
  BY ChoiceCounts DEF NoneBelow
<1>6. NoneBelow(Cardinality({c}))
  BY <1>1, <1>5
<1>7. WorthOf(worth, {c}) = worth[c]
  BY <1>2, <1>3, <1>4, NothingIsWorthNothing
<1> QED
  BY <1>6, <1>7

(* The next coin of the loop: the sum and the order are kept, and if the    *)
(* chosen coins do not pay, no others of that number do.                    *)
LEMMA NextCoin ==
  ASSUME ChoiceInv, funding = "picking", NEW c \in Largest(usable \ chosen),
         NEW N, N = chosen \cup {c}
  PROVE  /\ N \in SUBSET usable
         /\ WorthOf(worth, N) = total + worth[c]
         /\ \A x \in N, d \in usable \ N : worth[d] <= worth[x]
         /\ NoneBelow(Cardinality(N))
         /\ Surplus(N) < 0 => NoneOfUpTo(Cardinality(N))
<1>0. Given
  BY DEF ChoiceInv, FundInv
<1>1. c \in usable /\ c \notin chosen /\ \A d \in usable \ chosen : worth[d] <= worth[c]
  BY DEF Largest
<1>2. /\ N \in SUBSET usable /\ N \in SUBSET Coins /\ chosen \in SUBSET usable
      /\ worth \in [Coins -> Nat] /\ worth[c] \in Nat
      /\ amount \in Nat
  BY <1>0, <1>1 DEF Given
<1>3. /\ IsFiniteSet(N) /\ IsFiniteSet(chosen)
      /\ Cardinality(chosen) \in Nat /\ WorthOf(worth, chosen) \in Nat
      /\ WorthOf(worth, N) \in Nat
  BY <1>0, <1>2, SurplusTypes
<1>4. WorthOf(worth, N) = total + worth[c]
  <2>1. N \ {c} = chosen /\ c \in N
    BY <1>1
  <2>2. WorthOf(worth, N) = worth[c] + WorthOf(worth, N \ {c})
    BY <1>2, <1>3, <2>1, WorthWithout
  <2>3. total = WorthOf(worth, chosen)
    BY DEF ChoiceInv
  <2> QED
    BY <1>2, <1>3, <2>1, <2>2, <2>3
<1>5. Cardinality(N) = Cardinality(chosen) + 1
  BY <1>1, <1>3, FS_AddElement
<1>6. \A x \in N, d \in usable \ N : worth[d] <= worth[x]
  <2>1. \A x \in chosen, d \in usable \ chosen : worth[d] <= worth[x]
    BY DEF ChoiceInv, TheMostValuable
  <2> QED
    BY <1>1, <2>1
<1>7. NoneOfUpTo(Cardinality(chosen))
  BY DEF ChoiceInv
<1>8. NoneBelow(Cardinality(N))
  <2> SUFFICES ASSUME NEW S \in (SUBSET usable) \ {{}}, Surplus(S) >= 0
               PROVE  Cardinality(S) >= Cardinality(N)
    BY DEF NoneBelow
  <2>1. Surplus(S) \in Int /\ Cardinality(S) \in Nat
    BY <1>0, SurplusTypes
  <2>2. ~(Cardinality(S) <= Cardinality(chosen))
    BY <1>7, <2>1 DEF NoneOfUpTo
  <2> QED
    BY <1>3, <1>5, <2>1, <2>2
<1>9. ASSUME Surplus(N) < 0 PROVE NoneOfUpTo(Cardinality(N))
  <2> SUFFICES ASSUME NEW S \in (SUBSET usable) \ {{}}, Cardinality(S) <= Cardinality(N)
               PROVE  Surplus(S) < 0
    BY DEF NoneOfUpTo
  <2>1. /\ Surplus(S) \in Int /\ Cardinality(S) \in Nat /\ IsFiniteSet(S)
        /\ WorthOf(worth, S) \in Nat /\ FeeDue(Cardinality(S), 1) \in Nat
    BY <1>0, SurplusTypes
  <2>2. CASE Cardinality(S) <= Cardinality(chosen)
    BY <1>7, <2>2 DEF NoneOfUpTo
  <2>3. CASE Cardinality(S) = Cardinality(N)
    <3>1. S \in SUBSET Coins
      BY <1>0 DEF Given
    <3>2. \A x \in N, d \in S \ N : worth[d] <= worth[x]
      BY <1>6
    <3>3. WorthOf(worth, S) <= WorthOf(worth, N)
      BY <1>2, <1>3, <2>1, <2>3, <3>1, <3>2, WorthExchange
    <3>4. /\ Surplus(S) = WorthOf(worth, S) - amount - FeeDue(Cardinality(S), 1)
          /\ Surplus(N) = WorthOf(worth, N) - amount - FeeDue(Cardinality(S), 1)
      BY <2>3, SurplusIs
    <3> QED
      BY <1>2, <1>3, <1>9, <2>1, <3>3, <3>4
  <2> QED
    BY <1>3, <1>5, <2>1, <2>2, <2>3
<1> QED
  BY <1>2, <1>4, <1>6, <1>8, <1>9

(* A pass of the loop that returns or goes on.                              *)
LEMMA PassKeepsChoice ==
  ASSUME ChoiceInv, funding = "picking", NEW c \in Largest(usable \ chosen),
         Judges(chosen \cup {c}, total + worth[c]), FundInv',
         UNCHANGED <<worth, usable, amount, rate, built>>
  PROVE  ChoiceInv'
<1>0. Given
  BY DEF ChoiceInv, FundInv
<1>1. PICK N : N = chosen \cup {c}
  OBVIOUS
<1>2. /\ N \in SUBSET usable /\ WorthOf(worth, N) = total + worth[c]
      /\ \A x \in N, d \in usable \ N : worth[d] <= worth[x]
      /\ NoneBelow(Cardinality(N))
      /\ Surplus(N) < 0 => NoneOfUpTo(Cardinality(N))
  BY <1>1, NextCoin
<1>3. chosen' = N /\ total' = WorthOf(worth, N)
  BY <1>1, <1>2 DEF Judges, Selects
<1>4. total' = WorthOf(worth', chosen')
  BY <1>3
<1>5. CASE funding' = "building"
  <2>1. NoneBelow(Cardinality(chosen))'
    BY <1>2, <1>3, SurplusStays DEF NoneBelow
  <2> QED
    BY <1>4, <1>5, <2>1 DEF ChoiceInv
<1>6. CASE funding' = "picking" /\ Remainder(total + worth[c], Cardinality(N), 1) < 0
  <2>1. Surplus(N) < 0
    BY <1>2, <1>6, SurplusIs DEF Remainder
  <2>2. NoneOfUpTo(Cardinality(chosen))'
    BY <1>2, <1>3, <2>1, SurplusStays DEF NoneOfUpTo
  <2>3. TheMostValuable'
    BY <1>2, <1>3 DEF TheMostValuable
  <2> QED
    BY <1>4, <1>6, <2>2, <2>3 DEF ChoiceInv
<1> QED
  BY <1>1, <1>5, <1>6 DEF Judges, Selects

(* Steps that choose nothing.                                               *)
LEMMA ChoiceStays ==
  ASSUME UNCHANGED <<worth, usable, amount, rate, chosen, total, fee>>
  PROVE  /\ WorthOf(worth, chosen)' = WorthOf(worth, chosen)
         /\ TheMostValuable' = TheMostValuable
         /\ NoneOfUpTo(Cardinality(chosen))' = NoneOfUpTo(Cardinality(chosen))
         /\ NoneBelow(Cardinality(chosen))' = NoneBelow(Cardinality(chosen))
<1>1. WorthOf(worth, chosen)' = WorthOf(worth, chosen)
  OBVIOUS
<1>2. TheMostValuable' = TheMostValuable
  BY DEF TheMostValuable
<1>3. NoneOfUpTo(Cardinality(chosen))' = NoneOfUpTo(Cardinality(chosen))
  BY SurplusStays DEF NoneOfUpTo
<1>4. NoneBelow(Cardinality(chosen))' = NoneBelow(Cardinality(chosen))
  BY SurplusStays DEF NoneBelow
<1> QED
  BY <1>1, <1>2, <1>3, <1>4

LEMMA StepPreservesChoiceInv == ChoiceInv /\ [FundNext]_fundVars => ChoiceInv'
<1> SUFFICES ASSUME ChoiceInv, [FundNext]_fundVars PROVE ChoiceInv'
  OBVIOUS
<1>0. FundInv /\ FundInv' /\ Given
  BY StepPreservesFundInv DEF ChoiceInv, FundInv
<1>1. CASE LearnsRate
  <2>1. total' = 0 /\ chosen' = {} /\ funding' = "coins"
    BY <1>0, <1>1 DEF LearnsRate, FundInv, Before
  <2>2. total' = WorthOf(worth', chosen')
    BY <2>1, NothingIsWorthNothing
  <2> QED
    BY <1>0, <2>1, <2>2 DEF ChoiceInv
<1>2. CASE ReadsCoins
  <2>1. total' = 0 /\ chosen' = {} /\ funding' \in {"insufficient", "matching"}
    BY <1>0, <1>2 DEF ReadsCoins, FundInv, Before
  <2>2. total' = WorthOf(worth', chosen')
    BY <2>1, NothingIsWorthNothing
  <2>3. ASSUME funding' = "insufficient" PROVE NoneOfUpTo(Cardinality(chosen))'
    <3>1. usable' = {}
      BY <1>2, <2>3 DEF ReadsCoins
    <3> QED
      BY <3>1 DEF NoneOfUpTo
  <2> QED
    BY <1>0, <2>1, <2>2, <2>3 DEF ChoiceInv
<1>3. CASE TakesExactMatch
  <2>1. PICK c \in usable : Selects({c}, worth[c], worth[c] - amount, 0)
    BY <1>3 DEF TakesExactMatch
  <2>2. chosen' = {c} /\ total' = worth[c] /\ funding' = "building"
    BY <2>1 DEF Selects
  <2>3. UNCHANGED <<worth, usable, amount, rate>>
    BY <1>3 DEF TakesExactMatch
  <2>4. WorthOf(worth, {c}) = worth[c] /\ NoneBelow(Cardinality({c}))
    BY <1>0, OneCoinIsFewest
  <2>5. total' = WorthOf(worth', chosen')
    BY <2>2, <2>3, <2>4
  <2>6. NoneBelow(Cardinality(chosen))'
    BY <2>2, <2>3, <2>4, SurplusStays DEF NoneBelow
  <2> QED
    BY <1>0, <2>2, <2>5, <2>6 DEF ChoiceInv
<1>4. CASE FindsNoMatch
  <2>1. /\ chosen' = {} /\ total' = 0 /\ funding' = "picking"
        /\ UNCHANGED <<worth, usable, amount, rate>>
    BY <1>0, <1>4 DEF FindsNoMatch, FundInv, Before
  <2>2. total' = WorthOf(worth', chosen')
    BY <2>1, NothingIsWorthNothing
  <2>3. TheMostValuable'
    BY <2>1 DEF TheMostValuable
  <2>4. NoneOfUpTo(0)
    BY <1>0, ChoiceCounts DEF NoneOfUpTo
  <2>5. NoneOfUpTo(Cardinality(chosen))'
    <3>1. Cardinality(chosen') = 0
      BY <2>1, FS_EmptySet
    <3> QED
      BY <2>1, <2>4, <3>1, SurplusStays DEF NoneOfUpTo
  <2> QED
    BY <1>0, <2>1, <2>2, <2>3, <2>5 DEF ChoiceInv
<1>5. CASE PicksLargest
  BY <1>0, <1>5, PassKeepsChoice DEF PicksLargest
<1>6. CASE RunsOut
  <2>1. funding = "picking" /\ funding' = "insufficient"
        /\ UNCHANGED <<worth, usable, amount, rate, chosen, total, fee>>
    BY <1>6 DEF RunsOut
  <2> QED
    BY <1>0, <2>1, ChoiceStays DEF ChoiceInv
<1>7. CASE BuilderRefuses
  <2>1. /\ funding' \in {"amount is dust", "no fee rate"}
        /\ UNCHANGED <<worth, usable, amount, rate, chosen, total, fee>>
    BY <1>7 DEF BuilderRefuses, Refuses
  <2> QED
    BY <1>0, <2>1, ChoiceStays DEF ChoiceInv
<1>8. CASE Builds
  <2>1. /\ funding = "building" /\ funding' \in {"short", "above the cap", "built"}
        /\ UNCHANGED <<worth, usable, amount, rate, chosen, total, fee>>
    BY <1>8 DEF Builds
  <2>2. ASSUME funding' = "above the cap" PROVE fee' > MaxFee
    <3>1. built'.fee = fee
      <4>1. built' = [fee |-> fee, change |-> change]
        BY <1>0, <1>8, BuilderAgrees DEF Builds
      <4> QED
        BY <4>1
    <3>2. ~(Remainder(total, Cardinality(chosen), 1) < 0)
      BY <1>0, <2>1, BuilderAgrees
    <3>3. built'.fee > MaxFee
      BY <1>8, <2>2, <3>2 DEF Builds
    <3> QED
      BY <2>1, <3>1, <3>3
  <2> QED
    BY <1>0, <2>1, <2>2, ChoiceStays DEF ChoiceInv
<1>9. CASE UNCHANGED fundVars
  <2>1. UNCHANGED <<worth, usable, amount, rate, chosen, total, fee, funding>>
    BY <1>9 DEF fundVars
  <2> QED
    BY <1>0, <2>1, ChoiceStays DEF ChoiceInv
<1> QED
  BY <1>1, <1>2, <1>3, <1>4, <1>5, <1>6, <1>7, <1>8, <1>9 DEF FundNext

(* The coins are chosen well: for every set of coins, every amount, rate    *)
(* and cap, a transaction is refused for want of money only if no choice    *)
(* of the spendable coins pays for it, none with fewer coins than the       *)
(* chosen ones would, and the cap refuses no fee that has an output and     *)
(* dust to spare below it.                                                  *)
THEOREM ChoosesWellHolds == FundSpec => []ChoosesWell
<1>1. ChoiceInv => ChoosesWell
  <2> SUFFICES ASSUME ChoiceInv PROVE ChoosesWell
    OBVIOUS
  <2>0. FundInv /\ Given
    BY DEF ChoiceInv, FundInv
  <2>1. ASSUME funding = "insufficient", NEW S \in (SUBSET usable) \ {{}} PROVE Surplus(S) < 0
    <3>1. chosen = usable /\ NoneOfUpTo(Cardinality(chosen))
      BY <2>0, <2>1 DEF ChoiceInv, FundInv
    <3>2. Cardinality(S) <= Cardinality(usable)
      BY <2>0, ChoiceCounts
    <3> QED
      BY <3>1, <3>2 DEF NoneOfUpTo
  <2>2. ASSUME funding = "above the cap" PROVE FeeDue(Cardinality(chosen), 2) + Dust > MaxFee
    <3>1. PICK n \in Nat : n = Cardinality(chosen)
      BY <2>0, CountIsNat DEF Given
    <3>2. /\ Remainder(total, n, 2) = total - amount - FeeDue(n, 2) /\ FeeDue(n, 2) \in Nat
          /\ total \in Nat /\ amount \in Nat
      BY <2>0, RemainderTypes, FeeDueGrows DEF Given
    <3>3. Dust \in Nat \ {0} /\ MaxFee \in Nat
      BY FundingAssumption
    <3>4. Agrees(fee, change) /\ fee > MaxFee
      BY <2>0, <2>2 DEF ChoiceInv, FundInv
    <3>5. \/ fee = FeeDue(n, 2)
          \/ Remainder(total, n, 2) < Dust /\ fee = total - amount
      BY <3>1, <3>4 DEF Agrees
    <3>6. FeeDue(n, 2) + Dust > MaxFee
      BY <3>2, <3>3, <3>4, <3>5
    <3> QED
      BY <3>1, <3>6
  <2>3. total = MapThenSumSet(LAMBDA c : worth[c], chosen)
    BY DEF ChoiceInv, WorthOf
  <2>4. ASSUME funding \in {"building", "built", "above the cap"}
        PROVE  \A S \in (SUBSET usable) \ {{}} :
                  Surplus(S) >= 0 => Cardinality(S) >= Cardinality(chosen)
    BY <2>4 DEF ChoiceInv, NoneBelow
  <2> QED
    BY <2>1, <2>2, <2>3, <2>4 DEF ChoosesWell
<1>2. FundSpec => []ChoiceInv
  BY InitEstablishesChoiceInv, StepPreservesChoiceInv, PTL DEF FundSpec
<1> QED
  BY <1>1, <1>2, PTL

(***************************************************************************)
(* Dispatch                                                                *)
(***************************************************************************)
(* What a broadcast knows.  A node was sent the transaction only while a    *)
(* peer is at it or an answer was lost; without either, the network has it  *)
(* only if an API is about to say so.                                       *)
Tried == \E p \in Peers : peer[p] \in {"written", "reached"}

Asking == {"APIs", "Blockchair"}

SocketsInv ==
    /\ stage # "peers" => \A p \in Peers : peer[p] \in {"reached", "missed"}
    /\ stage \notin {"peers", "sent by peers"} => ~Reached
    /\ stage = "sent by peers" => Reached
    /\ Tried => strays
    /\ strays => Tried \/ unsure

RequestInv ==
    /\ request # "none" <=> stage \in Asking
    /\ stage = "APIs" => queue # <<>>
    /\ stage = "peers" => attempt = 0
    /\ stage = "pause" => attempt < MaxAttempts

AnswersInv ==
    /\ request \in {"ok", "known"} => holding # "unseen"
    /\ request = "conflict" => verdict = "conflict" \/ holding = "mined"
    /\ holding # "unseen" => strays \/ request = "ok" \/ stage \in Sent \/ unsure
    /\ stage \in Sent \ {"sent by peers"} => holding # "unseen"
    /\ stage = "DOUBLE_SPEND" => verdict = "conflict" \/ unsure

DispatchInv == DispatchTypeOK /\ SocketsInv /\ RequestInv /\ AnswersInv

LEMMA DispatchInvInit == DispatchInit => DispatchInv
<1> SUFFICES ASSUME DispatchInit PROVE DispatchInv
  OBVIOUS
<1>1. DispatchTypeOK
  <2>1. /\ peer \in [Peers -> {"connecting", "handshake", "written", "reached", "missed"}]
        /\ chatty \subseteq Peers /\ healthy \subseteq Apis
    BY DEF DispatchInit
  <2>2. attempt \in 0 .. MaxAttempts
    BY DispatchAssumption DEF DispatchInit
  <2> QED
    BY <2>1, <2>2 DEF DispatchInit, DispatchTypeOK
<1>2. SocketsInv
  BY DEF DispatchInit, SocketsInv, Tried, Reached
<1>3. RequestInv /\ AnswersInv
  BY DEF DispatchInit, RequestInv, AnswersInv, Asking, Sent
<1> QED
  BY <1>1, <1>2, <1>3 DEF DispatchInv

LEMMA PeersKeepInv ==
  ASSUME DispatchInv, NEW p \in Peers, PeerStep(p)
  PROVE  DispatchInv'
<1> USE DEF DispatchInv
<1>1. DispatchTypeOK'
  BY DEF DispatchTypeOK, PeerStep, PeerConnects, PeerShakesHands, PeerReached, PeerMissed,
         apiVars, netVars
<1>2. SocketsInv'
  <2>1. stage = "peers" /\ stage' = stage
    BY DEF SocketsInv, PeerStep, PeerConnects, PeerShakesHands, PeerReached, PeerMissed
  <2>2. (Tried => strays)' /\ (strays => Tried \/ unsure)'
    <3>1. CASE PeerConnects(p)
      <4>1. Tried' <=> Tried
        BY <3>1 DEF PeerConnects, Tried, DispatchTypeOK
      <4> QED
        BY <3>1, <4>1 DEF PeerConnects, SocketsInv
    <3>2. CASE PeerShakesHands(p)
      <4>1. Tried' /\ strays'
        BY <3>2 DEF PeerShakesHands, Tried, DispatchTypeOK
      <4> QED
        BY <4>1
    <3>3. CASE PeerReached(p)
      <4>1. Tried' /\ Tried
        BY <3>3 DEF PeerReached, Tried, DispatchTypeOK
      <4> QED
        BY <3>3, <4>1 DEF PeerReached, SocketsInv
    <3>4. CASE PeerMissed(p)
      <4>1. (Tried' => Tried) /\ (peer[p] # "written" => (Tried => Tried'))
        BY <3>4 DEF PeerMissed, Tried, DispatchTypeOK
      <4> QED
        BY <3>4, <4>1 DEF PeerMissed, SocketsInv
    <3> QED
      BY <3>1, <3>2, <3>3, <3>4 DEF PeerStep
  <2> QED
    BY <2>1, <2>2 DEF SocketsInv
<1>3. RequestInv' /\ AnswersInv'
  BY DEF RequestInv, AnswersInv, Asking, Sent, PeerStep, PeerConnects, PeerShakesHands,
         PeerReached, PeerMissed, apiVars, netVars
<1> QED
  BY <1>1, <1>2, <1>3

(* An attempt over the APIs begins when no peer was reached; without a lost *)
(* answer nobody has the transaction then.                                  *)
LEMMA PeersSettleKeepsInv ==
  ASSUME DispatchInv, PeersSettle
  PROVE  DispatchInv'
<1> USE DEF DispatchInv
<1>1. /\ stage = "peers" /\ \A p \in Peers : peer[p] \in {"reached", "missed"}
      /\ UNCHANGED <<peer, chatty, healthy, holding, verdict, strays, unsure>>
  BY DEF PeersSettle, netVars
<1>2. attempt = 0 /\ request = "none"
  BY <1>1 DEF RequestInv, Asking
<1>3. CASE Reached
  <2>1. stage' = "sent by peers" /\ UNCHANGED <<attempt, queue, request>>
    BY <1>3 DEF PeersSettle
  <2>2. DispatchTypeOK'
    BY <1>1, <2>1 DEF DispatchTypeOK, Sent
  <2>3. SocketsInv' /\ RequestInv' /\ AnswersInv'
    BY <1>1, <1>2, <1>3, <2>1 DEF SocketsInv, RequestInv, AnswersInv, Asking, Sent, Tried, Reached
  <2> QED
    BY <2>2, <2>3
<1>4. CASE ~Reached
  <2>1. BeginsAttempt
    BY <1>4 DEF PeersSettle
  <2>2. attempt' \in 0 .. MaxAttempts
    <3>1. attempt' = attempt + 1
      BY <2>1 DEF BeginsAttempt
    <3> QED
      BY <1>2, <3>1, DispatchAssumption
  <2>3. DispatchTypeOK'
    BY <1>1, <2>1, <2>2 DEF DispatchTypeOK, BeginsAttempt, Order
  <2>4. ~Tried /\ (strays => unsure)
    BY <1>1, <1>4 DEF SocketsInv, Tried, Reached
  <2>5. SocketsInv'
    BY <1>1, <1>4, <2>1, <2>4 DEF SocketsInv, BeginsAttempt, Tried, Reached
  <2>6. RequestInv'
    BY <2>1 DEF RequestInv, BeginsAttempt, Asking, Order
  <2>7. AnswersInv'
    BY <1>1, <1>2, <2>1, <2>4 DEF AnswersInv, BeginsAttempt, Sent
  <2> QED
    BY <2>3, <2>5, <2>6, <2>7
<1> QED
  BY <1>3, <1>4

LEMMA RetriesKeepsInv ==
  ASSUME DispatchInv, Retries
  PROVE  DispatchInv'
<1> USE DEF DispatchInv
<1>1. /\ stage = "pause" /\ attempt < MaxAttempts /\ request = "none"
      /\ UNCHANGED <<peer, chatty, healthy, holding, verdict, strays, unsure>>
  BY DEF Retries, netVars, RequestInv, Asking
<1>2. attempt' \in 0 .. MaxAttempts
  <2>1. attempt' = attempt + 1 /\ attempt \in 0 .. MaxAttempts
    BY DEF Retries, BeginsAttempt, DispatchTypeOK
  <2> QED
    BY <1>1, <2>1, DispatchAssumption
<1>3. DispatchTypeOK'
  BY <1>1, <1>2 DEF DispatchTypeOK, Retries, BeginsAttempt, Order
<1>6. stage' = "APIs" /\ request' = "in transit"
  BY DEF Retries, BeginsAttempt
<1>7. SocketsInv'
  BY <1>1, <1>6 DEF SocketsInv, Tried, Reached
<1>4. AnswersInv'
  BY <1>1, <1>6 DEF AnswersInv, Sent
<1>5. RequestInv'
  BY DEF RequestInv, Retries, BeginsAttempt, Asking, Order
<1> QED
  BY <1>3, <1>4, <1>5, <1>7

(* What the end of a request says is so, or is not told.                    *)
LEMMA EndsTells ==
  ASSUME DispatchInv, NEW r, Ends(r)
  PROVE  /\ stage \in Asking
         /\ r \in {"ok", "known"} => holding # "unseen"
         /\ r = "conflict" => verdict = "conflict" \/ holding = "mined"
         /\ strays' \in BOOLEAN /\ unsure' \in BOOLEAN
         /\ unsure => unsure'
         /\ ~unsure' => (strays' = strays /\ (r = request \/ request = "in transit"))
         /\ strays => strays'
         /\ strays' => strays \/ unsure'
<1>1. stage \in Asking
  BY DEF Ends, DispatchInv, RequestInv
<1>2. strays \in BOOLEAN /\ unsure \in BOOLEAN
  BY DEF DispatchInv, DispatchTypeOK
<1>3. /\ request \in {"ok", "known"} => holding # "unseen"
      /\ request = "conflict" => verdict = "conflict" \/ holding = "mined"
  BY DEF DispatchInv, AnswersInv
<1>4. CASE request # "in transit" /\ r = request /\ UNCHANGED <<strays, unsure>>
  BY <1>1, <1>2, <1>3, <1>4
<1>5. CASE r = "other" /\ strays' = (strays \/ request = "in transit") /\ unsure' = TRUE
  BY <1>1, <1>2, <1>5
<1>6. CASE r = "other" /\ request = "in transit" /\ UNCHANGED <<strays, unsure>>
  BY <1>1, <1>2, <1>6
<1> QED
  BY <1>4, <1>5, <1>6 DEF Ends

LEMMA SucceedsKeepsInv ==
  ASSUME DispatchInv, ApiSucceeds \/ BlockchairSucceeds
  PROVE  DispatchInv'
<1> USE DEF DispatchInv
<1>1. /\ Ends("ok") /\ request' = "none" /\ stage' \in Sent \ {"sent by peers"}
      /\ UNCHANGED <<peer, chatty, attempt, queue, holding, verdict>>
  BY DEF ApiSucceeds, BlockchairSucceeds, netVars, Sent
<1>2. /\ stage \in Asking /\ holding # "unseen"
      /\ strays' \in BOOLEAN /\ unsure' \in BOOLEAN
      /\ (unsure => unsure') /\ (strays => strays') /\ (strays' => strays \/ unsure')
  BY <1>1, EndsTells
<1>3. healthy' \subseteq Apis
  <2>1. CASE ApiSucceeds
    <3>1. queue \in {<<Primary>>, <<Fallback>>, <<Primary, Fallback>>, <<Fallback, Primary>>}
      BY <2>1 DEF ApiSucceeds, RequestInv, DispatchTypeOK
    <3>2. Head(queue) \in Apis
      BY <3>1 DEF Apis
    <3> QED
      BY <2>1, <3>2 DEF ApiSucceeds, DispatchTypeOK
  <2>2. CASE BlockchairSucceeds
    BY <2>2 DEF BlockchairSucceeds, DispatchTypeOK
  <2> QED
    BY <2>1, <2>2
<1>4. DispatchTypeOK'
  BY <1>1, <1>2, <1>3 DEF DispatchTypeOK, Sent
<1>5. SocketsInv'
  BY <1>1, <1>2 DEF SocketsInv, Asking, Sent, Tried, Reached
<1>6. RequestInv' /\ AnswersInv'
  BY <1>1, <1>2 DEF RequestInv, AnswersInv, Asking, Sent
<1> QED
  BY <1>4, <1>5, <1>6

(* Facts about short sequences, on which withFailover() works.              *)
LEMMA LengthOfOne == ASSUME NEW a PROVE ~(Len(<<a>>) > 1) /\ <<a>> # <<>>
  OBVIOUS

LEMMA TailOfTwo ==
  ASSUME NEW a, NEW b
  PROVE  Tail(<<a, b>>) = <<b>>
<1> DEFINE S == {a, b}
           s == <<a, b>>
<1>1. s \in Seq(S) /\ Len(s) = 2 /\ s[2] = b /\ s # <<>>
  OBVIOUS
<1>2. /\ Tail(s) \in Seq(S) /\ Len(Tail(s)) = 1
      /\ \A i \in 1 .. 1 : Tail(s)[i] = s[i + 1]
  <2>1. /\ Tail(s) \in Seq(S) /\ Len(Tail(s)) = Len(s) - 1
        /\ \A i \in 1 .. Len(Tail(s)) : Tail(s)[i] = s[i + 1]
    BY <1>1, HeadTailProperties
  <2> QED
    BY <1>1, <2>1
<1>3. <<b>> \in Seq(S) /\ Len(<<b>>) = 1 /\ <<b>>[1] = b
  OBVIOUS
<1>4. \A i \in 1 .. Len(Tail(s)) : Tail(s)[i] = <<b>>[i]
  BY <1>1, <1>2, <1>3
<1>5. Len(Tail(s)) = Len(<<b>>)
  BY <1>2, <1>3
<1> HIDE DEF s, S
<1>6. Tail(s) = <<b>>
  BY <1>2, <1>3, <1>4, <1>5, SeqEqual
<1> QED
  BY <1>6 DEF s

(* An error either passes to the next API, or ends the attempt; it is       *)
(* thrown only if it is true, or if an answer was lost.                     *)
LEMMA ApiFailsKeepsInv ==
  ASSUME DispatchInv, ApiFails
  PROVE  DispatchInv'
<1> USE DEF DispatchInv
<1>1. PICK r \in Errors : Ends(r) /\ (AsksNext(r) \/ AttemptFails(r))
  BY DEF ApiFails
<1>2. /\ stage = "APIs" /\ UNCHANGED <<peer, chatty, holding, verdict>>
      /\ healthy' = healthy \ {Head(queue)}
  BY DEF ApiFails, netVars
<1>3. /\ r \in {"ok", "known"} => holding # "unseen"
      /\ r = "conflict" => verdict = "conflict" \/ holding = "mined"
      /\ strays' \in BOOLEAN /\ unsure' \in BOOLEAN
      /\ (unsure => unsure') /\ (strays => strays') /\ (strays' => strays \/ unsure')
      /\ ~unsure' => (strays' = strays /\ (r = request \/ request = "in transit"))
  BY <1>1, EndsTells
<1>4. /\ queue \in {<<Primary>>, <<Fallback>>, <<Primary, Fallback>>, <<Fallback, Primary>>}
      /\ healthy' \subseteq Apis /\ attempt \in 0 .. MaxAttempts
  BY <1>2 DEF RequestInv, DispatchTypeOK
(* A lost answer is remembered: without one, what the network has, it has   *)
(* from a peer or it is what this error does not say.                       *)
<1>5. holding # "unseen" => strays' \/ unsure'
  BY <1>1, <1>2, <1>3 DEF AnswersInv, Sent, Errors
<1>6. CASE AsksNext(r)
  <2>1. queue' = Tail(queue) /\ request' = "in transit" /\ UNCHANGED <<stage, attempt>>
    BY <1>6 DEF AsksNext
  <2>2. queue' \in {<<Primary>>, <<Fallback>>} /\ queue' # <<>>
    <3>1. queue # <<Primary>> /\ queue # <<Fallback>>
      <4>1. Len(queue) > 1
        BY <1>6 DEF AsksNext
      <4> QED
        BY <4>1, LengthOfOne
    <3>2. CASE queue = <<Primary, Fallback>>
      <4>1. Tail(<<Primary, Fallback>>) = <<Fallback>>
        BY TailOfTwo
      <4>2. queue' = <<Fallback>>
        BY <2>1, <3>2, <4>1, Zenon
      <4> QED
        BY <4>2, LengthOfOne, Zenon
    <3>3. CASE queue = <<Fallback, Primary>>
      <4>1. Tail(<<Fallback, Primary>>) = <<Primary>>
        BY TailOfTwo
      <4>2. queue' = <<Primary>>
        BY <2>1, <3>3, <4>1, Zenon
      <4> QED
        BY <4>2, LengthOfOne, Zenon
    <3> QED
      BY <1>4, <3>1, <3>2, <3>3
  <2>3. DispatchTypeOK'
    BY <1>2, <1>3, <1>4, <2>1, <2>2 DEF DispatchTypeOK
  <2>4. SocketsInv'
    BY <1>2, <1>3, <2>1 DEF SocketsInv, Tried, Reached
  <2>5. RequestInv'
    BY <1>2, <2>1, <2>2 DEF RequestInv, Asking
  <2>6. AnswersInv'
    BY <1>2, <1>5, <2>1 DEF AnswersInv, Sent
  <2> QED
    BY <2>3, <2>4, <2>5, <2>6
<1>7. CASE AttemptFails(r)
  <2>1. /\ queue' = <<>> /\ attempt' = attempt
        /\ request' = IF stage' = "Blockchair" THEN "in transit" ELSE "none"
        /\ stage' \in {"already known", "DOUBLE_SPEND", "FEE_TOO_LOW", "pause", "Blockchair"}
        /\ stage' = "already known" => r = "known"
        /\ stage' = "DOUBLE_SPEND" => r = "conflict"
        /\ stage' = "pause" => attempt < MaxAttempts
    BY <1>1, <1>7 DEF AttemptFails, Errors
  <2>2. DispatchTypeOK'
    BY <1>2, <1>3, <1>4, <2>1 DEF DispatchTypeOK, Sent, Thrown
  <2>3. SocketsInv'
    BY <1>2, <1>3, <2>1 DEF SocketsInv, Tried, Reached
  <2>4. RequestInv'
    BY <2>1 DEF RequestInv, Asking
  <2>5. stage' = "DOUBLE_SPEND" => verdict = "conflict" \/ unsure'
    <3>1. SUFFICES ASSUME stage' = "DOUBLE_SPEND", ~unsure', verdict # "conflict"
                   PROVE  FALSE
      OBVIOUS
    <3>2. r = "conflict" /\ holding = "mined"
      BY <1>3, <2>1, <3>1
    <3>3. strays' = strays /\ ~unsure /\ strays'
      BY <1>3, <1>5, <3>1, <3>2
    <3>4. Reached
      BY <1>2, <3>3 DEF SocketsInv, Tried, Reached
    <3> QED
      BY <1>2, <3>4 DEF SocketsInv
  <2>6. AnswersInv'
    BY <1>2, <1>3, <1>5, <2>1, <2>5 DEF AnswersInv, Sent
  <2> QED
    BY <2>2, <2>3, <2>4, <2>6
<1> QED
  BY <1>1, <1>6, <1>7

LEMMA BlockchairFailsKeepsInv ==
  ASSUME DispatchInv, BlockchairFails
  PROVE  DispatchInv'
<1> USE DEF DispatchInv
<1>1. PICK r \in Errors : Ends(r)
  BY DEF BlockchairFails
<1>2. /\ stage = "Blockchair" /\ stage' = "BROADCAST_FAILED" /\ request' = "none"
      /\ UNCHANGED <<peer, chatty, attempt, queue, healthy, holding, verdict>>
  BY DEF BlockchairFails, netVars
<1>3. /\ strays' \in BOOLEAN /\ unsure' \in BOOLEAN
      /\ (unsure => unsure') /\ (strays => strays') /\ (strays' => strays \/ unsure')
      /\ ~unsure' => (strays' = strays /\ (r = request \/ request = "in transit"))
  BY <1>1, EndsTells
<1>4. holding # "unseen" => strays' \/ unsure'
  BY <1>1, <1>2, <1>3 DEF AnswersInv, Sent, Errors
<1>5. DispatchTypeOK'
  BY <1>2, <1>3 DEF DispatchTypeOK, Thrown
<1>6. SocketsInv'
  BY <1>2, <1>3 DEF SocketsInv, Tried, Reached
<1>7. RequestInv' /\ AnswersInv'
  BY <1>2, <1>4 DEF RequestInv, AnswersInv, Asking, Sent
<1> QED
  BY <1>5, <1>6, <1>7

(* The network judges a request, mines, or prefers another transaction.     *)
LEMMA NetworkKeepsInv ==
  ASSUME DispatchInv, RequestArrives \/ StrayAccepted \/ Mined \/ Overtaken
  PROVE  DispatchInv'
<1> USE DEF DispatchInv
<1>1. UNCHANGED <<peer, chatty, stage, attempt, queue, healthy, strays, unsure>>
  BY DEF RequestArrives, StrayAccepted, Mined, Overtaken, apiVars
<1>2. SocketsInv'
  BY <1>1 DEF SocketsInv, Tried, Reached
<1>3. CASE RequestArrives
  <2>1. request = "in transit" /\ request' # "none" /\ UNCHANGED verdict
    BY <1>3 DEF RequestArrives, DispatchTypeOK, Objections
  <2>2. DispatchTypeOK'
    BY <1>1, <1>3 DEF RequestArrives, DispatchTypeOK, Objections
  <2>3. RequestInv'
    BY <1>1, <2>1 DEF RequestInv
  <2>5. /\ request' \in {"ok", "known"} => holding' # "unseen"
        /\ request' = "conflict" => verdict' = "conflict" \/ holding' = "mined"
    BY <1>3, <2>1 DEF RequestArrives, DispatchTypeOK, Objections
  <2>6. holding' # "unseen" => request' = "ok" \/ (holding # "unseen" /\ holding' = holding)
    BY <1>3 DEF RequestArrives
  <2>7. holding # "unseen" => holding' # "unseen"
    BY <1>3 DEF RequestArrives
  <2>4. AnswersInv'
    BY <1>1, <2>1, <2>5, <2>6, <2>7 DEF AnswersInv
  <2> QED
    BY <1>2, <2>2, <2>3, <2>4
<1>4. CASE StrayAccepted \/ Mined \/ Overtaken
  <2>1. request' = request
    BY <1>4 DEF StrayAccepted, Mined, Overtaken, apiVars
  <2>5. holding' \in {"unseen", "mempool", "mined"} /\ verdict' \in {"fine"} \cup Objections
    BY <1>4 DEF StrayAccepted, Mined, Overtaken, DispatchTypeOK, Objections
  <2>2. DispatchTypeOK'
    BY <1>1, <2>1, <2>5 DEF DispatchTypeOK
  <2>3. RequestInv'
    BY <1>1, <2>1 DEF RequestInv
  <2>4. AnswersInv'
    BY <1>1, <1>4, <2>1 DEF StrayAccepted, Mined, Overtaken, AnswersInv
  <2> QED
    BY <1>2, <2>2, <2>3, <2>4
<1> QED
  BY <1>3, <1>4

LEMMA DispatchStepKeepsInv == DispatchInv /\ [DispatchNext]_dispatchVars => DispatchInv'
<1> SUFFICES ASSUME DispatchInv, [DispatchNext]_dispatchVars
             PROVE  DispatchInv'
  OBVIOUS
<1>1. ASSUME NEW a \in Apis, HealthChanges(a) PROVE DispatchInv'
  <2>1. /\ UNCHANGED <<peer, chatty, stage, attempt, queue, request, holding, verdict,
                      strays, unsure>>
        /\ healthy' \subseteq Apis
    BY <1>1 DEF HealthChanges, netVars, DispatchInv, DispatchTypeOK
  <2>2. DispatchTypeOK'
    BY <2>1, ZenonT(60) DEF DispatchInv, DispatchTypeOK
  <2>3. SocketsInv'
    BY <2>1 DEF DispatchInv, SocketsInv, Tried, Reached
  <2>4. RequestInv' /\ AnswersInv'
    BY <2>1 DEF DispatchInv, RequestInv, AnswersInv
  <2> QED
    BY <2>2, <2>3, <2>4 DEF DispatchInv
<1>2. CASE UNCHANGED dispatchVars
  <2>1. DispatchTypeOK'
    BY <1>2, ZenonT(60) DEF dispatchVars, DispatchInv, DispatchTypeOK
  <2>2. SocketsInv'
    BY <1>2 DEF dispatchVars, DispatchInv, SocketsInv, Tried, Reached
  <2>3. RequestInv' /\ AnswersInv'
    BY <1>2 DEF dispatchVars, DispatchInv, RequestInv, AnswersInv
  <2> QED
    BY <2>1, <2>2, <2>3 DEF DispatchInv
<1> QED
  BY <1>1, <1>2, PeersKeepInv, PeersSettleKeepsInv, RetriesKeepsInv, SucceedsKeepsInv,
     ApiFailsKeepsInv, BlockchairFailsKeepsInv, NetworkKeepsInv DEF DispatchNext, ApiStep

LEMMA DispatchInvHolds == DispatchSpec => []DispatchInv
  BY DispatchInvInit, DispatchStepKeepsInv, PTL DEF DispatchSpec

(* What broadcastTransaction() tells executeSend() is true, for any number  *)
(* of peers and attempts: when it throws, the network does not have the     *)
(* transaction and nobody may still bring it there, unless an answer was    *)
(* lost; when an API reports success, the network has it.                   *)
THEOREM OutcomeIsToldHolds == DispatchSpec => []OutcomeIsTold
<1>1. DispatchInv => OutcomeIsTold
  <2> SUFFICES ASSUME DispatchInv PROVE OutcomeIsTold
    OBVIOUS
  <2> USE DEF DispatchInv
  <2>1. ASSUME stage \in Thrown, ~unsure PROVE holding = "unseen" /\ ~strays
    <3>1. ~strays
      BY <2>1 DEF SocketsInv, Tried, Reached, Thrown
    <3>2. request = "none" /\ stage \notin Sent
      BY <2>1 DEF RequestInv, Asking, Thrown, Sent
    <3> QED
      BY <2>1, <3>1, <3>2 DEF AnswersInv
  <2>2. stage = "sent by peers" => strays
    BY DEF SocketsInv, Tried, Reached
  <2> QED
    BY <2>1, <2>2 DEF AnswersInv, OutcomeIsTold
<1> QED
  BY <1>1, DispatchInvHolds, PTL

(* The types of Dispatch hold in every reachable state; in particular the   *)
(* APIs are never asked more than MaxAttempts times, and Head() of the      *)
(* queue is only taken while an API is being asked.                         *)
THEOREM DispatchTypeCorrect == DispatchSpec => []DispatchTypeOK
<1>1. DispatchInv => DispatchTypeOK
  BY DEF DispatchInv
<1> QED
  BY <1>1, DispatchInvHolds, PTL

(***************************************************************************)
(* ReceiveMonitor                                                          *)
(***************************************************************************)
(* Without a start() that came too early, whatever loop there is waits for  *)
(* a timer or for one poll, never both.                                     *)
LoopTypes ==
    /\ polls \in [Cycles -> {"idle", "asking", "saving"}]
    /\ pollTimer \in {"none", "armed", "fired"} /\ others \in Nat
    /\ doubled \in BOOLEAN /\ escaped \in BOOLEAN

AtMostOne ==
    ~doubled => /\ others = 0
                /\ UnderWay # {} => pollTimer # "armed" /\ \E p \in Cycles : UnderWay = {p}

NoneWhenStopped ==
    running = "stopped" => escaped \/ (UnderWay = {} /\ others = 0 /\ pollTimer # "armed")

LoopInv == LoopTypes /\ AtMostOne /\ NoneWhenStopped

LEMMA PollBeginsAddsOne ==
  ASSUME LoopTypes, PollBegins
  PROVE  /\ polls' \in [Cycles -> {"idle", "asking", "saving"}]
         /\ \E p \in Cycles : UnderWay' = UnderWay \cup {p}
<1>1. PICK p \in Cycles : polls[p] = "idle" /\ polls' = [polls EXCEPT ![p] = "asking"]
  BY DEF PollBegins
<1>2. UnderWay' = UnderWay \cup {p}
  BY <1>1 DEF UnderWay, LoopTypes
<1> QED
  BY <1>1, <1>2 DEF LoopTypes

LEMMA StartsKeepsOneLoop ==
  ASSUME LoopInv, Starts, running # "stopped", running' # "stopped", UNCHANGED escaped
  PROVE  LoopInv'
<1>1. UNCHANGED <<pollTimer, others>>
  BY DEF Starts
<1>2. CASE pollTimer # "none" /\ UNCHANGED <<polls, doubled>>
  BY <1>1, <1>2 DEF LoopInv, LoopTypes, AtMostOne, NoneWhenStopped, UnderWay
<1>3. CASE pollTimer = "none" /\ PollBegins /\ doubled' = (doubled \/ UnderWay # {})
  <2>1. PICK p \in Cycles : UnderWay' = UnderWay \cup {p}
    BY <1>3, PollBeginsAddsOne DEF LoopInv
  <2>2. LoopTypes'
    BY <1>1, <1>3, PollBeginsAddsOne DEF LoopInv, LoopTypes
  <2>3. AtMostOne'
    BY <1>1, <1>3, <2>1 DEF LoopInv, AtMostOne, LoopTypes
  <2> QED
    BY <2>2, <2>3 DEF LoopInv, NoneWhenStopped
<1> QED
  BY <1>2, <1>3 DEF Starts

(* A poll that ends sets the timer, which is not armed unless loops met.    *)
LEMMA ScheduleKeepsOneLoop ==
  ASSUME LoopInv, NEW p \in Cycles, polls[p] # "idle", polls' = [polls EXCEPT ![p] = "idle"],
         ScheduleNext, UNCHANGED <<running, doubled, escaped>>
  PROVE  LoopInv'
<1>1. p \in UnderWay /\ UnderWay' = UnderWay \ {p}
  BY DEF UnderWay, LoopInv, LoopTypes
<1>2. LoopTypes'
  BY DEF LoopInv, LoopTypes, ScheduleNext
<1>3. ~doubled => UnderWay = {p} /\ pollTimer # "armed" /\ others = 0
  BY <1>1 DEF LoopInv, AtMostOne
<1>4. ~doubled => UnderWay' = {} /\ others' = 0
  BY <1>1, <1>3 DEF ScheduleNext
<1>5. AtMostOne'
  BY <1>4 DEF AtMostOne
<1>6. NoneWhenStopped'
  BY <1>1 DEF LoopInv, NoneWhenStopped
<1> QED
  BY <1>2, <1>5, <1>6 DEF LoopInv

LEMMA LoopStep == LoopInv /\ [MonitorNext]_monitorVars => LoopInv'
<1> SUFFICES ASSUME LoopInv, [MonitorNext]_monitorVars PROVE LoopInv'
  OBVIOUS
<1> DEFINE Untouched == UNCHANGED <<pollTimer, others, polls, doubled, escaped>>
<1>1. ASSUME Untouched, running' = running \/ running' # "stopped" PROVE LoopInv'
  BY <1>1 DEF LoopInv, LoopTypes, AtMostOne, NoneWhenStopped, UnderWay
<1> HIDE DEF Untouched
<1>2. CASE ServiceLoads \/ Arrives \/ UNCHANGED monitorVars
  <2>1. Untouched /\ (running' = running \/ running' # "stopped")
    BY <1>2 DEF ServiceLoads, Arrives, monitorVars, Untouched
  <2> QED
    BY <1>1, <2>1
<1>3. CASE ServiceStarts
  <2>1. running = "loaded" /\ running' = "started" /\ UNCHANGED escaped
    BY <1>3 DEF ServiceStarts
  <2>2. CASE Starts
    BY <2>1, <2>2, StartsKeepsOneLoop
  <2>3. CASE UNCHANGED <<address, pollTimer, others, polls, doubled>>
    BY <1>1, <2>1, <2>3 DEF Untouched
  <2> QED
    BY <1>3, <2>2, <2>3 DEF ServiceStarts
<1>4. CASE CommandStarts
  <2>1. Starts /\ running # "stopped" /\ running' = running /\ UNCHANGED escaped
    BY <1>4 DEF CommandStarts
  <2> QED
    BY <2>1, StartsKeepsOneLoop
<1>5. CASE Stops
  <2>1. /\ running' = "stopped" /\ pollTimer' = "none" /\ UNCHANGED <<others, polls, doubled>>
        /\ escaped' = (UnderWay # {} \/ others > 0)
    BY <1>5 DEF Stops
  <2>2. UnderWay' = UnderWay
    BY <2>1 DEF UnderWay
  <2>3. LoopTypes'
    BY <2>1 DEF LoopInv, LoopTypes
  <2>4. AtMostOne'
    BY <2>1, <2>2 DEF LoopInv, AtMostOne
  <2>5. NoneWhenStopped'
    <3>1. others \in Nat
      BY DEF LoopInv, LoopTypes
    <3>2. others > 0 \/ others = 0
      BY <3>1
    <3> QED
      BY <2>1, <2>2, <3>2 DEF NoneWhenStopped
  <2> QED
    BY <2>3, <2>4, <2>5 DEF LoopInv
<1>6. CASE TimerFires
  <2>1. PollBegins /\ UNCHANGED <<running, doubled, escaped>>
    BY <1>6 DEF TimerFires
  <2>2. PICK p \in Cycles : UnderWay' = UnderWay \cup {p}
    BY <2>1, PollBeginsAddsOne DEF LoopInv
  <2>3. \/ pollTimer = "armed" /\ pollTimer' = "fired" /\ UNCHANGED others
        \/ others > 0 /\ others' = others - 1 /\ UNCHANGED pollTimer
    BY <1>6 DEF TimerFires
  <2>4. others \in Nat
    BY DEF LoopInv, LoopTypes
  <2>5. others' \in Nat /\ pollTimer' \in {"none", "armed", "fired"}
    BY <2>3, <2>4 DEF LoopInv, LoopTypes
  <2>6. LoopTypes'
    BY <2>1, <2>5, PollBeginsAddsOne DEF LoopInv, LoopTypes
  <2>7. ~doubled => UnderWay = {} /\ pollTimer' = "fired" /\ others' = 0
    <3>1. ~doubled => others = 0
      BY DEF LoopInv, AtMostOne
    <3>2. ~doubled => pollTimer = "armed" /\ pollTimer' = "fired" /\ others' = 0
      BY <2>3, <3>1
    <3> QED
      BY <3>2 DEF LoopInv, AtMostOne
  <2>8. AtMostOne'
    BY <2>1, <2>2, <2>7 DEF AtMostOne
  <2>9. NoneWhenStopped'
    <3>1. SUFFICES ASSUME running = "stopped", ~escaped PROVE FALSE
      BY <2>1 DEF NoneWhenStopped
    <3>2. others = 0 /\ pollTimer # "armed"
      BY <3>1 DEF LoopInv, NoneWhenStopped
    <3> QED
      BY <2>3, <3>2
  <2> QED
    BY <2>6, <2>8, <2>9 DEF LoopInv
<1>7. ASSUME NEW p \in Cycles, PollFails(p) \/ SaveEnds(p) PROVE LoopInv'
  <2>1. /\ polls[p] # "idle" /\ polls' = [polls EXCEPT ![p] = "idle"] /\ ScheduleNext
        /\ UNCHANGED <<running, doubled, escaped>>
    BY <1>7 DEF PollFails, SaveEnds
  <2> QED
    BY <2>1, ScheduleKeepsOneLoop
<1>8. ASSUME NEW p \in Cycles, NEW n \in 0 .. MaxArrivals, NEW new \in SUBSET Unseen(n),
             PollAnswered(p, n, new)
      PROVE  LoopInv'
  <2>1. /\ polls[p] = "asking" /\ polls' = [polls EXCEPT ![p] = "saving"]
        /\ UNCHANGED <<running, pollTimer, others, doubled, escaped>>
    BY <1>8 DEF PollAnswered
  <2>2. UnderWay' = UnderWay
    BY <2>1 DEF UnderWay, LoopInv, LoopTypes
  <2> QED
    BY <2>1, <2>2 DEF LoopInv, LoopTypes, AtMostOne, NoneWhenStopped
<1>9. CASE Reloads
  <2>1. /\ running' = "loading" /\ pollTimer' = "none" /\ others' = 0
        /\ polls' = [p \in Cycles |-> "idle"] /\ UNCHANGED <<doubled, escaped>>
    BY <1>9 DEF Reloads
  <2>2. UnderWay' = {}
    BY <2>1 DEF UnderWay
  <2> QED
    BY <2>1, <2>2 DEF LoopInv, LoopTypes, AtMostOne, NoneWhenStopped
<1> QED
  BY <1>2, <1>3, <1>4, <1>5, <1>6, <1>7, <1>8, <1>9 DEF MonitorNext, PollEnds

LEMMA LoopInvHolds == MonitorSpec => []LoopInv
<1>1. MonitorInit => LoopInv
  <2> SUFFICES ASSUME MonitorInit PROVE LoopInv
    OBVIOUS
  <2>1. UnderWay = {}
    BY DEF MonitorInit, UnderWay
  <2> QED
    BY <2>1 DEF MonitorInit, LoopInv, LoopTypes, AtMostOne, NoneWhenStopped
<1> QED
  BY <1>1, LoopStep, PTL DEF MonitorSpec

(* The monitor runs one loop of polls, whatever commands start it and       *)
(* however polls, saves and restarts meet, unless start() was called again  *)
(* before the first poll had set the timer; and it is silent once the       *)
(* service has stopped, unless a poll was under way then.                   *)
THEOREM OneLoopHolds == MonitorSpec => []OneLoop
<1>1. LoopInv => OneLoop
  <2> SUFFICES ASSUME LoopInv PROVE OneLoop
    OBVIOUS
  <2>1. CASE UnderWay = {}
    <3>1. Cardinality(UnderWay) = 0
      BY <2>1, FS_EmptySet
    <3>2. others \in Nat /\ (~doubled => others = 0)
      BY DEF LoopInv, LoopTypes, AtMostOne
    <3>3. others = 0 => Loops = IF pollTimer = "armed" THEN 1 ELSE 0
      BY <3>1 DEF Loops
    <3> QED
      BY <3>2, <3>3 DEF LoopInv, NoneWhenStopped, OneLoop
  <2>2. CASE UnderWay # {}
    <3>1. running = "stopped" => escaped
      BY <2>2 DEF LoopInv, NoneWhenStopped
    <3>2. ASSUME ~doubled PROVE Loops <= 1
      <4>1. PICK p \in Cycles : UnderWay = {p} /\ pollTimer # "armed" /\ others = 0
        BY <2>2, <3>2 DEF LoopInv, AtMostOne
      <4>2. Cardinality(UnderWay) = 1
        BY <4>1, FS_Singleton
      <4> QED
        BY <4>1, <4>2 DEF Loops
    <3> QED
      BY <3>1, <3>2 DEF OneLoop
  <2> QED
    BY <2>1, <2>2
<1> QED
  BY <1>1, LoopInvHolds, PTL

-----------------------------------------------------------------------------
(* Announcing a deposit once: the txids that are still remembered.          *)

(* Txids are listed newest first: the i-th is the one that i - 1 others     *)
(* are newer than.                                                         *)
Newer(S, t) == {u \in S : u > t}

(* Fewer txids are newer than t than there are.                             *)
LEMMA NewerCounts ==
  ASSUME NEW S \in SUBSET Nat, IsFiniteSet(S), NEW t \in S
  PROVE  Cardinality(Newer(S, t)) \in 0 .. Cardinality(S) - 1
<1>1. Newer(S, t) \subseteq S /\ Newer(S, t) # S /\ t \notin Newer(S, t)
  BY DEF Newer
<1>2. /\ Cardinality(Newer(S, t)) <= Cardinality(S)
      /\ Cardinality(Newer(S, t)) = Cardinality(S) => Newer(S, t) = S
      /\ IsFiniteSet(Newer(S, t))
  BY <1>1, FS_Subset
<1>3. Cardinality(Newer(S, t)) \in Nat /\ Cardinality(S) \in Nat
  BY <1>2, FS_CardinalityType
<1> QED
  BY <1>1, <1>2, <1>3

(* No two txids have as many newer ones ...                                 *)
LEMMA NewerDiffer ==
  ASSUME NEW S \in SUBSET Nat, IsFiniteSet(S), NEW t \in S, NEW u \in S,
         Cardinality(Newer(S, t)) = Cardinality(Newer(S, u))
  PROVE  t = u
<1>1. ASSUME NEW v \in S, NEW w \in S, v < w
      PROVE  Cardinality(Newer(S, v)) # Cardinality(Newer(S, w))
  <2>1. Newer(S, w) \subseteq Newer(S, v)
    <3>1. \A x \in S : x > w => x > v
      BY <1>1
    <3> QED
      BY <3>1 DEF Newer
  <2>3. w > v /\ ~(w > w)
    BY <1>1
  <2>4. w \in Newer(S, v) /\ w \notin Newer(S, w)
    BY <2>3 DEF Newer
  <2>2. IsFiniteSet(Newer(S, v))
    BY FS_Subset DEF Newer
  <2> QED
    BY <2>1, <2>4, <2>2, FS_Subset
<1>2. t \in Nat /\ u \in Nat /\ (t < u \/ u < t \/ t = u)
  OBVIOUS
<1> QED
  BY <1>1, <1>2

(* ... so that for each place in the list there is a txid.                  *)
LEMMA NewerReaches ==
  ASSUME NEW S \in SUBSET Nat, IsFiniteSet(S), NEW k \in 0 .. Cardinality(S) - 1
  PROVE  \E t \in S : Cardinality(Newer(S, t)) = k
<1> DEFINE n == Cardinality(S)
           rank == [t \in S |-> Cardinality(Newer(S, t))]
           Ranks == {rank[t] : t \in S}
<1>1. n \in Nat
  BY FS_CardinalityType
<1>2. Ranks \subseteq 0 .. n - 1
  BY NewerCounts
<1>3. rank \in Injection(S, Ranks)
  BY NewerDiffer DEF Injection, IsInjective
<1>4. IsFiniteSet(0 .. n - 1) /\ Cardinality(0 .. n - 1) = n
  BY <1>1, FS_Interval
<1>5. rank \in Bijection(S, Ranks)
  BY <1>3 DEF Bijection, Injection, Surjection
<1>6. Cardinality(Ranks) = n /\ IsFiniteSet(Ranks)
  BY <1>5, FS_Bijection DEF ExistsBijection
<1>7. Ranks = 0 .. n - 1
  BY <1>2, <1>4, <1>6, FS_Subset
<1> QED
  BY <1>7

(* InOrder lists each txid of a set once.                                   *)
LEMMA InOrderLists ==
  ASSUME NEW S \in SUBSET Arrivals, MonitorAssumption
  PROVE  /\ InOrder(S) \in Seq(S) /\ IsFiniteSet(S) /\ Len(InOrder(S)) = Cardinality(S)
         /\ \A i, j \in 1 .. Len(InOrder(S)) : InOrder(S)[i] = InOrder(S)[j] => i = j
         /\ \A t \in S : \E i \in 1 .. Len(InOrder(S)) : InOrder(S)[i] = t
<1> DEFINE n == Cardinality(S)
           At(i) == CHOOSE t \in S : Cardinality(Newer(S, t)) = i - 1
<1>1. S \in SUBSET Nat /\ IsFiniteSet(S)
  <2>1. MaxArrivals \in Nat
    BY MonitorAssumption
  <2>2. S \in SUBSET Nat /\ S \subseteq 1 .. MaxArrivals
    BY <2>1 DEF Arrivals
  <2>3. IsFiniteSet(1 .. MaxArrivals)
    BY <2>1, FS_Interval
  <2> QED
    BY <2>2, <2>3, FS_Subset
<1>2. n \in Nat
  BY <1>1, FS_CardinalityType
<1>3. \A i \in 1 .. n : At(i) \in S /\ Cardinality(Newer(S, At(i))) = i - 1
  <2> TAKE i \in 1 .. n
  <2>1. i - 1 \in 0 .. n - 1
    BY <1>2
  <2> QED
    BY <1>1, <2>1, NewerReaches
<1>4. InOrder(S) = [i \in 1 .. n |-> At(i)]
  BY DEF InOrder, Newer
<1> HIDE DEF At
<1>5. InOrder(S) \in Seq(S)
  BY <1>2, <1>3, <1>4, IsASeq
<1>6. Len(InOrder(S)) = n
  BY <1>2, <1>4, <1>5, LenProperties
<1>7. \A i, j \in 1 .. n : At(i) = At(j) => i = j
  BY <1>3, <1>2
<1>8. ASSUME NEW t \in S PROVE \E i \in 1 .. n : At(i) = t
  <2>1. Cardinality(Newer(S, t)) \in 0 .. n - 1
    BY <1>1, NewerCounts
  <2>2. PICK i \in 1 .. n : Cardinality(Newer(S, t)) = i - 1
    <3>1. Cardinality(Newer(S, t)) + 1 \in 1 .. n
      BY <1>2, <2>1
    <3>2. Cardinality(Newer(S, t)) = (Cardinality(Newer(S, t)) + 1) - 1
      BY <2>1
    <3> QED
      BY <3>1, <3>2
  <2>3. At(i) \in S /\ Cardinality(Newer(S, At(i))) = Cardinality(Newer(S, t))
    BY <1>3, <2>2
  <2>4. At(i) = t
    BY <1>1, <2>3, NewerDiffer
  <2> QED
    BY <2>4
<1>9. \A i \in 1 .. n : InOrder(S)[i] = At(i)
  BY <1>4
<1> QED
  BY <1>1, <1>5, <1>6, <1>7, <1>8, <1>9

-----------------------------------------------------------------------------
(* How far back, counted in transactions, an answer may still reach.        *)
Reach == Window + Behind

(* The constants' types, and how many txids the list must have room for.    *)
LEMMA MonitorConstants ==
  /\ Reach \in Nat /\ Reach >= 1 /\ Window \in Nat /\ Window >= 1 /\ Window <= Reach /\ Behind \in Nat
  /\ MaxSeen \in Nat /\ MaxSeen >= 2 * Reach - 1 /\ MaxSeen >= 1
  /\ MaxArrivals \in Nat /\ MaxArrivals >= 1 /\ MaxReloads \in Nat
<1>1. /\ Window \in Nat /\ Window >= 1 /\ Behind \in Nat /\ MaxSeen \in Nat
      /\ MaxSeen >= 2 * (Window + Behind) - 1
      /\ MaxArrivals \in Nat /\ MaxArrivals >= 1 /\ MaxReloads \in Nat
  BY MonitorAssumption
<1> QED
  BY <1>1 DEF Reach

(* Txids in the order in which they were seen: each once, none from the     *)
(* future, and none much older than one seen before it.                     *)
Sorted(s) ==
    /\ s \in Seq(Arrivals)
    /\ \A i \in 1 .. Len(s) : s[i] <= arrived
    /\ \A i, j \in 1 .. Len(s) : s[i] = s[j] => i = j
    /\ \A i, j \in 1 .. Len(s) : i < j => s[i] < s[j] + Reach

(* What a list of txids holds.                                              *)
LEMMA RangeIs ==
  ASSUME NEW s \in Seq(Arrivals)
  PROVE  /\ Len(s) \in Nat
         /\ \A t : t \in Range(s) <=> \E i \in 1 .. Len(s) : s[i] = t
         /\ \A i \in 1 .. Len(s) : s[i] \in Arrivals
<1>1. Len(s) \in Nat /\ DOMAIN s = 1 .. Len(s)
  BY LenProperties
<1> QED
  BY <1>1 DEF Range

(* The txids of an answer that are appended keep the list in this order.    *)
LEMMA AppendSorted ==
  ASSUME arrived \in Nat, NEW s, Sorted(s), NEW new \in SUBSET Arrivals,
         \A t \in new : t <= arrived /\ arrived < t + Reach /\ t \notin Range(s),
         \A t, u \in new : t < u + Reach
  PROVE  /\ Sorted(s \o InOrder(new))
         /\ Range(s \o InOrder(new)) = Range(s) \cup new
<1> DEFINE listed == InOrder(new)
           long == s \o listed
           n == Len(s)
           m == Len(listed)
<1>1. /\ listed \in Seq(new) /\ listed \in Seq(Arrivals)
      /\ \A i, j \in 1 .. m : listed[i] = listed[j] => i = j
      /\ \A t \in new : \E i \in 1 .. m : listed[i] = t
      /\ \A i \in 1 .. m : listed[i] \in new
  <2>1. listed \in Seq(new)
    BY MonitorAssumption, InOrderLists
  <2>2. listed \in Seq(Arrivals)
    BY <2>1, SeqMonotonic
  <2>3. \A i \in 1 .. m : listed[i] \in new
    BY <2>1, ElementOfSeq
  <2> QED
    BY <2>1, <2>2, <2>3, MonitorAssumption, InOrderLists
<1>2. /\ n \in Nat /\ m \in Nat /\ \A i \in 1 .. n : s[i] \in Arrivals
      /\ s \in Seq(Arrivals)
  BY <1>1, RangeIs DEF Sorted
<1> HIDE DEF listed
<1>3. /\ long \in Seq(Arrivals) /\ Len(long) = n + m
      /\ \A i \in 1 .. n + m : long[i] = IF i <= n THEN s[i] ELSE listed[i - n]
  BY <1>1, <1>2, ConcatProperties
<1> HIDE DEF long, n, m
<1>4. \A i \in 1 .. n + m : (i \in 1 .. n /\ long[i] = s[i])
                            \/ (i > n /\ i - n \in 1 .. m /\ long[i] = listed[i - n])
  BY <1>2, <1>3
<1>5. \A i \in 1 .. n : s[i] \in Arrivals /\ s[i] <= arrived /\ s[i] \in Range(s)
  BY <1>2, RangeIs DEF Sorted, n
<1>6. \A t \in Arrivals : t \in Nat
  BY MonitorConstants DEF Arrivals
<1>7. \A i \in 1 .. n + m : long[i] <= arrived
  BY <1>1, <1>4, <1>5
<1>8. \A i, j \in 1 .. n + m : long[i] = long[j] => i = j
  <2> TAKE i, j \in 1 .. n + m
  <2>1. CASE i <= n /\ j <= n
    BY <1>2, <1>4, <2>1 DEF Sorted, n
  <2>2. CASE i > n /\ j > n
    <3>1. i - n \in 1 .. m /\ j - n \in 1 .. m /\ long[i] = listed[i - n] /\ long[j] = listed[j - n]
      BY <1>2, <1>4, <2>2
    <3>2. long[i] = long[j] => i - n = j - n
      BY <1>1, <3>1
    <3> QED
      BY <1>2, <3>2
  <2>3. CASE (i <= n /\ j > n) \/ (i > n /\ j <= n)
    BY <1>1, <1>2, <1>4, <1>5, <2>3
  <2> QED
    BY <1>2, <2>1, <2>2, <2>3
<1>9. \A i, j \in 1 .. n + m : i < j => long[i] < long[j] + Reach
  <2> TAKE i, j \in 1 .. n + m
  <2> HAVE i < j
  <2>1. CASE j <= n
    BY <1>2, <1>4, <2>1 DEF Sorted, n
  <2>2. CASE i > n
    <3>1. j > n
      BY <1>2, <2>2
    <3>2. long[i] \in new
      BY <1>1, <1>4, <1>2, <2>2
    <3>3. long[j] \in new
      BY <1>1, <1>4, <1>2, <3>1
    <3> QED
      BY <3>2, <3>3
  <2>3. CASE i <= n /\ j > n
    <3>1. long[i] <= arrived /\ long[i] \in Nat
      BY <1>2, <1>4, <1>5, <1>6, <2>3
    <3>2. long[j] \in new /\ long[j] \in Nat
      <4>1. j - n \in 1 .. m /\ long[j] = listed[j - n]
        BY <1>2, <1>4, <2>3
      <4>2. long[j] \in new
        BY <1>1, <4>1
      <4> QED
        BY <1>6, <4>2
    <3>3. arrived < long[j] + Reach
      BY <3>2
    <3> QED
      BY <3>1, <3>2, <3>3, MonitorConstants
  <2> QED
    BY <1>2, <2>1, <2>2, <2>3
<1>10. Sorted(long)
  BY <1>3, <1>7, <1>8, <1>9 DEF Sorted
<1>11. Range(long) = Range(s) \cup new
  <2>1. \A t : t \in Range(long) <=> \E i \in 1 .. n + m : long[i] = t
    BY <1>3, RangeIs
  <2>2. \A t : t \in Range(s) <=> \E i \in 1 .. n : s[i] = t
    BY <1>2, RangeIs DEF n
  <2>3. ASSUME NEW t \in Range(long) PROVE t \in Range(s) \cup new
    BY <1>1, <1>4, <1>5, <2>1, <2>3
  <2>4. ASSUME NEW t \in Range(s) PROVE t \in Range(long)
    <3>1. PICK i \in 1 .. n : s[i] = t
      BY <2>2
    <3>2. i \in 1 .. n + m /\ i <= n
      BY <1>2
    <3> QED
      BY <1>3, <2>1, <3>1, <3>2
  <2>5. ASSUME NEW t \in new PROVE t \in Range(long)
    <3>1. PICK i \in 1 .. m : listed[i] = t
      BY <1>1
    <3>2. i + n \in 1 .. n + m /\ ~(i + n <= n) /\ (i + n) - n = i
      BY <1>2
    <3>3. long[i + n] = t
      BY <1>3, <3>1, <3>2
    <3> QED
      BY <2>1, <3>2, <3>3
  <2> QED
    BY <2>3, <2>4, <2>5
<1> QED
  BY <1>10, <1>11 DEF long, listed

(* A txid that is dropped is followed by MaxSeen others that are not much   *)
(* older, so many transactions have come since that no answer reaches it.   *)
LEMMA TrimmedSorted ==
  ASSUME arrived \in Nat, NEW s, Sorted(s)
  PROVE  /\ Sorted(Trimmed(s)) /\ Len(Trimmed(s)) <= MaxSeen
         /\ Range(Trimmed(s)) \subseteq Range(s)
         /\ \A t \in Range(s) : arrived < t + Reach => t \in Range(Trimmed(s))
<1> DEFINE n == Len(s)
           k == n - MaxSeen
           short == SubSeq(s, k + 1, n)
<1>1. /\ s \in Seq(Arrivals) /\ n \in Nat /\ MaxSeen \in Nat /\ Reach \in Nat /\ MaxSeen >= 1
      /\ \A i \in 1 .. n : s[i] \in Arrivals
      /\ \A t : t \in Range(s) <=> \E i \in 1 .. n : s[i] = t
  BY RangeIs, MonitorConstants DEF Sorted
<1>2. CASE ~(n > MaxSeen)
  <2>1. Trimmed(s) = s
    BY <1>2 DEF Trimmed
  <2> QED
    BY <1>1, <1>2, <2>1
<1>3. CASE n > MaxSeen
  <2>1. Trimmed(s) = short
    BY <1>3 DEF Trimmed
  <2>2. k \in Nat /\ k >= 1 /\ k + 1 <= n /\ n - (k + 1) + 1 = MaxSeen
    BY <1>1, <1>3
  <2> HIDE DEF k
  <2>3. /\ short \in Seq(Arrivals) /\ Len(short) = MaxSeen
        /\ \A i \in 1 .. MaxSeen : short[i] = s[k + i]
    <3>1. \A i \in k + 1 .. n : s[i] \in Arrivals
      BY <1>1, <2>2
    <3>2. /\ short \in Seq(Arrivals) /\ Len(short) = n - (k + 1) + 1
          /\ \A i \in 1 .. n - (k + 1) + 1 : short[i] = s[(k + 1) + i - 1]
      BY <1>1, <2>2, <3>1, SubSeqProperties
    <3>3. \A i \in 1 .. MaxSeen : (k + 1) + i - 1 = k + i
      BY <1>1, <2>2
    <3> QED
      BY <2>2, <3>2, <3>3
  <2> HIDE DEF short, n
  <2>4. \A i \in 1 .. MaxSeen : k + i \in 1 .. n
    BY <1>1, <2>2
  <2>5. Sorted(short)
    <3>1. \A i \in 1 .. MaxSeen : short[i] <= arrived
      BY <2>3, <2>4 DEF Sorted, n
    <3>2. \A i, j \in 1 .. MaxSeen : short[i] = short[j] => i = j
      <4> TAKE i, j \in 1 .. MaxSeen
      <4>1. s[k + i] = s[k + j] => k + i = k + j
        BY <2>4 DEF Sorted, n
      <4> QED
        BY <2>2, <2>3, <4>1
    <3>3. \A i, j \in 1 .. MaxSeen : i < j => short[i] < short[j] + Reach
      <4> TAKE i, j \in 1 .. MaxSeen
      <4>1. k + i < k + j => s[k + i] < s[k + j] + Reach
        BY <2>4 DEF Sorted, n
      <4> QED
        BY <2>2, <2>3, <4>1
    <3> QED
      BY <2>3, <3>1, <3>2, <3>3 DEF Sorted
  <2>6. \A t : t \in Range(short) <=> \E i \in 1 .. MaxSeen : short[i] = t
    BY <2>3, RangeIs
  <2>7. Range(short) \subseteq Range(s)
    BY <1>1, <2>3, <2>4, <2>6
  <2>8. ASSUME NEW t \in Range(s), arrived < t + Reach PROVE t \in Range(short)
    <3>1. PICK i \in 1 .. n : s[i] = t
      BY <1>1
    <3>2. CASE i > k
      <4>1. i - k \in 1 .. MaxSeen /\ k + (i - k) = i
        BY <1>1, <2>2, <3>2
      <4> QED
        BY <2>3, <2>6, <3>1, <4>1
    <3>3. CASE i <= k
      <4> DEFINE Later == {s[j] : j \in i + 1 .. n}
                 Near == (t - Reach + 1) .. arrived
      <4>1. t \in Nat /\ t <= arrived /\ t \in Arrivals
        BY <1>1, <3>1, MonitorConstants DEF Sorted, Arrivals, n
      <4>2. ASSUME NEW j \in i + 1 .. n
            PROVE  j \in 1 .. n /\ s[j] \in Near /\ s[j] # t
        <5>1. j \in 1 .. n /\ i < j
          BY <1>1
        <5>2. s[j] \in Nat /\ s[j] <= arrived /\ t < s[j] + Reach /\ s[j] # t
          BY <1>1, <3>1, <5>1, MonitorConstants DEF Sorted, Arrivals, n
        <5> QED
          BY <1>1, <4>1, <5>1, <5>2
      <4>3. Later \subseteq Near \ {t}
        BY <4>2
      <4>4. IsFiniteSet(Later) /\ Cardinality(Later) = n - i
        <5> DEFINE f == [j \in i + 1 .. n |-> s[j]]
        <5>1. f \in Bijection(i + 1 .. n, Later)
          <6>1. \A j, l \in i + 1 .. n : s[j] = s[l] => j = l
            BY <4>2 DEF Sorted, n
          <6> QED
            BY <6>1 DEF Bijection, Injection, IsInjective, Surjection
        <5>2. IsFiniteSet(i + 1 .. n) /\ Cardinality(i + 1 .. n) = n - i
          <6>1. i + 1 \in Int /\ n \in Int /\ ~(i + 1 > n) /\ n - (i + 1) + 1 = n - i
            BY <1>1, <2>2, <3>3
          <6> QED
            BY <6>1, FS_Interval
        <5> QED
          BY <5>1, <5>2, FS_Bijection DEF ExistsBijection
      <4>5. /\ IsFiniteSet(Near \ {t}) /\ Cardinality(Near \ {t}) = arrived - t + Reach - 1
        <5>1. t - Reach + 1 \in Int /\ arrived \in Int /\ ~(t - Reach + 1 > arrived) /\ t \in Near
              /\ arrived - (t - Reach + 1) + 1 = arrived - t + Reach
          BY <1>1, <4>1, MonitorConstants
        <5>2. IsFiniteSet(Near) /\ Cardinality(Near) = arrived - t + Reach
          BY <5>1, FS_Interval
        <5> HIDE DEF Near
        <5>3. IsFiniteSet(Near \ {t}) /\ Cardinality(Near \ {t}) = Cardinality(Near) - 1
          BY <5>1, <5>2, FS_RemoveElement
        <5>4. Cardinality(Near) - 1 = arrived - t + Reach - 1
          BY <1>1, <4>1, <5>2
        <5> QED
          BY <5>3, <5>4
      <4>6. n - i <= arrived - t + Reach - 1
        BY <4>3, <4>4, <4>5, FS_Subset
      <4>7. n - i >= MaxSeen
        BY <1>1, <2>2, <3>3
      <4> QED
        BY <1>1, <2>8, <4>1, <4>6, <4>7, MonitorConstants
    <3> QED
      BY <1>1, <2>2, <3>2, <3>3
  <2> QED
    BY <1>1, <2>1, <2>3, <2>5, <2>7, <2>8
<1> QED
  BY <1>2, <1>3

-----------------------------------------------------------------------------
(* The txids that a poll may still meet and that were announced.            *)
Knows(s) == \A t \in announced : arrived < t + Reach => t \in Range(s)

Saving == {p \in Cycles : polls[p] = "saving"}

(* ... and no more of them than seenTxids may hold.                         *)
KeptInOrder(s) == Sorted(s) /\ Len(s) <= MaxSeen

(* The inductive invariant: the lists are in order, and unless something    *)
(* was forgotten the txids that matter are where the next poll looks.       *)
RememberTypes ==
    /\ arrived \in 0 .. MaxArrivals /\ announced \subseteq 1 .. arrived
    /\ running \in {"loading", "loaded", "started", "stopped"}
    /\ {address, forgetful, repeated, doubled, escaped} \subseteq BOOLEAN
    /\ pollTimer \in {"none", "armed", "fired"} /\ others \in Nat
    /\ polls \in [Cycles -> {"idle", "asking", "saving"}]
    /\ DOMAIN written = Cycles
    /\ reloads \in 0 .. MaxReloads
    /\ KeptInOrder(seen) /\ KeptInOrder(stateFile)
    /\ \A p \in Cycles : KeptInOrder(written[p])

Remembered ==
    /\ running = "loading" => /\ UnderWay = {} /\ pollTimer = "none" /\ others = 0
                              /\ seen = NoTxids
    /\ running # "loading" => Knows(seen)
    /\ Saving = {} => Knows(stateFile)
    /\ \A p \in Saving : Saving = {p} => Knows(written[p])

RememberInv == RememberTypes /\ ~repeated /\ (~forgetful => Remembered)

(* The empty list holds no txid out of order.                               *)
LEMMA EmptyInOrder ==
  KeptInOrder(NoTxids)
<1>1. NoTxids \in Seq(Arrivals) /\ Len(NoTxids) = 0 /\ 1 .. 0 = {}
  BY EmptySeq DEF NoTxids
<1> QED
  BY <1>1, MonitorConstants DEF KeptInOrder, Sorted

(* Nothing has been announced when the process first starts.                *)
LEMMA RememberInit ==
  MonitorInit => RememberInv
<1> SUFFICES ASSUME MonitorInit PROVE RememberInv
  OBVIOUS
<1> USE DEF MonitorInit
<1>1. KeptInOrder(NoTxids)
  BY EmptyInOrder
<1>2. /\ KeptInOrder(seen) /\ KeptInOrder(stateFile)
      /\ \A p \in Cycles : KeptInOrder(written[p])
  BY <1>1
<1>3. /\ arrived \in 0 .. MaxArrivals /\ announced \subseteq 1 .. arrived
      /\ reloads \in 0 .. MaxReloads /\ others \in Nat
  BY MonitorConstants
<1>4. /\ polls \in [Cycles -> {"idle", "asking", "saving"}] /\ DOMAIN written = Cycles
  OBVIOUS
<1>5. RememberTypes
  BY <1>2, <1>3, <1>4 DEF RememberTypes
<1>6. Remembered
  BY DEF Remembered, UnderWay, Knows, Saving
<1> QED
  BY <1>5, <1>6 DEF RememberInv

(* What the steps that neither announce nor write leave alone.              *)
LEMMA QuietStep ==
  ASSUME RememberInv,
         UNCHANGED <<arrived, announced, seen, written, stateFile, repeated>>,
         forgetful' \in BOOLEAN, forgetful => forgetful',
         running' \in {"loading", "loaded", "started", "stopped"},
         {address', doubled', escaped'} \subseteq BOOLEAN,
         pollTimer' \in {"none", "armed", "fired"}, others' \in Nat,
         polls' \in [Cycles -> {"idle", "asking", "saving"}],
         reloads' \in 0 .. MaxReloads,
         Saving' = Saving,
         ~forgetful' => /\ running' = "loading" => /\ running = "loading" /\ UnderWay' = {}
                                                   /\ pollTimer' = "none" /\ others' = 0
                        /\ running = "loading" => Knows(seen) \/ running' = "loading"
  PROVE  RememberInv'
<1>1. KeptInOrder(seen)' /\ KeptInOrder(stateFile)' /\ \A p \in Cycles : KeptInOrder(written[p])'
  BY DEF RememberInv, RememberTypes, KeptInOrder, Sorted
<1>2. RememberTypes'
  BY <1>1 DEF RememberInv, RememberTypes
<1>3. ASSUME ~forgetful' PROVE Remembered'
  BY <1>3 DEF RememberInv, Remembered, Knows
<1> QED
  BY <1>2, <1>3 DEF RememberInv

(* start() begins a poll at most; it neither announces nor writes.          *)
LEMMA StartsQuietly ==
  ASSUME RememberInv, Starts
  PROVE  /\ address' \in BOOLEAN /\ doubled' \in BOOLEAN
         /\ UNCHANGED <<pollTimer, others>>
         /\ polls' \in [Cycles -> {"idle", "asking", "saving"}] /\ Saving' = Saving
<1> USE DEF RememberInv, RememberTypes
<1>1. CASE UNCHANGED <<polls, doubled>>
  BY <1>1 DEF Starts, Saving
<1>2. CASE PollBegins /\ doubled' = (doubled \/ UnderWay # {})
  BY <1>2 DEF Starts, PollBegins, Saving
<1> QED
  BY <1>1, <1>2 DEF Starts

(* load() takes over what the file holds, which is all that was announced   *)
(* unless a command had started the monitor before.                         *)
LEMMA RememberStarts ==
  ASSUME RememberInv,
         ServiceLoads \/ ServiceStarts \/ CommandStarts \/ Stops
  PROVE  RememberInv'
<1> USE DEF fileVars
<1>1. CASE ServiceLoads
  <2>1. KeptInOrder(seen')
    BY <1>1 DEF ServiceLoads, RememberInv, RememberTypes
  <2>2. KeptInOrder(seen)' /\ KeptInOrder(stateFile)' /\ \A p \in Cycles : KeptInOrder(written[p])'
    BY <1>1, <2>1 DEF ServiceLoads, RememberInv, RememberTypes, KeptInOrder, Sorted
  <2>3. RememberTypes'
    BY <1>1, <2>2 DEF ServiceLoads, RememberInv, RememberTypes
  <2>4. ASSUME ~forgetful' PROVE Remembered'
    <3>1. /\ running = "loading" /\ running' = "loaded" /\ UnderWay = {} /\ seen = NoTxids
          /\ Saving = {} => Knows(stateFile)
      BY <1>1, <2>4 DEF ServiceLoads, RememberInv, Remembered
    <3>2. Saving = {}
      BY <3>1 DEF Saving, UnderWay
    <3>3. seen' = stateFile
      BY <1>1, <3>1 DEF ServiceLoads
    <3>4. Saving' = {}
      BY <1>1, <3>2 DEF Saving, ServiceLoads
    <3>5. Knows(seen)' /\ Knows(stateFile)'
      BY <1>1, <3>1, <3>2, <3>3 DEF Knows, ServiceLoads
    <3> QED
      BY <3>1, <3>4, <3>5 DEF Remembered
  <2> QED
    BY <1>1, <2>3, <2>4 DEF RememberInv, ServiceLoads
<1>2. CASE ServiceStarts
  <2>1. /\ address' \in BOOLEAN /\ doubled' \in BOOLEAN /\ UNCHANGED <<pollTimer, others>>
        /\ polls' \in [Cycles -> {"idle", "asking", "saving"}] /\ Saving' = Saving
    <3>1. CASE Starts
      BY <3>1, StartsQuietly
    <3>2. CASE UNCHANGED <<address, pollTimer, others, polls, doubled>>
      BY <3>2 DEF RememberInv, RememberTypes, Saving
    <3> QED
      BY <1>2, <3>1, <3>2 DEF ServiceStarts
  <2> QED
    BY <1>2, <2>1, QuietStep DEF ServiceStarts, RememberInv, RememberTypes
<1>3. CASE CommandStarts
  <2>1. /\ address' \in BOOLEAN /\ doubled' \in BOOLEAN /\ UNCHANGED <<pollTimer, others>>
        /\ polls' \in [Cycles -> {"idle", "asking", "saving"}] /\ Saving' = Saving
    BY <1>3, StartsQuietly DEF CommandStarts
  <2>2. forgetful' \in BOOLEAN /\ (forgetful => forgetful') /\ (~forgetful' => running # "loading")
    BY <1>3 DEF CommandStarts, RememberInv, RememberTypes
  <2> QED
    BY <1>3, <2>1, <2>2, QuietStep DEF CommandStarts, RememberInv, RememberTypes
<1>4. CASE Stops
  <2>1. Saving' = Saving
    BY <1>4 DEF Stops, Saving
  <2>2. escaped' \in BOOLEAN
    BY <1>4 DEF Stops
  <2> QED
    BY <1>4, <2>1, <2>2, QuietStep DEF Stops, RememberInv, RememberTypes
<1> QED
  BY <1>1, <1>2, <1>3, <1>4

(* A timer only begins a poll, and none is armed before load().             *)
LEMMA RememberFires ==
  ASSUME RememberInv, TimerFires
  PROVE  RememberInv'
<1> USE DEF fileVars, TimerFires
<1>1. /\ polls' \in [Cycles -> {"idle", "asking", "saving"}] /\ Saving' = Saving
  BY DEF PollBegins, Saving, RememberInv, RememberTypes
<1>2. pollTimer' \in {"none", "armed", "fired"} /\ others' \in Nat
  BY DEF RememberInv, RememberTypes
<1>3. ~forgetful => running # "loading"
  BY DEF RememberInv, Remembered
<1> QED
  BY <1>1, <1>2, <1>3, QuietStep DEF RememberInv, RememberTypes

(* A poll that fails changes neither the txids nor the file.                *)
LEMMA RememberFails ==
  ASSUME RememberInv, NEW p \in Cycles, PollFails(p)
  PROVE  RememberInv'
<1> USE DEF fileVars, PollFails
<1>1. /\ polls' \in [Cycles -> {"idle", "asking", "saving"}] /\ Saving' = Saving
  BY DEF Saving, RememberInv, RememberTypes
<1>2. pollTimer' \in {"none", "armed", "fired"} /\ others' \in Nat
  BY DEF RememberInv, RememberTypes, ScheduleNext
<1>3. ~forgetful => running # "loading"
  BY DEF RememberInv, Remembered, UnderWay
<1> QED
  BY <1>1, <1>2, <1>3, QuietStep DEF RememberInv, RememberTypes

(* What an answer holds is close enough to the present that a file of       *)
(* MaxSeen txids still holds it, had it been announced.                     *)
LEMMA RememberAnswered ==
  ASSUME RememberInv, NEW p \in Cycles, NEW n \in 0 .. MaxArrivals,
         NEW new \in SUBSET Unseen(n), PollAnswered(p, n, new)
  PROVE  RememberInv'
<1> USE DEF PollAnswered
<1>1. /\ arrived \in Nat /\ n \in Nat /\ n <= arrived /\ arrived <= n + Behind
      /\ Window \in Nat /\ Behind \in Nat /\ MaxArrivals \in Nat
  BY MonitorConstants DEF RememberInv, RememberTypes
<1>2. \A t \in new : /\ t \in Arrivals /\ t \in Nat /\ t <= n /\ n < t + Window
                     /\ t \notin Range(seen)
  BY <1>1 DEF Unseen, Answer, Arrivals
<1>3. \A t \in new : t <= arrived /\ arrived < t + Reach /\ t \notin Range(seen)
  BY <1>1, <1>2 DEF Reach
<1>4. \A t, u \in new : t < u + Reach
  BY <1>1, <1>2 DEF Reach
<1>5. new \in SUBSET Arrivals
  BY <1>2
<1> DEFINE long == seen \o InOrder(new)
<1>6. Sorted(seen)
  BY DEF RememberInv, RememberTypes, KeptInOrder
<1>7. Sorted(long) /\ Range(long) = Range(seen) \cup new
  BY <1>1, <1>3, <1>4, <1>5, <1>6, AppendSorted
<1>8. /\ seen' = Trimmed(long)
      /\ Sorted(seen') /\ Len(seen') <= MaxSeen
      /\ \A t \in Range(long) : arrived < t + Reach => t \in Range(seen')
  BY <1>1, <1>7, TrimmedSorted
<1> HIDE DEF long
<1>9. UNCHANGED <<arrived, running, stateFile, forgetful>>
  OBVIOUS
<1>10. \A s : KeptInOrder(s) => (Sorted(s) /\ Len(s) <= MaxSeen)
  BY DEF KeptInOrder
<1>11. RememberTypes'
  <2>1. KeptInOrder(seen)' /\ KeptInOrder(stateFile)'
    BY <1>8, <1>9 DEF RememberInv, RememberTypes, KeptInOrder, Sorted
  <2>2. ASSUME NEW q \in Cycles PROVE KeptInOrder(written[q])'
    <3>1. written'[q] = seen' \/ written'[q] = written[q]
      BY DEF RememberInv, RememberTypes
    <3> QED
      BY <1>8, <1>9, <3>1 DEF RememberInv, RememberTypes, KeptInOrder, Sorted
  <2>3. announced' \subseteq 1 .. arrived
    <3>1. \A t \in new : t \in 1 .. arrived
      BY <1>1, <1>2, <1>3 DEF Arrivals
    <3> QED
      BY <3>1 DEF RememberInv, RememberTypes
  <2>4. repeated' \in BOOLEAN /\ polls' \in [Cycles -> {"idle", "asking", "saving"}]
    BY DEF RememberInv, RememberTypes
  <2> QED
    BY <2>1, <2>2, <2>3, <2>4 DEF RememberInv, RememberTypes
<1>12. ~forgetful => running # "loading" /\ Knows(seen)
  BY DEF RememberInv, Remembered, UnderWay
<1>13. ~repeated'
  <2>1. ~forgetful => new \cap announced = {}
    BY <1>3, <1>12 DEF Knows
  <2> QED
    BY <2>1 DEF RememberInv
<1>14. ASSUME ~forgetful' PROVE Remembered'
  <2>1. running' # "loading" /\ Knows(seen)
    BY <1>12, <1>14
  <2>2. Knows(seen)'
    BY <1>3, <1>7, <1>8, <2>1 DEF Knows
  <2>3. p \in Saving' /\ written'[p] = seen'
    BY DEF Saving, RememberInv, RememberTypes
  <2>4. Knows(written[p])'
    BY <2>2, <2>3 DEF Knows
  <2>5. ASSUME NEW q \in Saving', Saving' = {q} PROVE Knows(written[q])'
    BY <2>3, <2>4, <2>5
  <2> QED
    BY <2>1, <2>2, <2>3, <2>5 DEF Remembered
<1> QED
  BY <1>11, <1>13, <1>14 DEF RememberInv

(* The save that ends alone brings the file up to date; one that met        *)
(* another, or failed, is told by forgetful.                                *)
LEMMA RememberSaved ==
  ASSUME RememberInv, NEW p \in Cycles, SaveEnds(p)
  PROVE  RememberInv'
<1> USE DEF SaveEnds
<1>1. /\ polls' \in [Cycles -> {"idle", "asking", "saving"}] /\ p \in Saving
      /\ Saving' = Saving \ {p}
  BY DEF Saving, RememberInv, RememberTypes
<1>2. stateFile' \in {written[p], NoTxids, stateFile} /\ forgetful' \in BOOLEAN
  BY DEF RememberInv, RememberTypes
<1>3. KeptInOrder(seen)' /\ KeptInOrder(stateFile)'
  <2>1. KeptInOrder(seen') /\ KeptInOrder(stateFile')
    BY <1>2, EmptyInOrder DEF RememberInv, RememberTypes
  <2> QED
    BY <2>1 DEF KeptInOrder, Sorted
<1>4. ASSUME NEW q \in Cycles PROVE KeptInOrder(written[q])'
  <2>1. written'[q] = NoTxids \/ written'[q] = written[q]
    BY DEF RememberInv, RememberTypes
  <2>2. KeptInOrder(written'[q])
    BY <2>1, EmptyInOrder DEF RememberInv, RememberTypes
  <2> QED
    BY <2>2 DEF KeptInOrder, Sorted
<1>5. pollTimer' \in {"none", "armed", "fired"} /\ others' \in Nat
  BY DEF RememberInv, RememberTypes, ScheduleNext
<1>6. RememberTypes'
  BY <1>1, <1>2, <1>3, <1>4, <1>5 DEF RememberInv, RememberTypes
<1>7. ASSUME ~forgetful' PROVE Remembered'
  <2>1. ~forgetful /\ stateFile' = written[p] /\ \A q \in Cycles \ {p} : polls[q] # "saving"
    BY <1>7 DEF RememberInv, RememberTypes
  <2>2. Saving = {p}
    BY <1>1, <2>1 DEF Saving
  <2>3. Knows(written[p]) /\ running # "loading" /\ Knows(seen)
    BY <1>1, <2>1, <2>2 DEF RememberInv, Remembered, Saving, UnderWay
  <2>4. Knows(stateFile)' /\ Knows(seen)'
    BY <2>1, <2>3 DEF Knows
  <2> QED
    BY <1>1, <2>2, <2>3, <2>4 DEF Remembered
<1> QED
  BY <1>6, <1>7 DEF RememberInv

(* A transaction more only shortens the list of what still matters.         *)
LEMMA RememberArrives ==
  ASSUME RememberInv, Arrives
  PROVE  RememberInv'
<1> USE DEF Arrives, fileVars
<1>1. arrived \in Nat /\ arrived' = arrived + 1 /\ arrived' \in 0 .. MaxArrivals
  BY MonitorConstants DEF RememberInv, RememberTypes
<1>2. \A s : KeptInOrder(s) => /\ s \in Seq(Arrivals) /\ Len(s) \in Nat
                               /\ \A i \in 1 .. Len(s) : s[i] \in Nat
  BY RangeIs, MonitorConstants DEF KeptInOrder, Sorted, Arrivals
<1>3. ASSUME NEW s, KeptInOrder(s)
      PROVE  /\ \A i \in 1 .. Len(s) : s[i] <= arrived'
             /\ \A i, j \in 1 .. Len(s) : s[i] = s[j] => i = j
             /\ \A i, j \in 1 .. Len(s) : i < j => s[i] < s[j] + Reach
             /\ s \in Seq(Arrivals) /\ Len(s) <= MaxSeen
  BY <1>1, <1>2, <1>3 DEF KeptInOrder, Sorted
<1>4. /\ KeptInOrder(seen)' /\ KeptInOrder(stateFile)'
      /\ \A p \in Cycles : KeptInOrder(written[p])'
  BY <1>3 DEF RememberInv, RememberTypes, KeptInOrder, Sorted
<1>5. announced' \subseteq 1 .. arrived'
  BY <1>1 DEF RememberInv, RememberTypes
<1>6. RememberTypes'
  BY <1>1, <1>4, <1>5 DEF RememberInv, RememberTypes
<1>7. \A s : Knows(s) => \A t \in announced : arrived' < t + Reach => t \in Range(s)
  <2>1. announced \subseteq 1 .. arrived
    BY DEF RememberInv, RememberTypes
  <2>2. Reach \in Nat
    BY MonitorConstants
  <2> QED
    BY <1>1, <2>1, <2>2 DEF Knows
<1>8. ASSUME ~forgetful' PROVE Remembered'
  <2>1. Remembered /\ Saving' = Saving /\ UnderWay' = UnderWay
    BY <1>8 DEF RememberInv, Saving, UnderWay
  <2>2. Knows(seen) => Knows(seen)'
    BY <1>7 DEF Knows
  <2>3. Knows(stateFile) => Knows(stateFile)'
    BY <1>7 DEF Knows
  <2>4. ASSUME NEW p \in Cycles PROVE Knows(written[p]) => Knows(written[p])'
    BY <1>7 DEF Knows
  <2>5. Saving \subseteq Cycles
    BY DEF Saving
  <2> QED
    BY <2>1, <2>2, <2>3, <2>4, <2>5 DEF Remembered
<1> QED
  BY <1>6, <1>8 DEF RememberInv

(* A restart between two saves finds a file that holds what matters.        *)
LEMMA RememberReloads ==
  ASSUME RememberInv, Reloads
  PROVE  RememberInv'
<1> USE DEF Reloads
<1>1. /\ polls' \in [Cycles -> {"idle", "asking", "saving"}] /\ DOMAIN written' = Cycles
      /\ UnderWay' = {} /\ Saving' = {} /\ \A q \in Cycles : written'[q] = NoTxids
  BY DEF Saving, UnderWay
<1>2. /\ stateFile' = stateFile \/ stateFile' = NoTxids \/ \E p \in Saving : stateFile' = written[p]
      /\ forgetful' = (forgetful \/ Saving # {})
      /\ Saving = {} => stateFile' = stateFile
  BY DEF Saving
<1>3. KeptInOrder(stateFile')
  BY <1>2, EmptyInOrder DEF RememberInv, RememberTypes, Saving
<1>4. KeptInOrder(seen)' /\ KeptInOrder(stateFile)' /\ \A q \in Cycles : KeptInOrder(written[q])'
  BY <1>1, <1>3, EmptyInOrder DEF KeptInOrder, Sorted
<1>5. reloads' \in 0 .. MaxReloads
  BY MonitorConstants DEF RememberInv, RememberTypes
<1>6. RememberTypes'
  BY <1>1, <1>2, <1>4, <1>5 DEF RememberInv, RememberTypes
<1>7. ASSUME ~forgetful' PROVE Remembered'
  <2>1. Saving = {} /\ ~forgetful /\ Knows(stateFile) /\ stateFile' = stateFile
    BY <1>2, <1>7 DEF RememberInv, Remembered
  <2>2. Knows(stateFile)'
    BY <2>1 DEF Knows
  <2> QED
    BY <1>1, <2>2 DEF Remembered
<1> QED
  BY <1>6, <1>7 DEF RememberInv

(* Nothing is forgotten while nothing happens.                              *)
LEMMA RememberIdle ==
  ASSUME RememberInv, UNCHANGED monitorVars
  PROVE  RememberInv'
<1> USE DEF monitorVars
<1>1. KeptInOrder(seen)' /\ KeptInOrder(stateFile)' /\ \A p \in Cycles : KeptInOrder(written[p])'
  BY DEF RememberInv, RememberTypes, KeptInOrder, Sorted
<1>2. RememberTypes'
  BY <1>1 DEF RememberInv, RememberTypes
<1>3. Remembered => Remembered'
  BY DEF Remembered, Knows, Saving, UnderWay
<1> QED
  BY <1>2, <1>3 DEF RememberInv

(* What was announced and may still be in an answer is in seenTxids, and    *)
(* in the file once no save is under way, unless something was forgotten.   *)
THEOREM MonitorRemembers ==
  MonitorSpec => []RememberInv
<1>1. ASSUME RememberInv, [MonitorNext]_monitorVars PROVE RememberInv'
  <2>1. CASE ServiceLoads \/ ServiceStarts \/ CommandStarts \/ Stops
    BY <1>1, <2>1, RememberStarts
  <2>2. CASE TimerFires
    BY <1>1, <2>2, RememberFires
  <2>3. CASE \E p \in Cycles : PollEnds(p)
    BY <1>1, <2>3, RememberFails, RememberSaved, RememberAnswered DEF PollEnds
  <2>4. CASE Arrives
    BY <1>1, <2>4, RememberArrives
  <2>5. CASE Reloads
    BY <1>1, <2>5, RememberReloads
  <2>6. CASE UNCHANGED monitorVars
    BY <1>1, <2>6, RememberIdle
  <2> QED
    BY <1>1, <2>1, <2>2, <2>3, <2>4, <2>5, <2>6 DEF MonitorNext
<1> QED
  BY <1>1, RememberInit, PTL DEF MonitorSpec

(* For every window, lag, limit of seenTxids that is large enough, number   *)
(* of polls under way and of restarts: no deposit is announced twice unless *)
(* a save failed or met another, or start() came before load().             *)
THEOREM AnnouncedOnceHolds ==
  MonitorSpec => []AnnouncedOnce
<1>1. RememberInv => AnnouncedOnce
  BY DEF RememberInv, AnnouncedOnce
<1> QED
  BY <1>1, MonitorRemembers, PTL

(* The monitor's variables keep their types, and its lists their limit.     *)
THEOREM MonitorTypeCorrect ==
  MonitorSpec => []MonitorTypeOK
<1>1. RememberInv => MonitorTypeOK
  <2> SUFFICES ASSUME RememberInv PROVE MonitorTypeOK
    OBVIOUS
  <2>1. \A s \in {seen, stateFile} \cup Range(written) : s \in Seq(Arrivals) /\ Len(s) <= MaxSeen
    <3>1. \A s \in Range(written) : \E p \in Cycles : s = written[p]
      BY DEF RememberInv, RememberTypes, Range
    <3> QED
      BY <3>1 DEF RememberInv, RememberTypes, KeptInOrder, Sorted
  <2> QED
    BY <2>1 DEF RememberInv, RememberTypes, MonitorTypeOK
<1> QED
  BY <1>1, MonitorRemembers, PTL
=============================================================================
