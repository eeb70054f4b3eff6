--------------------------- MODULE ChannelLedger ---------------------------
(***************************************************************************)
(* What a payment channel promises its two ends, without commitments,      *)
(* signatures or messages: a payment is made once the one before it was    *)
(* credited, payments come out of the deposit and never come back, and     *)
(* none is made after the provider has agreed to a close.                  *)
(***************************************************************************)
EXTENDS Integers

CONSTANTS Deposit, Payments

VARIABLES
    paid,     \* what the provider has acknowledged
    credited, \* the acknowledgements the consumer knows of
    settled   \* the provider has signed a close

Init == paid = 0 /\ credited = 0 /\ settled = FALSE

Pay(k) ==
    /\ ~settled /\ credited = paid
    /\ paid + k <= Deposit
    /\ paid' = paid + k
    /\ UNCHANGED <<credited, settled>>

Credit == credited' = paid /\ UNCHANGED <<paid, settled>>

Settle == settled' = TRUE /\ UNCHANGED <<paid, credited>>

Next == (\E k \in Payments : Pay(k)) \/ Credit \/ Settle

Spec == Init /\ [][Next]_<<paid, credited, settled>>
=============================================================================
