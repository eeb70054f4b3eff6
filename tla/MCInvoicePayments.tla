------------------------- MODULE MCInvoicePayments -------------------------
(* Instances of InvoicePayments for TLC.                                   *)
EXTENDS InvoicePayments

CONSTANTS i1, i2

(* The transactions pay just enough for i1, and too little for i2.         *)
MCAmount == [i \in Invoices |-> IF i = i1 THEN 10 ELSE 12]

MCReceived == [t \in Txs |-> 10 + Tolerance - 1]

(* States that differ only in what a call that is over was about are one.  *)
Over == {v \in Calls : phase[v] \in {"refused", "failed", "past"}}

View == <<store, age, mutex, listed, attempts, restarts, unsafe, disk,
          [w \in Workers |-> IF w \in Over THEN <<>> ELSE <<phase[w], target[w]>>],
          [v \in Calls |-> IF v \in Over THEN <<>> ELSE <<named[v], earlier[v]>>]>>
=============================================================================
