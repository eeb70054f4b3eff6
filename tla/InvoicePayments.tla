--------------------------- MODULE InvoicePayments ---------------------------
(***************************************************************************)
(* Agent-to-agent invoices: InvoiceManager and its mutex, the              *)
(* wallet_verify_payment tool running concurrently with itself, the expiry *)
(* timer and the sweep at start-up, payment callbacks, the unordered       *)
(* writes of invoices.json, and restarts.                                  *)
(*                                                                         *)
(* Every action is the code between two awaits.  updateAddress() is left   *)
(* out (one address), and markInvoiceCancelled(), which has no caller.     *)
(***************************************************************************)
EXTENDS Integers, Sequences, FiniteSets

CONSTANTS
    Invoices,      \* invoice ids, each created at most once
    Calls,         \* calls of wallet_verify_payment
    Txs,           \* transactions a payer may name
    None,          \* no invoice, no transaction
    Amount,        \* amount of each invoice
    PaysUs,        \* transactions with an output to the wallet's address,
    Received,      \*   and the amount of the first such output
    Confirmable,   \* transactions that get enough confirmations in time
    Tolerance,     \* DUST_TOLERANCE_KOINU
    WithCallback,  \* invoices with a callback URL
    Retries,       \* retries of a callback
    MaxStored,     \* MAX_STORED_INVOICES
    EvictCount,    \* resolved invoices evicted when the store is full
    MaxRestarts    \* bound: restarts of the plugin explored

(* The expiry timer of index.ts and expirePending() at start-up.           *)
Sweeps == {"timer", "startup"}

(* The one save() that may run inside the mutex, as a writer of the file.  *)
Section == "section"

Writers == Invoices \cup {Section}

ASSUME InvoiceAssumption ==
    /\ IsFiniteSet(Invoices)
    /\ None \notin Txs \cup Invoices
    /\ Calls \cap Sweeps = {}
    /\ Section \notin Invoices
    /\ Amount \in [Invoices -> Nat] /\ Received \in [Txs -> Nat]
    /\ Tolerance \in Nat /\ Retries \in Nat /\ MaxStored \in Nat
    /\ EvictCount \in Nat \ {0} /\ MaxRestarts \in Nat

VARIABLES
    stored,    \* the keys of InvoiceManager.invoices
    invoice,   \* the invoice objects, evicted ones included
    age,       \* not created yet, open, or past its expiresAt
    mutex,     \* the holder of invoiceMutex, then those who wait for it
    phase,     \* where each call, and each sweep, stands
    target,    \* the invoice it is about,
    named,     \*   and the transaction a call was given
    listed,    \* invoices expirePending() still has to visit
    attempts,  \* attempts left to deliver the callback of each call
    write,     \* the save() calls under way
    onDisk,    \* the contents a restart may find in invoices.json
    told,      \* invoices whose payee has received a callback
    restarts   \* restarts so far

(* History variables, which no guard reads.                                *)
VARIABLES
    earlier,   \* the calls of this run that had reported when each call began
    unsafe     \* did two writes overlap, or did one in the mutex fail?

store == <<stored, invoice>>
workers == <<phase, target, named, listed>>
disk == <<write, onDisk>>
history == <<earlier, unsafe>>
vars == <<store, age, mutex, workers, attempts, disk, told, restarts, history>>

Invoice == [status : {"absent", "pending", "paid", "expired"}, txid : Txs \cup {None}]

NoInvoice == [status |-> "absent", txid |-> None]

Empty == [i \in Invoices |-> NoInvoice]

NoWrite == [state |-> "none", ids |-> {}, content |-> Empty]

Workers == Calls \cup Sweeps

Pending == {i \in stored : invoice[i].status = "pending"}

(* Phases between the first and the last await of a call.                  *)
UnderWay == {"asking", "queued", "saving", "auditing"}

Init ==
    /\ stored = {}
    /\ invoice = Empty
    /\ age = [i \in Invoices |-> "unborn"]
    /\ mutex = <<>>
    /\ phase = [w \in Workers |-> "idle"]
    /\ target = [w \in Workers |-> None]
    /\ named = [v \in Calls |-> None]
    /\ listed = {}
    /\ attempts = [v \in Calls |-> 0]
    /\ write = [w \in Writers |-> NoWrite]
    /\ onDisk = {Empty}
    /\ told = {}
    /\ restarts = 0
    /\ earlier = [v \in Calls |-> {}]
    /\ unsafe = FALSE

-----------------------------------------------------------------------------
(* save() *)

(* save() lists the invoice objects and waits for mkdir(), ...             *)
Collect(w, ids) == write' = [write EXCEPT ![w] = [state |-> "listed", ids |-> ids, content |-> Empty]]

Writing == {w \in Writers : write[w].state \in {"alone", "mixed"}}

(* ... serialises them as they are by then and starts to write: until the  *)
(* write has ended, a crash leaves the old file, the new one or a torn one,*)
(* which load() takes for an empty one.                                    *)
SaveWrites(w) ==
    LET content == [i \in Invoices |-> IF i \in write[w].ids THEN invoice[i] ELSE NoInvoice] IN
    /\ write[w].state = "listed"
    /\ write' = [x \in Writers |->
          IF x = w THEN [state |-> IF Writing = {} THEN "alone" ELSE "mixed", ids |-> {}, content |-> content]
          ELSE IF x \in Writing THEN [write[x] EXCEPT !.state = "mixed"] ELSE write[x]]
    /\ onDisk' = onDisk \cup {content, Empty}
    /\ unsafe' = (unsafe \/ Writing # {})
    /\ UNCHANGED <<store, age, mutex, workers, attempts, told, restarts, earlier>>

(* The write has ended.  Writes that overlapped leave what they leave.     *)
Written(w) ==
    /\ w \in Writing
    /\ write' = [write EXCEPT ![w] = NoWrite]
    /\ onDisk' = IF write[w].state = "alone" THEN {write[w].content} ELSE onDisk

(* mkdir() or writeFile() fails.                                           *)
NotWritten(w) ==
    /\ write[w].state # "none"
    /\ write' = [write EXCEPT ![w] = NoWrite]
    /\ UNCHANGED onDisk

(* The save() of createInvoice() is not awaited; its error is logged.      *)
CreationSaved(i) ==
    /\ Written(i) \/ NotWritten(i)
    /\ UNCHANGED <<store, age, mutex, workers, attempts, told, restarts, history>>

-----------------------------------------------------------------------------
(* InvoiceManager *)

Resolved == stored \ Pending

(* evictOldInvoices(): the oldest resolved invoices, as far as there are   *)
(* any; nothing below tells which of them were the oldest.                 *)
Evictions ==
    IF Cardinality(stored) < MaxStored THEN {{}}
    ELSE IF Cardinality(Resolved) <= EvictCount THEN {Resolved}
    ELSE {S \in SUBSET Resolved : Cardinality(S) = EvictCount}

(* /wallet invoice and wallet_invoice.                                     *)
CreateInvoice(i) ==
    /\ age[i] = "unborn"
    /\ age' = [age EXCEPT ![i] = "open"]
    /\ \E evicted \in Evictions : stored' = (stored \ evicted) \cup {i}
    /\ invoice' = [invoice EXCEPT ![i] = [status |-> "pending", txid |-> None]]
    /\ Collect(i, stored')
    /\ UNCHANGED <<mutex, workers, attempts, onDisk, told, restarts, history>>

(* The expiry of an invoice passes.                                        *)
Expire(i) ==
    /\ age[i] = "open"
    /\ age' = [age EXCEPT ![i] = "due"]
    /\ UNCHANGED <<store, mutex, workers, attempts, disk, told, restarts, history>>

Mark_NotAwaited(w, marked, next) ==
    /\ mutex # <<>> /\ Head(mutex) = w
    /\ phase[w] = "queued"
    /\ phase' = [phase EXCEPT ![w] = next]
    /\ mutex' = Tail(mutex)
    /\ IF target[w] \in Pending
       THEN invoice' = [invoice EXCEPT ![target[w]] = marked] /\ Collect(Section, stored)
       ELSE UNCHANGED <<invoice, write>>
    /\ UNCHANGED <<stored, age, target, named, listed, attempts, onDisk, told, restarts, history>>

Mark_AnyStatus(w, marked, next) ==
    /\ mutex # <<>> /\ Head(mutex) = w
    /\ phase[w] = "queued"
    /\ target[w] \in stored
    /\ invoice' = [invoice EXCEPT ![target[w]] = marked]
    /\ Collect(Section, stored)
    /\ phase' = [phase EXCEPT ![w] = "saving"]
    /\ UNCHANGED <<stored, age, mutex, target, named, listed, attempts, onDisk, told, restarts, history>>

(* The holder of the mutex may mark its invoice, which must be stored and  *)
(* pending, and then waits for save(); else it leaves at once.             *)
Mark(w, marked, next) ==
    /\ mutex # <<>> /\ Head(mutex) = w
    /\ phase[w] = "queued"
    /\ IF target[w] \in Pending
       THEN /\ invoice' = [invoice EXCEPT ![target[w]] = marked]
            /\ Collect(Section, stored)
            /\ phase' = [phase EXCEPT ![w] = "saving"]
            /\ UNCHANGED mutex
       ELSE /\ phase' = [phase EXCEPT ![w] = next]
            /\ mutex' = Tail(mutex)
            /\ UNCHANGED <<invoice, write>>
    /\ UNCHANGED <<stored, age, target, named, listed, attempts, onDisk, told,
                   restarts, history>>

(* save() has ended inside the mutex: the holder leaves.                   *)
Leave(w, next) ==
    /\ mutex # <<>> /\ Head(mutex) = w
    /\ phase[w] = "saving"
    /\ mutex' = Tail(mutex)
    /\ phase' = [phase EXCEPT ![w] = next]
    /\ UNCHANGED <<store, age, target, named, attempts, told, restarts, earlier>>

SectionSaved(w, next) == Leave(w, next) /\ Written(Section) /\ UNCHANGED unsafe

SectionFails_KeepsMutex(w, next) ==
    /\ mutex # <<>> /\ Head(mutex) = w
    /\ phase[w] = "saving"
    /\ phase' = [phase EXCEPT ![w] = next]
    /\ NotWritten(Section) /\ unsafe' = TRUE
    /\ UNCHANGED <<store, age, mutex, target, named, attempts, told, restarts, earlier>>

SectionFails(w, next) == Leave(w, next) /\ NotWritten(Section) /\ unsafe' = TRUE

-----------------------------------------------------------------------------
(* wallet_verify_payment *)

VerifyStart_AnyStatus(v) ==
    /\ phase[v] = "idle"
    /\ \E i \in stored, t \in Txs :
          /\ target' = [target EXCEPT ![v] = i]
          /\ named' = [named EXCEPT ![v] = t]
    /\ phase' = [phase EXCEPT ![v] = "asking"]
    /\ earlier' = [earlier EXCEPT ![v] = {u \in Calls : phase[u] = "reported"}]
    /\ UNCHANGED <<store, age, mutex, listed, attempts, disk, told, restarts, unsafe>>

(* The invoice is known and pending; verifyPayment() asks the API.         *)
VerifyStart(v) ==
    /\ phase[v] = "idle"
    /\ \E i \in Pending, t \in Txs :
          /\ target' = [target EXCEPT ![v] = i]
          /\ named' = [named EXCEPT ![v] = t]
    /\ phase' = [phase EXCEPT ![v] = "asking"]
    /\ earlier' = [earlier EXCEPT ![v] = {u \in Calls : phase[u] = "reported"}]
    /\ UNCHANGED <<store, age, mutex, listed, attempts, disk, told, restarts, unsafe>>

Settles_AnyAmount(t, i) == t \in PaysUs /\ t \in Confirmable

(* What verifyPayment() demands of the transaction.  An OP_RETURN that is  *)
(* missing or names another invoice is only logged.                        *)
Settles(t, i) ==
    /\ t \in PaysUs
    /\ Received[t] - Amount[i] \in (0 - Tolerance) .. Tolerance
    /\ t \in Confirmable

(* The payment is valid: markInvoicePaid() waits for the mutex.            *)
VerifyValid(v) ==
    /\ phase[v] = "asking"
    /\ Settles(named[v], target[v])
    /\ phase' = [phase EXCEPT ![v] = "queued"]
    /\ mutex' = Append(mutex, v)
    /\ UNCHANGED <<store, age, target, named, listed, attempts, disk, told, restarts,
                   history>>

(* The API fails or lags, or the transaction does not settle the invoice.  *)
VerifyInvalid(v) ==
    /\ phase[v] = "asking"
    /\ phase' = [phase EXCEPT ![v] = "refused"]
    /\ UNCHANGED <<store, age, mutex, target, named, listed, attempts, disk, told,
                   restarts, history>>

(* markInvoicePaid(), whose result the tool does not read.                 *)
MarkPaid(v) == Mark(v, [status |-> "paid", txid |-> named[v]], "auditing")

MarkPaidSaved(v) == SectionSaved(v, "auditing") /\ UNCHANGED listed

MarkPaidThrows(v) == SectionFails(v, "failed") /\ UNCHANGED listed

(* logAudit() is done: the callback starts, and the tool reports "Payment  *)
(* verified!".                                                             *)
Report(v) ==
    /\ phase[v] = "auditing"
    /\ phase' = [phase EXCEPT ![v] = "reported"]
    /\ attempts' = [attempts EXCEPT ![v] = IF target[v] \in WithCallback THEN Retries + 1 ELSE 0]
    /\ UNCHANGED <<store, age, mutex, target, named, listed, disk, told, restarts, history>>

(* One attempt of sendPaymentCallback(): lost, or received with an answer  *)
(* that is lost or an error, or received and accepted.                     *)
CallbackAttempt(v) ==
    /\ attempts[v] > 0
    /\ \/ attempts' = [attempts EXCEPT ![v] = @ - 1] /\ UNCHANGED told
       \/ \E left \in {0, attempts[v] - 1} :
             /\ attempts' = [attempts EXCEPT ![v] = left]
             /\ told' = told \cup {target[v]}
    /\ UNCHANGED <<store, age, mutex, workers, disk, restarts, history>>

-----------------------------------------------------------------------------
(* Expiry sweeps *)

SweepMark(s, i) ==
    /\ phase[s] = "idle"
    /\ phase' = [phase EXCEPT ![s] = "queued"]
    /\ target' = [target EXCEPT ![s] = i]
    /\ mutex' = Append(mutex, s)
    /\ UNCHANGED <<store, age, named, attempts, disk, told, restarts, history>>

(* cleanupExpired(), every five minutes, walks over the live map.          *)
TimerVisits(i) ==
    /\ i \in Pending
    /\ age[i] = "due"
    /\ SweepMark("timer", i)
    /\ UNCHANGED listed

(* expirePending() at start-up walks over the list it took then; its       *)
(* cleanup() lists at most MaxStored invoices and so never removes one.    *)
StartupVisits(i) ==
    /\ i \in listed
    /\ listed' = listed \ {i}
    /\ SweepMark("startup", i)

MarkExpired(s) == Mark(s, [status |-> "expired", txid |-> None], "idle")

MarkExpiredSaved(s) == SectionSaved(s, "idle") /\ UNCHANGED listed

(* A failed save() ends the sweep; the timer starts a new one in time.     *)
MarkExpiredThrows(s) ==
    /\ SectionFails(s, "idle")
    /\ listed' = IF s = "startup" THEN {} ELSE listed

-----------------------------------------------------------------------------
(* The process *)

(* The process ends at any point; load() reads what is on the disk, and    *)
(* expirePending() lists what has expired.                                 *)
Restart ==
    /\ restarts < MaxRestarts
    /\ restarts' = restarts + 1
    /\ \E content \in onDisk :
          /\ invoice' = content
          /\ stored' = {i \in Invoices : content[i].status # "absent"}
          /\ onDisk' = {content}
    /\ write' = [w \in Writers |-> NoWrite]
    /\ mutex' = <<>>
    /\ phase' = [w \in Workers |->
          IF w \in Calls /\ phase[w] # "idle" THEN "past" ELSE "idle"]
    /\ listed' = {i \in stored' : invoice'[i].status = "pending" /\ age[i] = "due"}
    /\ attempts' = [v \in Calls |-> 0]
    /\ UNCHANGED <<age, target, named, told, earlier, unsafe>>

CallStep(v) ==
    \/ VerifyValid(v) \/ VerifyInvalid(v) \/ MarkPaid(v) \/ MarkPaidSaved(v) \/ MarkPaidThrows(v)
    \/ Report(v) \/ CallbackAttempt(v)

SweepStep(s) == MarkExpired(s) \/ MarkExpiredSaved(s) \/ MarkExpiredThrows(s)

Next ==
    \/ \E i \in Invoices : CreateInvoice(i) \/ Expire(i) \/ TimerVisits(i) \/ StartupVisits(i) \/ CreationSaved(i)
    \/ \E w \in Writers : SaveWrites(w)
    \/ \E v \in Calls : VerifyStart(v) \/ CallStep(v)
    \/ \E s \in Sweeps : SweepStep(s)
    \/ Restart

Spec == Init /\ [][Next]_vars

-----------------------------------------------------------------------------
(* Properties *)

TypeOK ==
    /\ stored \in SUBSET Invoices
    /\ invoice \in [Invoices -> Invoice]
    /\ age \in [Invoices -> {"unborn", "open", "due"}]
    /\ mutex \in Seq(Workers)
    /\ phase \in [Workers -> UnderWay \cup {"idle", "refused", "failed", "reported", "past"}]
    /\ target \in [Workers -> Invoices \cup {None}]
    /\ named \in [Calls -> Txs \cup {None}]
    /\ listed \in SUBSET Invoices
    /\ attempts \in [Calls -> 0 .. Retries + 1]
    /\ write \in [Writers -> [state : {"none", "listed", "alone", "mixed"}, ids : SUBSET Invoices,
                              content : [Invoices -> Invoice]]]
    /\ onDisk \in SUBSET [Invoices -> Invoice]
    /\ told \in SUBSET Invoices
    /\ restarts \in 0 .. MaxRestarts
    /\ earlier \in [Calls -> SUBSET Calls]
    /\ unsafe \in BOOLEAN
    /\ \A v \in Calls : phase[v] # "idle" => target[v] \in Invoices /\ named[v] \in Txs
    /\ \A v \in Calls : attempts[v] > 0 => phase[v] # "idle"

(* A paid invoice is backed by a confirmed transaction that pays the       *)
(* wallet at least its amount, less the tolerance, in memory and in every  *)
(* file a restart may find.                                                *)
Backed(f) ==
    \A i \in Invoices : f[i].status = "paid" =>
        /\ f[i].txid \in PaysUs \cap Confirmable
        /\ Amount[i] - Received[f[i].txid] <= Tolerance

PaidIsBacked == \A f \in onDisk \cup {invoice} : Backed(f)

(* A payment that a call has reported is not reported again by a call that *)
(* begins later, as long as the plugin runs: only calls that overlap can   *)
(* report one invoice twice.                                               *)
NoLateReport ==
    \A v \in Calls : phase[v] = "reported" =>
        \A u \in earlier[v] : target[u] # target[v]

(* A reported payment survives a crash: no file a restart may find has the *)
(* invoice pending, unless two writes overlapped or one failed.            *)
ReportedIsDurable ==
    ~ unsafe => \A v \in Calls : phase[v] = "reported" =>
        \A f \in onDisk : f[target[v]].status # "pending"

(* While the plugin runs, a pending invoice is never evicted and a         *)
(* resolved one never changes: neither concurrent verifications nor sweeps *)
(* settle an invoice twice.                                                *)
SettledOnce ==
    [][restarts' = restarts => \A i \in stored :
          /\ invoice[i].status = "pending" => i \in stored'
          /\ invoice[i].status # "pending" => invoice'[i] = invoice[i]]_vars

(* The mutex is never lost: it holds exactly the workers that wait for it *)
(* or are inside, each once, only the first of them inside, with its       *)
(* save() under way, whatever throws in there.                             *)
MutexIsServed ==
    /\ \A j, k \in 1 .. Len(mutex) : mutex[j] = mutex[k] => j = k
    /\ \A w \in Workers : phase[w] \in {"queued", "saving"} <=> \E j \in 1 .. Len(mutex) : mutex[j] = w
    /\ \A j \in 2 .. Len(mutex) : phase[mutex[j]] = "queued"
    /\ write[Section].state # "none" <=> mutex # <<>> /\ phase[Head(mutex)] = "saving"

(* types.ts: the callback URL is there "to POST to when paid", so a payee  *)
(* that was told of a payment has a paid invoice.                          *)
CallbackMeansPaid ==
    \A i \in told : invoice[i].status # "expired"
=============================================================================
