----------------------- MODULE InvoicePaymentsProofs -----------------------
(***************************************************************************)
(* Proofs about InvoicePayments, for any number of invoices, calls and     *)
(* restarts.  The argument: only the holder of the mutex marks, and only a *)
(* pending invoice; a call that is past its mark leaves its invoice no     *)
(* longer pending, and an invoice never becomes pending a second time      *)
(* while the plugin runs.                                                  *)
(* The mutex: who waits stands in the queue once, so one worker at a time  *)
(* saves inside.  Durability: what is settled in memory is not pending on  *)
(* the disk, unless its mark is the one being saved, and a call reports    *)
(* only after that save.                                                   *)
(***************************************************************************)
EXTENDS InvoicePayments, SequenceTheorems, TLAPS

(* A transaction waits for the mutex only if it settles its invoice.       *)
Verified == \A v \in Calls : phase[v] = "queued" => Settles(named[v], target[v])

(* What is on its way to the disk is backed as well.                       *)
WritesBacked == \A w \in Writers : Backed(write[w].content)

BackingInv == Verified /\ WritesBacked /\ PaidIsBacked

(* An invoice that is nowhere yet is in no file and of no concern to a     *)
(* call or a sweep.                                                        *)
Born == {i \in Invoices : age[i] # "unborn"}

Within(f) == \A i \in Invoices \ Born : f[i] = NoInvoice

BirthInv ==
    /\ stored \subseteq Born
    /\ \A f \in onDisk : Within(f)
    /\ \A w \in Writers : write[w].ids \subseteq Born /\ Within(write[w].content)
    /\ \A v \in Calls : phase[v] # "idle" => target[v] \in Born

(* A call that is past its mark leaves its invoice settled, and each call  *)
(* under way is about another one than those that had reported before it.  *)
Settling == {"saving", "auditing", "reported"}

ReportInv ==
    \A v \in Calls :
        /\ phase[v] \in Settling => target[v] \notin Pending
        /\ phase[v] \notin {"idle", "past"} =>
              \A u \in earlier[v] : phase[u] = "reported" /\ target[u] # target[v]

-----------------------------------------------------------------------------
(* Types *)

WriteType == [state : {"none", "listed", "alone", "mixed"}, ids : SUBSET Invoices,
              content : [Invoices -> Invoice]]

Phases == UnderWay \cup {"idle", "refused", "failed", "reported", "past"}

LEMMA NoWriteType == NoWrite \in WriteType /\ Empty \in [Invoices -> Invoice]
BY DEF NoWrite, WriteType, Empty, NoInvoice, Invoice

LEMMA MutexTail ==
    ASSUME NEW S, NEW q \in Seq(S), q # <<>>
    PROVE  Tail(q) \in Seq(S) /\ Head(q) \in S
OBVIOUS

LEMMA MutexAppend ==
    ASSUME NEW S, NEW q \in Seq(S), NEW w \in S
    PROVE  Append(q, w) \in Seq(S)
OBVIOUS

LEMMA WrittenType ==
    ASSUME TypeOK, NEW w \in Writers, Written(w) \/ NotWritten(w)
    PROVE  /\ write' \in [Writers -> WriteType]
           /\ onDisk' \in SUBSET [Invoices -> Invoice]
           /\ write' = [write EXCEPT ![w] = NoWrite]
           /\ onDisk' = onDisk \/ onDisk' = {write[w].content}
<1>1. write \in [Writers -> WriteType] /\ onDisk \in SUBSET [Invoices -> Invoice]
  BY DEF TypeOK, WriteType
<1>2. write[w].content \in [Invoices -> Invoice]
  BY <1>1 DEF WriteType
<1>3. write' = [write EXCEPT ![w] = NoWrite]
  BY DEF Written, NotWritten
<1>4. onDisk' = onDisk \/ onDisk' = {write[w].content}
  BY DEF Written, NotWritten
<1> QED BY <1>1, <1>2, <1>3, <1>4, NoWriteType

LEMMA CollectType ==
    ASSUME write \in [Writers -> WriteType], NEW w \in Writers, NEW ids \in SUBSET Invoices,
           Collect(w, ids)
    PROVE  write' \in [Writers -> WriteType]
BY NoWriteType DEF Collect, WriteType

LEMMA SaveWritesType ==
    ASSUME TypeOK, NEW w \in Writers, SaveWrites(w)
    PROVE  TypeOK'
<1> DEFINE content == [i \in Invoices |-> IF i \in write[w].ids THEN invoice[i] ELSE NoInvoice]
<1>1. content \in [Invoices -> Invoice]
  BY DEF TypeOK, NoInvoice, Invoice
<1>2. write' \in [Writers -> WriteType]
  <2>1. \A x \in Writers : write[x] \in WriteType
    BY DEF TypeOK, WriteType
  <2>2. \A x \in Writers : [write[x] EXCEPT !.state = "mixed"] \in WriteType
    BY <2>1 DEF WriteType
  <2>3. [state |-> IF Writing = {} THEN "alone" ELSE "mixed", ids |-> {}, content |-> content] \in WriteType
    BY <1>1 DEF WriteType
  <2> QED BY <2>1, <2>2, <2>3 DEF SaveWrites
<1>3. onDisk' \in SUBSET [Invoices -> Invoice]
  BY <1>1, NoWriteType DEF SaveWrites, TypeOK
<1>4. unsafe' \in BOOLEAN
  BY DEF SaveWrites, TypeOK
<1> QED BY <1>2, <1>3, <1>4 DEF SaveWrites, TypeOK, WriteType, store, workers

LEMMA MarkType ==
    ASSUME TypeOK, NEW w \in Workers, NEW marked \in Invoice, NEW next \in Phases, w \in Calls => next # "idle",
           Mark(w, marked, next)
    PROVE  TypeOK'
<1>1. phase' \in [Workers -> Phases]
  BY DEF Mark, TypeOK, Phases, UnderWay
<1>2. mutex' \in Seq(Workers)
  <2>1. mutex \in Seq(Workers) /\ mutex # <<>>
    BY DEF Mark, TypeOK
  <2>2. Tail(mutex) \in Seq(Workers)
    BY <2>1, MutexTail
  <2>3. mutex' = Tail(mutex) \/ mutex' = mutex
    BY DEF Mark
  <2> QED BY <2>1, <2>2, <2>3
<1>3. invoice' \in [Invoices -> Invoice]
  BY DEF Mark, TypeOK, Pending
<1>4. write' \in [Writers -> WriteType]
  BY CollectType DEF Mark, TypeOK, WriteType, Writers
<1>5. \A v \in Calls : phase'[v] = "idle" <=> phase[v] = "idle"
  BY DEF Mark, TypeOK, Workers
<1> QED BY <1>1, <1>2, <1>3, <1>4, <1>5 DEF Mark, TypeOK, Phases, WriteType, history

LEMMA SectionType ==
    ASSUME TypeOK, NEW w \in Workers, NEW next \in Phases, w \in Calls => next # "idle", listed' \in SUBSET Invoices,
           SectionSaved(w, next) \/ SectionFails(w, next)
    PROVE  TypeOK'
<1>1. Leave(w, next) /\ (Written(Section) \/ NotWritten(Section)) /\ unsafe' \in BOOLEAN
  BY DEF SectionSaved, SectionFails, TypeOK
<1>2. Section \in Writers
  BY DEF Writers
<1>3. write' \in [Writers -> WriteType] /\ onDisk' \in SUBSET [Invoices -> Invoice]
  BY <1>1, <1>2, WrittenType
<1>4. phase' \in [Workers -> Phases]
  BY <1>1 DEF Leave, TypeOK, Phases
<1>5. mutex' \in Seq(Workers)
  BY <1>1, MutexTail DEF Leave, TypeOK
<1>6. \A v \in Calls : phase'[v] = "idle" <=> phase[v] = "idle"
  BY <1>1 DEF Leave, TypeOK, Workers
<1> QED BY <1>1, <1>3, <1>4, <1>5, <1>6 DEF Leave, TypeOK, Phases, WriteType, store

LEMMA QueueType ==
    ASSUME TypeOK, NEW w \in Workers, mutex' = Append(mutex, w)
    PROVE  mutex' \in Seq(Workers)
BY MutexAppend DEF TypeOK

LEMMA CallType ==
    ASSUME TypeOK, NEW v \in Calls, VerifyStart(v) \/ CallStep(v)
    PROVE  TypeOK'
<1> USE DEF Workers
<1>1. CASE VerifyStart(v)
  BY <1>1 DEF VerifyStart, TypeOK, store, disk, Pending, UnderWay
<1>2. CASE VerifyValid(v)
  <2>1. mutex' \in Seq(Workers)
    BY <1>2, QueueType DEF VerifyValid
  <2> QED BY <1>2, <2>1 DEF VerifyValid, TypeOK, store, disk, history, UnderWay
<1>3. CASE VerifyInvalid(v)
  BY <1>3 DEF VerifyInvalid, TypeOK, store, disk, history, UnderWay
<1>4. CASE MarkPaid(v)
  <2>1. [status |-> "paid", txid |-> named[v]] \in Invoice
    BY DEF TypeOK, Invoice
  <2> QED BY <1>4, <2>1, MarkType DEF MarkPaid, Phases, UnderWay
<1>5. CASE MarkPaidSaved(v) \/ MarkPaidThrows(v)
  <2>1. listed' \in SUBSET Invoices
    BY <1>5 DEF MarkPaidSaved, MarkPaidThrows, TypeOK
  <2> QED BY <1>5, <2>1, SectionType DEF MarkPaidSaved, MarkPaidThrows, Phases, UnderWay
<1>6. CASE Report(v)
  BY <1>6, InvoiceAssumption DEF Report, TypeOK, store, disk, history, UnderWay
<1>7. CASE CallbackAttempt(v)
  <2>1. target[v] \in Invoices
    BY <1>7 DEF CallbackAttempt, TypeOK
  <2>2. \A n \in 0 .. Retries + 1 : n > 0 => {0, n - 1} \subseteq 0 .. Retries + 1
    BY InvoiceAssumption
  <2>3. \E n \in {0, attempts[v] - 1} : attempts' = [attempts EXCEPT ![v] = n]
    BY <1>7 DEF CallbackAttempt, TypeOK
  <2>4. attempts[v] > 0 /\ attempts \in [Calls -> 0 .. Retries + 1]
    BY <1>7 DEF CallbackAttempt, TypeOK
  <2>5. attempts' \in [Calls -> 0 .. Retries + 1] /\ \A u \in Calls : attempts'[u] > 0 => attempts[u] > 0
    BY <2>2, <2>3, <2>4
  <2>6. told' \in SUBSET Invoices
    BY <1>7, <2>1 DEF CallbackAttempt, TypeOK
  <2> QED BY <1>7, <2>5, <2>6 DEF CallbackAttempt, TypeOK, store, disk, history, workers
<1> QED BY <1>1, <1>2, <1>3, <1>4, <1>5, <1>6, <1>7 DEF CallStep

LEMMA EvictionsSpare ==
    ASSUME NEW evicted \in Evictions
    PROVE  evicted \subseteq Resolved
BY DEF Evictions

LEMMA InvoiceType ==
    ASSUME TypeOK, NEW i \in Invoices,
           CreateInvoice(i) \/ Expire(i) \/ TimerVisits(i) \/ StartupVisits(i) \/ CreationSaved(i)
    PROVE  TypeOK'
<1> USE DEF Workers
<1>1. CASE CreateInvoice(i)
  <2>1. stored' \in SUBSET Invoices
    BY <1>1 DEF CreateInvoice, TypeOK
  <2>2. write' \in [Writers -> WriteType]
    BY <1>1, <2>1, CollectType DEF CreateInvoice, TypeOK, WriteType, Writers
  <2>3. invoice' \in [Invoices -> Invoice]
    BY <1>1 DEF CreateInvoice, TypeOK, Invoice
  <2> QED BY <1>1, <2>1, <2>2, <2>3 DEF CreateInvoice, TypeOK, WriteType, workers, history
<1>2. CASE Expire(i)
  BY <1>2 DEF Expire, TypeOK, store, workers, disk, history
<1>3. ASSUME NEW s \in Sweeps, SweepMark(s, i), listed' \in SUBSET Invoices PROVE TypeOK'
  <2>1. mutex' \in Seq(Workers)
    BY <1>3, QueueType DEF SweepMark
  <2>2. /\ phase' \in [Workers -> Phases]
        /\ target' \in [Workers -> Invoices \cup {None}]
        /\ \A v \in Calls : phase'[v] = phase[v] /\ target'[v] = target[v]
    BY <1>3, InvoiceAssumption DEF SweepMark, TypeOK, Phases, UnderWay
  <2> QED BY <1>3, <2>1, <2>2 DEF SweepMark, TypeOK, Phases, store, disk, history
<1>4. CASE TimerVisits(i) \/ StartupVisits(i)
  BY <1>3, <1>4 DEF TimerVisits, StartupVisits, Sweeps, TypeOK
<1>5. CASE CreationSaved(i)
  <2>1. write' \in [Writers -> WriteType] /\ onDisk' \in SUBSET [Invoices -> Invoice]
    BY <1>5, WrittenType DEF CreationSaved, Writers
  <2> QED BY <1>5, <2>1 DEF CreationSaved, TypeOK, WriteType, store, workers, history
<1> QED BY <1>1, <1>2, <1>4, <1>5

LEMMA RestartType ==
    ASSUME TypeOK, Restart
    PROVE  TypeOK'
<1>1. restarts' \in 0 .. MaxRestarts
  BY InvoiceAssumption DEF Restart, TypeOK
<1>2. invoice' \in [Invoices -> Invoice] /\ onDisk' \in SUBSET [Invoices -> Invoice] /\ stored' \in SUBSET Invoices
  BY DEF Restart, TypeOK
<1>3. write' \in [Writers -> WriteType]
  BY NoWriteType DEF Restart
<1>4. phase' \in [Workers -> Phases] /\ \A v \in Calls : phase'[v] = "idle" <=> phase[v] = "idle"
  BY DEF Restart, TypeOK, Phases, Workers
<1>5. attempts' \in [Calls -> 0 .. Retries + 1] /\ \A v \in Calls : ~ attempts'[v] > 0
  BY InvoiceAssumption DEF Restart
<1>6. mutex' \in Seq(Workers) /\ listed' \in SUBSET Invoices
  BY <1>2 DEF Restart
<1> QED BY <1>1, <1>2, <1>3, <1>4, <1>5, <1>6 DEF Restart, TypeOK, Phases, WriteType

LEMMA TypeInit == Init => TypeOK
<1> SUFFICES ASSUME Init PROVE TypeOK
  OBVIOUS
<1>1. write \in [Writers -> WriteType] /\ onDisk \in SUBSET [Invoices -> Invoice] /\ invoice \in [Invoices -> Invoice]
  BY NoWriteType DEF Init
<1>2. attempts \in [Calls -> 0 .. Retries + 1] /\ restarts \in 0 .. MaxRestarts
  BY InvoiceAssumption DEF Init
<1>3. mutex \in Seq(Workers)
  BY DEF Init
<1>4. \A v \in Calls : phase[v] = "idle" /\ ~ attempts[v] > 0
  BY DEF Init, Workers
<1>5. phase \in [Workers -> Phases] /\ target \in [Workers -> Invoices \cup {None}]
  BY DEF Init, Phases
<1> QED BY <1>1, <1>2, <1>3, <1>4, <1>5 DEF Init, TypeOK, WriteType, Phases

LEMMA TypeStep == TypeOK /\ [Next]_vars => TypeOK'
<1> SUFFICES ASSUME TypeOK, [Next]_vars PROVE TypeOK'
  OBVIOUS
<1>1. CASE \E i \in Invoices : CreateInvoice(i) \/ Expire(i) \/ TimerVisits(i) \/ StartupVisits(i) \/ CreationSaved(i)
  BY <1>1, InvoiceType
<1>2. CASE \E w \in Writers : SaveWrites(w)
  BY <1>2, SaveWritesType
<1>3. CASE \E v \in Calls : VerifyStart(v) \/ CallStep(v)
  BY <1>3, CallType
<1>4. ASSUME NEW s \in Sweeps, SweepStep(s) PROVE TypeOK'
  <2>1. s \in Workers /\ s \notin Calls
    BY InvoiceAssumption DEF Workers
  <2>2. CASE MarkExpired(s)
    <3>1. [status |-> "expired", txid |-> None] \in Invoice
      BY DEF Invoice
    <3> QED BY <2>1, <2>2, <3>1, MarkType DEF MarkExpired, Phases
  <2>3. CASE MarkExpiredSaved(s) \/ MarkExpiredThrows(s)
    <3>1. listed' \in SUBSET Invoices
      BY <2>3 DEF MarkExpiredSaved, MarkExpiredThrows, TypeOK
    <3> QED BY <2>1, <2>3, <3>1, SectionType DEF MarkExpiredSaved, MarkExpiredThrows, Phases
  <2> QED BY <1>4, <2>2, <2>3 DEF SweepStep
<1>5. CASE Restart
  BY <1>5, RestartType
<1>6. CASE UNCHANGED vars
  BY <1>6 DEF vars, TypeOK, store, workers, disk, history
<1> QED BY <1>1, <1>2, <1>3, <1>4, <1>5, <1>6 DEF Next

(* Types hold in every reachable state.                                    *)
THEOREM TypeCorrect == Spec => []TypeOK
BY TypeInit, TypeStep, PTL DEF Spec

LEMMA SweepMarkSparesCalls ==
    ASSUME TypeOK, NEW i, TimerVisits(i) \/ StartupVisits(i)
    PROVE  \A v \in Calls : phase'[v] = phase[v] /\ target'[v] = target[v] /\ named'[v] = named[v]
<1>1. PICK s \in Sweeps : SweepMark(s, i)
  BY DEF TimerVisits, StartupVisits, Sweeps
<1>2. s \notin Calls
  BY InvoiceAssumption
<1> QED BY <1>1, <1>2 DEF SweepMark, TypeOK, Workers

-----------------------------------------------------------------------------
(* Backing *)

LEMMA SettlesBacks ==
    ASSUME NEW i \in Invoices, NEW t \in Txs, Settles(t, i)
    PROVE  t \in PaysUs \cap Confirmable /\ Amount[i] - Received[t] <= Tolerance
<1>1. Amount[i] \in Nat /\ Received[t] \in Nat /\ Tolerance \in Nat
  BY InvoiceAssumption
<1> QED BY <1>1 DEF Settles

LEMMA NothingBacked == Backed(Empty) /\ Backed(NoWrite.content)
BY DEF Backed, Empty, NoWrite, NoInvoice

(* A marked invoice stays backed.                                          *)
LEMMA MarkBacked ==
    ASSUME TypeOK, BackingInv, NEW w \in Workers, NEW marked \in Invoice, NEW next,
           Mark(w, marked, next), next # "queued",
           marked.status = "paid" => w \in Calls /\ marked.txid = named[w]
    PROVE  BackingInv'
<1>1. Backed(invoice')
  <2> SUFFICES ASSUME NEW i \in Invoices, invoice'[i].status = "paid"
               PROVE  /\ invoice'[i].txid \in PaysUs \cap Confirmable
                      /\ Amount[i] - Received[invoice'[i].txid] <= Tolerance
    BY DEF Backed
  <2>1. CASE invoice'[i] = invoice[i]
    BY <2>1 DEF BackingInv, PaidIsBacked, Backed
  <2>2. CASE invoice'[i] # invoice[i]
    <3>1. i = target[w] /\ invoice'[i] = marked /\ phase[w] = "queued"
      BY <2>2 DEF Mark, TypeOK, Pending
    <3>2. w \in Calls /\ named[w] \in Txs /\ Settles(named[w], i)
      BY <3>1 DEF BackingInv, Verified, TypeOK
    <3> QED BY <3>1, <3>2, SettlesBacks
  <2> QED BY <2>1, <2>2
<1>2. WritesBacked'
  <2>1. CASE write' = write
    BY <2>1 DEF BackingInv, WritesBacked
  <2>2. CASE Collect(Section, stored)
    BY <2>2, NothingBacked DEF Collect, BackingInv, WritesBacked, TypeOK, Writers
  <2> QED BY <2>1, <2>2 DEF Mark
<1>3. Verified'
  <2>1. \A v \in Calls : phase'[v] = "queued" => phase[v] = "queued"
    BY DEF Mark, TypeOK, Workers
  <2> QED BY <2>1 DEF Mark, BackingInv, Verified
<1>4. \A f \in onDisk' : Backed(f)
  BY DEF Mark, BackingInv, PaidIsBacked
<1> QED BY <1>1, <1>2, <1>3, <1>4 DEF BackingInv, PaidIsBacked

(* The end of a write keeps everything backed.                             *)
LEMMA WrittenBacked ==
    ASSUME TypeOK, BackingInv, NEW w \in Writers, Written(w) \/ NotWritten(w), UNCHANGED invoice
    PROVE  WritesBacked' /\ PaidIsBacked'
<1>1. write' = [write EXCEPT ![w] = NoWrite] /\ (onDisk' = onDisk \/ onDisk' = {write[w].content})
  BY WrittenType
<1>2. WritesBacked'
  BY <1>1, NothingBacked DEF BackingInv, WritesBacked, TypeOK
<1> QED BY <1>1, <1>2 DEF BackingInv, WritesBacked, PaidIsBacked

LEMMA SectionBacked ==
    ASSUME TypeOK, BackingInv, NEW w \in Workers, NEW next, next # "queued",
           SectionSaved(w, next) \/ SectionFails(w, next)
    PROVE  BackingInv'
<1>1. Leave(w, next) /\ (Written(Section) \/ NotWritten(Section))
  BY DEF SectionSaved, SectionFails
<1>2. WritesBacked' /\ PaidIsBacked'
  BY <1>1, WrittenBacked DEF Leave, Writers, store
<1>3. Verified'
  BY <1>1 DEF Leave, BackingInv, Verified, TypeOK
<1> QED BY <1>2, <1>3 DEF BackingInv

LEMMA BackingCall ==
    ASSUME TypeOK, BackingInv, NEW v \in Calls, VerifyStart(v) \/ CallStep(v)
    PROVE  BackingInv'
<1> USE DEF Workers
<1>1. CASE VerifyStart(v) \/ VerifyValid(v) \/ VerifyInvalid(v) \/ Report(v) \/ CallbackAttempt(v)
  <2>1. UNCHANGED <<invoice, write, onDisk>>
    BY <1>1 DEF VerifyStart, VerifyValid, VerifyInvalid, Report, CallbackAttempt, store, disk
  <2>2. Verified'
    BY <1>1 DEF VerifyStart, VerifyValid, VerifyInvalid, Report, CallbackAttempt, workers, BackingInv, Verified, TypeOK
  <2> QED BY <2>1, <2>2 DEF BackingInv, WritesBacked, PaidIsBacked
<1>2. CASE MarkPaid(v)
  <2>1. [status |-> "paid", txid |-> named[v]] \in Invoice
    BY DEF TypeOK, Invoice
  <2> QED BY <1>2, <2>1, MarkBacked DEF MarkPaid
<1>3. CASE MarkPaidSaved(v) \/ MarkPaidThrows(v)
  BY <1>3, SectionBacked DEF MarkPaidSaved, MarkPaidThrows
<1> QED BY <1>1, <1>2, <1>3 DEF CallStep

LEMMA BackingStep == TypeOK /\ BackingInv /\ [Next]_vars => BackingInv'
<1> SUFFICES ASSUME TypeOK, BackingInv, [Next]_vars PROVE BackingInv'
  OBVIOUS
<1>1. ASSUME NEW i \in Invoices, CreateInvoice(i) PROVE BackingInv'
  <2>1. Backed(invoice')
    BY <1>1 DEF CreateInvoice, BackingInv, PaidIsBacked, Backed, TypeOK
  <2>2. WritesBacked'
    BY <1>1, NothingBacked DEF CreateInvoice, Collect, BackingInv, WritesBacked, TypeOK, NoWrite, Writers
  <2> QED BY <1>1, <2>1, <2>2 DEF CreateInvoice, BackingInv, PaidIsBacked, Verified, workers
<1>2. ASSUME NEW i \in Invoices, Expire(i) \/ TimerVisits(i) \/ StartupVisits(i) PROVE BackingInv'
  <2>1. \A v \in Calls : phase'[v] = phase[v] /\ target'[v] = target[v] /\ named'[v] = named[v]
    BY <1>2, SweepMarkSparesCalls DEF Expire, workers
  <2>2. UNCHANGED <<invoice, write, onDisk>>
    BY <1>2 DEF Expire, TimerVisits, StartupVisits, SweepMark, store, disk
  <2> QED BY <2>1, <2>2 DEF BackingInv, Verified, WritesBacked, PaidIsBacked
<1>3. ASSUME NEW i \in Invoices, CreationSaved(i) PROVE BackingInv'
  <2>1. WritesBacked' /\ PaidIsBacked'
    BY <1>3, WrittenBacked DEF CreationSaved, Writers, store
  <2> QED BY <1>3, <2>1 DEF CreationSaved, BackingInv, Verified, workers
<1>4. ASSUME NEW w \in Writers, SaveWrites(w) PROVE BackingInv'
  <2> DEFINE content == [i \in Invoices |-> IF i \in write[w].ids THEN invoice[i] ELSE NoInvoice]
  <2>1. Backed(content)
    BY DEF BackingInv, PaidIsBacked, Backed, NoInvoice
  <2>2. WritesBacked'
    <3> SUFFICES ASSUME NEW x \in Writers PROVE Backed(write'[x].content)
      BY DEF WritesBacked
    <3>1. write'[x].content = content \/ write'[x].content = write[x].content
      BY <1>4 DEF SaveWrites, TypeOK
    <3> QED BY <2>1, <3>1 DEF BackingInv, WritesBacked
  <2>3. PaidIsBacked'
    BY <1>4, <2>1, NothingBacked DEF SaveWrites, BackingInv, PaidIsBacked, store
  <2> QED BY <1>4, <2>2, <2>3 DEF SaveWrites, BackingInv, Verified, workers
<1>5. ASSUME NEW v \in Calls, VerifyStart(v) \/ CallStep(v) PROVE BackingInv'
  BY <1>5, BackingCall
<1>6. ASSUME NEW s \in Sweeps, SweepStep(s) PROVE BackingInv'
  <2>1. s \in Workers
    BY DEF Workers
  <2>2. CASE MarkExpired(s)
    <3>1. [status |-> "expired", txid |-> None] \in Invoice
      BY DEF Invoice
    <3> QED BY <2>1, <2>2, <3>1, MarkBacked DEF MarkExpired
  <2>3. CASE MarkExpiredSaved(s) \/ MarkExpiredThrows(s)
    BY <2>1, <2>3, SectionBacked DEF MarkExpiredSaved, MarkExpiredThrows
  <2> QED BY <1>6, <2>2, <2>3 DEF SweepStep
<1>7. CASE Restart
  <2>1. \A v \in Calls : phase'[v] # "queued"
    BY <1>7 DEF Restart, Workers
  <2>2. WritesBacked'
    BY <1>7, NothingBacked DEF Restart, WritesBacked
  <2>3. PaidIsBacked'
    BY <1>7 DEF Restart, BackingInv, PaidIsBacked
  <2> QED BY <2>1, <2>2, <2>3 DEF BackingInv, Verified
<1>8. CASE UNCHANGED vars
  BY <1>8 DEF vars, store, workers, disk, BackingInv, Verified, WritesBacked, PaidIsBacked
<1> QED BY <1>1, <1>2, <1>3, <1>4, <1>5, <1>6, <1>7, <1>8 DEF Next

(* A paid invoice is backed by a payment, in memory and on the disk.       *)
THEOREM PaidIsBackedHolds == Spec => []PaidIsBacked
<1>1. Init => BackingInv
  BY NothingBacked DEF Init, BackingInv, Verified, WritesBacked, PaidIsBacked, Workers
<1>2. BackingInv => PaidIsBacked
  BY DEF BackingInv
<1> QED BY <1>1, <1>2, TypeCorrect, BackingStep, PTL DEF Spec

-----------------------------------------------------------------------------
(* Birth *)

LEMMA NothingWithin == Within(Empty) /\ Within(NoWrite.content) /\ NoWrite.ids = {}
BY DEF Within, Empty, NoWrite

(* What a step that creates nothing and writes nothing leaves.             *)
LEMMA BirthKept ==
    ASSUME BirthInv, Born \subseteq Born', stored' \subseteq Born', UNCHANGED <<write, onDisk>>,
           \A v \in Calls : phase'[v] # "idle" => phase[v] # "idle" /\ target'[v] = target[v]
    PROVE  BirthInv'
BY DEF BirthInv, Within

LEMMA BirthWritten ==
    ASSUME TypeOK, BirthInv, NEW w \in Writers, Written(w) \/ NotWritten(w), UNCHANGED <<stored, age>>,
           \A v \in Calls : phase'[v] # "idle" => phase[v] # "idle" /\ target'[v] = target[v]
    PROVE  BirthInv'
<1>1. write' = [write EXCEPT ![w] = NoWrite] /\ (onDisk' = onDisk \/ onDisk' = {write[w].content})
  BY WrittenType
<1>2. Born' = Born
  BY DEF Born
<1>3. \A x \in Writers : write'[x] = write[x] \/ write'[x] = NoWrite
  BY <1>1 DEF TypeOK
<1> QED BY <1>1, <1>2, <1>3, NothingWithin DEF BirthInv, Within

LEMMA BirthCollect ==
    ASSUME TypeOK, BirthInv, NEW w \in Writers, Collect(w, stored'), stored' \subseteq Born',
           Born \subseteq Born', UNCHANGED onDisk,
           \A v \in Calls : phase'[v] # "idle" => phase[v] # "idle" /\ target'[v] = target[v]
    PROVE  BirthInv'
<1>1. \A x \in Writers : write'[x] = write[x] \/ (write'[x].ids = stored' /\ write'[x].content = Empty)
  BY DEF Collect, TypeOK
<1> QED BY <1>1, NothingWithin DEF BirthInv, Within

LEMMA BirthMark ==
    ASSUME TypeOK, BirthInv, NEW w \in Workers, NEW marked, NEW next, w \in Calls => next # "idle",
           Mark(w, marked, next)
    PROVE  BirthInv'
<1>1. \A v \in Calls : phase'[v] # "idle" => phase[v] # "idle" /\ target'[v] = target[v]
  BY DEF Mark, TypeOK, Workers
<1>2. Born' = Born /\ stored' = stored /\ stored' \subseteq Born'
  BY DEF Mark, Born, BirthInv
<1>3. CASE Collect(Section, stored)
  BY <1>1, <1>2, <1>3, BirthCollect DEF Mark, Writers
<1>4. CASE UNCHANGED write
  BY <1>1, <1>2, <1>4, BirthKept DEF Mark
<1> QED BY <1>3, <1>4 DEF Mark

LEMMA BirthSection ==
    ASSUME TypeOK, BirthInv, NEW w \in Workers, NEW next, w \in Calls => next # "idle",
           SectionSaved(w, next) \/ SectionFails(w, next)
    PROVE  BirthInv'
<1>1. Leave(w, next) /\ (Written(Section) \/ NotWritten(Section))
  BY DEF SectionSaved, SectionFails
<1>2. \A v \in Calls : phase'[v] # "idle" => phase[v] # "idle" /\ target'[v] = target[v]
  BY <1>1 DEF Leave, TypeOK, Workers
<1> QED BY <1>1, <1>2, BirthWritten DEF Leave, Writers, store

LEMMA BirthStep == TypeOK /\ BirthInv /\ [Next]_vars => BirthInv'
<1> SUFFICES ASSUME TypeOK, BirthInv, [Next]_vars PROVE BirthInv'
  OBVIOUS
<1>1. ASSUME NEW i \in Invoices, CreateInvoice(i) PROVE BirthInv'
  <2>1. Born' = Born \cup {i}
    BY <1>1 DEF CreateInvoice, Born, TypeOK
  <2>2. stored' \subseteq Born'
    BY <1>1, <2>1 DEF CreateInvoice, BirthInv
  <2> QED BY <1>1, <2>1, <2>2, BirthCollect DEF CreateInvoice, Writers, workers
<1>2. ASSUME NEW i \in Invoices, Expire(i) \/ TimerVisits(i) \/ StartupVisits(i) PROVE BirthInv'
  <2>1. \A v \in Calls : phase'[v] = phase[v] /\ target'[v] = target[v]
    BY <1>2, SweepMarkSparesCalls DEF Expire, workers
  <2>2. Born' = Born /\ UNCHANGED <<stored, write, onDisk>>
    BY <1>2 DEF Expire, TimerVisits, StartupVisits, SweepMark, Born, store, disk, TypeOK
  <2> QED BY <2>1, <2>2, BirthKept DEF BirthInv
<1>3. ASSUME NEW i \in Invoices, CreationSaved(i) PROVE BirthInv'
  BY <1>3, BirthWritten DEF CreationSaved, Writers, store, workers
<1>4. ASSUME NEW w \in Writers, SaveWrites(w) PROVE BirthInv'
  <2> DEFINE content == [i \in Invoices |-> IF i \in write[w].ids THEN invoice[i] ELSE NoInvoice]
  <2>1. Within(content) /\ Born' = Born
    BY <1>4 DEF SaveWrites, BirthInv, Within, Born
  <2>2. \A x \in Writers : /\ write'[x].ids = {} \/ write'[x].ids = write[x].ids
                           /\ write'[x].content = content \/ write'[x].content = write[x].content
    BY <1>4 DEF SaveWrites, TypeOK
  <2>3. onDisk' = onDisk \cup {content, Empty}
    BY <1>4 DEF SaveWrites
  <2> QED BY <1>4, <2>1, <2>2, <2>3, NothingWithin DEF SaveWrites, BirthInv, Within, store, workers
<1>5. ASSUME NEW v \in Calls, VerifyStart(v) \/ CallStep(v) PROVE BirthInv'
  <2> USE DEF Workers
  <2>1. CASE VerifyStart(v)
    <3>1. \A u \in Calls : phase'[u] # "idle" => target'[u] \in Born
      BY <1>5, <2>1 DEF VerifyStart, BirthInv, TypeOK, Pending
    <3>2. Born' = Born
      BY <2>1 DEF VerifyStart, Born
    <3> QED BY <2>1, <3>1, <3>2 DEF VerifyStart, BirthInv, Within, store, disk
  <2>2. CASE VerifyValid(v) \/ VerifyInvalid(v) \/ Report(v) \/ CallbackAttempt(v)
    <3>1. /\ UNCHANGED <<stored, write, onDisk>> /\ Born' = Born
          /\ \A u \in Calls : phase'[u] # "idle" => phase[u] # "idle" /\ target'[u] = target[u]
      BY <2>2 DEF VerifyValid, VerifyInvalid, Report, CallbackAttempt, store, disk, workers, Born, TypeOK
    <3> QED BY <3>1, BirthKept DEF BirthInv
  <2>3. CASE MarkPaid(v)
    BY <2>3, BirthMark DEF MarkPaid
  <2>4. CASE MarkPaidSaved(v) \/ MarkPaidThrows(v)
    BY <2>4, BirthSection DEF MarkPaidSaved, MarkPaidThrows
  <2> QED BY <1>5, <2>1, <2>2, <2>3, <2>4 DEF CallStep
<1>6. ASSUME NEW s \in Sweeps, SweepStep(s) PROVE BirthInv'
  <2>1. s \in Workers /\ s \notin Calls
    BY InvoiceAssumption DEF Workers
  <2> QED BY <1>6, <2>1, BirthMark, BirthSection DEF SweepStep, MarkExpired, MarkExpiredSaved, MarkExpiredThrows
<1>7. CASE Restart
  <2>1. Born' = Born
    BY <1>7 DEF Restart, Born
  <2>2. \A f \in onDisk : {i \in Invoices : f[i].status # "absent"} \subseteq Born
    BY DEF BirthInv, Within, NoInvoice
  <2>3. stored' \subseteq Born /\ onDisk' \subseteq onDisk
    BY <1>7, <2>2 DEF Restart
  <2>4. \A v \in Calls : phase'[v] # "idle" => phase[v] # "idle" /\ target'[v] = target[v]
    BY <1>7 DEF Restart, Workers
  <2>5. \A w \in Writers : write'[w] = NoWrite
    BY <1>7 DEF Restart
  <2> QED BY <2>1, <2>3, <2>4, <2>5, NothingWithin DEF BirthInv, Within
<1>8. CASE UNCHANGED vars
  BY <1>8 DEF vars, store, workers, disk, BirthInv, Within, Born
<1> QED BY <1>1, <1>2, <1>3, <1>4, <1>5, <1>6, <1>7, <1>8 DEF Next

LEMMA BirthInit == Init => BirthInv
BY NothingWithin DEF Init, BirthInv, Within, Born, Empty, NoWrite, Workers

-----------------------------------------------------------------------------
(* An invoice settles once *)

LEMMA SettlesOnceStep ==
    ASSUME TypeOK, BirthInv, Next, UNCHANGED restarts, NEW i \in stored
    PROVE  /\ invoice[i].status = "pending" => i \in stored'
           /\ invoice[i].status # "pending" => invoice'[i] = invoice[i]
<1>1. CASE \E j \in Invoices : CreateInvoice(j)
  <2>1. PICK j \in Invoices : CreateInvoice(j)
    BY <1>1
  <2>2. i # j
    BY <2>1 DEF CreateInvoice, BirthInv, Born
  <2>3. invoice'[i] = invoice[i]
    BY <2>1, <2>2 DEF CreateInvoice, TypeOK
  <2>4. invoice[i].status = "pending" => i \in stored'
    BY <2>1, EvictionsSpare DEF CreateInvoice, Resolved, Pending
  <2> QED BY <2>3, <2>4
<1>2. ASSUME NEW w, NEW marked, NEW next, Mark(w, marked, next) PROVE
        /\ stored' = stored
        /\ invoice[i].status # "pending" => invoice'[i] = invoice[i]
  BY <1>2 DEF Mark, Pending, TypeOK
<1>3. ASSUME NEW w, NEW next, SectionSaved(w, next) \/ SectionFails(w, next) PROVE UNCHANGED store
  BY <1>3 DEF SectionSaved, SectionFails, Leave
<1>4. CASE \E j \in Invoices : Expire(j) \/ TimerVisits(j) \/ StartupVisits(j) \/ CreationSaved(j)
  BY <1>4 DEF Expire, TimerVisits, StartupVisits, CreationSaved, SweepMark, store
<1>5. CASE \E w \in Writers : SaveWrites(w)
  BY <1>5 DEF SaveWrites, store
<1>6. CASE \E v \in Calls : VerifyStart(v) \/ CallStep(v)
  BY <1>2, <1>3, <1>6 DEF VerifyStart, CallStep, VerifyValid, VerifyInvalid, MarkPaid, MarkPaidSaved,
      MarkPaidThrows, Report, CallbackAttempt, store
<1>7. CASE \E s \in Sweeps : SweepStep(s)
  BY <1>2, <1>3, <1>7 DEF SweepStep, MarkExpired, MarkExpiredSaved, MarkExpiredThrows, store
<1>8. ~ Restart
  BY InvoiceAssumption DEF Restart, TypeOK
<1> QED BY <1>1, <1>4, <1>5, <1>6, <1>7, <1>8 DEF Next

(* An invoice settles once, however verifications and sweeps meet.         *)
THEOREM SettlesOnce == Spec => SettledOnce
<1>1. TypeOK /\ BirthInv /\ [Next]_vars =>
        [restarts' = restarts => \A i \in stored :
            /\ invoice[i].status = "pending" => i \in stored'
            /\ invoice[i].status # "pending" => invoice'[i] = invoice[i]]_vars
  BY SettlesOnceStep
<1> QED BY <1>1, TypeCorrect, BirthInit, BirthStep, PTL DEF Spec, SettledOnce

-----------------------------------------------------------------------------
(* No late report *)

(* While the plugin runs, no invoice becomes pending again.                *)
LEMMA PendingOnce ==
    ASSUME TypeOK, BirthInv, Next, ~ Restart
    PROVE  Pending' \cap Born \subseteq Pending
<1>1. ASSUME NEW j \in Invoices, CreateInvoice(j) PROVE Pending' \cap Born \subseteq Pending
  <2>1. j \notin Born /\ stored' \subseteq stored \cup {j}
    BY <1>1 DEF CreateInvoice, Born
  <2>2. \A i \in Invoices \ {j} : invoice'[i] = invoice[i]
    BY <1>1 DEF CreateInvoice, TypeOK
  <2> QED BY <2>1, <2>2 DEF Pending, TypeOK
<1>2. ASSUME NEW w, NEW marked, marked.status # "pending", NEW next, Mark(w, marked, next)
      PROVE  Pending' \subseteq Pending
  <2>1. \A i \in Invoices : invoice'[i] = invoice[i] \/ invoice'[i] = marked
    BY <1>2 DEF Mark, TypeOK
  <2> QED BY <1>2, <2>1 DEF Mark, Pending, TypeOK
<1>3. ASSUME NEW w, NEW next, SectionSaved(w, next) \/ SectionFails(w, next) PROVE UNCHANGED store
  BY <1>3 DEF SectionSaved, SectionFails, Leave
<1>4. CASE \E j \in Invoices : Expire(j) \/ TimerVisits(j) \/ StartupVisits(j) \/ CreationSaved(j)
  BY <1>4 DEF Expire, TimerVisits, StartupVisits, CreationSaved, SweepMark, store, Pending
<1>5. CASE \E w \in Writers : SaveWrites(w)
  BY <1>5 DEF SaveWrites, store, Pending
<1>6. CASE \E v \in Calls : VerifyStart(v) \/ CallStep(v)
  BY <1>2, <1>3, <1>6 DEF VerifyStart, CallStep, VerifyValid, VerifyInvalid, MarkPaid, MarkPaidSaved,
      MarkPaidThrows, Report, CallbackAttempt, store, Pending
<1>7. CASE \E s \in Sweeps : SweepStep(s)
  BY <1>2, <1>3, <1>7 DEF SweepStep, MarkExpired, MarkExpiredSaved, MarkExpiredThrows, store, Pending
<1> QED BY <1>1, <1>4, <1>5, <1>6, <1>7 DEF Next

(* A call that may mark its invoice leaves it settled.                     *)
LEMMA MarkPaidSettles ==
    ASSUME TypeOK, NEW v \in Calls, MarkPaid(v)
    PROVE  target[v] \notin Pending'
<1>1. target[v] \in Invoices
  BY DEF MarkPaid, Mark, TypeOK
<1> QED BY <1>1 DEF MarkPaid, Mark, Pending, TypeOK

(* What a step other than the start of a call does to the calls.           *)
CallMoves ==
    \A v \in Calls :
        /\ target'[v] = target[v] /\ earlier'[v] = earlier[v]
        /\ phase[v] = "reported" => phase'[v] = "reported"
        /\ phase'[v] \notin {"idle", "past"} => phase[v] \notin {"idle", "past"}
        /\ phase'[v] \in Settling => phase[v] \in Settling \/ MarkPaid(v)

LEMMA SectionMoves ==
    ASSUME TypeOK, NEW w \in Workers, NEW next \in {"auditing", "failed", "idle"}, w \in Calls => next # "idle",
           SectionSaved(w, next) \/ SectionFails(w, next)
    PROVE  CallMoves
<1>1. Leave(w, next)
  BY DEF SectionSaved, SectionFails
<1> QED BY <1>1 DEF Leave, CallMoves, Settling, TypeOK, Workers

LEMMA OtherMoves ==
    ASSUME TypeOK, Next, ~ Restart, \A v \in Calls : ~ VerifyStart(v)
    PROVE  CallMoves
<1>1. CASE \E i \in Invoices : TimerVisits(i) \/ StartupVisits(i)
  <2>1. UNCHANGED earlier
    BY <1>1 DEF TimerVisits, StartupVisits, SweepMark, history
  <2> QED BY <1>1, <2>1, SweepMarkSparesCalls DEF CallMoves
<1>2. CASE \E i \in Invoices : CreateInvoice(i) \/ Expire(i) \/ CreationSaved(i)
  BY <1>2 DEF CreateInvoice, Expire, CreationSaved, CallMoves, workers, history
<1>3. CASE \E w \in Writers : SaveWrites(w)
  BY <1>3 DEF SaveWrites, CallMoves, workers
<1>4. CASE \E v \in Calls : CallStep(v)
  <2> PICK v \in Calls : CallStep(v)
    BY <1>4
  <2> USE DEF Workers
  <2>1. CASE VerifyValid(v) \/ VerifyInvalid(v) \/ Report(v) \/ CallbackAttempt(v)
    BY <2>1 DEF VerifyValid, VerifyInvalid, Report, CallbackAttempt, CallMoves, Settling, workers, history, TypeOK
  <2>2. CASE MarkPaid(v)
    BY <2>2 DEF MarkPaid, Mark, CallMoves, Settling, history, TypeOK
  <2>3. CASE MarkPaidSaved(v) \/ MarkPaidThrows(v)
    BY <2>3, SectionMoves DEF MarkPaidSaved, MarkPaidThrows
  <2> QED BY <2>1, <2>2, <2>3 DEF CallStep
<1>5. CASE \E s \in Sweeps : SweepStep(s)
  <2> PICK s \in Sweeps : SweepStep(s)
    BY <1>5
  <2>1. s \in Workers /\ s \notin Calls
    BY InvoiceAssumption DEF Workers
  <2>2. CASE MarkExpired(s)
    BY <2>1, <2>2 DEF MarkExpired, Mark, CallMoves, Settling, history, TypeOK, Workers
  <2>3. CASE MarkExpiredSaved(s) \/ MarkExpiredThrows(s)
    BY <2>1, <2>3, SectionMoves DEF MarkExpiredSaved, MarkExpiredThrows
  <2> QED BY <2>2, <2>3 DEF SweepStep
<1> QED BY <1>1, <1>2, <1>3, <1>4, <1>5 DEF Next

LEMMA ReportStep == TypeOK /\ BirthInv /\ ReportInv /\ [Next]_vars => ReportInv'
<1> SUFFICES ASSUME TypeOK, BirthInv, ReportInv, [Next]_vars PROVE ReportInv'
  OBVIOUS
<1>1. CASE Next /\ ~ Restart /\ \A v \in Calls : ~ VerifyStart(v)
  <2>1. CallMoves /\ Pending' \cap Born \subseteq Pending
    BY <1>1, OtherMoves, PendingOnce
  <2> SUFFICES ASSUME NEW v \in Calls
               PROVE  /\ phase'[v] \in Settling => target'[v] \notin Pending'
                      /\ phase'[v] \notin {"idle", "past"} =>
                            \A u \in earlier'[v] : phase'[u] = "reported" /\ target'[u] # target'[v]
    BY DEF ReportInv
  <2>2. ASSUME phase'[v] \in Settling PROVE target'[v] \notin Pending'
    <3>1. CASE MarkPaid(v)
      BY <2>1, <3>1, MarkPaidSettles DEF CallMoves
    <3>2. CASE phase[v] \in Settling
      BY <2>1, <3>2 DEF CallMoves, ReportInv, BirthInv, Settling
    <3> QED BY <2>1, <2>2, <3>1, <3>2 DEF CallMoves
  <2>3. earlier[v] \subseteq Calls
    BY DEF TypeOK
  <2> QED BY <2>1, <2>2, <2>3 DEF CallMoves, ReportInv
<1>2. ASSUME NEW v \in Calls, VerifyStart(v) PROVE ReportInv'
  <2>1. Pending' = Pending
    BY <1>2 DEF VerifyStart, Pending, store
  <2>2. phase[v] = "idle" /\ phase' = [phase EXCEPT ![v] = "asking"] /\ target'[v] \in Pending
    BY <1>2 DEF VerifyStart, TypeOK, Workers
  <2>3. \A u \in Calls : u # v => phase'[u] = phase[u] /\ target'[u] = target[u] /\ earlier'[u] = earlier[u]
    BY <1>2 DEF VerifyStart, TypeOK, Workers
  <2>4. earlier'[v] = {u \in Calls : phase[u] = "reported"} /\ phase'[v] = "asking"
    BY <1>2 DEF VerifyStart, TypeOK, Workers
  <2>5. \A u \in earlier'[v] : phase'[u] = "reported" /\ target'[u] # target'[v]
    BY <2>1, <2>2, <2>3, <2>4 DEF ReportInv, Settling
  <2>6. ASSUME NEW u \in Calls, u # v, phase'[u] \notin {"idle", "past"}, NEW x \in earlier'[u]
        PROVE  phase'[x] = "reported" /\ target'[x] # target'[u]
    <3>1. x \in earlier[u] /\ x \in Calls /\ phase[x] = "reported" /\ target[x] # target[u]
      BY <2>3, <2>6 DEF ReportInv, TypeOK
    <3> QED BY <2>2, <2>3, <2>6, <3>1
  <2> QED BY <2>1, <2>3, <2>4, <2>5, <2>6 DEF ReportInv, Settling
<1>3. CASE Restart
  <2>1. \A v \in Calls : phase'[v] \in {"idle", "past"}
    BY <1>3 DEF Restart, Workers
  <2> QED BY <2>1 DEF ReportInv, Settling
<1>4. CASE UNCHANGED vars
  BY <1>4 DEF vars, store, workers, history, ReportInv, Pending
<1> QED BY <1>1, <1>2, <1>3, <1>4

(* A reported payment is not reported again by a later call.               *)
THEOREM NoLateReportHolds == Spec => []NoLateReport
<1>1. Init => ReportInv
  BY DEF Init, ReportInv, Settling, Workers
<1>2. ReportInv => NoLateReport
  BY DEF ReportInv, NoLateReport
<1> QED BY <1>1, <1>2, TypeCorrect, BirthInit, BirthStep, ReportStep, PTL DEF Spec

-----------------------------------------------------------------------------
(* The mutex is served *)

LEMMA TailAt ==
    ASSUME NEW S, NEW q \in Seq(S), q # <<>>
    PROVE  /\ Tail(q) \in Seq(S) /\ Len(q) \in Nat /\ Len(q) >= 1
           /\ Len(Tail(q)) = Len(q) - 1
           /\ Head(q) = q[1] /\ q[1] \in S
           /\ \A j \in 1 .. Len(Tail(q)) : Tail(q)[j] = q[j + 1]
           /\ \A j \in 1 .. Len(q) : q[j] \in S
OBVIOUS

LEMMA AppendAt ==
    ASSUME NEW S, NEW q \in Seq(S), NEW w \in S
    PROVE  /\ Len(q) \in Nat /\ Len(Append(q, w)) = Len(q) + 1
           /\ Append(q, w) # <<>> /\ Append(q, w)[Len(q) + 1] = w
           /\ Head(Append(q, w)) = IF q = <<>> THEN w ELSE Head(q)
           /\ \A j \in 1 .. Len(q) : Append(q, w)[j] = q[j] /\ q[j] \in S
           /\ q # <<>> => Len(q) >= 1 /\ Head(q) = q[1]
           /\ q = <<>> => Len(q) = 0
<1>1. /\ Len(q) \in Nat /\ Len(Append(q, w)) = Len(q) + 1
      /\ \A j \in 1 .. Len(q) : q[j] \in S
      /\ q # <<>> => Len(q) >= 1 /\ Head(q) = q[1]
      /\ q = <<>> => Len(q) = 0
  OBVIOUS
<1>2. Append(q, w) # <<>> /\ Append(q, w)[Len(q) + 1] = w
  BY AppendProperties
<1>3. \A j \in 1 .. Len(q) : Append(q, w)[j] = q[j]
  BY AppendProperties
<1>4. Head(Append(q, w)) = Append(q, w)[1]
  OBVIOUS
<1>5. CASE q = <<>>
  BY <1>1, <1>4, <1>5, <1>2
<1>6. CASE q # <<>>
  <2>1. 1 \in 1 .. Len(q)
    BY <1>1, <1>6
  <2> QED BY <1>1, <1>4, <1>6, <1>3, <2>1
<1> QED BY <1>1, <1>5, <1>6, <1>2, <1>3

Waits == {"queued", "saving"}

(* Only the holder saves.                                                  *)
LEMMA OneSaves ==
    ASSUME TypeOK, MutexIsServed, NEW w \in Workers, phase[w] = "saving"
    PROVE  mutex # <<>> /\ Head(mutex) = w
<1>1. PICK j \in 1 .. Len(mutex) : mutex[j] = w
  BY DEF MutexIsServed
<1>2. j = 1 /\ mutex # <<>>
  BY <1>1 DEF MutexIsServed, TypeOK
<1> QED BY <1>1, <1>2, TailAt DEF TypeOK

LEMMA ServedKept ==
    ASSUME TypeOK, MutexIsServed, UNCHANGED mutex,
           \A w \in Workers : phase'[w] = phase[w] \/ {phase[w], phase'[w]} \cap Waits = {},
           write'[Section].state = "none" <=> write[Section].state = "none"
    PROVE  MutexIsServed'
<1>1. \A w \in Workers : phase'[w] \in Waits <=> phase[w] \in Waits
  OBVIOUS
<1>2. \A w \in Workers : phase[w] \in Waits => phase'[w] = phase[w]
  OBVIOUS
<1>3. \A j \in 1 .. Len(mutex) : mutex[j] \in Workers /\ phase'[mutex[j]] = phase[mutex[j]]
  <2> TAKE j \in 1 .. Len(mutex)
  <2>1. mutex[j] \in Workers
    BY DEF TypeOK
  <2>2. phase[mutex[j]] \in Waits
    BY <2>1 DEF MutexIsServed, Waits
  <2> QED BY <1>2, <2>1, <2>2
<1>4. mutex # <<>> => 1 \in 1 .. Len(mutex) /\ Head(mutex) = mutex[1]
  BY TailAt DEF TypeOK
<1>5. \A j \in 2 .. Len(mutex) : phase'[mutex[j]] = "queued"
  BY <1>3 DEF MutexIsServed, TypeOK
<1> QED BY <1>1, <1>3, <1>4, <1>5 DEF MutexIsServed, Waits

(* A worker joins the queue.                                               *)
LEMMA ServedEnters ==
    ASSUME TypeOK, MutexIsServed, NEW w \in Workers, phase[w] \notin Waits, UNCHANGED write,
           phase' = [phase EXCEPT ![w] = "queued"], mutex' = Append(mutex, w)
    PROVE  MutexIsServed'
<1> DEFINE n == Len(mutex)
<1>1. /\ n \in Nat /\ Len(mutex') = n + 1 /\ mutex' # <<>> /\ mutex'[n + 1] = w
      /\ Head(mutex') = IF mutex = <<>> THEN w ELSE Head(mutex)
      /\ \A j \in 1 .. n : mutex'[j] = mutex[j] /\ mutex[j] \in Workers
      /\ mutex # <<>> => n >= 1 /\ Head(mutex) = mutex[1]
      /\ mutex = <<>> => n = 0
  BY AppendAt DEF TypeOK
<1>2. \A j \in 1 .. n : mutex[j] # w
  BY DEF MutexIsServed, Waits
<1>3. \A x \in Workers : phase'[x] = IF x = w THEN "queued" ELSE phase[x]
  BY DEF TypeOK
<1> HIDE DEF n
<1>4. \A j, k \in 1 .. n + 1 : mutex'[j] = mutex'[k] => j = k
  <2>1. \A j, k \in 1 .. n : mutex[j] = mutex[k] => j = k
    BY DEF MutexIsServed, n
  <2>2. \A j \in 1 .. n + 1 : j \in 1 .. n \/ j = n + 1
    BY <1>1
  <2> QED BY <1>1, <1>2, <2>1, <2>2
<1>5. \A x \in Workers : phase'[x] \in Waits <=> \E j \in 1 .. n + 1 : mutex'[j] = x
  <2>1. \A x \in Workers : phase[x] \in Waits <=> \E j \in 1 .. n : mutex[j] = x
    BY DEF MutexIsServed, Waits, n
  <2>2. n + 1 \in 1 .. n + 1 /\ \A j \in 1 .. n : j \in 1 .. n + 1
    BY <1>1
  <2>3. \A j \in 1 .. n + 1 : j \in 1 .. n \/ j = n + 1
    BY <1>1
  <2> QED BY <1>1, <1>3, <2>1, <2>2, <2>3 DEF Waits
<1>6. \A j \in 2 .. n + 1 : phase'[mutex'[j]] = "queued"
  <2>1. \A j \in 2 .. n : phase[mutex[j]] = "queued"
    BY DEF MutexIsServed, n
  <2>2. \A j \in 2 .. n + 1 : (j \in 1 .. n /\ j \in 2 .. n) \/ j = n + 1
    BY <1>1
  <2> QED BY <1>1, <1>3, <2>1, <2>2
<1>7. write'[Section].state # "none" <=> mutex' # <<>> /\ phase'[Head(mutex')] = "saving"
  <2>1. write[Section].state # "none" <=> mutex # <<>> /\ phase[Head(mutex)] = "saving"
    BY DEF MutexIsServed
  <2>2. mutex # <<>> => Head(mutex) \in Workers /\ Head(mutex) # w
    BY <1>1, <1>2
  <2> QED BY <1>1, <1>3, <2>1, <2>2
<1> QED BY <1>1, <1>4, <1>5, <1>6, <1>7 DEF MutexIsServed, Waits

(* The holder leaves: the next, if there is one, has not saved yet.        *)
LEMMA ServedLeaves ==
    ASSUME TypeOK, MutexIsServed, NEW w \in Workers, mutex # <<>>, Head(mutex) = w, mutex' = Tail(mutex),
           NEW next, next \notin Waits, phase' = [phase EXCEPT ![w] = next], write'[Section].state = "none"
    PROVE  MutexIsServed' /\ \A x \in Workers : phase'[x] # "saving"
<1> DEFINE n == Len(mutex)
<1>1. /\ n \in Nat /\ n >= 1 /\ Len(mutex') = n - 1 /\ mutex' \in Seq(Workers) /\ mutex[1] = w
      /\ \A j \in 1 .. n - 1 : mutex'[j] = mutex[j + 1]
      /\ \A j \in 1 .. n : mutex[j] \in Workers
  BY TailAt DEF TypeOK
<1>2. mutex' # <<>> => n - 1 >= 1 /\ Head(mutex') = mutex'[1]
  BY <1>1, TailAt
<1>3. \A x \in Workers : phase'[x] = IF x = w THEN next ELSE phase[x]
  BY DEF TypeOK
<1>4. /\ \A j, k \in 1 .. n : mutex[j] = mutex[k] => j = k
      /\ \A x \in Workers : phase[x] \in Waits <=> \E j \in 1 .. n : mutex[j] = x
      /\ \A j \in 2 .. n : phase[mutex[j]] = "queued"
  BY DEF MutexIsServed, Waits
<1> HIDE DEF n
<1>5. \A j \in 1 .. n - 1 : j + 1 \in 2 .. n /\ j + 1 \in 1 .. n /\ j + 1 # 1
  BY <1>1
<1>6. \A j \in 1 .. n - 1 : mutex'[j] # w /\ phase'[mutex'[j]] = "queued"
  BY <1>1, <1>3, <1>4, <1>5
<1>7. \A j, k \in 1 .. n - 1 : mutex'[j] = mutex'[k] => j = k
  <2> TAKE j, k \in 1 .. n - 1
  <2> HAVE mutex'[j] = mutex'[k]
  <2>1. j + 1 = k + 1
    BY <1>1, <1>4, <1>5
  <2> QED BY <1>1, <2>1
<1>8. \A x \in Workers : phase'[x] \in Waits <=> \E j \in 1 .. n - 1 : mutex'[j] = x
  <2> TAKE x \in Workers
  <2>1. ASSUME phase'[x] \in Waits PROVE \E j \in 1 .. n - 1 : mutex'[j] = x
    <3>1. x # w /\ phase[x] \in Waits
      BY <1>3, <2>1
    <3>2. PICK k \in 1 .. n : mutex[k] = x
      BY <1>4, <3>1
    <3>3. k - 1 \in 1 .. n - 1 /\ (k - 1) + 1 = k
      BY <1>1, <3>1, <3>2
    <3> QED BY <1>1, <3>2, <3>3
  <2>2. ASSUME NEW j \in 1 .. n - 1, mutex'[j] = x PROVE phase'[x] \in Waits
    BY <1>6, <2>2 DEF Waits
  <2> QED BY <2>1, <2>2
<1>9. \A x \in Workers : phase'[x] # "saving"
  BY <1>6, <1>8 DEF Waits
<1>10. \A j \in 2 .. n - 1 : phase'[mutex'[j]] = "queued"
  BY <1>1, <1>6
<1>11. write'[Section].state # "none" <=> mutex' # <<>> /\ phase'[Head(mutex')] = "saving"
  <2>1. mutex' # <<>> => 1 \in 1 .. n - 1
    BY <1>1, <1>2
  <2>2. mutex' # <<>> => phase'[Head(mutex')] = "queued"
    BY <1>2, <1>6, <2>1
  <2> QED BY <2>2
<1> QED BY <1>1, <1>7, <1>8, <1>9, <1>10, <1>11 DEF MutexIsServed, Waits

LEMMA ServedMark ==
    ASSUME TypeOK, MutexIsServed, NEW w \in Workers, NEW marked, NEW next, next \notin Waits,
           Mark(w, marked, next)
    PROVE  MutexIsServed'
<1>1. mutex # <<>> /\ Head(mutex) = w /\ phase[w] = "queued" /\ Section \in Writers
  BY DEF Mark, Writers
<1>2. CASE target[w] \in Pending
  <2>1. phase' = [phase EXCEPT ![w] = "saving"] /\ mutex' = mutex /\ write'[Section].state = "listed"
    BY <1>1, <1>2 DEF Mark, Collect, TypeOK
  <2>2. \A x \in Workers : phase'[x] = IF x = w THEN "saving" ELSE phase[x]
    BY <2>1 DEF TypeOK
  <2>3. \A j \in 2 .. Len(mutex) : mutex[j] \in Workers /\ mutex[j] # w
    BY <1>1, TailAt DEF TypeOK, MutexIsServed
  <2> QED BY <1>1, <2>1, <2>2, <2>3 DEF MutexIsServed
<1>3. CASE target[w] \notin Pending
  <2>1. phase' = [phase EXCEPT ![w] = next] /\ mutex' = Tail(mutex) /\ write' = write
    BY <1>3 DEF Mark
  <2>2. write[Section].state = "none"
    BY <1>1 DEF MutexIsServed
  <2> QED BY <1>1, <2>1, <2>2, ServedLeaves
<1> QED BY <1>2, <1>3

LEMMA ServedSection ==
    ASSUME TypeOK, MutexIsServed, NEW w \in Workers, NEW next, next \notin Waits,
           SectionSaved(w, next) \/ SectionFails(w, next)
    PROVE  MutexIsServed' /\ \A x \in Workers : phase'[x] # "saving"
<1>1. Leave(w, next) /\ (Written(Section) \/ NotWritten(Section)) /\ Section \in Writers
  BY DEF SectionSaved, SectionFails, Writers
<1>2. write'[Section].state = "none"
  BY <1>1 DEF Written, NotWritten, NoWrite, TypeOK
<1> QED BY <1>1, <1>2, ServedLeaves DEF Leave

LEMMA ServedStep == TypeOK /\ MutexIsServed /\ [Next]_vars => MutexIsServed'
<1> SUFFICES ASSUME TypeOK, MutexIsServed, [Next]_vars PROVE MutexIsServed'
  OBVIOUS
<1>1. ASSUME NEW i \in Invoices, CreateInvoice(i) \/ Expire(i) \/ CreationSaved(i) PROVE MutexIsServed'
  <2>1. UNCHANGED <<mutex, phase>>
    BY <1>1 DEF CreateInvoice, Expire, CreationSaved, workers
  <2>2. i # Section /\ Section \in Writers
    BY InvoiceAssumption DEF Writers
  <2>3. write'[Section] = write[Section]
    BY <1>1, <2>2 DEF CreateInvoice, Collect, Expire, disk, CreationSaved, Written, NotWritten, TypeOK
  <2> QED BY <2>1, <2>3, ServedKept
<1>2. ASSUME NEW i \in Invoices, TimerVisits(i) \/ StartupVisits(i) PROVE MutexIsServed'
  <2>1. PICK s \in Sweeps : SweepMark(s, i)
    BY <1>2 DEF TimerVisits, StartupVisits, Sweeps
  <2> QED BY <2>1, ServedEnters DEF SweepMark, Workers, Waits, disk
<1>3. ASSUME NEW w \in Writers, SaveWrites(w) PROVE MutexIsServed'
  <2>1. write'[Section].state = "none" <=> write[Section].state = "none"
    BY <1>3 DEF SaveWrites, Writing, Writers, TypeOK
  <2> QED BY <1>3, <2>1, ServedKept DEF SaveWrites, workers
<1>4. ASSUME NEW v \in Calls, VerifyStart(v) \/ CallStep(v) PROVE MutexIsServed'
  <2>1. v \in Workers
    BY DEF Workers
  <2>2. CASE VerifyStart(v) \/ VerifyInvalid(v) \/ Report(v) \/ CallbackAttempt(v)
    BY <2>1, <2>2, ServedKept DEF VerifyStart, VerifyInvalid, Report, CallbackAttempt, disk, workers, Waits, TypeOK
  <2>3. CASE VerifyValid(v)
    BY <2>1, <2>3, ServedEnters DEF VerifyValid, Waits, disk
  <2>4. CASE MarkPaid(v)
    BY <2>1, <2>4, ServedMark DEF MarkPaid, Waits
  <2>5. CASE MarkPaidSaved(v) \/ MarkPaidThrows(v)
    BY <2>1, <2>5, ServedSection DEF MarkPaidSaved, MarkPaidThrows, Waits
  <2> QED BY <1>4, <2>2, <2>3, <2>4, <2>5 DEF CallStep
<1>5. ASSUME NEW s \in Sweeps, SweepStep(s) PROVE MutexIsServed'
  <2>1. s \in Workers
    BY DEF Workers
  <2> QED BY <1>5, <2>1, ServedMark, ServedSection
        DEF SweepStep, MarkExpired, MarkExpiredSaved, MarkExpiredThrows, Waits
<1>6. CASE Restart
  <2>1. /\ mutex' = <<>> /\ \A w \in Workers : phase'[w] \notin Waits
        /\ write'[Section].state = "none"
    BY <1>6 DEF Restart, Waits, Writers, NoWrite
  <2>2. Len(mutex') = 0
    BY <2>1
  <2> QED BY <2>1, <2>2 DEF MutexIsServed, Waits
<1>7. CASE UNCHANGED vars
  BY <1>7, ServedKept DEF vars, workers, disk
<1> QED BY <1>1, <1>2, <1>3, <1>4, <1>5, <1>6, <1>7 DEF Next

LEMMA ServedInit == Init => MutexIsServed
<1> SUFFICES ASSUME Init PROVE MutexIsServed
  OBVIOUS
<1>1. mutex = <<>> /\ Len(mutex) = 0 /\ \A w \in Workers : phase[w] = "idle"
  BY DEF Init
<1>2. write[Section].state = "none"
  BY DEF Init, NoWrite, Writers
<1> QED BY <1>1, <1>2 DEF MutexIsServed

(* The mutex always holds exactly those who wait for it or are inside, for *)
(* any number of calls, failing saves and restarts.                        *)
THEOREM MutexIsServedHolds == Spec => []MutexIsServed
BY TypeCorrect, ServedInit, ServedStep, PTL DEF Spec

-----------------------------------------------------------------------------
(* A reported payment is durable *)

(* The invoice whose mark is being saved inside the mutex.                 *)
Marking(i) == \E w \in Workers : phase[w] = "saving" /\ target[w] = i

Done == {"auditing", "reported"}

PendingIsStored == \A i \in Invoices : invoice[i].status = "pending" => i \in stored

(* Nobody saves a mark of an invoice that a call has found settled.        *)
NotInSection == \A v \in Calls : phase[v] \in Done => ~ Marking(target[v])

(* What is settled in memory is not pending on the disk, unless its mark   *)
(* is being saved.                                                         *)
DiskFollows ==
    \A i \in Invoices : invoice[i].status # "pending" /\ ~ Marking(i) =>
        \A f \in onDisk : f[i].status # "pending"

(* One write at a time, which follows memory as well; that of the mutex    *)
(* has the mark it is made for.                                            *)
WritesFollow ==
    \A w \in Writing :
        /\ write[w].state = "alone" /\ \A x \in Writing : x = w
        /\ \A i \in Invoices : invoice[i].status # "pending" /\ (w = Section \/ ~ Marking(i)) =>
              write[w].content[i].status # "pending"

DurableInv ==
    /\ PendingIsStored /\ NotInSection
    /\ ~ unsafe => DiskFollows /\ WritesFollow

(* Steps that leave the invoices, the disk and the mutex's inside alone.   *)
LEMMA DurableKept ==
    ASSUME TypeOK, DurableInv, UNCHANGED <<stored, invoice, write, onDisk, unsafe>>,
           \A w \in Workers : phase'[w] = "saving" <=> phase[w] = "saving",
           \A w \in Workers : phase[w] = "saving" => target'[w] = target[w],
           \A v \in Calls : phase'[v] \in Done => phase[v] \in Done /\ target'[v] = target[v]
    PROVE  DurableInv'
<1>1. \A i : Marking(i)' <=> Marking(i)
  BY DEF Marking
<1>2. NotInSection'
  BY <1>1 DEF DurableInv, NotInSection
<1>3. DiskFollows => DiskFollows'
  BY <1>1 DEF DiskFollows
<1>4. WritesFollow => WritesFollow'
  BY <1>1 DEF WritesFollow, Writing
<1> QED BY <1>2, <1>3, <1>4 DEF DurableInv, PendingIsStored

LEMMA DurableMark ==
    ASSUME TypeOK, MutexIsServed, ReportInv, DurableInv, NEW w \in Workers, NEW marked, marked.status # "pending",
           NEW next, next \notin Waits, Mark(w, marked, next)
    PROVE  DurableInv'
<1>1. mutex # <<>> /\ Head(mutex) = w /\ phase[w] = "queued"
  BY DEF Mark
<1>2. \A x \in Workers : phase[x] # "saving"
  BY <1>1, OneSaves
<1>3. \A i : ~ Marking(i)
  BY <1>2 DEF Marking
<1>4. UNCHANGED <<stored, target, onDisk, unsafe>>
  BY DEF Mark, history
<1>5. CASE target[w] \in Pending
  <2> DEFINE t == target[w]
  <2>1. t \in Invoices /\ \A i \in Invoices : invoice'[i] = IF i = t THEN marked ELSE invoice[i]
    BY <1>5 DEF Mark, Pending, TypeOK
  <2>2. \A x \in Workers : phase'[x] = IF x = w THEN "saving" ELSE phase[x]
    BY <1>5 DEF Mark, TypeOK
  <2>3. \A i : Marking(i)' <=> i = t
    BY <1>2, <1>4, <2>2 DEF Marking
  <2>4. Writing' \subseteq Writing \ {Section} /\ \A x \in Writing' : write'[x] = write[x]
    BY <1>5 DEF Mark, Collect, Writing, TypeOK
  <2>5. PendingIsStored'
    BY <1>4, <2>1 DEF DurableInv, PendingIsStored
  <2>6. NotInSection'
    <3> SUFFICES ASSUME NEW v \in Calls, phase'[v] \in Done PROVE target[v] # t
      BY <1>4, <2>3 DEF NotInSection
    <3>1. phase[v] \in Settling
      BY <2>2 DEF Workers, Done, Settling
    <3> QED BY <1>5, <3>1 DEF ReportInv
  <2>7. DiskFollows => DiskFollows'
    BY <1>3, <1>4, <2>1, <2>3 DEF DiskFollows
  <2>8. WritesFollow => WritesFollow'
    BY <1>3, <2>1, <2>3, <2>4 DEF WritesFollow
  <2> QED BY <1>4, <2>5, <2>6, <2>7, <2>8 DEF DurableInv
<1>6. CASE target[w] \notin Pending
  <2>1. /\ phase' = [phase EXCEPT ![w] = next] /\ mutex' = Tail(mutex)
        /\ UNCHANGED <<invoice, write>>
    BY <1>6 DEF Mark
  <2>2. write'[Section].state = "none"
    BY <1>1, <2>1 DEF MutexIsServed
  <2>3. \A x \in Workers : phase'[x] # "saving"
    BY <1>1, <2>1, <2>2, ServedLeaves
  <2>4. \A i : ~ Marking(i)'
    BY <2>3 DEF Marking
  <2>5. DiskFollows => DiskFollows'
    BY <1>3, <1>4, <2>1 DEF DiskFollows
  <2>6. WritesFollow => WritesFollow'
    BY <1>3, <2>1 DEF WritesFollow, Writing
  <2> QED BY <1>4, <2>1, <2>4, <2>5, <2>6 DEF DurableInv, PendingIsStored, NotInSection
<1> QED BY <1>5, <1>6

(* The end of a save() inside the mutex: what is on the disk has the mark. *)
LEMMA DurableSection ==
    ASSUME TypeOK, MutexIsServed, DurableInv, NEW w \in Workers, NEW next, next \notin Waits,
           SectionSaved(w, next) \/ SectionFails(w, next)
    PROVE  DurableInv'
<1>1. UNCHANGED <<stored, invoice>>
  BY DEF SectionSaved, SectionFails, Leave, store
<1>2. \A x \in Workers : phase'[x] # "saving"
  BY ServedSection
<1>3. PendingIsStored' /\ NotInSection'
  BY <1>1, <1>2 DEF DurableInv, PendingIsStored, NotInSection, Marking
<1>4. ASSUME ~ unsafe' PROVE DiskFollows' /\ WritesFollow'
  <2>1. Written(Section) /\ DiskFollows /\ WritesFollow
    BY <1>4 DEF SectionSaved, SectionFails, DurableInv
  <2>2. Section \in Writing /\ write[Section].state = "alone" /\ \A x \in Writing : x = Section
    BY <2>1 DEF Written, WritesFollow
  <2>3. onDisk' = {write[Section].content} /\ write' = [write EXCEPT ![Section] = NoWrite]
    BY <2>1, <2>2 DEF Written
  <2>4. Writing' = {}
    BY <2>2, <2>3 DEF Writing, NoWrite, TypeOK
  <2>5. \A i \in Invoices : invoice[i].status # "pending" => write[Section].content[i].status # "pending"
    BY <2>1, <2>2 DEF WritesFollow
  <2> QED BY <1>1, <2>3, <2>4, <2>5 DEF DiskFollows, WritesFollow
<1> QED BY <1>3, <1>4 DEF DurableInv

LEMMA DurableCreates ==
    ASSUME TypeOK, DurableInv, NEW i \in Invoices, CreateInvoice(i)
    PROVE  DurableInv'
<1>1. UNCHANGED <<onDisk, unsafe, phase, target>>
  BY DEF CreateInvoice, workers, history
<1>2. \A j \in Invoices : invoice'[j] = IF j = i THEN [status |-> "pending", txid |-> None] ELSE invoice[j]
  BY DEF CreateInvoice, TypeOK
<1>3. \A j : Marking(j)' <=> Marking(j)
  BY <1>1 DEF Marking
<1>4. PendingIsStored'
  <2>1. PICK evicted \in Evictions : stored' = (stored \ evicted) \cup {i}
    BY DEF CreateInvoice
  <2>2. evicted \subseteq Resolved
    BY EvictionsSpare
  <2> QED BY <1>2, <2>1, <2>2 DEF DurableInv, PendingIsStored, Resolved, Pending
<1>5. Writing' \subseteq Writing /\ \A x \in Writing' : write'[x] = write[x]
  BY DEF CreateInvoice, Collect, Writing, TypeOK
<1>6. NotInSection'
  BY <1>1, <1>3 DEF DurableInv, NotInSection
<1>7. DiskFollows => DiskFollows'
  BY <1>1, <1>2, <1>3 DEF DiskFollows
<1>8. WritesFollow => WritesFollow'
  BY <1>2, <1>3, <1>5 DEF WritesFollow
<1> QED BY <1>1, <1>4, <1>6, <1>7, <1>8 DEF DurableInv

LEMMA DurableCreationSaved ==
    ASSUME TypeOK, DurableInv, NEW i \in Invoices, CreationSaved(i)
    PROVE  DurableInv'
<1>1. UNCHANGED <<stored, invoice, unsafe, phase, target>> /\ (Written(i) \/ NotWritten(i))
  BY DEF CreationSaved, store, workers, history
<1>2. \A j : Marking(j)' <=> Marking(j)
  BY <1>1 DEF Marking
<1>3. i # Section /\ i \in Writers
  BY InvoiceAssumption DEF Writers
<1>4. write' = [write EXCEPT ![i] = NoWrite]
  BY <1>1 DEF Written, NotWritten
<1>5. Writing' \subseteq Writing /\ \A x \in Writing' : write'[x] = write[x]
  BY <1>4 DEF Writing, NoWrite, TypeOK
<1>6. WritesFollow => WritesFollow'
  BY <1>1, <1>2, <1>5 DEF WritesFollow
<1>7. DiskFollows /\ WritesFollow => DiskFollows'
  <2>1. CASE onDisk' = onDisk
    BY <1>1, <1>2, <2>1 DEF DiskFollows
  <2>2. CASE i \in Writing /\ onDisk' = {write[i].content}
    BY <1>1, <1>2, <2>2 DEF DiskFollows, WritesFollow
  <2> QED BY <1>1, <2>1, <2>2 DEF Written, NotWritten
<1>8. PendingIsStored' /\ NotInSection'
  BY <1>1, <1>2 DEF DurableInv, PendingIsStored, NotInSection
<1> QED BY <1>1, <1>6, <1>7, <1>8 DEF DurableInv

LEMMA DurableWrites ==
    ASSUME TypeOK, DurableInv, NEW w \in Writers, SaveWrites(w)
    PROVE  DurableInv'
<1> DEFINE content == [i \in Invoices |-> IF i \in write[w].ids THEN invoice[i] ELSE NoInvoice]
<1>1. UNCHANGED <<stored, invoice, phase, target>> /\ onDisk' = onDisk \cup {content, Empty}
  BY DEF SaveWrites, store, workers
<1>2. \A j : Marking(j)' <=> Marking(j)
  BY <1>1 DEF Marking
<1>3. PendingIsStored' /\ NotInSection'
  BY <1>1, <1>2 DEF DurableInv, PendingIsStored, NotInSection
<1>4. \A i \in Invoices : invoice[i].status # "pending" => content[i].status # "pending" /\ Empty[i].status # "pending"
  BY DEF NoInvoice, Empty
<1>5. ASSUME ~ unsafe' PROVE DiskFollows' /\ WritesFollow'
  <2>1. ~ unsafe /\ Writing = {}
    BY <1>5 DEF SaveWrites
  <2>2. \A x \in Writers : write'[x] = IF x = w THEN [state |-> "alone", ids |-> {}, content |-> content] ELSE write[x]
    BY <2>1 DEF SaveWrites
  <2> HIDE DEF content
  <2>3. /\ \A x \in Writing' : x = w
        /\ write'[w].state = "alone" /\ write'[w].content = content
    BY <2>1, <2>2 DEF Writing
  <2>4. WritesFollow'
    BY <1>1, <1>4, <2>3 DEF WritesFollow
  <2>5. DiskFollows'
    BY <1>1, <1>2, <1>4, <2>1 DEF DiskFollows, DurableInv
  <2> QED BY <2>4, <2>5
<1> QED BY <1>3, <1>5 DEF DurableInv

LEMMA DurableRestarts ==
    ASSUME TypeOK, Restart
    PROVE  DurableInv'
<1>1. PICK content \in onDisk : /\ invoice' = content
                                /\ stored' = {i \in Invoices : content[i].status # "absent"}
                                /\ onDisk' = {content}
  BY DEF Restart
<1>2. \A w \in Workers : phase'[w] \in {"idle", "past"}
  BY DEF Restart
<1>3. Writing' = {}
  BY DEF Restart, Writing, NoWrite
<1>4. NotInSection'
  BY <1>2 DEF NotInSection, Done, Workers
<1> QED BY <1>1, <1>3, <1>4 DEF DurableInv, PendingIsStored, DiskFollows, WritesFollow

LEMMA DurableStep ==
    TypeOK /\ MutexIsServed /\ ReportInv /\ DurableInv /\ [Next]_vars => DurableInv'
<1> SUFFICES ASSUME TypeOK, MutexIsServed, ReportInv, DurableInv, [Next]_vars PROVE DurableInv'
  OBVIOUS
<1>1. ASSUME NEW i \in Invoices, CreateInvoice(i) \/ CreationSaved(i) PROVE DurableInv'
  BY <1>1, DurableCreates, DurableCreationSaved
<1>2. ASSUME NEW i \in Invoices, Expire(i) \/ TimerVisits(i) \/ StartupVisits(i) PROVE DurableInv'
  <2>1. CASE Expire(i)
    BY <2>1, DurableKept DEF Expire, store, workers, disk, history
  <2>2. ASSUME NEW s \in Sweeps, SweepMark(s, i) PROVE DurableInv'
    <3>1. s \in Workers /\ s \notin Calls
      BY InvoiceAssumption DEF Workers
    <3>2. \A w \in Workers : w # s => phase'[w] = phase[w] /\ target'[w] = target[w]
      BY <2>2 DEF SweepMark, TypeOK
    <3>3. phase[s] = "idle" /\ phase'[s] = "queued"
      BY <2>2, <3>1 DEF SweepMark, TypeOK
    <3>4. UNCHANGED <<stored, invoice, write, onDisk, unsafe>>
      BY <2>2 DEF SweepMark, store, disk, history
    <3> QED BY <3>1, <3>2, <3>3, <3>4, DurableKept DEF Workers
  <2> QED BY <1>2, <2>1, <2>2 DEF TimerVisits, StartupVisits, Sweeps
<1>3. ASSUME NEW w \in Writers, SaveWrites(w) PROVE DurableInv'
  BY <1>3, DurableWrites
<1>4. ASSUME NEW v \in Calls, VerifyStart(v) \/ CallStep(v) PROVE DurableInv'
  <2>1. v \in Workers
    BY DEF Workers
  <2>2. CASE VerifyStart(v) \/ VerifyValid(v) \/ VerifyInvalid(v) \/ Report(v) \/ CallbackAttempt(v)
    <3>1. /\ UNCHANGED <<stored, invoice, write, onDisk, unsafe>>
          /\ \A w \in Workers : w # v => phase'[w] = phase[w] /\ target'[w] = target[w]
      BY <2>2 DEF VerifyStart, VerifyValid, VerifyInvalid, Report, CallbackAttempt, store, disk, workers,
          history, TypeOK
    <3>2. phase[v] # "saving" \/ (phase'[v] = phase[v] /\ target'[v] = target[v])
      BY <2>2 DEF VerifyStart, VerifyValid, VerifyInvalid, Report, CallbackAttempt, workers
    <3>3. phase'[v] # "saving" \/ phase'[v] = phase[v]
      BY <2>1, <2>2 DEF VerifyStart, VerifyValid, VerifyInvalid, Report, CallbackAttempt, workers, TypeOK
    <3>4. phase'[v] \in Done => phase[v] \in Done /\ target'[v] = target[v]
      BY <2>1, <2>2 DEF VerifyStart, VerifyValid, VerifyInvalid, Report, CallbackAttempt, workers, TypeOK, Done
    <3> QED BY <2>1, <3>1, <3>2, <3>3, <3>4, DurableKept DEF Workers
  <2>3. CASE MarkPaid(v)
    BY <2>1, <2>3, DurableMark DEF MarkPaid, Waits
  <2>4. CASE MarkPaidSaved(v) \/ MarkPaidThrows(v)
    BY <2>1, <2>4, DurableSection DEF MarkPaidSaved, MarkPaidThrows, Waits
  <2> QED BY <1>4, <2>2, <2>3, <2>4 DEF CallStep
<1>5. ASSUME NEW s \in Sweeps, SweepStep(s) PROVE DurableInv'
  <2>1. s \in Workers
    BY DEF Workers
  <2> QED BY <1>5, <2>1, DurableMark, DurableSection
        DEF SweepStep, MarkExpired, MarkExpiredSaved, MarkExpiredThrows, Waits
<1>6. CASE Restart
  BY <1>6, DurableRestarts
<1>7. CASE UNCHANGED vars
  BY <1>7, DurableKept DEF vars, store, workers, disk, history
<1> QED BY <1>1, <1>2, <1>3, <1>4, <1>5, <1>6, <1>7 DEF Next

LEMMA DurableInit == Init => DurableInv
<1> SUFFICES ASSUME Init PROVE DurableInv
  OBVIOUS
<1>1. Writing = {} /\ \A v \in Calls : phase[v] = "idle"
  BY DEF Init, Writing, NoWrite, Workers
<1>2. \A i \in Invoices : Empty[i].status = "absent"
  BY DEF Empty, NoInvoice
<1> QED BY <1>1, <1>2 DEF Init, DurableInv, PendingIsStored, NotInSection, Done, DiskFollows, WritesFollow

(* A payment once reported is on the disk for good, for any number of      *)
(* verifications, sweeps and restarts, unless writes overlapped or failed. *)
THEOREM ReportedIsDurableHolds == Spec => []ReportedIsDurable
<1>1. Init => ReportInv
  BY DEF Init, ReportInv, Settling, Workers
<1>2. TypeOK /\ ReportInv /\ DurableInv => ReportedIsDurable
  <2> SUFFICES ASSUME TypeOK, ReportInv, DurableInv, ~ unsafe, NEW v \in Calls, phase[v] = "reported",
                      NEW f \in onDisk
               PROVE  f[target[v]].status # "pending"
    BY DEF ReportedIsDurable
  <2>1. target[v] \in Invoices /\ target[v] \notin Pending /\ ~ Marking(target[v])
    BY DEF TypeOK, ReportInv, Settling, DurableInv, NotInSection, Done
  <2>2. invoice[target[v]].status # "pending"
    BY <2>1 DEF DurableInv, PendingIsStored, Pending
  <2> QED BY <2>1, <2>2 DEF DurableInv, DiskFollows
<1> QED BY <1>1, <1>2, TypeCorrect, BirthInit, BirthStep, ReportStep, MutexIsServedHolds, DurableInit,
           DurableStep, PTL DEF Spec
=============================================================================
