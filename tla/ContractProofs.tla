---------------------------- MODULE ContractProofs -----------------------------
(* Theorems about the invoice contract, for any parties, amounts and due dates, *)
(* and about the upgrade governor, for any signers, lists, delays, policies and *)
(* attestations, and any number of proposals.                                  *)
EXTENDS Invoice, UpgradeGovernor, SequenceTheorems, FiniteSetTheorems, TLAPS

-----------------------------------------------------------------------------
(* Invoices: types, exact payment and due dates.                               *)

\* What an id was made of: a number drawn from the counter, and a positive amount.
IdsDrawn == \A id \in Ids : id.nonce <= counter /\ id.amount > 0

\* No invoice was opened in the future.
OpenedBefore == \A id \in Ids : invoices[id].opened <= ledger

\* The inductive invariant.
InvoiceInv ==
  InvoiceTypeOK /\ IdsDrawn /\ OpenedBefore /\ PaidExactlyOnce /\ DueDateKept

-----------------------------------------------------------------------------
\* The parts of a stored invoice and of a payment.
LEMMA StoredId ==
  ASSUME InvoiceTypeOK, NEW id \in Ids
  PROVE  /\ id \in InvoiceIds /\ invoices[id] \in InvoiceRecords
         /\ id.creator \in Parties /\ id.recipient \in Parties /\ id.amount \in Int /\ id.nonce \in Nat
         /\ invoices[id].status \in Statuses /\ invoices[id].due \in Nat \union {NoDue}
         /\ invoices[id].opened \in Ledgers \union {Never} /\ invoices[id].closed \in Ledgers \union {Never}
<1>1. id \in InvoiceIds /\ invoices[id] \in InvoiceRecords
  BY DEF InvoiceTypeOK
<1> QED BY <1>1 DEF InvoiceIds, InvoiceRecords

LEMMA PaymentsType ==
  ASSUME InvoiceTypeOK
  PROVE  \A n \in DOMAIN payments : payments[n] \in [id : Ids, payer : Parties, at : Ledgers]
                                  /\ payments[n].id \in Ids /\ payments[n].at \in Int
<1> DEFINE Payments == [id : Ids, payer : Parties, at : Ledgers]
<1>1. payments \in Seq(Payments)
  BY DEF InvoiceTypeOK
<1>2. ASSUME NEW n \in DOMAIN payments PROVE payments[n] \in Payments
  <2> HIDE DEF Payments
  <2> QED BY <1>1, ElementOfSeq
<1>3. Ledgers \subseteq Int
  BY DEF Ledgers
<1> QED BY <1>2, <1>3

\* What a call on one invoice does to the table.
LEMMA MoveKeepsOthers ==
  ASSUME InvoiceTypeOK, NEW id \in Ids, NEW from, NEW to \in Statuses,
         NEW changes \in InvoiceRecords, Move(id, from, to, changes)
  PROVE  /\ invoices[id].status \in from
         /\ Ids' = Ids /\ invoices' \in [Ids -> InvoiceRecords]
         /\ invoices'[id].status = to /\ invoices'[id].due = changes.due
         /\ invoices'[id].opened = changes.opened /\ invoices'[id].closed = changes.closed
         /\ \A i \in Ids \ {id} : invoices'[i] = invoices[i]
<1> DEFINE moved == [changes EXCEPT !.status = to]
<1>1. moved \in InvoiceRecords
  BY DEF InvoiceRecords
<1>2. /\ moved.status = to /\ moved.due = changes.due
      /\ moved.opened = changes.opened /\ moved.closed = changes.closed
  BY DEF InvoiceRecords
<1>3. Store(id, moved) /\ invoices[id].status \in from
  BY DEF Move
<1> HIDE DEF moved
<1>4. invoices' = [i \in Ids |-> IF i = id THEN moved ELSE invoices[i]]
  <2>1. Ids \union {id} = Ids
    OBVIOUS
  <2> QED BY <1>3, <2>1 DEF Store
<1>5. Ids' = Ids
  <2>1. DOMAIN invoices' = Ids
    BY <1>4
  <2> QED BY <2>1 DEF Ids
<1>6. invoices' \in [Ids -> InvoiceRecords]
  BY <1>1, <1>4 DEF InvoiceTypeOK
<1> QED BY <1>2, <1>3, <1>4, <1>5, <1>6

-----------------------------------------------------------------------------
\* The calls that pay nothing: open, cancel, expire.
LEMMA UnpaidKeepsInv ==
  ASSUME InvoiceInv, NEW id \in Ids, NEW from, NEW to \in {"Open", "Expired", "Cancelled"},
         NEW changes \in InvoiceRecords, Move(id, from, to, changes),
         UNCHANGED <<storageVars, tokenVars, ledger>>,
         "Paid" \notin from,
         changes.due = invoices[id].due, changes.opened \in {invoices[id].opened, ledger},
         to = "Open" => /\ changes.opened = ledger
                        /\ changes.due # NoDue => ledger < changes.due,
         to = "Expired" => changes.closed = ledger /\ Overdue(id) /\ from = {"Open"}
                           /\ changes.opened = invoices[id].opened,
         to = "Cancelled" => changes.opened = invoices[id].opened
  PROVE  InvoiceInv'
<1> USE DEF InvoiceInv
<1>1. /\ invoices[id].status \in from
      /\ Ids' = Ids /\ invoices' \in [Ids -> InvoiceRecords]
      /\ invoices'[id].status = to /\ invoices'[id].due = changes.due
      /\ invoices'[id].opened = changes.opened /\ invoices'[id].closed = changes.closed
      /\ \A i \in Ids \ {id} : invoices'[i] = invoices[i]
  <2>1. to \in Statuses
    BY DEF Statuses
  <2> QED BY <2>1, MoveKeepsOthers
<1>2. /\ counter' = counter /\ byCreator' = byCreator /\ byRecipient' = byRecipient
      /\ balance' = balance /\ payments' = payments /\ ledger' = ledger
  BY DEF storageVars, tokenVars
<1>3. ledger \in Int /\ invoices[id].opened \in Int /\ invoices[id].due \in Int /\ NoDue = -1 /\ Never = -1
  BY StoredId DEF InvoiceTypeOK, Ledgers, NoDue, Never
<1>4. InvoiceTypeOK'
  BY <1>1, <1>2 DEF InvoiceTypeOK
<1>5. IdsDrawn'
  BY <1>1, <1>2 DEF IdsDrawn
<1>6. OpenedBefore'
  <2>1. changes.opened <= ledger
    BY <1>3 DEF OpenedBefore
  <2> QED BY <1>1, <1>2, <2>1 DEF OpenedBefore
<1>7. PaidExactlyOnce'
  <2>1. \A i \in Ids : invoices'[i].status = "Paid" <=> invoices[i].status = "Paid"
    BY <1>1
  <2>2. \A n \in DOMAIN payments : payments[n].id \in Ids /\ payments[n].id # id
    <3>1. \A n \in DOMAIN payments : payments[n].id \in Ids
      BY PaymentsType
    <3>2. invoices[id].status # "Paid"
      BY <1>1
    <3> QED BY <3>1, <3>2 DEF PaidExactlyOnce
  <2> QED BY <1>1, <1>2, <2>1, <2>2 DEF PaidExactlyOnce
<1>8. DueDateKept'
  <2> SUFFICES ASSUME NEW i \in Ids
               PROVE  LET inv == invoices'[i] IN
                      /\ inv.status = "Open" => (InTime(i)' <=> ~Overdue(i)')
                      /\ inv.due # NoDue =>
                           /\ inv.opened < inv.due
                           /\ inv.status = "Paid" => inv.closed <= inv.due
                           /\ inv.status = "Expired" => inv.closed > inv.due
                      /\ inv.status \in {"Open", "Paid", "Expired"} => inv.opened # Never
                      /\ inv.status \in {"Paid", "Expired"} => inv.opened <= inv.closed
    BY <1>1 DEF DueDateKept
  <2>1. CASE i # id
    <3>1. invoices'[i] = invoices[i]
      BY <1>1, <2>1
    <3>2. (InTime(i)' <=> InTime(i)) /\ (Overdue(i)' <=> Overdue(i))
      BY <1>2, <3>1 DEF InTime, Overdue
    <3> QED BY <3>1, <3>2 DEF DueDateKept
  <2>2. CASE i = id
    <3>1. InTime(id)' <=> ~Overdue(id)'
      BY <1>1, <1>2, <1>3 DEF InTime, Overdue
    <3>2. invoices[id].due # NoDue => invoices[id].opened < invoices[id].due
      BY DEF DueDateKept
    <3>3. changes.due # NoDue => changes.opened < changes.due
      BY <1>3, <3>2
    <3>4. CASE to = "Open"
      <4>1. changes.opened # Never
        BY <3>4, <1>3 DEF InvoiceTypeOK, Ledgers
      <4> QED BY <1>1, <2>2, <3>1, <3>3, <3>4, <4>1
    <3>5. CASE to = "Expired"
      <4>1. invoices[id].opened # Never /\ invoices[id].opened <= ledger
        BY <1>1, <3>5 DEF DueDateKept, OpenedBefore
      <4>2. changes.due # NoDue => changes.closed > changes.due
        BY <3>5, <1>3 DEF Overdue
      <4> QED BY <1>1, <2>2, <3>1, <3>3, <3>5, <4>1, <4>2
    <3>6. CASE to = "Cancelled"
      BY <1>1, <2>2, <3>1, <3>3, <3>6
    <3> QED BY <3>4, <3>5, <3>6
  <2> QED BY <2>1, <2>2
<1> QED BY <1>4, <1>5, <1>6, <1>7, <1>8

LEMMA OpenKeepsInv ==
  ASSUME InvoiceInv, NEW id \in Ids, Open(id)
  PROVE  InvoiceInv'
<1> DEFINE changes == [invoices[id] EXCEPT !.opened = ledger]
<1> USE DEF InvoiceInv
<1>1. ledger \in Ledgers
  BY DEF InvoiceTypeOK
<1>2. changes \in InvoiceRecords /\ changes.due = invoices[id].due /\ changes.opened = ledger
  BY <1>1, StoredId DEF InvoiceRecords
<1>3. Move(id, {"Draft"}, "Open", changes) /\ UNCHANGED <<storageVars, tokenVars, ledger>>
      /\ (changes.due # NoDue => ledger < changes.due)
  BY <1>2 DEF Open
<1> HIDE DEF changes, InvoiceInv
<1> QED BY <1>2, <1>3, UnpaidKeepsInv

LEMMA ClosedType ==
  ASSUME InvoiceTypeOK, NEW id \in Ids
  PROVE  /\ Closed(id) \in InvoiceRecords /\ Closed(id).due = invoices[id].due
         /\ Closed(id).opened = invoices[id].opened /\ Closed(id).closed = ledger
<1>1. ledger \in Ledgers
  BY DEF InvoiceTypeOK
<1> QED BY <1>1, StoredId DEF InvoiceRecords, Closed

LEMMA CancelKeepsInvoiceInv ==
  ASSUME InvoiceInv, NEW id \in Ids, Cancel(id)
  PROVE  InvoiceInv'
<1>1. InvoiceTypeOK
  BY DEF InvoiceInv
<1>2. Move(id, Cancellable, "Cancelled", Closed(id)) /\ UNCHANGED <<storageVars, tokenVars, ledger>>
  BY DEF Cancel
<1>3. "Paid" \notin Cancellable
  BY DEF Cancellable
<1> QED BY <1>1, <1>2, <1>3, ClosedType, UnpaidKeepsInv

LEMMA ExpireKeepsInv ==
  ASSUME InvoiceInv, NEW id \in Ids, Expire(id)
  PROVE  InvoiceInv'
<1>1. InvoiceTypeOK
  BY DEF InvoiceInv
<1>2. Move(id, {"Open"}, "Expired", Closed(id)) /\ UNCHANGED <<storageVars, tokenVars, ledger>>
      /\ Overdue(id)
  BY DEF Expire
<1> QED BY <1>1, <1>2, ClosedType, UnpaidKeepsInv

-----------------------------------------------------------------------------
LEMMA TransferType ==
  ASSUME balance \in [Parties -> Nat], NEW from \in Parties, NEW to \in Parties,
         NEW amount \in Nat, Transfer(from, to, amount)
  PROVE  balance' \in [Parties -> Nat]
<1>1. ASSUME NEW b \in Parties
      PROVE  balance[b] - (IF b = from THEN amount ELSE 0) + (IF b = to THEN amount ELSE 0) \in Nat
  BY DEF Transfer
<1> QED BY <1>1 DEF Transfer

\* A payment closes an open invoice that had none, and adds one for it.
LEMMA PayKeepsInv ==
  ASSUME InvoiceInv, NEW id \in Ids, NEW payer \in Parties, Pay(id, payer)
  PROVE  InvoiceInv'
<1> DEFINE Payments == [id : Ids, payer : Parties, at : Ledgers]
           paid == [id |-> id, payer |-> payer, at |-> ledger]
<1> USE DEF InvoiceInv
<1>1. /\ Closed(id) \in InvoiceRecords /\ Closed(id).due = invoices[id].due
      /\ Closed(id).opened = invoices[id].opened /\ Closed(id).closed = ledger
  BY ClosedType
<1>2. /\ invoices[id].status = "Open"
      /\ Ids' = Ids /\ invoices' \in [Ids -> InvoiceRecords]
      /\ invoices'[id].status = "Paid" /\ invoices'[id].due = invoices[id].due
      /\ invoices'[id].opened = invoices[id].opened /\ invoices'[id].closed = ledger
      /\ \A i \in Ids \ {id} : invoices'[i] = invoices[i]
  <2> DEFINE changes == Closed(id)
  <2>1. InvoiceTypeOK /\ "Paid" \in Statuses
    BY DEF Statuses
  <2>2. Move(id, {"Open"}, "Paid", changes)
    BY DEF Pay, Payable
  <2>3. changes \in InvoiceRecords
    BY <1>1
  <2> HIDE DEF changes, InvoiceInv
  <2>4. /\ invoices[id].status \in {"Open"}
        /\ Ids' = Ids /\ invoices' \in [Ids -> InvoiceRecords]
        /\ invoices'[id].status = "Paid" /\ invoices'[id].due = changes.due
        /\ invoices'[id].opened = changes.opened /\ invoices'[id].closed = changes.closed
        /\ \A i \in Ids \ {id} : invoices'[i] = invoices[i]
    BY <2>1, <2>2, <2>3, MoveKeepsOthers
  <2> QED BY <1>1, <2>4 DEF changes
<1>3. /\ counter' = counter /\ byCreator' = byCreator /\ byRecipient' = byRecipient /\ ledger' = ledger
      /\ payer = id.recipient /\ InTime(id) /\ payments' = Append(payments, paid)
      /\ Transfer(payer, id.creator, id.amount)
  BY DEF Pay, storageVars
<1>4. /\ ledger \in Ledgers /\ ledger \in Int
      /\ invoices[id].opened \in Int /\ invoices[id].due \in Int /\ NoDue = -1 /\ Never = -1
  BY StoredId DEF InvoiceTypeOK, Ledgers, NoDue, Never
<1>5. paid \in Payments /\ payments \in Seq(Payments)
  BY <1>4 DEF InvoiceTypeOK
<1>6. /\ payments' \in Seq(Payments) /\ Len(payments') = Len(payments) + 1
      /\ payments'[Len(payments) + 1] = paid
      /\ \A n \in 1..Len(payments) : payments'[n] = payments[n]
  <2> HIDE DEF Payments, paid
  <2> QED BY <1>3, <1>5, AppendProperties
<1>7. InvoiceTypeOK'
  <2>1. balance' \in [Parties -> Nat]
    <3>1. id.creator \in Parties /\ id.amount \in Nat
      BY StoredId DEF IdsDrawn
    <3> QED BY <1>3, <3>1, TransferType DEF InvoiceTypeOK
  <2> QED BY <1>2, <1>3, <1>6, <2>1 DEF InvoiceTypeOK
<1>8. IdsDrawn' /\ OpenedBefore'
  BY <1>2, <1>3 DEF IdsDrawn, OpenedBefore
<1>9. PaidExactlyOnce'
  <2>1. Len(payments) \in Nat /\ DOMAIN payments = 1..Len(payments)
        /\ DOMAIN payments' = 1..Len(payments')
    <3> HIDE DEF Payments
    <3> QED BY <1>5, <1>6, LenProperties
  <2>2. \A n \in DOMAIN payments' : n \in DOMAIN payments \/ n = Len(payments) + 1
    BY <1>6, <2>1
  <2>3. DOMAIN payments \subseteq DOMAIN payments' /\ Len(payments) + 1 \in DOMAIN payments'
        /\ Len(payments) + 1 \notin DOMAIN payments
    BY <1>6, <2>1
  <2>4. \A n \in DOMAIN payments : payments'[n] = payments[n] /\ payments[n].id \in Ids
                                  /\ payments[n].id # id
    BY <1>2, <1>6, <2>1, PaymentsType DEF PaidExactlyOnce
  <2>5. payments'[Len(payments) + 1].id = id /\ payments'[Len(payments) + 1].payer = id.recipient
        /\ payments'[Len(payments) + 1].at = ledger
    BY <1>3, <1>6
  <2> HIDE DEF paid, Payments
  <2>6. ASSUME NEW i \in Ids
        PROVE  invoices'[i].status = "Paid" <=> \E n \in DOMAIN payments' : payments'[n].id = i
    <3>1. CASE i = id
      BY <1>2, <2>3, <2>5, <3>1
    <3>2. CASE i # id
      <4>1. invoices[i].status = "Paid" <=> \E n \in DOMAIN payments : payments[n].id = i
        BY DEF PaidExactlyOnce
      <4>2. invoices'[i] = invoices[i]
        BY <1>2, <3>2
      <4> QED BY <2>2, <2>3, <2>4, <2>5, <3>2, <4>1, <4>2
    <3> QED BY <3>1, <3>2
  <2>7. ASSUME NEW n \in DOMAIN payments'
        PROVE  /\ payments'[n].payer = payments'[n].id.recipient
               /\ payments'[n].at = invoices'[payments'[n].id].closed
               /\ \A m \in DOMAIN payments' : payments'[m].id = payments'[n].id => m = n
    <3>1. CASE n = Len(payments) + 1
      BY <1>2, <2>2, <2>4, <2>5, <3>1
    <3>2. CASE n \in DOMAIN payments
      <4>1. /\ payments[n].payer = payments[n].id.recipient
            /\ payments[n].at = invoices[payments[n].id].closed
            /\ \A m \in DOMAIN payments : payments[m].id = payments[n].id => m = n
        BY <3>2 DEF PaidExactlyOnce
      <4>2. invoices'[payments[n].id] = invoices[payments[n].id]
        BY <1>2, <2>4, <3>2
      <4> QED BY <2>2, <2>4, <2>5, <3>2, <4>1, <4>2
    <3> QED BY <2>2, <3>1, <3>2
  <2> QED BY <1>2, <2>6, <2>7 DEF PaidExactlyOnce
<1>10. DueDateKept'
  <2> SUFFICES ASSUME NEW i \in Ids
               PROVE  LET inv == invoices'[i] IN
                      /\ inv.status = "Open" => (InTime(i)' <=> ~Overdue(i)')
                      /\ inv.due # NoDue =>
                           /\ inv.opened < inv.due
                           /\ inv.status = "Paid" => inv.closed <= inv.due
                           /\ inv.status = "Expired" => inv.closed > inv.due
                      /\ inv.status \in {"Open", "Paid", "Expired"} => inv.opened # Never
                      /\ inv.status \in {"Paid", "Expired"} => inv.opened <= inv.closed
    BY <1>2 DEF DueDateKept
  <2>1. CASE i # id
    <3>1. invoices'[i] = invoices[i]
      BY <1>2, <2>1
    <3>2. (InTime(i)' <=> InTime(i)) /\ (Overdue(i)' <=> Overdue(i))
      BY <1>3, <3>1 DEF InTime, Overdue
    <3> QED BY <3>1, <3>2 DEF DueDateKept
  <2>2. CASE i = id
    <3>1. /\ invoices[id].due # NoDue => invoices[id].opened < invoices[id].due
          /\ invoices[id].opened # Never /\ invoices[id].opened <= ledger
      BY <1>2 DEF DueDateKept, OpenedBefore
    <3>2. invoices[id].due # NoDue => ledger <= invoices[id].due
      BY <1>3 DEF InTime
    <3> QED BY <1>2, <2>2, <3>1, <3>2
  <2> QED BY <2>1, <2>2
<1> QED BY <1>7, <1>8, <1>9, <1>10

-----------------------------------------------------------------------------
\* A new invoice has an id of its own, because its number is new.
LEMMA CreateAddsOne ==
  ASSUME InvoiceInv, NEW c \in Parties, NEW r \in Parties, NEW a \in Amounts, NEW due \in DueDates,
         Create(c, r, a, due)
  PROVE  LET id == InvoiceId(c, r, a, counter + 1) IN
         /\ id \in InvoiceIds /\ id \notin Ids /\ Ids' = Ids \union {id}
         /\ id.nonce = counter' /\ id.amount > 0
         /\ id.creator = c /\ id.recipient = r
         /\ invoices' \in [Ids' -> InvoiceRecords]
         /\ invoices'[id].status = "Draft" /\ invoices'[id].due = due
         /\ invoices'[id].opened = Never
         /\ \A i \in Ids : invoices'[i] = invoices[i]
<1> DEFINE id == InvoiceId(c, r, a, counter + 1)
           inv == [status |-> "Draft", due |-> due, opened |-> Never, closed |-> Never]
<1>1. counter \in Nat /\ ledger \in Ledgers /\ a \in Int /\ a > 0 /\ counter' = counter + 1
      /\ due \in Nat \union {NoDue}
  BY InvoiceAssumption DEF InvoiceInv, InvoiceTypeOK, Create
<1>2. id \in InvoiceIds /\ id.nonce = counter + 1 /\ id.amount = a /\ id.creator = c /\ id.recipient = r
  BY <1>1 DEF InvoiceId, InvoiceIds
<1>3. id \notin Ids
  <2> HIDE DEF id
  <2> QED BY <1>1, <1>2 DEF InvoiceInv, IdsDrawn
<1>4. inv \in InvoiceRecords /\ inv.status = "Draft" /\ inv.due = due /\ inv.opened = Never
  BY <1>1 DEF InvoiceRecords, Statuses
<1>5. invoices' = [i \in Ids \union {id} |-> IF i = id THEN inv ELSE invoices[i]]
  BY DEF Create, Store
<1> HIDE DEF id, inv
<1>6. Ids' = Ids \union {id}
  <2>1. DOMAIN invoices' = Ids \union {id}
    BY <1>5
  <2> QED BY <2>1 DEF Ids
<1>7. invoices \in [Ids -> InvoiceRecords]
  BY DEF InvoiceInv, InvoiceTypeOK
<1>8. invoices' \in [Ids \union {id} -> InvoiceRecords]
  BY <1>4, <1>5, <1>7
<1>9. invoices'[id] = inv /\ \A i \in Ids : invoices'[i] = invoices[i]
  BY <1>3, <1>5
<1> QED BY <1>1, <1>2, <1>3, <1>4, <1>6, <1>8, <1>9 DEF id

LEMMA SeqMonotone ==
  ASSUME NEW S, NEW T, S \subseteq T, NEW s \in Seq(S)
  PROVE  s \in Seq(T)
<1>1. Len(s) \in Nat /\ s \in [1..Len(s) -> S]
  BY LenProperties
<1>2. s \in [1..Len(s) -> T]
  BY <1>1
<1> QED BY <1>1, <1>2, IsASeq

LEMMA IndexType ==
  ASSUME NEW S, NEW T, S \subseteq T, NEW id \in T, NEW p \in Parties,
         NEW index \in [Parties -> Seq(S)]
  PROVE  PushToIndex(index, p, id) \in [Parties -> Seq(T)]
<1>1. ASSUME NEW q \in Parties PROVE index[q] \in Seq(T)
  BY SeqMonotone
<1>2. Append(index[p], id) \in Seq(T)
  BY <1>1, AppendProperties
<1> QED BY <1>1, <1>2 DEF PushToIndex

LEMMA CreateKeepsInv ==
  ASSUME InvoiceInv, NEW c \in Parties, NEW r \in Parties, NEW a \in Amounts, NEW due \in DueDates,
         Create(c, r, a, due)
  PROVE  InvoiceInv'
<1> DEFINE id == InvoiceId(c, r, a, counter + 1)
<1>1. /\ id \in InvoiceIds /\ id \notin Ids /\ Ids' = Ids \union {id}
      /\ id.nonce = counter' /\ id.amount > 0
      /\ invoices' \in [Ids' -> InvoiceRecords]
      /\ invoices'[id].status = "Draft" /\ invoices'[id].due = due
      /\ invoices'[id].opened = Never
      /\ \A i \in Ids : invoices'[i] = invoices[i]
  BY CreateAddsOne
<1>2. /\ counter < MaxInvoices /\ counter' = counter + 1
      /\ byCreator' = PushToIndex(byCreator, c, id) /\ byRecipient' = PushToIndex(byRecipient, r, id)
      /\ balance' = balance /\ payments' = payments /\ ledger' = ledger
  BY DEF Create, tokenVars
<1> HIDE DEF id
<1>3. counter \in 0..MaxInvoices /\ ledger \in Int /\ ledger >= 0 /\ due \in Nat \union {NoDue}
      /\ NoDue = -1 /\ Never = -1 /\ Ids \subseteq InvoiceIds
  BY InvoiceAssumption DEF InvoiceInv, InvoiceTypeOK, Ledgers, NoDue, Never
<1>4. InvoiceTypeOK'
  <2>1. byCreator' \in [Parties -> Seq(Ids')] /\ byRecipient' \in [Parties -> Seq(Ids')]
    <3>1. Ids \subseteq Ids' /\ id \in Ids'
      BY <1>1
    <3>2. byCreator \in [Parties -> Seq(Ids)] /\ byRecipient \in [Parties -> Seq(Ids)]
      BY DEF InvoiceInv, InvoiceTypeOK
    <3> QED BY <1>2, <3>1, <3>2, IndexType
  <2>2. payments' \in Seq([id : Ids', payer : Parties, at : Ledgers])
    <3>1. [id : Ids, payer : Parties, at : Ledgers] \subseteq [id : Ids', payer : Parties, at : Ledgers]
      BY <1>1
    <3>2. payments \in Seq([id : Ids, payer : Parties, at : Ledgers])
      BY DEF InvoiceInv, InvoiceTypeOK
    <3> QED BY <1>2, <3>1, <3>2, SeqMonotone
  <2>3. counter' \in 0..MaxInvoices
    BY <1>2, <1>3, InvoiceAssumption
  <2>4. Ids' \subseteq InvoiceIds
    BY <1>1, <1>3
  <2>5. balance' \in [Parties -> Nat] /\ ledger' \in Ledgers
    BY <1>2 DEF InvoiceInv, InvoiceTypeOK
  <2> QED BY <1>1, <2>1, <2>2, <2>3, <2>4, <2>5 DEF InvoiceTypeOK
<1>5. IdsDrawn'
  <2>1. \A i \in Ids : i.nonce <= counter' /\ i.amount > 0
    <3>1. \A i \in Ids : i.nonce \in Nat
      BY <1>3 DEF InvoiceIds
    <3> QED BY <1>2, <1>3, <3>1 DEF InvoiceInv, IdsDrawn
  <2>2. id.nonce <= counter'
    BY <1>1, <1>2, <1>3
  <2> QED BY <1>1, <2>1, <2>2 DEF IdsDrawn
<1>6. OpenedBefore'
  BY <1>1, <1>2, <1>3 DEF InvoiceInv, OpenedBefore
<1>7. PaidExactlyOnce'
  <2>1. \A n \in DOMAIN payments : payments[n].id \in Ids /\ payments[n].id # id
    BY <1>1, PaymentsType DEF InvoiceInv
  <2>2. ASSUME NEW i \in Ids' PROVE invoices'[i].status = "Paid" <=> \E n \in DOMAIN payments : payments[n].id = i
    <3>1. CASE i = id
      BY <1>1, <2>1, <3>1
    <3>2. CASE i # id
      BY <1>1, <3>2 DEF InvoiceInv, PaidExactlyOnce
    <3> QED BY <3>1, <3>2
  <2>3. \A n \in DOMAIN payments : invoices'[payments[n].id] = invoices[payments[n].id]
    BY <1>1, <2>1
  <2> QED BY <1>2, <2>2, <2>3 DEF InvoiceInv, PaidExactlyOnce
<1>8. DueDateKept'
  <2> SUFFICES ASSUME NEW i \in Ids'
               PROVE  LET inv == invoices'[i] IN
                      /\ inv.status = "Open" => (InTime(i)' <=> ~Overdue(i)')
                      /\ inv.due # NoDue =>
                           /\ inv.opened < inv.due
                           /\ inv.status = "Paid" => inv.closed <= inv.due
                           /\ inv.status = "Expired" => inv.closed > inv.due
                      /\ inv.status \in {"Open", "Paid", "Expired"} => inv.opened # Never
                      /\ inv.status \in {"Paid", "Expired"} => inv.opened <= inv.closed
    BY DEF DueDateKept
  <2>1. CASE i = id
    BY <1>1, <1>3, <2>1
  <2>2. CASE i \in Ids
    <3>1. invoices'[i] = invoices[i]
      BY <1>1, <2>2
    <3>2. (InTime(i)' <=> InTime(i)) /\ (Overdue(i)' <=> Overdue(i))
      BY <1>2, <3>1 DEF InTime, Overdue
    <3> QED BY <2>2, <3>1, <3>2 DEF InvoiceInv, DueDateKept
  <2> QED BY <1>1, <2>1, <2>2
<1> QED BY <1>4, <1>5, <1>6, <1>7, <1>8 DEF InvoiceInv

LEMMA ClockKeepsInv ==
  ASSUME InvoiceInv, LedgerCloses
  PROVE  InvoiceInv'
<1>1. /\ ledger \in Int /\ ledger' = ledger + 1 /\ ledger' \in Ledgers /\ counter' = counter
      /\ byCreator' = byCreator /\ byRecipient' = byRecipient /\ balance' = balance
      /\ payments' = payments /\ invoices' = invoices /\ Ids' = Ids
  BY InvoiceAssumption DEF InvoiceInv, InvoiceTypeOK, LedgerCloses, Ledgers, storageVars, tokenVars, Ids
<1>2. InvoiceTypeOK' /\ IdsDrawn' /\ PaidExactlyOnce'
  BY <1>1 DEF InvoiceInv, InvoiceTypeOK, IdsDrawn, PaidExactlyOnce
<1>3. \A id \in Ids : invoices[id].opened \in Int /\ invoices[id].due \in Int
  BY StoredId DEF InvoiceInv, Ledgers, Never, NoDue
<1>4. OpenedBefore'
  BY <1>1, <1>3 DEF InvoiceInv, OpenedBefore
<1>5. \A id \in Ids : InTime(id)' <=> ~Overdue(id)'
  BY <1>1, <1>3 DEF InTime, Overdue
<1>6. DueDateKept'
  BY <1>1, <1>5 DEF InvoiceInv, DueDateKept
<1> QED BY <1>2, <1>4, <1>6 DEF InvoiceInv

-----------------------------------------------------------------------------
LEMMA InvoiceInitInv == InvoiceInit => InvoiceInv
<1> SUFFICES ASSUME InvoiceInit PROVE InvoiceInv
  OBVIOUS
<1>1. Ids = {}
  BY DEF InvoiceInit, Ids
<1>2. InvoiceTypeOK
  BY <1>1, InvoiceAssumption DEF InvoiceInit, InvoiceTypeOK, Ledgers
<1>3. DOMAIN payments = {}
  BY DEF InvoiceInit
<1> QED BY <1>1, <1>2, <1>3 DEF InvoiceInv, IdsDrawn, OpenedBefore, PaidExactlyOnce, DueDateKept

LEMMA NextKeepsInvoiceInv == InvoiceInv /\ [InvoiceNext]_invoiceVars => InvoiceInv'
<1> SUFFICES ASSUME InvoiceInv, [InvoiceNext]_invoiceVars PROVE InvoiceInv'
  OBVIOUS
<1>1. CASE \E c, r \in Parties, a \in Amounts, due \in DueDates : Create(c, r, a, due)
  BY <1>1, CreateKeepsInv
<1>2. CASE \E id \in Ids : Open(id) \/ Cancel(id) \/ Expire(id)
  BY <1>2, OpenKeepsInv, CancelKeepsInvoiceInv, ExpireKeepsInv
<1>3. CASE \E id \in Ids, payer \in Parties : Pay(id, payer)
  BY <1>3, PayKeepsInv
<1>4. CASE LedgerCloses
  BY <1>4, ClockKeepsInv
<1>5. CASE UNCHANGED invoiceVars
  BY <1>5 DEF invoiceVars, storageVars, tokenVars, InvoiceInv, InvoiceTypeOK, IdsDrawn,
              OpenedBefore, PaidExactlyOnce, DueDateKept, Ids, InTime, Overdue
<1> QED BY <1>1, <1>2, <1>3, <1>4, <1>5 DEF InvoiceNext, PayVerified

\* Every call of the contract keeps the inductive invariant.
THEOREM InvoiceInvariant == InvoiceSpec => []InvoiceInv
BY InvoiceInitInv, NextKeepsInvoiceInv, PTL DEF InvoiceSpec

\* What the contract stores has its types, no balance negative.
THEOREM InvoiceTypes == InvoiceSpec => []InvoiceTypeOK
<1>1. InvoiceInv => InvoiceTypeOK
  BY DEF InvoiceInv
<1> QED BY <1>1, InvoiceInvariant, PTL

\* The recipient has paid once if the invoice is Paid, and never otherwise.
THEOREM PaidOnce == InvoiceSpec => []PaidExactlyOnce
<1>1. InvoiceInv => PaidExactlyOnce
  BY DEF InvoiceInv
<1> QED BY <1>1, InvoiceInvariant, PTL

\* The three comparisons with the due date agree.
THEOREM DueDatesAgree == InvoiceSpec => []DueDateKept
<1>1. InvoiceInv => DueDateKept
  BY DEF InvoiceInv
<1> QED BY <1>1, InvoiceInvariant, PTL

-----------------------------------------------------------------------------
\* What a step leaves of the invoices that are Paid, Expired or Cancelled.
FinalKept == \A id \in Ids : invoices[id].status \in FinalStatuses =>
               id \in Ids' /\ invoices'[id] = invoices[id]

LEMMA MoveKeepsFinal ==
  ASSUME InvoiceTypeOK, NEW id \in Ids, NEW from, NEW to \in Statuses,
         NEW changes \in InvoiceRecords, Move(id, from, to, changes),
         from \intersect FinalStatuses = {}
  PROVE  FinalKept
<1>1. /\ invoices[id].status \in from /\ Ids' = Ids
      /\ \A i \in Ids \ {id} : invoices'[i] = invoices[i]
  BY MoveKeepsOthers
<1> QED BY <1>1 DEF FinalKept

LEMMA StepKeepsFinal == InvoiceInv /\ [InvoiceNext]_invoiceVars => FinalKept
<1> SUFFICES ASSUME InvoiceInv, [InvoiceNext]_invoiceVars PROVE FinalKept
  OBVIOUS
<1>1. InvoiceTypeOK /\ {"Open", "Expired", "Cancelled", "Paid"} \subseteq Statuses
  BY DEF InvoiceInv, Statuses
<1>2. CASE \E c, r \in Parties, a \in Amounts, due \in DueDates : Create(c, r, a, due)
  BY <1>2, CreateAddsOne DEF FinalKept
<1>3. ASSUME NEW id \in Ids, Open(id) PROVE FinalKept
  <2> DEFINE changes == [invoices[id] EXCEPT !.opened = ledger]
  <2>1. Move(id, {"Draft"}, "Open", changes) /\ {"Draft"} \intersect FinalStatuses = {}
    BY <1>3 DEF Open, FinalStatuses
  <2>2. changes \in InvoiceRecords
    BY <1>1, StoredId DEF InvoiceTypeOK, InvoiceRecords
  <2> HIDE DEF changes
  <2> QED BY <1>1, <2>1, <2>2, MoveKeepsFinal
<1>4. ASSUME NEW id \in Ids, Cancel(id) PROVE FinalKept
  <2>1. Move(id, Cancellable, "Cancelled", Closed(id)) /\ Cancellable \intersect FinalStatuses = {}
    BY <1>4 DEF Cancel, Cancellable, FinalStatuses
  <2> QED BY <1>1, <2>1, ClosedType, MoveKeepsFinal
<1>5. ASSUME NEW id \in Ids, Expire(id) PROVE FinalKept
  <2>1. Move(id, {"Open"}, "Expired", Closed(id)) /\ {"Open"} \intersect FinalStatuses = {}
    BY <1>5 DEF Expire, FinalStatuses
  <2> QED BY <1>1, <2>1, ClosedType, MoveKeepsFinal
<1>6. ASSUME NEW id \in Ids, NEW payer \in Parties, Pay(id, payer) PROVE FinalKept
  <2>1. Move(id, {"Open"}, "Paid", Closed(id)) /\ {"Open"} \intersect FinalStatuses = {}
    BY <1>6 DEF Pay, Payable, FinalStatuses
  <2> QED BY <1>1, <2>1, ClosedType, MoveKeepsFinal
<1>7. CASE LedgerCloses
  BY <1>7 DEF LedgerCloses, FinalKept, Ids
<1>8. CASE UNCHANGED invoiceVars
  BY <1>8 DEF invoiceVars, FinalKept, Ids
<1> QED BY <1>2, <1>3, <1>4, <1>5, <1>6, <1>7, <1>8 DEF InvoiceNext, PayVerified

\* A Paid, Expired or Cancelled invoice stays as it is.
THEOREM FinalInvoicesStay == InvoiceSpec => FinalIsFinal
<1>1. InvoiceInv /\ [InvoiceNext]_invoiceVars => [FinalKept]_invoiceVars
  BY StepKeepsFinal
<1>2. InvoiceSpec => [][FinalKept]_invoiceVars
  BY <1>1, InvoiceInvariant, PTL DEF InvoiceSpec
<1> QED BY <1>2 DEF FinalIsFinal, FinalKept

-----------------------------------------------------------------------------
(* The books. AmountsOf adds the amounts in the order CHOOSE gives: what it    *)
(* returns does not depend on that order. Nothing here is by induction on a    *)
(* set: of the subsets with some property one is least (LeastSubset), and that *)
(* one gives the contradiction.                                                *)

\* What is added of a set, given the sums of its subsets.
Added(f, s) ==
  IF s = {} THEN 0
  ELSE LET id == CHOOSE i \in s : TRUE IN id.amount + f[s \ {id}]
IsSum(f, ids) == f = [s \in SUBSET ids |-> Added(f, s)]
SumOver(ids) == CHOOSE f : IsSum(f, ids)

\* AmountsOf takes the value at the whole set of the function that adds up its subsets.
LEMMA AmountsAreChosen ==
  ASSUME NEW ids
  PROVE  AmountsOf(ids) = SumOver(ids)[ids]
BY DEF AmountsOf, IsSum, Added, SumOver

\* Among the subsets of a finite set with a property, one has none below it.
LEMMA LeastSubset ==
  ASSUME NEW S, IsFiniteSet(S), NEW T, T \subseteq SUBSET S, T # {}
  PROVE  \E A \in T : \A B \in T : B \subseteq A => B = A
<1>1. IsWellFoundedOn(StrictSubsetOrdering(S), FiniteSubsetsOf(S))
  BY FS_StrictSubsetOrderingWellFounded
<1>2. IsWellFoundedOn(StrictSubsetOrdering(S), SUBSET S)
  BY <1>1, FS_FiniteSubsetsOfFinite
<1>3. PICK A \in T : \A B \in T : <<B, A>> \notin StrictSubsetOrdering(S)
  BY <1>2, WFMin
<1>4. ASSUME NEW B \in T, B \subseteq A, B # A PROVE FALSE
  <2>1. <<B, A>> \in StrictSubsetOrdering(S)
    BY <1>4 DEF StrictSubsetOrdering
  <2> QED BY <1>3, <2>1
<1> QED BY <1>4

\* What is added of a set depends on the sums of smaller sets only.
LEMMA AddedDepends ==
  ASSUME NEW f, NEW g, NEW s, \A t \in SUBSET s : t # s => f[t] = g[t]
  PROVE  Added(f, s) = Added(g, s)
<1>1. CASE s = {}
  BY <1>1 DEF Added
<1>2. CASE s # {}
  <2> DEFINE id == CHOOSE i \in s : TRUE
  <2>1. id \in s
    BY <1>2
  <2>2. f[s \ {id}] = g[s \ {id}]
    BY <2>1
  <2> QED BY <1>2, <2>2 DEF Added
<1> QED BY <1>1, <1>2

\* Two functions that add up the subsets of a finite set are one.
LEMMA SumUnique ==
  ASSUME NEW S, IsFiniteSet(S), NEW f, NEW g, IsSum(f, S), IsSum(g, S)
  PROVE  f = g
<1> DEFINE differ == {s \in SUBSET S : f[s] # g[s]}
<1>0. /\ f = [s \in SUBSET S |-> f[s]] /\ g = [s \in SUBSET S |-> g[s]]
      /\ \A s \in SUBSET S : f[s] = Added(f, s) /\ g[s] = Added(g, s)
  <2>1. /\ \A s \in SUBSET S : f[s] = Added(f, s)
        /\ f = [s \in SUBSET S |-> f[s]]
    BY DEF IsSum
  <2>2. /\ \A s \in SUBSET S : g[s] = Added(g, s)
        /\ g = [s \in SUBSET S |-> g[s]]
    BY DEF IsSum
  <2> QED BY <2>1, <2>2
<1>1. ASSUME differ # {} PROVE FALSE
  <2>1. PICK A \in differ : \A B \in differ : B \subseteq A => B = A
    <3>1. differ \subseteq SUBSET S
      OBVIOUS
    <3> HIDE DEF differ
    <3> QED BY <1>1, <3>1, LeastSubset
  <2>2. \A t \in SUBSET A : t # A => f[t] = g[t]
    BY <2>1
  <2>3. Added(f, A) = Added(g, A)
    BY <2>2, AddedDepends
  <2> QED BY <1>0, <2>1, <2>3
<1> QED BY <1>0, <1>1

\* The sums of a set hold those of its subsets.
LEMMA SumRestricts ==
  ASSUME NEW S, IsFiniteSet(S), NEW f, IsSum(f, S), NEW T \in SUBSET S, NEW g, IsSum(g, T)
  PROVE  \A t \in SUBSET T : f[t] = g[t]
<1> DEFINE h == [t \in SUBSET T |-> f[t]]
<1>1. ASSUME NEW t \in SUBSET T PROVE h[t] = Added(h, t)
  <2>1. h[t] = f[t] /\ f[t] = Added(f, t)
    BY DEF IsSum
  <2>2. \A u \in SUBSET t : u # t => f[u] = h[u]
    OBVIOUS
  <2>3. Added(f, t) = Added(h, t)
    <3> HIDE DEF h
    <3> QED BY <2>2, AddedDepends
  <2> QED BY <2>1, <2>3
<1>2. IsSum(h, T)
  <2>1. h = [t \in SUBSET T |-> h[t]]
    OBVIOUS
  <2> HIDE DEF h
  <2> QED BY <1>1, <2>1 DEF IsSum
<1>3. IsFiniteSet(T)
  BY FS_Subset
<1>4. h = g
  <2> HIDE DEF h
  <2> QED BY <1>2, <1>3, SumUnique
<1> QED BY <1>4

\* Over a finite set there is such a function, and SumOver is one.
LEMMA SumExists ==
  ASSUME NEW S, IsFiniteSet(S)
  PROVE  IsSum(SumOver(S), S)
<1> DEFINE Bad == {s \in SUBSET S : ~ \E f : IsSum(f, s)}
<1>1. ASSUME Bad # {} PROVE FALSE
  <2>1. PICK A \in Bad : \A B \in Bad : B \subseteq A => B = A
    <3>1. Bad \subseteq SUBSET S
      OBVIOUS
    <3> HIDE DEF Bad
    <3> QED BY <1>1, <3>1, LeastSubset
  <2>2. A \in SUBSET S /\ ~ \E f : IsSum(f, A)
    OBVIOUS
  <2>3. \A s \in SUBSET A : s # A => IsSum(SumOver(s), s)
    <3> SUFFICES ASSUME NEW s \in SUBSET A, s # A PROVE IsSum(SumOver(s), s)
      OBVIOUS
    <3>1. \E f : IsSum(f, s)
      BY <2>1, <2>2
    <3> QED BY <3>1 DEF SumOver
  <2> DEFINE a == [s \in SUBSET A |-> SumOver(s)[s]]
             h == [s \in SUBSET A |-> Added(a, s)]
  <2>4. ASSUME NEW t \in SUBSET A, t # A PROVE h[t] = a[t]
    <3>1. IsSum(SumOver(t), t) /\ IsFiniteSet(t)
      BY <2>2, <2>3, <2>4, FS_Subset
    <3>2. SumOver(t)[t] = Added(SumOver(t), t)
      <4> DEFINE f == SumOver(t)
      <4>1. f = [u \in SUBSET t |-> Added(f, u)]
        BY <3>1 DEF IsSum
      <4>2. t \in SUBSET t
        OBVIOUS
      <4> HIDE DEF f
      <4>3. f[t] = Added(f, t)
        BY <4>1, <4>2
      <4> QED BY <4>3 DEF f
    <3>3. ASSUME NEW u \in SUBSET t, u # t PROVE SumOver(t)[u] = a[u]
      <4>1. u \in SUBSET A /\ u # A
        BY <3>3
      <4>2. IsSum(SumOver(u), u)
        BY <2>3, <4>1
      <4>3. \A v \in SUBSET u : SumOver(t)[v] = SumOver(u)[v]
        BY <3>1, <4>2, SumRestricts
      <4> QED BY <4>1, <4>3
    <3>4. Added(SumOver(t), t) = Added(a, t)
      <4> HIDE DEF a
      <4> QED BY <3>3, AddedDepends
    <3> QED BY <3>2, <3>4
  <2>5. ASSUME NEW s \in SUBSET A PROVE h[s] = Added(h, s)
    <3>1. \A t \in SUBSET s : t # s => a[t] = h[t]
      <4> HIDE DEF a, h
      <4> QED BY <2>4
    <3>2. Added(a, s) = Added(h, s)
      <4> HIDE DEF a, h
      <4> QED BY <3>1, AddedDepends
    <3> QED BY <3>2
  <2>6. IsSum(h, A)
    <3>1. h = [s \in SUBSET A |-> h[s]]
      OBVIOUS
    <3> HIDE DEF h
    <3> QED BY <2>5, <3>1 DEF IsSum
  <2> QED BY <2>2, <2>6
<1>2. S \notin Bad
  BY <1>1
<1>3. \E f : IsSum(f, S)
  BY <1>2
<1> QED BY <1>3 DEF SumOver

\* What AmountsOf computes, as one step of its recursion.
LEMMA AmountsStep ==
  ASSUME NEW S, IsFiniteSet(S)
  PROVE  AmountsOf(S) = IF S = {} THEN 0
                        ELSE LET id == CHOOSE i \in S : TRUE IN id.amount + AmountsOf(S \ {id})
<1> DEFINE f == SumOver(S)
<1>1. IsSum(f, S)
  BY SumExists
<1>2. f = [s \in SUBSET S |-> Added(f, s)] /\ S \in SUBSET S
  BY <1>1 DEF IsSum
<1> HIDE DEF f
<1>3. f[S] = Added(f, S)
  BY <1>2
<1>4. AmountsOf(S) = f[S]
  BY AmountsAreChosen DEF f
<1>5. CASE S = {}
  BY <1>3, <1>4, <1>5 DEF Added
<1>6. CASE S # {}
  <2> DEFINE id == CHOOSE i \in S : TRUE
             T == S \ {id}
  <2>1. T \in SUBSET S /\ IsFiniteSet(T)
    BY FS_Subset
  <2> HIDE DEF T
  <2>2. IsSum(SumOver(T), T)
    BY <2>1, SumExists
  <2>3. f[T] = SumOver(T)[T]
    BY <1>1, <2>1, <2>2, SumRestricts
  <2>4. f[T] = AmountsOf(T)
    BY <2>3, AmountsAreChosen
  <2> QED BY <1>3, <1>4, <1>6, <2>4 DEF Added, T
<1> QED BY <1>5, <1>6

\* Amounts add up in any order.
LEMMA AmountsAdd ==
  ASSUME NEW S, IsFiniteSet(S), \A id \in S : id.amount \in Int
  PROVE  \A s \in SUBSET S : /\ AmountsOf(s) \in Int
                             /\ \A y \in S \ s : AmountsOf(s \union {y}) = AmountsOf(s) + y.amount
<1> DEFINE Sums(s) == /\ AmountsOf(s) \in Int
                      /\ \A y \in S \ s : AmountsOf(s \union {y}) = AmountsOf(s) + y.amount
           Bad == {s \in SUBSET S : ~Sums(s)}
<1>1. ASSUME Bad # {} PROVE FALSE
  <2>1. PICK A \in Bad : \A B \in Bad : B \subseteq A => B = A
    <3>1. Bad \subseteq SUBSET S
      OBVIOUS
    <3> HIDE DEF Bad
    <3> QED BY <1>1, <3>1, LeastSubset
  <2>2. A \in SUBSET S /\ ~Sums(A) /\ IsFiniteSet(A)
    BY FS_Subset
  <2>3. ASSUME NEW c \in A
        PROVE  /\ AmountsOf(A \ {c}) \in Int
               /\ \A y \in S \ (A \ {c}) : AmountsOf((A \ {c}) \union {y}) = AmountsOf(A \ {c}) + y.amount
    <3>1. A \ {c} \in SUBSET S /\ A \ {c} \notin Bad
      BY <2>1, <2>2
    <3> QED BY <3>1
  <2> HIDE DEF Bad
  <2>4. \A c \in A : AmountsOf(A) = c.amount + AmountsOf(A \ {c})
    <3> SUFFICES ASSUME NEW c \in A PROVE AmountsOf(A) = c.amount + AmountsOf(A \ {c})
      OBVIOUS
    <3>1. c \in S \ (A \ {c}) /\ (A \ {c}) \union {c} = A
      BY <2>2
    <3>2. AmountsOf(A) = AmountsOf(A \ {c}) + c.amount
      BY <2>3, <3>1
    <3> QED BY <2>2, <2>3, <3>2
  <2>5. AmountsOf(A) \in Int
    <3>1. CASE A = {}
      <4>1. AmountsOf(A) = 0
        BY <2>2, <3>1, AmountsStep
      <4> QED BY <4>1
    <3>2. CASE A # {}
      <4>1. PICK c \in A : TRUE
        BY <3>2
      <4>2. c.amount \in Int /\ AmountsOf(A \ {c}) \in Int /\ AmountsOf(A) = c.amount + AmountsOf(A \ {c})
        BY <2>2, <2>3, <2>4, <4>1
      <4> QED BY <4>2
    <3> QED BY <3>1, <3>2
  <2>6. ASSUME NEW y \in S \ A PROVE AmountsOf(A \union {y}) = AmountsOf(A) + y.amount
    <3> DEFINE B == A \union {y}
               c == CHOOSE i \in B : TRUE
    <3>1. IsFiniteSet(B) /\ B \in SUBSET S /\ B # {} /\ c \in B
      BY <2>2, FS_Subset
    <3>2. AmountsOf(B) = c.amount + AmountsOf(B \ {c})
      BY <3>1, AmountsStep
    <3> HIDE DEF c
    <3>3. CASE c = y
      <4>1. B \ {c} = A
        BY <3>3
      <4>2. AmountsOf(B) = y.amount + AmountsOf(A) /\ y.amount \in Int
        BY <3>2, <3>3, <4>1
      <4> QED BY <2>5, <4>2
    <3>4. CASE c # y
      <4>1. c \in A /\ B \ {c} = (A \ {c}) \union {y} /\ y \in S \ (A \ {c})
        BY <3>1, <3>4
      <4>2. AmountsOf(B \ {c}) = AmountsOf(A \ {c}) + y.amount
        BY <2>3, <4>1
      <4>3. AmountsOf(A) = c.amount + AmountsOf(A \ {c})
        BY <2>4, <4>1
      <4>4. c.amount \in Int /\ y.amount \in Int /\ AmountsOf(A \ {c}) \in Int
        BY <2>2, <2>3, <4>1
      <4> QED BY <3>2, <4>2, <4>3, <4>4
    <3> QED BY <3>3, <3>4
  <2> QED BY <2>2, <2>5, <2>6
<1> QED BY <1>1

-----------------------------------------------------------------------------
\* Counting up to a number.
LEMMA CountingUp ==
  ASSUME NEW N \in Nat, NEW H, 0 \in H, \A n \in 0..N : n \in H /\ n < N => n + 1 \in H
  PROVE  0..N \subseteq H
<1> DEFINE Bad == {n \in 0..N : n \notin H}
           Sets == {0..n : n \in Bad}
<1>1. ASSUME Bad # {} PROVE FALSE
  <2>1. PICK A \in Sets : \A B \in Sets : B \subseteq A => B = A
    <3> DEFINE S == 0..N
    <3>1. Sets \subseteq SUBSET S /\ Sets # {}
      BY <1>1
    <3>2. IsFiniteSet(S)
      BY FS_Interval
    <3> HIDE DEF Sets, S
    <3> QED BY <3>1, <3>2, LeastSubset
  <2>2. PICK n \in Bad : A = 0..n
    OBVIOUS
  <2>3. n \in 1..N /\ n - 1 \in 0..N
    BY <2>2
  <2>4. n - 1 \notin H
    <3>1. (n - 1) + 1 = n
      BY <2>3
    <3> QED BY <2>2, <2>3, <3>1
  <2>5. 0..(n - 1) \in Sets
    BY <2>3, <2>4
  <2>6. 0..(n - 1) \subseteq A /\ n \in A /\ n \notin 0..(n - 1)
    BY <2>2, <2>3
  <2> QED BY <2>1, <2>5, <2>6
<1> QED BY <1>1

\* The listing of a party after n invoices of the second index.
Entries(s) == {s[m] : m \in DOMAIN s}
OneEach(s) == \A m, n \in DOMAIN s : s[m] = s[n] => m = n
Pushed(f, first, second, n) ==
  IF n = 0 THEN first
  ELSE IF second[n] \in Entries(first) THEN f[n - 1] ELSE Append(f[n - 1], second[n])
IsListing(f, first, second, N) == f = [n \in 0..N |-> Pushed(f, first, second, n)]

\* One more entry.
LEMMA AppendListsOnce ==
  ASSUME NEW T, NEW s \in Seq(T), NEW x \in T, OneEach(s), x \notin Entries(s)
  PROVE  Entries(Append(s, x)) = Entries(s) \union {x} /\ OneEach(Append(s, x))
<1>1. /\ Len(s) \in Nat /\ DOMAIN s = 1..Len(s)
      /\ DOMAIN Append(s, x) = 1..(Len(s) + 1)
      /\ \A m \in 1..Len(s) : Append(s, x)[m] = s[m]
      /\ Append(s, x)[Len(s) + 1] = x
  BY AppendProperties, LenProperties
<1>2. Entries(Append(s, x)) = Entries(s) \union {x}
  <2>1. 1..(Len(s) + 1) = 1..Len(s) \union {Len(s) + 1}
    BY <1>1
  <2> QED BY <1>1, <2>1 DEF Entries
<1>3. OneEach(Append(s, x))
  <2> SUFFICES ASSUME NEW m \in DOMAIN Append(s, x), NEW k \in DOMAIN Append(s, x),
                      Append(s, x)[m] = Append(s, x)[k]
               PROVE  m = k
    BY DEF OneEach
  <2>1. \A j \in DOMAIN s : s[j] # x
    BY DEF Entries
  <2>2. (m \in DOMAIN s \/ m = Len(s) + 1) /\ (k \in DOMAIN s \/ k = Len(s) + 1)
    BY <1>1
  <2> QED BY <1>1, <2>1, <2>2 DEF OneEach
<1> QED BY <1>2, <1>3

\* The function GetByAccount builds exists.
LEMMA ListingExists ==
  ASSUME NEW first, NEW second, NEW N \in Nat
  PROVE  \E f : IsListing(f, first, second, N)
<1> DEFINE H == {n \in 0..N : \E f : IsListing(f, first, second, n)}
<1>1. 0 \in H
  <2> DEFINE f == [n \in 0..0 |-> first]
  <2>1. \A n \in 0..0 : n = 0
    OBVIOUS
  <2>2. f = [n \in 0..0 |-> Pushed(f, first, second, n)]
    BY <2>1 DEF Pushed
  <2> QED BY <2>2 DEF IsListing
<1>2. ASSUME NEW n \in 0..N, n \in H, n < N PROVE n + 1 \in H
  <2>1. PICK f : IsListing(f, first, second, n)
    BY <1>2
  <2> DEFINE g == [k \in 0..(n + 1) |-> IF k = n + 1 THEN Pushed(f, first, second, n + 1) ELSE f[k]]
  <2>2. ASSUME NEW k \in 0..(n + 1) PROVE g[k] = Pushed(g, first, second, k)
    <3>1. k # 0 => k - 1 \in 0..n /\ g[k - 1] = f[k - 1]
      OBVIOUS
    <3>2. Pushed(g, first, second, k) = Pushed(f, first, second, k)
      <4> HIDE DEF g
      <4> QED BY <3>1 DEF Pushed
    <3>3. k \in 0..n => f[k] = Pushed(f, first, second, k)
      BY <2>1 DEF IsListing
    <3> QED BY <3>2, <3>3
  <2>3. IsListing(g, first, second, n + 1)
    <3>1. g = [k \in 0..(n + 1) |-> g[k]]
      OBVIOUS
    <3> HIDE DEF g
    <3> QED BY <2>2, <3>1 DEF IsListing
  <2> QED BY <1>2, <2>3
<1>3. N \in H
  <2> HIDE DEF H
  <2>1. 0..N \subseteq H
    BY <1>1, <1>2, CountingUp
  <2> QED BY <2>1
<1> QED BY <1>3

\* Each invoice of either index is listed once.
LEMMA ListingMerges ==
  ASSUME NEW T, NEW first \in Seq(T), NEW second \in Seq(T), OneEach(first), OneEach(second),
         NEW f, IsListing(f, first, second, Len(second))
  PROVE  /\ Entries(f[Len(second)]) = Entries(first) \union Entries(second)
         /\ OneEach(f[Len(second)])
<1> DEFINE N == Len(second)
           Before(n) == {second[k] : k \in 1..n}
           H == {n \in 0..N : /\ f[n] \in Seq(T) /\ OneEach(f[n])
                              /\ Entries(f[n]) = Entries(first) \union Before(n)}
<1>1. /\ N \in Nat /\ DOMAIN second = 1..N /\ \A n \in 0..N : f[n] = Pushed(f, first, second, n)
      /\ \A n \in 1..N : second[n] \in T
  BY LenProperties, ElementOfSeq DEF IsListing
<1>2. 0 \in H
  BY <1>1 DEF Pushed
<1>3. ASSUME NEW n \in 0..N, n \in H, n < N PROVE n + 1 \in H
  <2>1. /\ f[n] \in Seq(T) /\ OneEach(f[n]) /\ Entries(f[n]) = Entries(first) \union Before(n)
    BY <1>3
  <2>2. n + 1 \in 1..N /\ n + 1 # 0 /\ (n + 1) - 1 = n
    BY <1>1, <1>3
  <2>3. Before(n + 1) = Before(n) \union {second[n + 1]}
    <3>1. 1..(n + 1) = 1..n \union {n + 1}
      BY <1>1
    <3> QED BY <3>1
  <2>4. f[n + 1] = IF second[n + 1] \in Entries(first) THEN f[n] ELSE Append(f[n], second[n + 1])
    BY <1>1, <2>2 DEF Pushed
  <2>5. CASE second[n + 1] \in Entries(first)
    BY <2>1, <2>2, <2>3, <2>4, <2>5
  <2>6. CASE second[n + 1] \notin Entries(first)
    <3> DEFINE s == f[n]
               x == second[n + 1]
    <3>1. x \in T /\ s \in Seq(T) /\ OneEach(s)
      BY <1>1, <2>1, <2>2
    <3>2. x \notin Entries(s)
      <4>1. ASSUME NEW k \in 1..n PROVE second[k] # x
        BY <1>1, <2>2, <4>1 DEF OneEach
      <4> QED BY <2>1, <2>6, <4>1
    <3> HIDE DEF s, x
    <3>3. Append(s, x) \in Seq(T)
      BY <3>1, AppendProperties
    <3>4. Entries(Append(s, x)) = Entries(s) \union {x} /\ OneEach(Append(s, x))
      BY <3>1, <3>2, AppendListsOnce
    <3>6. f[n + 1] = Append(s, x) /\ Entries(s) = Entries(first) \union Before(n)
      BY <2>1, <2>4, <2>6 DEF s, x
    <3>7. Entries(f[n + 1]) = Entries(first) \union Before(n + 1)
      BY <2>3, <3>4, <3>6 DEF x
    <3>8. f[n + 1] \in Seq(T) /\ OneEach(f[n + 1]) /\ n + 1 \in 0..N
      BY <2>2, <3>3, <3>4, <3>6
    <3> HIDE DEF Before
    <3> QED BY <3>7, <3>8
  <2> QED BY <2>5, <2>6
<1>4. N \in H
  <2> HIDE DEF H, N
  <2>1. 0..N \subseteq H
    BY <1>1, <1>2, <1>3, CountingUp
  <2> QED BY <1>1, <2>1
<1>5. Before(N) = Entries(second)
  BY <1>1 DEF Entries
<1> QED BY <1>4, <1>5

\* The listing of a party has the entries of both its indexes, each once.
LEMMA GetByAccountMerges ==
  ASSUME NEW T, NEW p, byCreator[p] \in Seq(T), byRecipient[p] \in Seq(T),
         OneEach(byCreator[p]), OneEach(byRecipient[p])
  PROVE  /\ Entries(GetByAccount(p)) = Entries(byCreator[p]) \union Entries(byRecipient[p])
         /\ OneEach(GetByAccount(p))
<1> DEFINE N == Len(byRecipient[p])
           f == CHOOSE g : IsListing(g, byCreator[p], byRecipient[p], N)
<1>1. N \in Nat
  BY LenProperties
<1>2. GetByAccount(p) = f[N]
  BY DEF GetByAccount, IsListing, Pushed, Entries
<1>3. IsListing(f, byCreator[p], byRecipient[p], N)
  <2>1. \E g : IsListing(g, byCreator[p], byRecipient[p], N)
    BY <1>1, ListingExists
  <2> QED BY <2>1
<1> HIDE DEF f
<1> QED BY <1>2, <1>3, ListingMerges

-----------------------------------------------------------------------------
\* Each index lists the invoices of its party once, and the counter counts them all.
Indexed(index, p, ids) == Entries(index[p]) = ids /\ OneEach(index[p])

IndexesTrue ==
  /\ IsFiniteSet(Ids) /\ Cardinality(Ids) = counter
  /\ \A p \in Parties : /\ Indexed(byCreator, p, {id \in Ids : id.creator = p})
                        /\ Indexed(byRecipient, p, {id \in Ids : id.recipient = p})

BooksInv == InvoiceInv /\ IndexesTrue /\ MoneyMatchesInvoices

LEMMA BooksInit == InvoiceInit => BooksInv
<1> SUFFICES ASSUME InvoiceInit PROVE BooksInv
  OBVIOUS
<1>1. Ids = {} /\ PaidIds = {} /\ counter = 0
  BY DEF InvoiceInit, Ids, PaidIds
<1>2. IsFiniteSet({}) /\ Cardinality({}) = 0
  BY FS_EmptySet
<1>3. \A p \in Parties : byCreator[p] = << >> /\ byRecipient[p] = << >>
  BY DEF InvoiceInit
<1>4. IndexesTrue
  BY <1>1, <1>2, <1>3 DEF IndexesTrue, Indexed, Entries, OneEach
<1>5. AmountsOf({}) = 0
  BY <1>2, AmountsStep
<1>6. \A p \in Parties : {id \in PaidIds : id.creator = p} = {} /\ {id \in PaidIds : id.recipient = p} = {}
  BY <1>1
<1>7. Funds + 0 - 0 = Funds /\ \A p \in Parties : balance[p] = Funds
  BY InvoiceAssumption DEF InvoiceInit
<1>8. MoneyMatchesInvoices
  BY <1>5, <1>6, <1>7 DEF MoneyMatchesInvoices
<1> QED BY <1>4, <1>8, InvoiceInitInv DEF BooksInv

\* Balances and paid invoices that stay keep the money in order.
LEMMA SameMoney ==
  ASSUME MoneyMatchesInvoices, PaidIds' = PaidIds, balance' = balance
  PROVE  MoneyMatchesInvoices'
<1>1. ASSUME NEW p \in Parties
      PROVE  balance'[p] = Funds + AmountsOf({id \in PaidIds' : id.creator = p})
                                 - AmountsOf({id \in PaidIds' : id.recipient = p})
  <2>1. /\ {id \in PaidIds' : id.creator = p} = {id \in PaidIds : id.creator = p}
        /\ {id \in PaidIds' : id.recipient = p} = {id \in PaidIds : id.recipient = p}
    OBVIOUS
  <2>2. balance[p] = Funds + AmountsOf({id \in PaidIds : id.creator = p})
                           - AmountsOf({id \in PaidIds : id.recipient = p})
    BY DEF MoneyMatchesInvoices
  <2> QED BY <2>1, <2>2
<1> QED BY <1>1 DEF MoneyMatchesInvoices, AmountsOf

\* Calls that write neither the indexes nor the token, and pay for nothing.
LEMMA UnpaidKeepsBooks ==
  ASSUME BooksInv, InvoiceInv', Ids' = Ids, PaidIds' = PaidIds,
         UNCHANGED <<counter, byCreator, byRecipient, balance>>
  PROVE  BooksInv'
<1>1. IndexesTrue'
  BY DEF BooksInv, IndexesTrue, Indexed, Entries, OneEach
<1>2. MoneyMatchesInvoices'
  BY SameMoney DEF BooksInv
<1> QED BY <1>1, <1>2 DEF BooksInv

\* Opening, cancelling and expiring are such calls.
LEMMA UnpaidMoves ==
  ASSUME InvoiceInv, NEW id \in Ids, Open(id) \/ Cancel(id) \/ Expire(id)
  PROVE  /\ Ids' = Ids /\ PaidIds' = PaidIds
         /\ UNCHANGED <<counter, byCreator, byRecipient, balance>>
<1> DEFINE opened == [invoices[id] EXCEPT !.opened = ledger]
<1>1. invoices[id] \in InvoiceRecords /\ Closed(id) \in InvoiceRecords /\ InvoiceTypeOK
  BY StoredId, ClosedType DEF InvoiceInv
<1>2. opened \in InvoiceRecords
  BY <1>1 DEF InvoiceRecords, InvoiceTypeOK
<1>3. PICK from \in {{"Draft"}, {"Open"}, {"Draft", "Open"}}, to \in {"Open", "Expired", "Cancelled"},
           changes \in InvoiceRecords : Move(id, from, to, changes)
  <2> HIDE DEF InvoiceInv
  <2>1. CASE Open(id)
    <3>1. Move(id, {"Draft"}, "Open", opened)
      BY <2>1 DEF Open
    <3> HIDE DEF opened
    <3> QED BY <1>2, <3>1
  <2>2. CASE Cancel(id)
    BY <1>1, <2>2 DEF Cancel, Cancellable
  <2>3. CASE Expire(id)
    BY <1>1, <2>3 DEF Expire
  <2> QED BY <2>1, <2>2, <2>3
<1>4. /\ invoices[id].status \in from /\ Ids' = Ids /\ invoices'[id].status = to
      /\ \A i \in Ids \ {id} : invoices'[i] = invoices[i]
  BY <1>1, <1>3, MoveKeepsOthers DEF Statuses
<1>5. \A i \in Ids : invoices'[i].status = "Paid" <=> invoices[i].status = "Paid"
  BY <1>3, <1>4
<1> QED BY <1>4, <1>5 DEF PaidIds, Open, Cancel, Expire, storageVars, tokenVars

\* What a payment moves is the amount of the invoice that becomes Paid.
LEMMA PayKeepsBooks ==
  ASSUME BooksInv, NEW id \in Ids, NEW payer \in Parties, Pay(id, payer)
  PROVE  BooksInv'
<1>1. InvoiceInv /\ InvoiceInv' /\ InvoiceTypeOK
  BY PayKeepsInv DEF BooksInv, InvoiceInv
<1>2. /\ Ids' = Ids /\ PaidIds' = PaidIds \union {id} /\ id \notin PaidIds /\ PaidIds \subseteq Ids
  <2>1. Closed(id) \in InvoiceRecords /\ "Paid" \in Statuses /\ Move(id, {"Open"}, "Paid", Closed(id))
    BY <1>1, ClosedType DEF InvoiceInv, Pay, Payable, Statuses
  <2>2. /\ invoices[id].status \in {"Open"} /\ Ids' = Ids /\ invoices'[id].status = "Paid"
        /\ \A i \in Ids \ {id} : invoices'[i] = invoices[i]
    BY <1>1, <2>1, MoveKeepsOthers
  <2> QED BY <2>2 DEF PaidIds
<1>3. /\ counter' = counter /\ byCreator' = byCreator /\ byRecipient' = byRecipient
      /\ payer = id.recipient /\ Transfer(payer, id.creator, id.amount)
  BY DEF Pay, storageVars
<1>4. IndexesTrue'
  BY <1>2, <1>3 DEF BooksInv, IndexesTrue, Indexed, Entries, OneEach
<1>5. IsFiniteSet(Ids) /\ \A i \in Ids : i.amount \in Int
  BY <1>1, StoredId DEF BooksInv, IndexesTrue
<1>6. ASSUME NEW p \in Parties
      PROVE  balance'[p] = Funds + AmountsOf({i \in PaidIds' : i.creator = p})
                                 - AmountsOf({i \in PaidIds' : i.recipient = p})
  <2> DEFINE In == {i \in PaidIds : i.creator = p}
             Out == {i \in PaidIds : i.recipient = p}
             moreIn == IF id.creator = p THEN id.amount ELSE 0
             moreOut == IF id.recipient = p THEN id.amount ELSE 0
  <2>1. In \in SUBSET Ids /\ Out \in SUBSET Ids /\ id \notin In /\ id \notin Out
    BY <1>2
  <2>2. {i \in PaidIds' : i.creator = p} = (IF id.creator = p THEN In \union {id} ELSE In)
    BY <1>2
  <2>3. {i \in PaidIds' : i.recipient = p} = (IF id.recipient = p THEN Out \union {id} ELSE Out)
    BY <1>2
  <2>4. balance[p] = Funds + AmountsOf(In) - AmountsOf(Out)
    BY DEF BooksInv, MoneyMatchesInvoices
  <2> HIDE DEF In, Out
  <2>5. /\ AmountsOf(In) \in Int /\ AmountsOf(In \union {id}) = AmountsOf(In) + id.amount
        /\ AmountsOf(Out) \in Int /\ AmountsOf(Out \union {id}) = AmountsOf(Out) + id.amount
        /\ id.amount \in Int
    BY <1>5, <2>1, AmountsAdd
  <2>6. AmountsOf({i \in PaidIds' : i.creator = p}) = AmountsOf(In) + moreIn
    <3>1. CASE id.creator = p
      <4>1. {i \in PaidIds' : i.creator = p} = In \union {id} /\ moreIn = id.amount
        BY <2>2, <3>1
      <4> HIDE DEF moreIn
      <4> QED BY <4>1, <2>5
    <3>2. CASE id.creator # p
      <4>1. {i \in PaidIds' : i.creator = p} = In /\ moreIn = 0
        BY <2>2, <3>2
      <4> HIDE DEF moreIn
      <4>2. AmountsOf(In) + 0 = AmountsOf(In)
        BY <2>5
      <4> QED BY <4>1, <4>2
    <3> QED BY <3>1, <3>2
  <2>7. AmountsOf({i \in PaidIds' : i.recipient = p}) = AmountsOf(Out) + moreOut
    <3>1. CASE id.recipient = p
      <4>1. {i \in PaidIds' : i.recipient = p} = Out \union {id} /\ moreOut = id.amount
        BY <2>3, <3>1
      <4> HIDE DEF moreOut
      <4> QED BY <4>1, <2>5
    <3>2. CASE id.recipient # p
      <4>1. {i \in PaidIds' : i.recipient = p} = Out /\ moreOut = 0
        BY <2>3, <3>2
      <4> HIDE DEF moreOut
      <4>2. AmountsOf(Out) + 0 = AmountsOf(Out)
        BY <2>5
      <4> QED BY <4>1, <4>2
    <3> QED BY <3>1, <3>2
  <2>8. balance'[p] = balance[p] - (IF p = id.recipient THEN id.amount ELSE 0)
                                 + (IF p = id.creator THEN id.amount ELSE 0)
    BY <1>3 DEF Transfer
  <2>9. balance'[p] = balance[p] - moreOut + moreIn /\ moreIn \in Int /\ moreOut \in Int
    BY <2>5, <2>8
  <2> HIDE DEF moreIn, moreOut
  <2> QED BY <2>4, <2>5, <2>6, <2>7, <2>9, InvoiceAssumption
<1>7. MoneyMatchesInvoices'
  BY <1>6 DEF MoneyMatchesInvoices, AmountsOf
<1> QED BY <1>1, <1>4, <1>7 DEF BooksInv

\* An id that was in no list is appended to one.
LEMMA PushIndexes ==
  ASSUME NEW S, NEW index \in [Parties -> Seq(S)], NEW p \in Parties, NEW id, NEW q \in Parties,
         NEW ids, Indexed(index, q, ids), id \notin ids
  PROVE  Indexed(PushToIndex(index, p, id), q, IF q = p THEN ids \union {id} ELSE ids)
<1> DEFINE s == index[q]
           T == S \union {id}
<1>1. PushToIndex(index, p, id)[q] = IF q = p THEN Append(s, id) ELSE s
  BY DEF PushToIndex
<1>2. s \in Seq(T) /\ id \in T
  <2>1. s \in Seq(S) /\ S \subseteq T
    OBVIOUS
  <2> HIDE DEF T, s
  <2>2. s \in Seq(T)
    BY <2>1, SeqMonotone
  <2> QED BY <2>2 DEF T
<1>3. Entries(s) = ids /\ OneEach(s)
  BY DEF Indexed
<1> HIDE DEF s, T
<1>4. Entries(Append(s, id)) = Entries(s) \union {id} /\ OneEach(Append(s, id))
  BY <1>2, <1>3, AppendListsOnce
<1> QED BY <1>1, <1>3, <1>4 DEF Indexed

LEMMA CreateKeepsBooks ==
  ASSUME BooksInv, NEW c \in Parties, NEW r \in Parties, NEW a \in Amounts, NEW due \in DueDates,
         Create(c, r, a, due)
  PROVE  BooksInv'
<1> DEFINE id == InvoiceId(c, r, a, counter + 1)
<1>1. /\ id \notin Ids /\ Ids' = Ids \union {id} /\ id.creator = c /\ id.recipient = r
      /\ invoices'[id].status = "Draft" /\ \A i \in Ids : invoices'[i] = invoices[i]
  BY CreateAddsOne DEF BooksInv
<1>2. /\ counter' = counter + 1 /\ balance' = balance
      /\ byCreator' = PushToIndex(byCreator, c, id) /\ byRecipient' = PushToIndex(byRecipient, r, id)
  BY DEF Create, tokenVars
<1> HIDE DEF id
<1>3. InvoiceInv /\ InvoiceInv'
  BY CreateKeepsInv DEF BooksInv
<1>4. byCreator \in [Parties -> Seq(Ids)] /\ byRecipient \in [Parties -> Seq(Ids)]
  BY <1>3 DEF InvoiceInv, InvoiceTypeOK
<1>5. IsFiniteSet(Ids') /\ Cardinality(Ids') = counter'
  BY <1>1, <1>2, FS_AddElement DEF BooksInv, IndexesTrue
<1>6. ASSUME NEW p \in Parties
      PROVE  /\ Indexed(byCreator', p, {i \in Ids' : i.creator = p})
             /\ Indexed(byRecipient', p, {i \in Ids' : i.recipient = p})
  <2> DEFINE made == {i \in Ids : i.creator = p}
             owed == {i \in Ids : i.recipient = p}
  <2>1. Indexed(byCreator, p, made) /\ Indexed(byRecipient, p, owed) /\ id \notin made /\ id \notin owed
    BY <1>1 DEF BooksInv, IndexesTrue
  <2>2. {i \in Ids' : i.creator = p} = (IF p = c THEN made \union {id} ELSE made)
    BY <1>1
  <2>3. {i \in Ids' : i.recipient = p} = (IF p = r THEN owed \union {id} ELSE owed)
    BY <1>1
  <2> HIDE DEF made, owed
  <2>4. Indexed(PushToIndex(byCreator, c, id), p, IF p = c THEN made \union {id} ELSE made)
    BY <1>4, <2>1, PushIndexes
  <2>5. Indexed(PushToIndex(byRecipient, r, id), p, IF p = r THEN owed \union {id} ELSE owed)
    BY <1>4, <2>1, PushIndexes
  <2> QED BY <1>2, <2>2, <2>3, <2>4, <2>5
<1>7. IndexesTrue'
  BY <1>5, <1>6 DEF IndexesTrue, Indexed, Entries, OneEach
<1>8. PaidIds' = PaidIds
  BY <1>1 DEF PaidIds
<1>9. MoneyMatchesInvoices'
  BY <1>2, <1>8, SameMoney DEF BooksInv
<1> QED BY <1>3, <1>7, <1>9 DEF BooksInv

LEMMA NextKeepsBooks == BooksInv /\ [InvoiceNext]_invoiceVars => BooksInv'
<1> SUFFICES ASSUME BooksInv, [InvoiceNext]_invoiceVars PROVE BooksInv'
  OBVIOUS
<1>0. InvoiceInv /\ InvoiceInv'
  BY NextKeepsInvoiceInv DEF BooksInv
<1>1. CASE \E c, r \in Parties, a \in Amounts, due \in DueDates : Create(c, r, a, due)
  BY <1>1, CreateKeepsBooks
<1>2. CASE \E id \in Ids : Open(id) \/ Cancel(id) \/ Expire(id)
  BY <1>0, <1>2, UnpaidMoves, UnpaidKeepsBooks
<1>3. CASE \E id \in Ids, payer \in Parties : Pay(id, payer)
  BY <1>3, PayKeepsBooks
<1>4. CASE LedgerCloses \/ UNCHANGED invoiceVars
  <2>1. Ids' = Ids /\ PaidIds' = PaidIds /\ UNCHANGED <<counter, byCreator, byRecipient, balance>>
    BY <1>4 DEF LedgerCloses, invoiceVars, storageVars, tokenVars, Ids, PaidIds
  <2> QED BY <1>0, <2>1, UnpaidKeepsBooks
<1> QED BY <1>1, <1>2, <1>3, <1>4 DEF InvoiceNext, PayVerified

LEMMA BooksInvMeans == BooksInv => BooksAgree
<1> SUFFICES ASSUME BooksInv PROVE BooksAgree
  OBVIOUS
<1>1. ASSUME NEW p \in Parties
      PROVE  LET list == GetByAccount(p) IN
             /\ {list[n] : n \in DOMAIN list} = {id \in Ids : p \in {id.creator, id.recipient}}
             /\ \A m, n \in DOMAIN list : list[m] = list[n] => m = n
  <2>1. byCreator[p] \in Seq(Ids) /\ byRecipient[p] \in Seq(Ids)
    BY DEF BooksInv, InvoiceInv, InvoiceTypeOK
  <2>2. /\ Entries(byCreator[p]) = {id \in Ids : id.creator = p} /\ OneEach(byCreator[p])
        /\ Entries(byRecipient[p]) = {id \in Ids : id.recipient = p} /\ OneEach(byRecipient[p])
    BY DEF BooksInv, IndexesTrue, Indexed
  <2>3. /\ Entries(GetByAccount(p)) = Entries(byCreator[p]) \union Entries(byRecipient[p])
        /\ OneEach(GetByAccount(p))
    BY <2>1, <2>2, GetByAccountMerges
  <2>4. Entries(GetByAccount(p)) = {id \in Ids : p \in {id.creator, id.recipient}}
    BY <2>2, <2>3
  <2> QED BY <2>3, <2>4 DEF Entries, OneEach
<1>2. ListedOnce
  BY <1>1 DEF ListedOnce, BooksInv, IndexesTrue
<1> QED BY <1>2 DEF BooksAgree, BooksInv

\* The books of the contract are in order after any calls.
THEOREM BooksInvariant == InvoiceSpec => []BooksInv
BY BooksInit, NextKeepsBooks, PTL DEF InvoiceSpec

\* What each party holds is what its Paid invoices say, no invoice overwrites another,
\* and the listing of a party has each of its invoices once.
THEOREM BooksAreInOrder == InvoiceSpec => []BooksAgree
BY BooksInvariant, BooksInvMeans, PTL

-----------------------------------------------------------------------------
(* Upgrades: at most once, in time, and by a quorum.                           *)

-----------------------------------------------------------------------------
\* The parts of the inductive invariant.

PromisesKept ==
  /\ promised \in Seq(Nat) /\ Len(promised) = Len(proposals)
  /\ \A id \in ProposalIds : proposals[id].after = proposals[id].proposed + promised[id]

\* An upgraded proposal is marked, and a marked one was not cancelled.
UpgradesMarked ==
  /\ \A n \in DOMAIN upgrades : proposals[upgrades[n].id].executed
  /\ \A id \in ProposalIds : ~(proposals[id].executed /\ proposals[id].cancelled)

GovernorInv == GovernorTypeOK /\ PromisesKept /\ UpgradesMarked /\ UpgradesOnceInTime

Upgrade(ids) == [id : ids, at : Clocks, multisig : BOOLEAN]

LEMMA ProposalType ==
  ASSUME GovernorTypeOK, NEW id \in ProposalIds
  PROVE  proposals[id] \in Proposal
BY DEF GovernorTypeOK, ProposalIds

LEMMA UpgradeType ==
  ASSUME GovernorTypeOK, NEW n \in DOMAIN upgrades
  PROVE  upgrades[n] \in Upgrade(ProposalIds) /\ upgrades[n].id \in ProposalIds
<1>1. upgrades[n] \in Upgrade(ProposalIds)
  <2>1. upgrades \in Seq(Upgrade(ProposalIds))
    BY DEF GovernorTypeOK, Upgrade
  <2> QED BY <2>1
<1> QED BY <1>1 DEF Upgrade

LEMMA MoreUpgrades ==
  ASSUME NEW S, NEW T, S \subseteq T, NEW s \in Seq(Upgrade(S))
  PROVE  s \in Seq(Upgrade(T))
<1>1. Upgrade(S) \subseteq Upgrade(T)
  BY DEF Upgrade
<1>2. Len(s) \in Nat /\ s \in [1..Len(s) -> Upgrade(S)]
  BY LenProperties
<1>3. s \in [1..Len(s) -> Upgrade(T)]
  BY <1>1, <1>2
<1> QED BY <1>2, <1>3, IsASeq

-----------------------------------------------------------------------------
\* Calls that leave proposals and upgrades alone.
LEMMA SettersKeepInv ==
  ASSUME GovernorInv, UNCHANGED <<proposals, promised, upgrades>>, GovernorTypeOK'
  PROVE  GovernorInv'
BY DEF GovernorInv, PromisesKept, UpgradesMarked, UpgradesOnceInTime, ProposalIds

LEMMA PolicyCallsKeepTypes ==
  ASSUME GovernorTypeOK,
         \/ \E d \in Delays : GovernorInitialize(d) \/ SetTimelockDelay(d)
         \/ \E pol \in WasmPolicies : SetContractValidation(pol)
         \/ \E list \in SignerLists, n \in 0..MaxSigners : UpdateMultisigConfig(n, list)
         \/ \E id \in ProposalIds, s \in Signers : SubmitMultisigSignature(s, id)
         \/ ClockAdvances
  PROVE  GovernorTypeOK' /\ UNCHANGED <<proposals, promised, upgrades>>
<1> USE GovernorAssumption DEF GovernorTypeOK, ProposalIds, policyVars
<1>1. CASE \E d \in Delays : GovernorInitialize(d) \/ SetTimelockDelay(d)
  BY <1>1 DEF GovernorInitialize, SetTimelockDelay
<1>2. CASE \E pol \in WasmPolicies : SetContractValidation(pol)
  BY <1>2 DEF SetContractValidation
<1>3. CASE \E list \in SignerLists, n \in 0..MaxSigners : UpdateMultisigConfig(n, list)
  BY <1>3 DEF UpdateMultisigConfig
<1>4. CASE \E id \in ProposalIds, s \in Signers : SubmitMultisigSignature(s, id)
  BY <1>4 DEF SubmitMultisigSignature
<1>5. CASE ClockAdvances
  BY <1>5 DEF ClockAdvances, Clocks
<1> QED BY <1>1, <1>2, <1>3, <1>4, <1>5

\* A proposal is made with the delay in force, and nothing of it is done yet.
LEMMA ProposeKeepsInv ==
  ASSUME GovernorInv, NEW att \in Attestations, ProposeUpgrade(att)
  PROVE  GovernorInv'
<1> DEFINE p == [hash |-> att.hash, proposed |-> clock, after |-> clock + delay,
                 executed |-> FALSE, cancelled |-> FALSE]
           new == Len(proposals) + 1
<1>1. /\ proposals' = Append(proposals, p) /\ promised' = Append(promised, delay)
      /\ UNCHANGED <<governed, policyVars, approvals, clock, upgrades>>
      /\ Len(proposals) < MaxProposals
  BY DEF ProposeUpgrade
<1>2. /\ p \in Proposal /\ p.after = p.proposed + delay /\ ~p.executed /\ ~p.cancelled
      /\ delay \in Nat
  BY GovernorAssumption DEF GovernorInv, GovernorTypeOK, Proposal, Clocks
<1> HIDE DEF p
<1>3. /\ proposals \in Seq(Proposal) /\ promised \in Seq(Nat)
      /\ Len(proposals) \in Nat /\ Len(promised) = Len(proposals)
  BY DEF GovernorInv, GovernorTypeOK, PromisesKept
<1>4. /\ proposals' \in Seq(Proposal) /\ promised' \in Seq(Nat)
      /\ Len(proposals') = new /\ Len(promised') = new
      /\ proposals'[new] = p /\ promised'[new] = delay
      /\ \A id \in ProposalIds : proposals'[id] = proposals[id] /\ promised'[id] = promised[id]
  BY <1>1, <1>2, <1>3 DEF ProposalIds
<1>5. ProposalIds' = ProposalIds \union {new} /\ ProposalIds \subseteq ProposalIds'
  BY <1>3, <1>4 DEF ProposalIds
<1>6. GovernorTypeOK'
  <2>1. upgrades' \in Seq(Upgrade(ProposalIds'))
    <3>1. upgrades \in Seq(Upgrade(ProposalIds))
      BY DEF GovernorInv, GovernorTypeOK, Upgrade
    <3> QED BY <1>1, <1>5, <3>1, MoreUpgrades
  <2>2. promised' \in [ProposalIds' -> Nat]
    BY <1>4 DEF ProposalIds
  <2>3. Len(proposals') <= MaxProposals
    BY <1>1, <1>3, <1>4, GovernorAssumption
  <2>4. approvals' \subseteq ProposalIds' \X Signers
    BY <1>1, <1>5 DEF GovernorInv, GovernorTypeOK
  <2>5. Clocks' = Clocks
    BY DEF Clocks
  <2> QED BY <1>1, <1>4, <2>1, <2>2, <2>3, <2>4, <2>5
          DEF GovernorInv, GovernorTypeOK, Upgrade, policyVars
<1>7. PromisesKept'
  <2> SUFFICES ASSUME NEW id \in ProposalIds'
               PROVE  proposals'[id].after = proposals'[id].proposed + promised'[id]
    BY <1>4 DEF PromisesKept
  <2>1. CASE id = new
    BY <1>2, <1>4, <2>1
  <2>2. CASE id \in ProposalIds
    BY <1>4, <2>2 DEF GovernorInv, PromisesKept
  <2> QED BY <1>5, <2>1, <2>2
<1>8. \A n \in DOMAIN upgrades :
        /\ upgrades[n].id \in ProposalIds
        /\ proposals'[upgrades[n].id] = proposals[upgrades[n].id]
        /\ promised'[upgrades[n].id] = promised[upgrades[n].id]
  BY <1>4, UpgradeType DEF GovernorInv
<1>9. UpgradesMarked'
  <2>1. \A id \in ProposalIds' : ~(proposals'[id].executed /\ proposals'[id].cancelled)
    BY <1>2, <1>4, <1>5 DEF GovernorInv, UpgradesMarked
  <2> QED BY <1>1, <1>8, <2>1 DEF GovernorInv, UpgradesMarked
<1>10. UpgradesOnceInTime'
  BY <1>1, <1>8 DEF GovernorInv, UpgradesOnceInTime
<1> QED BY <1>6, <1>7, <1>9, <1>10 DEF GovernorInv

\* A cancelled proposal was pending: no upgrade is of it.
LEMMA CancelKeepsGovernorInv ==
  ASSUME GovernorInv, NEW id \in ProposalIds, CancelUpgrade(id)
  PROVE  GovernorInv'
<1> DEFINE p == [proposals[id] EXCEPT !.cancelled = TRUE]
<1>1. /\ proposals' = [proposals EXCEPT ![id] = p] /\ promised' = promised /\ upgrades' = upgrades
      /\ UNCHANGED <<governed, policyVars, approvals, clock>>
      /\ ~proposals[id].executed
  BY DEF CancelUpgrade, Pending
<1>2. /\ p \in Proposal /\ p.after = proposals[id].after /\ p.proposed = proposals[id].proposed
      /\ p.executed = proposals[id].executed
  BY ProposalType DEF GovernorInv, Proposal
<1> HIDE DEF p
<1>3. /\ proposals' \in Seq(Proposal) /\ Len(proposals') = Len(proposals) /\ proposals'[id] = p
      /\ \A i \in ProposalIds \ {id} : proposals'[i] = proposals[i]
  BY <1>1, <1>2 DEF GovernorInv, GovernorTypeOK, ProposalIds
<1>4. ProposalIds' = ProposalIds
  BY <1>3 DEF ProposalIds
<1>5. GovernorTypeOK'
  BY <1>1, <1>3, <1>4 DEF GovernorInv, GovernorTypeOK, policyVars, Clocks
<1>6. PromisesKept'
  BY <1>1, <1>2, <1>3, <1>4 DEF GovernorInv, PromisesKept
<1>7. \A n \in DOMAIN upgrades :
        upgrades[n].id \in ProposalIds /\ proposals'[upgrades[n].id] = proposals[upgrades[n].id]
  <2>1. ASSUME NEW n \in DOMAIN upgrades PROVE upgrades[n].id \in ProposalIds /\ upgrades[n].id # id
    BY <1>1, UpgradeType DEF GovernorInv, UpgradesMarked
  <2> QED BY <1>3, <2>1
<1>8. UpgradesMarked'
  <2>1. \A i \in ProposalIds : ~(proposals'[i].executed /\ proposals'[i].cancelled)
    BY <1>1, <1>2, <1>3 DEF GovernorInv, UpgradesMarked
  <2> QED BY <1>1, <1>4, <1>7, <2>1 DEF GovernorInv, UpgradesMarked
<1>9. UpgradesOnceInTime'
  BY <1>1, <1>7 DEF GovernorInv, UpgradesOnceInTime
<1> QED BY <1>5, <1>6, <1>8, <1>9 DEF GovernorInv

\* An upgrade is of a pending proposal whose delay has passed.
LEMMA UpgradeKeepsInv ==
  ASSUME GovernorInv, NEW id \in ProposalIds, NEW multisig \in BOOLEAN, UpgradeTarget(id, multisig)
  PROVE  GovernorInv'
<1> DEFINE p == [proposals[id] EXCEPT !.executed = TRUE]
           u == [id |-> id, at |-> clock, multisig |-> multisig]
           new == Len(upgrades) + 1
<1>1. /\ proposals' = [proposals EXCEPT ![id] = p] /\ promised' = promised
      /\ upgrades' = Append(upgrades, u)
      /\ UNCHANGED <<governed, policyVars, approvals, clock>>
      /\ ~proposals[id].executed /\ ~proposals[id].cancelled
      /\ clock >= proposals[id].after
  BY DEF UpgradeTarget, Pending, Elapsed
<1>2. /\ p \in Proposal /\ p.after = proposals[id].after /\ p.proposed = proposals[id].proposed
      /\ p.executed /\ ~p.cancelled
  BY <1>1, ProposalType DEF GovernorInv, Proposal
<1>3. u \in Upgrade(ProposalIds) /\ u.id = id /\ u.at = clock
  BY DEF GovernorInv, GovernorTypeOK, Upgrade
<1> HIDE DEF p, u
<1>4. /\ proposals' \in Seq(Proposal) /\ Len(proposals') = Len(proposals) /\ proposals'[id] = p
      /\ \A i \in ProposalIds \ {id} : proposals'[i] = proposals[i]
  BY <1>1, <1>2 DEF GovernorInv, GovernorTypeOK, ProposalIds
<1>5. ProposalIds' = ProposalIds
  BY <1>4 DEF ProposalIds
<1>6. upgrades \in Seq(Upgrade(ProposalIds)) /\ Len(upgrades) \in Nat
      /\ DOMAIN upgrades = 1..Len(upgrades)
  BY DEF GovernorInv, GovernorTypeOK, Upgrade
<1>7. /\ upgrades' \in Seq(Upgrade(ProposalIds)) /\ DOMAIN upgrades' = DOMAIN upgrades \union {new}
      /\ new \notin DOMAIN upgrades /\ upgrades'[new] = u
      /\ \A n \in DOMAIN upgrades : upgrades'[n] = upgrades[n]
  BY <1>1, <1>3, <1>6
<1>8. GovernorTypeOK'
  BY <1>1, <1>4, <1>5, <1>7 DEF GovernorInv, GovernorTypeOK, policyVars, Clocks, Upgrade
<1>9. PromisesKept'
  BY <1>1, <1>2, <1>4, <1>5 DEF GovernorInv, PromisesKept
\* It was not upgraded before: it would be marked.
<1>10. \A n \in DOMAIN upgrades :
         /\ upgrades[n].id \in ProposalIds /\ upgrades[n].id # id
         /\ proposals'[upgrades[n].id] = proposals[upgrades[n].id]
  <2>1. ASSUME NEW n \in DOMAIN upgrades PROVE upgrades[n].id \in ProposalIds /\ upgrades[n].id # id
    BY <1>1, UpgradeType DEF GovernorInv, UpgradesMarked
  <2> QED BY <1>4, <2>1
<1>11. UpgradesMarked'
  <2>1. \A i \in ProposalIds : ~(proposals'[i].executed /\ proposals'[i].cancelled)
    BY <1>2, <1>4 DEF GovernorInv, UpgradesMarked
  <2>2. \A n \in DOMAIN upgrades' : proposals'[upgrades'[n].id].executed
    BY <1>2, <1>3, <1>4, <1>7, <1>10 DEF GovernorInv, UpgradesMarked
  <2> QED BY <1>5, <2>1, <2>2 DEF UpgradesMarked
<1>12. UpgradesOnceInTime'
  <2>1. ~p.cancelled /\ u.at >= p.proposed + promised[id]
    <3>1. proposals[id].after = proposals[id].proposed + promised[id]
      BY DEF GovernorInv, PromisesKept
    <3> QED BY <1>1, <1>2, <1>3, <3>1
  <2> SUFFICES ASSUME NEW n \in DOMAIN upgrades'
               PROVE  /\ ~proposals'[upgrades'[n].id].cancelled
                      /\ upgrades'[n].at >=
                           proposals'[upgrades'[n].id].proposed + promised'[upgrades'[n].id]
                      /\ \A m \in DOMAIN upgrades' : upgrades'[m].id = upgrades'[n].id => m = n
    BY DEF UpgradesOnceInTime
  <2>2. CASE n = new
    BY <1>1, <1>3, <1>4, <1>7, <1>10, <2>1, <2>2
  <2>3. CASE n \in DOMAIN upgrades
    <3>1. /\ ~proposals[upgrades[n].id].cancelled
          /\ upgrades[n].at >= proposals[upgrades[n].id].proposed + promised[upgrades[n].id]
          /\ \A m \in DOMAIN upgrades : upgrades[m].id = upgrades[n].id => m = n
      BY <2>3 DEF GovernorInv, UpgradesOnceInTime
    <3> QED BY <1>1, <1>3, <1>7, <1>10, <2>3, <3>1
  <2> QED BY <1>7, <2>2, <2>3
<1> QED BY <1>8, <1>9, <1>11, <1>12 DEF GovernorInv

-----------------------------------------------------------------------------
LEMMA GovernorInitInv == GovernorInit => GovernorInv
<1> SUFFICES ASSUME GovernorInit PROVE GovernorInv
  OBVIOUS
<1>1. ProposalIds = {} /\ DOMAIN upgrades = {}
  BY DEF GovernorInit, ProposalIds
<1>2. GovernorTypeOK
  <2>1. wasmPolicy \in WasmPolicy
    BY DEF GovernorInit, Permissive, WasmPolicy
  <2>2. config \in [threshold : Nat, signers : Seq(Signers)] /\ config.threshold <= Len(config.signers)
    BY DEF GovernorInit, NoConfig
  <2>3. /\ proposals \in Seq(Proposal) /\ Len(proposals) <= MaxProposals
        /\ upgrades \in Seq([id : ProposalIds, at : Clocks, multisig : BOOLEAN])
        /\ promised \in [ProposalIds -> Nat]
    BY <1>1, GovernorAssumption DEF GovernorInit
  <2>4. governed \in BOOLEAN
    BY DEF GovernorInit
  <2>5. delay \in Nat /\ clock \in Clocks /\ approvals \subseteq ProposalIds \X Signers
    BY GovernorAssumption DEF GovernorInit, Clocks
  <2> QED BY <2>1, <2>2, <2>3, <2>4, <2>5 DEF GovernorTypeOK
<1> QED BY <1>1, <1>2 DEF GovernorInit, GovernorInv, PromisesKept, UpgradesMarked, UpgradesOnceInTime

LEMMA NextKeepsGovernorInv == GovernorInv /\ [GovernorNext]_governorVars => GovernorInv'
<1> SUFFICES ASSUME GovernorInv, [GovernorNext]_governorVars PROVE GovernorInv'
  OBVIOUS
<1>1. CASE \/ \E d \in Delays : GovernorInitialize(d) \/ SetTimelockDelay(d)
           \/ \E pol \in WasmPolicies : SetContractValidation(pol)
           \/ \E list \in SignerLists, n \in 0..MaxSigners : UpdateMultisigConfig(n, list)
           \/ \E id \in ProposalIds, s \in Signers : SubmitMultisigSignature(s, id)
           \/ ClockAdvances
  <2>1. GovernorTypeOK
    BY DEF GovernorInv
  <2> QED BY <1>1, <2>1, PolicyCallsKeepTypes, SettersKeepInv
<1>2. CASE \E att \in Attestations : ProposeUpgrade(att)
  BY <1>2, ProposeKeepsInv
<1>3. CASE \E id \in ProposalIds : CancelUpgrade(id)
  BY <1>3, CancelKeepsGovernorInv
<1>4. CASE \E id \in ProposalIds : ExecuteUpgrade(id) \/ ExecuteMultisigUpgrade(id)
  BY <1>4, UpgradeKeepsInv DEF ExecuteUpgrade, ExecuteMultisigUpgrade
<1>5. CASE UNCHANGED governorVars
  BY <1>5 DEF governorVars, policyVars, GovernorInv, GovernorTypeOK, PromisesKept, UpgradesMarked,
              UpgradesOnceInTime, ProposalIds, Clocks
<1> QED BY <1>1, <1>2, <1>3, <1>4, <1>5 DEF GovernorNext

\* Every call of the governor keeps the inductive invariant.
THEOREM GovernorInvariant == GovernorSpec => []GovernorInv
BY GovernorInitInv, NextKeepsGovernorInv, PTL DEF GovernorSpec

\* What the governor stores has its types, and its threshold is within its list.
THEOREM GovernorTypes == GovernorSpec => []GovernorTypeOK
<1>1. GovernorInv => GovernorTypeOK
  BY DEF GovernorInv
<1> QED BY <1>1, GovernorInvariant, PTL

\* A proposal upgrades the target once at most, never after it was cancelled, and
\* not before the delay it was made under, whatever delay is set later.
THEOREM OnceAndInTime == GovernorSpec => []UpgradesOnceInTime
<1>1. GovernorInv => UpgradesOnceInTime
  BY DEF GovernorInv
<1> QED BY <1>1, GovernorInvariant, PTL

-----------------------------------------------------------------------------
\* The signers who have approved a proposal.
Approvers(id) == {s \in SignerNames(config.signers) : <<id, s>> \in approvals}

\* In a list without repetitions, entries with a record are approving signers.
LEMMA DistinctEntriesAreSigners ==
  ASSUME GovernorTypeOK, Distinct(config.signers), NEW id
  PROVE  /\ Cardinality(Signatures(id)) <= Cardinality(Approvers(id))
         /\ Cardinality(Signatures(id)) \in Nat /\ Cardinality(Approvers(id)) \in Nat
<1> DEFINE list == config.signers
           f == [n \in Signatures(id) |-> list[n]]
           g == [n \in DOMAIN list |-> list[n]]
<1>1. IsFiniteSet(DOMAIN list)
  <2>1. list \in Seq(Signers) /\ DOMAIN list = 1..Len(list) /\ Len(list) \in Nat
    BY DEF GovernorTypeOK
  <2> QED BY <2>1, FS_Interval
<1>2. IsFiniteSet(SignerNames(list))
  <2>1. g \in Surjection(DOMAIN list, SignerNames(list))
    BY DEF Surjection, SignerNames
  <2> QED BY <1>1, <2>1, FS_Surjection
<1>3. IsFiniteSet(Approvers(id)) /\ IsFiniteSet(Signatures(id))
  BY <1>1, <1>2, FS_Subset DEF Approvers, Signatures
<1>4. f \in Injection(Signatures(id), Approvers(id))
  BY DEF Injection, IsInjective, Signatures, Approvers, SignerNames, Distinct
<1> QED BY <1>3, <1>4, FS_Injection, FS_CardinalityType

\* What a step asks of the upgrades it adds (MultisigQuorum).
NewUpgradesHaveQuorum ==
  \A n \in DOMAIN upgrades' \ DOMAIN upgrades :
    upgrades'[n].multisig /\ Distinct(config.signers) =>
      Cardinality({s \in SignerNames(config.signers) : <<upgrades'[n].id, s>> \in approvals})
        >= config.threshold

LEMMA StepHasQuorum == GovernorInv /\ [GovernorNext]_governorVars => NewUpgradesHaveQuorum
<1> SUFFICES ASSUME GovernorInv, [GovernorNext]_governorVars PROVE NewUpgradesHaveQuorum
  OBVIOUS
<1>1. CASE upgrades' = upgrades
  BY <1>1 DEF NewUpgradesHaveQuorum
<1>2. ASSUME NEW id \in ProposalIds, NEW multisig \in BOOLEAN, UpgradeTarget(id, multisig),
             multisig => Cardinality(Signatures(id)) >= config.threshold
      PROVE  NewUpgradesHaveQuorum
  <2>1. upgrades' = Append(upgrades, [id |-> id, at |-> clock, multisig |-> multisig])
    BY <1>2 DEF UpgradeTarget
  <2>2. upgrades \in Seq(Upgrade(ProposalIds))
    BY DEF GovernorInv, GovernorTypeOK, Upgrade
  <2>3. ASSUME NEW n \in DOMAIN upgrades' \ DOMAIN upgrades
        PROVE  upgrades'[n].id = id /\ upgrades'[n].multisig = multisig
    BY <2>1, <2>2
  <2>4. ASSUME multisig, Distinct(config.signers) PROVE Cardinality(Approvers(id)) >= config.threshold
    <3>1. GovernorTypeOK /\ config.threshold \in Nat
      BY DEF GovernorInv, GovernorTypeOK
    <3> QED BY <1>2, <2>4, <3>1, DistinctEntriesAreSigners
  <2> QED BY <2>3, <2>4 DEF NewUpgradesHaveQuorum, Approvers
<1>3. CASE \E id \in ProposalIds : ExecuteUpgrade(id)
  BY <1>2, <1>3 DEF ExecuteUpgrade
<1>4. CASE \E id \in ProposalIds : ExecuteMultisigUpgrade(id)
  BY <1>2, <1>4 DEF ExecuteMultisigUpgrade
<1>5. CASE UNCHANGED governorVars
  BY <1>1, <1>5 DEF governorVars
<1> QED BY <1>1, <1>3, <1>4, <1>5
        DEF GovernorNext, GovernorInitialize, SetTimelockDelay, SetContractValidation,
            UpdateMultisigConfig, ProposeUpgrade, CancelUpgrade, SubmitMultisigSignature,
            ClockAdvances

\* An upgrade by signatures has the approvals of as many present signers as the
\* policy asks for, unless the policy names a signer twice.
THEOREM QuorumOfSigners == GovernorSpec => MultisigQuorum
<1>1. GovernorInv /\ [GovernorNext]_governorVars => [NewUpgradesHaveQuorum]_governorVars
  BY StepHasQuorum
<1> QED BY <1>1, GovernorInvariant, PTL DEF GovernorSpec, MultisigQuorum, NewUpgradesHaveQuorum
================================================================================
