-------------------------------- MODULE Invoice --------------------------------
(***************************************************************************)
(* The invoice contract (contracts/invoice) and the token it pays with.    *)
(*                                                                         *)
(* As in Account, an action is one successful contract call, in any order  *)
(* and from anyone entitled to it; a call that returns an error undoes     *)
(* its writes, the Expired that pay stores on a late payment included.     *)
(***************************************************************************)
EXTENDS Integers, Sequences, FiniteSets

CONSTANTS
  Parties,       \* creators and recipients
  Amounts,       \* amounts offered to create
  DueDates,      \* due dates offered to create, or NoDue
  Funds,         \* what each party holds of the asset to begin with
  MaxInvoices,   \* bound on invoices
  MaxLedger      \* bound on the ledger timestamp

NoDue == -1
Never == -1

ASSUME InvoiceAssumption ==
  /\ IsFiniteSet(Parties)
  /\ Amounts \subseteq Int
  /\ DueDates \subseteq Nat \union {NoDue}
  /\ Funds \in Nat /\ MaxInvoices \in Nat /\ MaxLedger \in Nat

VARIABLES
  counter,       \* KEY_COUNTER
  invoices,      \* KEY_INV: a function from invoice ids
  byCreator,     \* KEY_CREATOR_IDX
  byRecipient,   \* KEY_RECIPIENT_IDX
  balance,       \* the asset's balances
  ledger,        \* ledger timestamp
  payments       \* history: the transfers made, with the invoice each was for

storageVars == <<counter, byCreator, byRecipient>>
tokenVars == <<balance, payments>>
invoiceVars == <<storageVars, tokenVars, invoices, ledger>>

Statuses == {"Draft", "Open", "Paid", "Expired", "Cancelled"}
FinalStatuses == {"Paid", "Expired", "Cancelled"}
Ledgers == 0..MaxLedger

InvoiceIdWithoutNonce(c, r, a, n) == [creator |-> c, recipient |-> r, amount |-> a, \* mutant: no nonce
                                      nonce |-> 0, created |-> ledger]
\* The payload whose hash is the id; one asset, so it is left out.
InvoiceId(c, r, a, n) == [creator |-> c, recipient |-> r, amount |-> a,
                          nonce |-> n, created |-> ledger]

InvoiceIds == [creator : Parties, recipient : Parties, amount : Int,
               nonce : Nat, created : Ledgers]

\* The fields an id does not determine; closed is paid_at, cancelled_at or expired_at.
InvoiceRecords == [status : Statuses, due : Nat \union {NoDue},
                   opened : Ledgers \union {Never}, closed : Ledgers \union {Never}]

Ids == DOMAIN invoices

InvoiceTypeOK ==
  /\ counter \in 0..MaxInvoices
  /\ Ids \subseteq InvoiceIds
  /\ invoices \in [Ids -> InvoiceRecords]
  /\ byCreator \in [Parties -> Seq(Ids)]
  /\ byRecipient \in [Parties -> Seq(Ids)]
  /\ balance \in [Parties -> Nat]
  /\ ledger \in Ledgers
  /\ payments \in Seq([id : Ids, payer : Parties, at : Ledgers])

InvoiceInit ==
  /\ counter = 0 /\ invoices = << >>
  /\ byCreator = [p \in Parties |-> << >>]
  /\ byRecipient = [p \in Parties |-> << >>]
  /\ balance = [p \in Parties |-> Funds]
  /\ ledger = 0 /\ payments = << >>

-----------------------------------------------------------------------------
Store(id, inv) ==
  invoices' = [i \in Ids \union {id} |-> IF i = id THEN inv ELSE invoices[i]]

\* push_to_index
PushToIndex(index, p, id) == [index EXCEPT ![p] = Append(@, id)]

Create(c, r, a, due) ==
  LET id == InvoiceId(c, r, a, counter + 1) IN
  /\ counter < MaxInvoices
  /\ a > 0
  /\ due # NoDue => due > ledger
  /\ counter' = counter + 1
  /\ Store(id, [status |-> "Draft", due |-> due, opened |-> Never, closed |-> Never])
  /\ byCreator' = PushToIndex(byCreator, c, id)
  /\ byRecipient' = PushToIndex(byRecipient, r, id)
  /\ UNCHANGED <<tokenVars, ledger>>

\* One of the calls that move an existing invoice on.
Move(id, from, to, changes) ==
  /\ invoices[id].status \in from
  /\ Store(id, [changes EXCEPT !.status = to])

Closed(id) == [invoices[id] EXCEPT !.closed = ledger]

Open(id) ==
  /\ invoices[id].due # NoDue => ledger < invoices[id].due
  /\ Move(id, {"Draft"}, "Open", [invoices[id] EXCEPT !.opened = ledger])
  /\ UNCHANGED <<storageVars, tokenVars, ledger>>

TransferOverdraft(from, to, amount) == \* mutant: the payer's balance is not looked at
  balance' = [b \in Parties |-> balance[b] - (IF b = from THEN amount ELSE 0)
                                           + (IF b = to THEN amount ELSE 0)]
TransferFromRead(from, to, amount) == \* mutant: the receiver's balance is read before the debit
  /\ balance[from] >= amount
  /\ balance' = [balance EXCEPT ![from] = @ - amount, ![to] = balance[to] + amount]
\* transfer of the token contract, from the payer to the creator.
Transfer(from, to, amount) ==
  /\ balance[from] >= amount
  /\ balance' = [b \in Parties |-> balance[b] - (IF b = from THEN amount ELSE 0)
                                              + (IF b = to THEN amount ELSE 0)]

InTimeAnyTime(id) == TRUE \* mutant: the due date is not looked at
InTime(id) == invoices[id].due # NoDue => ledger <= invoices[id].due

PayableTwice(id) == {"Open", "Paid"} \* mutant: the test for Paid is missing
Payable(id) == {"Open"}

\* pay, by the recipient; a late payment fails and changes nothing.
Pay(id, payer) ==
  /\ payer = id.recipient
  /\ InTime(id)
  /\ Move(id, Payable(id), "Paid", Closed(id))
  /\ Transfer(payer, id.creator, id.amount)
  /\ payments' = Append(payments, [id |-> id, payer |-> payer, at |-> ledger])
  /\ UNCHANGED <<storageVars, ledger>>

\* pay_verified, with the amount the payer expects.
PayVerified(id, payer, expected) == expected = id.amount /\ Pay(id, payer)

CancellableAll == {"Draft", "Open", "Paid"} \* mutant: a paid invoice is cancelled
Cancellable == {"Draft", "Open"}

Cancel(id) ==
  /\ Move(id, Cancellable, "Cancelled", Closed(id))
  /\ UNCHANGED <<storageVars, tokenVars, ledger>>

OverdueAtDueDate(id) == invoices[id].due # NoDue /\ ledger >= invoices[id].due \* mutant: on the due date too
Overdue(id) == invoices[id].due # NoDue /\ ledger > invoices[id].due

\* expire, by anyone.
Expire(id) ==
  /\ Overdue(id)
  /\ Move(id, {"Open"}, "Expired", Closed(id))
  /\ UNCHANGED <<storageVars, tokenVars, ledger>>

LedgerCloses ==
  /\ ledger < MaxLedger
  /\ ledger' = ledger + 1
  /\ UNCHANGED <<storageVars, tokenVars, invoices>>

InvoiceNext ==
  \/ \E c, r \in Parties, a \in Amounts, due \in DueDates : Create(c, r, a, due)
  \/ \E id \in Ids :
       \/ Open(id) \/ Cancel(id) \/ Expire(id)
       \/ \E payer \in Parties : \/ Pay(id, payer)
                                 \/ \E a \in Amounts : PayVerified(id, payer, a)
  \/ LedgerCloses

InvoiceSpec == InvoiceInit /\ [][InvoiceNext]_invoiceVars

-----------------------------------------------------------------------------
(***************************************************************************)
(* Properties.                                                             *)
(***************************************************************************)

\* The recipient has transferred an invoice's amount once if it is Paid, on
\* the date the invoice carries, and never otherwise (pay against cancel,
\* expire and a second pay).
PaidExactlyOnce ==
  /\ \A id \in Ids : invoices[id].status = "Paid" <=>
       \E n \in DOMAIN payments : payments[n].id = id
  /\ \A n \in DOMAIN payments :
       /\ payments[n].payer = payments[n].id.recipient
       /\ payments[n].at = invoices[payments[n].id].closed
       /\ \A m \in DOMAIN payments : payments[m].id = payments[n].id => m = n

AmountsOf(ids) ==
  LET sum[s \in SUBSET ids] ==
        IF s = {} THEN 0
        ELSE LET id == CHOOSE i \in s : TRUE IN id.amount + sum[s \ {id}]
  IN sum[ids]

PaidIds == {id \in Ids : invoices[id].status = "Paid"}

\* What a party holds is what it had, plus what its Paid invoices brought,
\* less what it paid of others' (the transfer in pay).
MoneyMatchesInvoices ==
  \A p \in Parties :
    balance[p] = Funds + AmountsOf({id \in PaidIds : id.creator = p})
                       - AmountsOf({id \in PaidIds : id.recipient = p})

\* An invoice is opened before it is due, paid no later, and expired only
\* afterwards; an open one can at every moment be either paid or expired
\* (open, pay and expire each compare the due date in its own way).
DueDateKept ==
  \A id \in Ids :
    LET inv == invoices[id] IN
    /\ inv.status = "Open" => (InTime(id) <=> ~Overdue(id))
    /\ inv.due # NoDue =>
         /\ inv.opened < inv.due
         /\ inv.status = "Paid" => inv.closed <= inv.due
         /\ inv.status = "Expired" => inv.closed > inv.due
    /\ inv.status \in {"Open", "Paid", "Expired"} => inv.opened # Never
    /\ inv.status \in {"Paid", "Expired"} => inv.opened <= inv.closed

\* get_by_account: the invoices a party created, then, one by one, those it is to
\* pay that are not among them.
GetByAccount(p) ==
  LET pushed[n \in 0..Len(byRecipient[p])] ==
        IF n = 0 THEN byCreator[p]
        ELSE IF byRecipient[p][n] \in {byCreator[p][m] : m \in DOMAIN byCreator[p]}
             THEN pushed[n - 1]
             ELSE Append(pushed[n - 1], byRecipient[p][n])
  IN pushed[Len(byRecipient[p])]

\* No invoice overwrites another, and get_by_account lists each invoice of a
\* party once, one billed to oneself included (the two indexes, the counter in
\* the id).
ListedOnce ==
  /\ Cardinality(Ids) = counter
  /\ \A p \in Parties :
       LET list == GetByAccount(p) IN
       /\ {list[n] : n \in DOMAIN list} = {id \in Ids : p \in {id.creator, id.recipient}}
       /\ \A m, n \in DOMAIN list : list[m] = list[n] => m = n

\* The invoice contract's books: what its parties hold is what its invoices say,
\* and every invoice is listed once for each of them.
BooksAgree == MoneyMatchesInvoices /\ ListedOnce

\* A Paid, Expired or Cancelled invoice stays as it is (the status tests of
\* open, pay, cancel and expire together).
FinalIsFinal ==
  [][\A id \in Ids : invoices[id].status \in FinalStatuses =>
       id \in Ids' /\ invoices'[id] = invoices[id]]_invoiceVars
=============================================================================
