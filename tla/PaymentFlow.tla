------------------------------ MODULE PaymentFlow ------------------------------
(***************************************************************************)
(* A payment from the extension (useSendTransaction.ts, send-service.ts,   *)
(* StellarClient.submitTransaction, withRetry) and the ledger it is sent   *)
(* to: review, confirmation, signature, submission with retries, and the   *)
(* polling of its status.                                                  *)
(*                                                                         *)
(* Every confirmation is a call of confirmAndSubmit.  Two can run at once: *)
(* Escape leaves the dialog of the first, and the next review ends its     *)
(* "submitting".                                                           *)
(***************************************************************************)
EXTENDS Integers, FiniteSets

CONSTANTS
  Confirmations,  \* calls of confirmAndSubmit
  MaxRetries,     \* RELAYER_SUBMIT_MAX_RETRIES and maxRetries
  MaxSeq,         \* bound on the sequence number of the account
  MaxPolls        \* bound on the status requests of one interval in flight

ASSUME PaymentAssumption == MaxRetries \in Nat /\ MaxSeq \in Nat /\ MaxPolls \in Nat

VARIABLES
  paidBy,       \* "horizon" (classic account) or "relayer" (contract account)
  step,         \* the screen
  scheduled,    \* timing of the transfer under review
  submitting,
  phase, sequence, sends, outcome,  \* of each confirmation
  seqno, pool, applied, failed,              \* ledger: transactions waiting, and included
  held,         \* history: transactions the network has taken
  status,
  polling, latest, polls  \* intervals that run, pollRef, and status requests in flight

formVars == <<step, scheduled, submitting>>
callVars == <<phase, sequence, sends, outcome>>
ledgerVars == <<seqno, pool, applied, failed, held>>
statusVars == <<status, polling, latest, polls>>
paymentVars == <<paidBy, formVars, callVars, ledgerVars, statusVars>>

Phases == {"unused", "auth", "authLater", "build", "sign", "submit", "sent", "declined", "backoff", "schedule", "over"}
Tx == [by : Confirmations, seq : 1..MaxSeq]
TxOf(c) == [by |-> c, seq |-> sequence[c]]

PaymentTypeOK ==
  /\ paidBy \in {"horizon", "relayer"}
  /\ step \in {"form", "review", "confirm", "status", "scheduled"}
  /\ scheduled \in BOOLEAN /\ submitting \in BOOLEAN
  /\ phase \in [Confirmations -> Phases]
  /\ sequence \in [Confirmations -> 0..MaxSeq] /\ sends \in [Confirmations -> 0..MaxRetries + 1]
  /\ outcome \in [Confirmations -> {"none", "reported", "rejected", "unknown"}]
  /\ seqno \in 0..MaxSeq
  /\ pool \subseteq Tx /\ applied \subseteq Tx /\ failed \subseteq Tx /\ held \subseteq Tx
  /\ status \in {"idle", "pending", "confirmed", "failed", "unreachable"}
  /\ polling \subseteq Confirmations /\ latest \subseteq Confirmations
  /\ polls \in [Confirmations -> 0..MaxPolls]

PaymentInit ==
  /\ paidBy \in {"horizon", "relayer"}
  /\ step = "form" /\ scheduled = FALSE /\ submitting = FALSE
  /\ phase = [c \in Confirmations |-> "unused"]
  /\ sequence = [c \in Confirmations |-> 0]
  /\ sends = [c \in Confirmations |-> 0]
  /\ outcome = [c \in Confirmations |-> "none"]
  /\ seqno = 0 /\ pool = {} /\ applied = {} /\ failed = {} /\ held = {}
  /\ status = "idle" /\ polling = {} /\ latest = {} /\ polls = [c \in Confirmations |-> 0]

-----------------------------------------------------------------------------
\* The screens

\* goToReview; what the simulation behind it says only changes the fee.
GoToReview ==
  /\ step = "form" /\ step' = "review"
  /\ scheduled' \in BOOLEAN /\ submitting' = FALSE
  /\ UNCHANGED <<callVars, ledgerVars, statusVars>>

\* Escape closes the dialog while it submits.
Back ==
  /\ \/ step = "review" /\ step' = "form"
     \/ step = "confirm" /\ step' = "review"
  /\ UNCHANGED <<scheduled, submitting, callVars, ledgerVars, statusVars>>

RequestConfirm ==
  /\ step = "review" /\ step' = "confirm"
  /\ UNCHANGED <<scheduled, submitting, callVars, ledgerVars, statusVars>>

-----------------------------------------------------------------------------
\* confirmAndSubmit

Moved(c, to) == phase' = [phase EXCEPT ![c] = to]

Confirm(c) ==
  /\ step = "confirm" /\ ~submitting /\ phase[c] = "unused"
  /\ Moved(c, IF scheduled THEN "authLater" ELSE "auth")
  /\ submitting' = TRUE
  /\ UNCHANGED <<step, scheduled, sequence, sends, outcome, ledgerVars, statusVars>>

\* finally; what is thrown reaches nobody.
Over(c, result) ==
  /\ Moved(c, "over")
  /\ outcome' = [outcome EXCEPT ![c] = result]
  /\ submitting' = FALSE

\* UNLOCK_WALLET refuses the password, or the transfer is a scheduled one.
Authenticate(c) ==
  /\ phase[c] \in {"auth", "authLater"}
  /\ \/ Over(c, "none")
     \/ /\ Moved(c, IF phase[c] = "auth" THEN "build" ELSE "schedule")
        /\ UNCHANGED <<outcome, submitting>>
  /\ UNCHANGED <<step, scheduled, sequence, sends, ledgerVars, statusVars>>

\* createScheduledTransfer answers, or throws.
Schedule(c) ==
  /\ phase[c] = "schedule"
  /\ Over(c, "none")
  /\ step' \in {step, "scheduled"}
  /\ UNCHANGED <<scheduled, sequence, sends, ledgerVars, statusVars>>

\* buildPaymentXdr: getAccount, and the next sequence number.
Build(c) ==
  /\ phase[c] = "build"
  /\ \/ Over(c, "none") /\ UNCHANGED sequence
     \/ /\ seqno < MaxSeq /\ sequence' = [sequence EXCEPT ![c] = seqno + 1]
        /\ Moved(c, "sign") /\ UNCHANGED <<outcome, submitting>>
  /\ UNCHANGED <<step, scheduled, sends, ledgerVars, statusVars>>

\* SIGN_TRANSACTION; the wallet may be locked by now.
SignPayment(c) ==
  /\ phase[c] = "sign"
  /\ \/ Over(c, "none")
     \/ Moved(c, "submit") /\ UNCHANGED <<outcome, submitting>>
  /\ UNCHANGED <<step, scheduled, sequence, sends, ledgerVars, statusVars>>

CountedNever(c) == sends' = sends \* mutant: the attempts are not counted
Counted(c) == sends' = [sends EXCEPT ![c] = @ + 1]

\* One attempt leaves.  The network takes it, if its number is still to come, or it does
\* not: it is lost on the way, or the node it reaches declines it, whatever other nodes
\* have of an earlier attempt.
Submit(c) ==
  /\ phase[c] = "submit" /\ Counted(c)
  /\ \/ Moved(c, "declined") /\ UNCHANGED <<pool, held>>
     \/ /\ sequence[c] > seqno /\ Moved(c, "sent")
        /\ pool' = pool \union {TxOf(c)} /\ held' = held \union {TxOf(c)}
  /\ UNCHANGED <<formVars, sequence, outcome, seqno, applied, failed, statusVars>>

\* An answer with a result: setTxId, setStep, setInterval.
Reported(c) ==
  /\ Over(c, "reported")
  /\ step' = "status" /\ status' = "pending"
  /\ polling' = polling \union {c} /\ latest' = {c} /\ UNCHANGED polls

\* Horizon answers when the transaction is in a ledger, the relayer when the network
\* has taken it.
TakenUnread(c) == TRUE \* mutant: response.ok is not looked at
Taken(c) == IF paidBy = "horizon" THEN TxOf(c) \in applied ELSE TxOf(c) \in held

\* The attempt waits for its answer.
Awaits(c) == phase[c] \in {"sent", "declined"}

\* TransactionError.fromHorizonError: any answer with a result code, at any attempt.
\* Of a declined attempt there is one at any time (tx_insufficient_fee, tx_too_late,
\* tx_bad_seq, ...); of one it took, the network has none before its number is used.
JudgedByStatus(c) == paidBy = "horizon" \* mutant: a 504 is taken for a result
Judged(c) ==
  /\ paidBy = "horizon"
  /\ phase[c] = "declined" \/ (TxOf(c) \notin applied /\ sequence[c] <= seqno)

Answered(c) ==
  /\ Awaits(c)
  /\ \/ Taken(c) /\ Reported(c)
     \/ Judged(c) /\ Over(c, "rejected") /\ UNCHANGED <<step, statusVars>>
  /\ UNCHANGED <<scheduled, sequence, sends, ledgerVars>>

\* An answer that is not tried again: another 4xx of Horizon, any error of the relayer.
Refuses(c) ==
  /\ Awaits(c) /\ Over(c, "unknown")
  /\ UNCHANGED <<step, scheduled, sequence, sends, ledgerVars, statusVars>>

\* mutant: one attempt more than there are retries
Retries(c) == sends[c] <= MaxRetries + 1
RetriesLeft(c) == sends[c] <= MaxRetries
\* A timeout, a dropped connection, and of Horizon also 429 and 5xx.
Unanswered(c) ==
  /\ Awaits(c)
  /\ IF RetriesLeft(c)
     THEN Moved(c, "backoff") /\ UNCHANGED <<outcome, submitting>>
     ELSE Over(c, "unknown")
  /\ UNCHANGED <<step, scheduled, sequence, sends, ledgerVars, statusVars>>

RetrySignsAnew(c) == "build" \* mutant: what is tried again is the whole of the payment
Retried(c) == "submit"
Retry(c) ==
  /\ phase[c] = "backoff" /\ Moved(c, Retried(c))
  /\ UNCHANGED <<formVars, sequence, sends, outcome, ledgerVars, statusVars>>

-----------------------------------------------------------------------------
\* The interval asks without waiting for the answer before.
PollSent(c) ==
  /\ c \in polling /\ polls[c] < MaxPolls
  /\ polls' = [polls EXCEPT ![c] = @ + 1]
  /\ UNCHANGED <<formVars, callVars, ledgerVars, status, polling, latest>>

\* fetchTransactionStatus.  A transaction that was included and failed has a page too;
\* an answer such as 429 counts as "failed".  What ends is the latest interval.
Shown(c) ==
  {"unreachable", "failed",
   IF TxOf(c) \in applied \union failed THEN "confirmed" ELSE "pending"}
PollAnswers(c) ==
  /\ polls[c] > 0 /\ polls' = [polls EXCEPT ![c] = @ - 1]
  /\ status' \in Shown(c)
  /\ polling' = IF status' \in {"confirmed", "failed"} THEN polling \ latest ELSE polling
  /\ UNCHANGED <<formVars, callVars, ledgerVars, latest>>

-----------------------------------------------------------------------------
\* The ledger (external).

\* A waiting transaction whose number is next is included, and succeeds or fails.
Include(x) ==
  /\ x \in pool /\ x.seq = seqno + 1
  /\ seqno' = x.seq
  /\ pool' = {y \in pool : y.seq > x.seq}
  /\ \/ applied' = applied \union {x} /\ UNCHANGED failed
     \/ failed' = failed \union {x} /\ UNCHANGED applied
  /\ UNCHANGED <<formVars, callVars, held, statusVars>>

\* It is dropped, or the account pays from another device.
Drop(x) ==
  /\ x \in pool /\ pool' = pool \ {x}
  /\ UNCHANGED <<formVars, callVars, seqno, applied, failed, held, statusVars>>

OtherPayment ==
  /\ seqno < MaxSeq /\ seqno' = seqno + 1
  /\ pool' = {y \in pool : y.seq > seqno + 1}
  /\ UNCHANGED <<formVars, callVars, applied, failed, held, statusVars>>

-----------------------------------------------------------------------------
CallAction(c) ==
  \/ Authenticate(c) \/ Schedule(c) \/ Build(c) \/ SignPayment(c) \/ Submit(c)
  \/ Answered(c) \/ Refuses(c) \/ Unanswered(c) \/ Retry(c)
ConfirmationStep(c) == CallAction(c) /\ UNCHANGED paidBy

PaymentNext ==
  \/ \E c \in Confirmations : ConfirmationStep(c)
  \/ /\ \/ GoToReview \/ Back \/ RequestConfirm \/ OtherPayment
        \/ \E c \in Confirmations : Confirm(c) \/ PollSent(c) \/ PollAnswers(c)
        \/ \E x \in pool : Include(x) \/ Drop(x)
     /\ UNCHANGED paidBy

\* Every await of confirmAndSubmit is answered or runs into its timeout.
PaymentFairness == \A c \in Confirmations : WF_paymentVars(ConfirmationStep(c))
PaymentSpec == PaymentInit /\ [][PaymentNext]_paymentVars /\ PaymentFairness
-----------------------------------------------------------------------------
(***************************************************************************)
(* Properties.                                                             *)
(***************************************************************************)

\* One confirmation pays at most once, whatever attempts are lost after they have
\* reached the network ("The network accepts that sequence exactly once").
PaidOncePerConfirmation ==
  \A c \in Confirmations : Cardinality({x \in applied : x.by = c}) <= 1

\* A TransactionError at the first attempt is final: what the user is then told has
\* failed is never paid (isRetryable gives up on it at once).  One at a later attempt
\* says nothing of the attempts before: their payment may wait, or be in a ledger.
RejectedIsNeverPaid ==
  \A c \in Confirmations :
    outcome[c] = "rejected" /\ sends[c] = 1 => \A x \in applied : x.by # c

\* So a rejection may be shown of a payment that still waits.  Whoever then pays again
\* does not pay twice: as long as the first can be paid, every payment that can be paid
\* too has its number (getAccount reads the number of the ledger), and only one will be.
RepaymentReplaces ==
  \A c, d \in Confirmations :
    outcome[c] = "rejected" /\ TxOf(c) \in pool /\ sequence[d] > seqno
      => sequence[d] = sequence[c]

\* The status screen speaks of a transaction the network has taken, and of Horizon's
\* answer only after it was paid.
ReportedIsTaken ==
  \A c \in Confirmations : outcome[c] = "reported" =>
    /\ TxOf(c) \in held
    /\ paidBy = "horizon" => TxOf(c) \in applied

\* The ledger and the send flow agree on what was paid.
PaymentsTrue ==
  PaidOncePerConfirmation /\ RejectedIsNeverPaid /\ RepaymentReplaces /\ ReportedIsTaken

\* A confirmation ends: the retries are bounded.
SubmissionEnds == \A c \in Confirmations : phase[c] = "auth" ~> phase[c] = "over"
================================================================================
