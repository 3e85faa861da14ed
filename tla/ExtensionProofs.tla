---------------------------- MODULE ExtensionProofs ----------------------------
(* Theorems about the extension: its send flow, for any confirmations and faults; *)
(* the deployment of an account, for any screens and attempts; the session of its *)
(* worker and the requests of pages, for any handlers, requests and origins;   *)
(* and the four of them side by side.                                          *)
EXTENDS MCExtension, SequenceTheorems, FiniteSetTheorems, TLAPS

-----------------------------------------------------------------------------
(* Payments: the ledger and the send flow agree.                               *)

\* A call that has no sequence number yet has sent nothing.
Unbuilt == {"unused", "auth", "authLater", "build", "schedule"}

\* Whatever the network has, it has from a call that has a sequence number, under
\* that number; a call ends once, and keeps its number when it does.  What waits has its
\* number still to come, and no call is ahead of the ledger by more than one.
LedgerFollows ==
  /\ pool \subseteq held /\ applied \subseteq held
  /\ \A x \in held : x.seq = sequence[x.by] /\ phase[x.by] \notin Unbuilt \union {"sign"}
  /\ \A x \in applied : x.seq <= seqno
  /\ \A x \in pool : x.seq > seqno
  /\ \A c \in Confirmations : sequence[c] <= seqno + 1

\* The attempts of a call are counted: there are never too many, and before the first
\* that the network takes it has nothing of the call.
SendsCounted ==
  \A c \in Confirmations :
    /\ phase[c] \in Unbuilt \union {"sign"} => sends[c] = 0
    /\ phase[c] \in {"submit", "backoff"} => sends[c] <= MaxRetries
    /\ sends[c] = 0 => TxOf(c) \notin held
    /\ phase[c] = "declined" /\ sends[c] = 1 => TxOf(c) \notin held

\* A transaction that is not in a ledger, and that none will take any more.
NeverPaid(c) == TxOf(c) \notin applied /\ (TxOf(c) \in held => sequence[c] <= seqno)

\* What the user has been told of a call.
OutcomesTrue ==
  \A c \in Confirmations :
    /\ outcome[c] # "none" => phase[c] = "over"
    /\ outcome[c] = "rejected" /\ sends[c] = 1 => NeverPaid(c)
    /\ outcome[c] = "reported" =>
         /\ TxOf(c) \in held
         /\ paidBy = "horizon" => TxOf(c) \in applied

PaymentInv == PaymentTypeOK /\ LedgerFollows /\ SendsCounted /\ OutcomesTrue


LEMMA PaymentInitInv == PaymentInit => PaymentInv
<1> SUFFICES ASSUME PaymentInit PROVE PaymentInv
  OBVIOUS
<1>1. PaymentTypeOK
  <2>1. 0 \in 0..MaxRetries + 1 /\ 0 \in 0..MaxSeq /\ 0 \in 0..MaxPolls
    BY PaymentAssumption
  <2> QED BY <2>1 DEF PaymentInit, PaymentTypeOK, Phases
<1>2. LedgerFollows /\ SendsCounted /\ OutcomesTrue
  BY DEF PaymentInit, LedgerFollows, SendsCounted, OutcomesTrue
<1> QED BY <1>1, <1>2 DEF PaymentInv

\* The screens and the status requests leave the calls and the ledger alone.
LEMMA ScreensKeepInv ==
  ASSUME PaymentInv, PaymentTypeOK', UNCHANGED <<callVars, ledgerVars, paidBy>>
  PROVE  PaymentInv'
BY DEF PaymentInv, LedgerFollows, SendsCounted, OutcomesTrue, NeverPaid, callVars, ledgerVars, TxOf

\* A transaction of a call is one.
LEMMA TxOfType ==
  ASSUME PaymentTypeOK, NEW c \in Confirmations, sequence[c] # 0
  PROVE  TxOf(c) \in Tx
BY PaymentAssumption DEF PaymentTypeOK, TxOf, Tx

\* One call moves on without the network, not to a phase that it has to earn.
LEMMA CallMoves ==
  ASSUME PaymentInv, NEW c \in Confirmations, NEW p \in Phases, NEW b \in BOOLEAN,
         phase' = [phase EXCEPT ![c] = p], outcome' = outcome, phase[c] # "over",
         submitting' = b, UNCHANGED <<paidBy, step, scheduled, sequence, sends, ledgerVars, statusVars>>,
         p \in {"auth", "authLater"} => phase[c] = "unused",
         p \in {"build", "schedule"} => phase[c] \in {"auth", "authLater"},
         p = "submit" => phase[c] \in {"sign", "backoff"},
         p = "backoff" => Awaits(c) /\ sends[c] <= MaxRetries,
         p \in {"auth", "authLater", "build", "schedule", "submit", "backoff"}
  PROVE  PaymentInv'
<1>1. PaymentTypeOK'
  BY DEF PaymentInv, PaymentTypeOK, ledgerVars, statusVars
<1>2. \A d \in Confirmations : phase'[d] = IF d = c THEN p ELSE phase[d]
  BY DEF PaymentInv, PaymentTypeOK
<1>3. \A d \in Confirmations : TxOf(d)' = TxOf(d)
  BY DEF TxOf
<1>4. \A x \in held : x \in Tx /\ x.by \in Confirmations
  BY DEF PaymentInv, PaymentTypeOK, Tx
<1>5. LedgerFollows'
  <2>1. ASSUME NEW x \in held PROVE x.seq = sequence'[x.by] /\ phase'[x.by] \notin Unbuilt \union {"sign"}
    BY <1>2, <1>4 DEF PaymentInv, LedgerFollows, Unbuilt, Awaits
  <2> QED BY <2>1 DEF PaymentInv, LedgerFollows, ledgerVars
<1>6. SendsCounted'
  <2>1. ASSUME NEW d \in Confirmations
        PROVE  /\ phase'[d] \in Unbuilt \union {"sign"} => sends[d] = 0
               /\ phase'[d] \in {"submit", "backoff"} => sends[d] <= MaxRetries
               /\ phase'[d] = "declined" => phase[d] = "declined"
    <3>1. CASE d # c
      BY <3>1, <1>2 DEF PaymentInv, SendsCounted
    <3>2. CASE d = c
      BY <3>2, <1>2, PaymentAssumption DEF PaymentInv, SendsCounted, Unbuilt
    <3> QED BY <3>1, <3>2
  <2> QED BY <2>1, <1>3 DEF PaymentInv, SendsCounted, ledgerVars
<1>7. OutcomesTrue'
  BY <1>2, <1>3 DEF PaymentInv, OutcomesTrue, NeverPaid, ledgerVars
<1> QED BY <1>1, <1>5, <1>6, <1>7 DEF PaymentInv

\* A call that ends tells what is true of its transaction.
LEMMA CallEnds ==
  ASSUME PaymentInv, NEW c \in Confirmations, NEW result \in {"none", "reported", "rejected", "unknown"},
         Over(c, result), phase[c] # "over",
         UNCHANGED <<paidBy, sequence, sends, ledgerVars>>, PaymentTypeOK',
         result = "rejected" /\ sends[c] = 1 => NeverPaid(c),
         result = "reported" => TxOf(c) \in held /\ (paidBy = "horizon" => TxOf(c) \in applied)
  PROVE  PaymentInv'
<1>1. \A d \in Confirmations : /\ phase'[d] = IF d = c THEN "over" ELSE phase[d]
                               /\ outcome'[d] = IF d = c THEN result ELSE outcome[d]
  BY DEF PaymentInv, PaymentTypeOK, Over, Moved
<1>2. \A d \in Confirmations : TxOf(d)' = TxOf(d)
  BY DEF TxOf
<1>3. \A x \in held : x.by \in Confirmations
  BY DEF PaymentInv, PaymentTypeOK, Tx
<1>4. LedgerFollows'
  <2>1. ASSUME NEW x \in held PROVE x.seq = sequence'[x.by] /\ phase'[x.by] \notin Unbuilt \union {"sign"}
    BY <1>1, <1>3 DEF PaymentInv, LedgerFollows, Unbuilt
  <2> QED BY <2>1 DEF PaymentInv, LedgerFollows, ledgerVars
<1>5. SendsCounted'
  BY <1>1, <1>2 DEF PaymentInv, SendsCounted, Unbuilt, ledgerVars
<1>6. OutcomesTrue'
  BY <1>1, <1>2 DEF PaymentInv, OutcomesTrue, NeverPaid, ledgerVars
<1> QED BY <1>4, <1>5, <1>6 DEF PaymentInv

LEMMA BuildKeepsInv ==
  ASSUME PaymentInv, NEW c \in Confirmations, Build(c), UNCHANGED paidBy
  PROVE  PaymentInv'
<1>1. CASE Over(c, "none") /\ UNCHANGED sequence
  <2>1. PaymentTypeOK'
    BY <1>1 DEF PaymentInv, PaymentTypeOK, Build, Over, Moved, ledgerVars, statusVars, Phases
  <2> QED BY <1>1, <2>1, CallEnds DEF Build
<1>2. CASE /\ seqno < MaxSeq /\ sequence' = [sequence EXCEPT ![c] = seqno + 1]
           /\ Moved(c, "sign") /\ UNCHANGED <<outcome, submitting>>
  <2>1. seqno + 1 \in 0..MaxSeq
    BY <1>2, PaymentAssumption DEF PaymentInv, PaymentTypeOK
  <2>2. PaymentTypeOK'
    BY <1>2, <2>1 DEF PaymentInv, PaymentTypeOK, Build, Moved, ledgerVars, statusVars, Phases
  <2>3. \A d \in Confirmations : phase'[d] = IF d = c THEN "sign" ELSE phase[d]
    BY <1>2 DEF PaymentInv, PaymentTypeOK, Moved
  <2>4. \A d \in Confirmations : d # c => sequence'[d] = sequence[d] /\ TxOf(d)' = TxOf(d)
    BY <1>2 DEF PaymentInv, PaymentTypeOK, TxOf
  <2>5. phase[c] = "build"
    BY DEF Build
  <2>6. \A x \in held : x.by \in Confirmations /\ x.by # c
    BY <2>5 DEF PaymentInv, PaymentTypeOK, Tx, LedgerFollows, Unbuilt
  <2>7. LedgerFollows'
    <3>1. ASSUME NEW x \in held PROVE x.seq = sequence'[x.by] /\ phase'[x.by] \notin Unbuilt \union {"sign"}
      BY <2>3, <2>4, <2>6 DEF PaymentInv, LedgerFollows
    <3>2. ASSUME NEW d \in Confirmations PROVE sequence'[d] <= seqno + 1
      BY <1>2, <2>4 DEF PaymentInv, PaymentTypeOK, LedgerFollows
    <3> QED BY <3>1, <3>2 DEF PaymentInv, LedgerFollows, Build, ledgerVars
  <2>8. SendsCounted'
    <3>1. \A d \in Confirmations : TxOf(d)' \in held => d # c /\ TxOf(d)' = TxOf(d)
      BY <2>4, <2>6 DEF TxOf
    <3>2. \A d \in Confirmations : phase[d] \in Unbuilt \union {"sign"} => sends[d] = 0
      BY DEF PaymentInv, SendsCounted
    <3> QED BY <2>3, <2>5, <3>1, <3>2 DEF PaymentInv, SendsCounted, Unbuilt, Build, ledgerVars
  <2>9. OutcomesTrue'
    <3>1. outcome[c] = "none"
      BY <2>5 DEF PaymentInv, OutcomesTrue
    <3> QED BY <1>2, <2>3, <2>4, <3>1 DEF PaymentInv, OutcomesTrue, NeverPaid, Build, ledgerVars
  <2> QED BY <2>2, <2>7, <2>8, <2>9 DEF PaymentInv
<1> QED BY <1>1, <1>2 DEF Build

LEMMA SubmitKeepsInv ==
  ASSUME PaymentInv, NEW c \in Confirmations, Submit(c), UNCHANGED paidBy
  PROVE  PaymentInv'
<1>1. phase[c] = "submit" /\ sends[c] <= MaxRetries
  BY DEF Submit, PaymentInv, SendsCounted
<1>2. sends[c] + 1 \in 0..MaxRetries + 1
  BY <1>1, PaymentAssumption DEF PaymentInv, PaymentTypeOK
<1>3. /\ \A d \in Confirmations : d # c => phase'[d] = phase[d]
      /\ phase'[c] \in {"sent", "declined"}
      /\ phase'[c] = "declined" => UNCHANGED held
  BY DEF PaymentInv, PaymentTypeOK, Submit, Moved
<1>4. \A d \in Confirmations : d # c => sends'[d] = sends[d]
  BY DEF PaymentInv, PaymentTypeOK, Submit, Counted
<1>5. \A d \in Confirmations : TxOf(d)' = TxOf(d)
  BY DEF TxOf, Submit
<1>6. held \subseteq held' /\ pool' \subseteq held' /\ held' \subseteq held \union {TxOf(c)}
  BY DEF Submit, PaymentInv, LedgerFollows
<1>7. held' \subseteq Tx /\ pool' \subseteq Tx
  <2>1. CASE UNCHANGED <<pool, held>>
    BY <2>1 DEF PaymentInv, PaymentTypeOK
  <2>2. CASE sequence[c] > seqno /\ pool' = pool \union {TxOf(c)} /\ held' = held \union {TxOf(c)}
    <3>1. sequence[c] # 0
      BY <2>2, PaymentAssumption DEF PaymentInv, PaymentTypeOK
    <3> QED BY <2>2, <3>1, TxOfType DEF PaymentInv, PaymentTypeOK
  <2> QED BY <2>1, <2>2 DEF Submit
<1>8. PaymentTypeOK'
  BY <1>2, <1>7 DEF PaymentInv, PaymentTypeOK, Submit, Moved, Counted, formVars, statusVars, Phases
<1>9. LedgerFollows'
  <2>1. ASSUME NEW x \in held' PROVE x.seq = sequence'[x.by] /\ phase'[x.by] \notin Unbuilt \union {"sign"}
    <3>1. CASE x \in held
      <4>1. x.by \in Confirmations
        BY <3>1 DEF PaymentInv, PaymentTypeOK, Tx
      <4> QED BY <3>1, <4>1, <1>3 DEF PaymentInv, LedgerFollows, Submit, Unbuilt
    <3>2. CASE x = TxOf(c)
      BY <3>2, <1>3 DEF TxOf, Submit, Unbuilt
    <3> QED BY <3>1, <3>2, <1>6
  <2>2. \A x \in pool' : x.seq > seqno
    BY DEF PaymentInv, LedgerFollows, Submit, TxOf
  <2> QED BY <2>1, <2>2, <1>6 DEF PaymentInv, LedgerFollows, Submit
<1>10. SendsCounted'
  <2>1. \A d \in Confirmations : d # c => (TxOf(d) \in held' <=> TxOf(d) \in held)
    BY <1>6 DEF TxOf
  <2>2. sends'[c] = sends[c] + 1 /\ sends[c] \in Nat
    BY DEF PaymentInv, PaymentTypeOK, Submit, Counted
  <2>3. sends[c] = 0 => TxOf(c) \notin held
    BY DEF PaymentInv, SendsCounted
  <2> QED BY <1>3, <1>4, <1>5, <2>1, <2>2, <2>3 DEF PaymentInv, SendsCounted, Unbuilt
<1>11. OutcomesTrue'
  <2>1. outcome[c] = "none"
    BY <1>1 DEF PaymentInv, OutcomesTrue
  <2>2. \A d \in Confirmations : d # c => (TxOf(d) \in held' <=> TxOf(d) \in held)
    BY <1>6 DEF TxOf
  <2> QED BY <1>3, <1>4, <1>5, <1>6, <2>1, <2>2 DEF PaymentInv, OutcomesTrue, NeverPaid, Submit
<1> QED BY <1>8, <1>9, <1>10, <1>11 DEF PaymentInv

\* A transaction is paid only under the next number, which no call that was told of
\* its rejection at its one attempt holds.
LEMMA IncludeKeepsInv ==
  ASSUME PaymentInv, NEW x \in pool, Include(x), UNCHANGED paidBy
  PROVE  PaymentInv'
<1>1. x \in held /\ x \in Tx /\ x.seq \in 1..MaxSeq /\ x.by \in Confirmations /\ x.seq = seqno + 1
  BY DEF Include, PaymentInv, PaymentTypeOK, LedgerFollows, Tx
<1>2. seqno' = seqno + 1 /\ seqno' \in 0..MaxSeq /\ seqno \in Nat
  BY <1>1, PaymentAssumption DEF Include, PaymentInv, PaymentTypeOK
<1>3. applied \subseteq applied' /\ applied' \subseteq applied \union {x}
  BY DEF Include
<1>4. PaymentTypeOK'
  BY <1>1, <1>2 DEF PaymentInv, PaymentTypeOK, Include, formVars, callVars, statusVars
<1>5. LedgerFollows'
  <2>1. ASSUME NEW y \in applied' PROVE y.seq <= seqno'
    <3>1. CASE y = x
      BY <3>1, <1>1, <1>2
    <3>2. CASE y \in applied
      <4>1. y.seq <= seqno /\ y.seq \in Nat
        BY <3>2 DEF PaymentInv, LedgerFollows, PaymentTypeOK, Tx
      <4> QED BY <4>1, <1>2
    <3> QED BY <3>1, <3>2, <1>3
  <2>2. ASSUME NEW y \in pool' PROVE y.seq > seqno'
    BY <2>2, <1>1, <1>2 DEF Include
  <2>3. ASSUME NEW d \in Confirmations PROVE sequence[d] <= seqno' + 1
    <3>1. sequence[d] \in Nat /\ sequence[d] <= seqno + 1
      BY DEF PaymentInv, PaymentTypeOK, LedgerFollows
    <3> QED BY <3>1, <1>2
  <2> QED BY <1>1, <1>3, <2>1, <2>2, <2>3 DEF PaymentInv, LedgerFollows, Include, callVars
<1>7. \A d \in Confirmations : TxOf(d)' = TxOf(d)
  BY DEF TxOf, Include, callVars
<1>6. SendsCounted'
  BY <1>7 DEF PaymentInv, SendsCounted, Include, callVars
<1>8. OutcomesTrue'
  <2>1. ASSUME NEW d \in Confirmations, outcome[d] = "rejected", sends[d] = 1
        PROVE  TxOf(d) \notin applied' /\ (TxOf(d) \in held => sequence[d] <= seqno')
    <3>1. NeverPaid(d) /\ sequence[d] \in Nat
      BY <2>1 DEF PaymentInv, OutcomesTrue, PaymentTypeOK
    <3>2. TxOf(d) # x
      BY <1>1, <1>2, <3>1 DEF TxOf, NeverPaid
    <3> QED BY <3>1, <3>2, <1>2, <1>3 DEF NeverPaid
  <2> QED BY <2>1, <1>3, <1>7 DEF PaymentInv, OutcomesTrue, NeverPaid, Include, callVars
<1> QED BY <1>4, <1>5, <1>6, <1>8 DEF PaymentInv

LEMMA OtherPaymentKeepsInv ==
  ASSUME PaymentInv, OtherPayment, UNCHANGED paidBy
  PROVE  PaymentInv'
<1>1. seqno' = seqno + 1 /\ seqno' \in 0..MaxSeq /\ seqno \in Nat
  BY PaymentAssumption DEF OtherPayment, PaymentInv, PaymentTypeOK
<1>2. PaymentTypeOK'
  BY <1>1 DEF PaymentInv, PaymentTypeOK, OtherPayment, formVars, callVars, statusVars
<1>3. LedgerFollows'
  <2>1. ASSUME NEW y \in applied PROVE y.seq <= seqno'
    <3>1. y.seq <= seqno /\ y.seq \in Nat
      BY DEF PaymentInv, LedgerFollows, PaymentTypeOK, Tx
    <3> QED BY <3>1, <1>1
  <2>2. ASSUME NEW y \in pool' PROVE y.seq > seqno'
    BY <2>2, <1>1 DEF OtherPayment
  <2>3. ASSUME NEW d \in Confirmations PROVE sequence[d] <= seqno' + 1
    <3>1. sequence[d] \in Nat /\ sequence[d] <= seqno + 1
      BY DEF PaymentInv, PaymentTypeOK, LedgerFollows
    <3> QED BY <3>1, <1>1
  <2> QED BY <2>1, <2>2, <2>3 DEF PaymentInv, LedgerFollows, OtherPayment, callVars
<1>5. \A d \in Confirmations : TxOf(d)' = TxOf(d)
  BY DEF TxOf, OtherPayment, callVars
<1>4. SendsCounted'
  BY <1>5 DEF PaymentInv, SendsCounted, OtherPayment, callVars
<1>6. OutcomesTrue'
  <2>1. ASSUME NEW d \in Confirmations, outcome[d] = "rejected", sends[d] = 1
        PROVE  TxOf(d) \notin applied /\ (TxOf(d) \in held => sequence[d] <= seqno')
    <3>1. NeverPaid(d) /\ sequence[d] \in Nat
      BY <2>1 DEF PaymentInv, OutcomesTrue, PaymentTypeOK
    <3> QED BY <3>1, <1>1 DEF NeverPaid, PaymentInv, PaymentTypeOK
  <2> QED BY <2>1, <1>5 DEF PaymentInv, OutcomesTrue, NeverPaid, OtherPayment, callVars
<1> QED BY <1>2, <1>3, <1>4, <1>6 DEF PaymentInv

LEMMA DropKeepsInv ==
  ASSUME PaymentInv, NEW x \in pool, Drop(x), UNCHANGED paidBy
  PROVE  PaymentInv'
BY DEF PaymentInv, PaymentTypeOK, LedgerFollows, SendsCounted, OutcomesTrue, NeverPaid, Drop, formVars, callVars, statusVars, TxOf

LEMMA CallActionKeepsInv ==
  ASSUME PaymentInv, NEW c \in Confirmations, CallAction(c), UNCHANGED paidBy
  PROVE  PaymentInv'
<1>1. CASE Authenticate(c)
  <2>1. CASE Over(c, "none")
    <3>1. PaymentTypeOK'
      BY <1>1, <2>1 DEF PaymentInv, PaymentTypeOK, Authenticate, Over, Moved, ledgerVars, statusVars, Phases
    <3> QED BY <1>1, <2>1, <3>1, CallEnds DEF Authenticate
  <2>2. CASE /\ Moved(c, IF phase[c] = "auth" THEN "build" ELSE "schedule")
             /\ UNCHANGED <<outcome, submitting>>
    <3> DEFINE p == IF phase[c] = "auth" THEN "build" ELSE "schedule"
    <3>1. p \in {"build", "schedule"} /\ p \in Phases /\ submitting \in BOOLEAN
      BY DEF Phases, PaymentInv, PaymentTypeOK
    <3>2. phase' = [phase EXCEPT ![c] = p]
      BY <2>2 DEF Moved
    <3>3. phase[c] \in {"auth", "authLater"} /\ UNCHANGED <<step, scheduled, sequence, sends, ledgerVars, statusVars>>
      BY <1>1 DEF Authenticate
    <3> HIDE DEF p
    <3> QED BY <2>2, <3>1, <3>2, <3>3, CallMoves
  <2> QED BY <1>1, <2>1, <2>2 DEF Authenticate
<1>2. CASE Schedule(c)
  <2>1. PaymentTypeOK'
    BY <1>2 DEF PaymentInv, PaymentTypeOK, Schedule, Over, Moved, ledgerVars, statusVars, Phases
  <2> QED BY <1>2, <2>1, CallEnds DEF Schedule
<1>3. CASE Build(c)
  BY <1>3, BuildKeepsInv
<1>4. CASE SignPayment(c)
  <2>1. CASE Over(c, "none")
    <3>1. PaymentTypeOK'
      BY <1>4, <2>1 DEF PaymentInv, PaymentTypeOK, SignPayment, Over, Moved, ledgerVars, statusVars, Phases
    <3> QED BY <1>4, <2>1, <3>1, CallEnds DEF SignPayment
  <2>2. CASE Moved(c, "submit") /\ UNCHANGED <<outcome, submitting>>
    <3>1. "submit" \in Phases /\ submitting \in BOOLEAN
      BY DEF Phases, PaymentInv, PaymentTypeOK
    <3> QED BY <1>4, <2>2, <3>1, CallMoves DEF SignPayment, Moved
  <2> QED BY <1>4, <2>1, <2>2 DEF SignPayment
<1>5. CASE Submit(c)
  BY <1>5, SubmitKeepsInv
<1>6. CASE Answered(c)
  <2>1. CASE Taken(c) /\ Reported(c)
    <3>1. PaymentTypeOK'
      BY <1>6, <2>1 DEF PaymentInv, PaymentTypeOK, Answered, Reported, Over, Moved, ledgerVars, Phases
    <3>2. TxOf(c) \in held /\ (paidBy = "horizon" => TxOf(c) \in applied)
      BY <2>1 DEF Taken, PaymentInv, LedgerFollows, PaymentTypeOK
    <3> QED BY <1>6, <2>1, <3>1, <3>2, CallEnds DEF Answered, Reported, Awaits
  <2>2. CASE Judged(c) /\ Over(c, "rejected") /\ UNCHANGED <<step, statusVars>>
    <3>1. PaymentTypeOK'
      BY <1>6, <2>2 DEF PaymentInv, PaymentTypeOK, Answered, Over, Moved, ledgerVars, statusVars, Phases
    <3>2. sends[c] = 1 => NeverPaid(c)
      <4>1. phase[c] = "declined" /\ sends[c] = 1 => TxOf(c) \notin held
        BY DEF PaymentInv, SendsCounted
      <4> QED BY <2>2, <4>1 DEF Judged, NeverPaid, PaymentInv, LedgerFollows
    <3> QED BY <1>6, <2>2, <3>1, <3>2, CallEnds DEF Answered, Awaits
  <2> QED BY <1>6, <2>1, <2>2 DEF Answered
<1>7. CASE Refuses(c)
  <2>1. PaymentTypeOK'
    BY <1>7 DEF PaymentInv, PaymentTypeOK, Refuses, Over, Moved, ledgerVars, statusVars, Phases
  <2> QED BY <1>7, <2>1, CallEnds DEF Refuses, Awaits
<1>8. CASE Unanswered(c)
  <2>1. CASE RetriesLeft(c)
    <3>1. "backoff" \in Phases /\ submitting \in BOOLEAN
      BY DEF Phases, PaymentInv, PaymentTypeOK
    <3> QED BY <1>8, <2>1, <3>1, CallMoves DEF Unanswered, Moved, RetriesLeft, Awaits
  <2>2. CASE ~RetriesLeft(c)
    <3>1. PaymentTypeOK'
      BY <1>8, <2>2 DEF PaymentInv, PaymentTypeOK, Unanswered, Over, Moved, ledgerVars, statusVars, Phases
    <3> QED BY <1>8, <2>2, <3>1, CallEnds DEF Unanswered, Awaits
  <2> QED BY <2>1, <2>2
<1>9. CASE Retry(c)
  <2>1. "submit" \in Phases /\ submitting \in BOOLEAN
    BY DEF Phases, PaymentInv, PaymentTypeOK
  <2> QED BY <1>9, <2>1, CallMoves DEF Retry, Retried, Moved, formVars
<1> QED BY <1>1, <1>2, <1>3, <1>4, <1>5, <1>6, <1>7, <1>8, <1>9 DEF CallAction

LEMMA PaymentStepInv == PaymentInv /\ [PaymentNext]_paymentVars => PaymentInv'
<1> SUFFICES ASSUME PaymentInv, [PaymentNext]_paymentVars PROVE PaymentInv'
  OBVIOUS
<1>1. ASSUME NEW c \in Confirmations, ConfirmationStep(c) PROVE PaymentInv'
  BY <1>1, CallActionKeepsInv DEF ConfirmationStep
<1>2. CASE UNCHANGED paidBy /\ (GoToReview \/ Back \/ RequestConfirm)
  <2>1. UNCHANGED <<callVars, ledgerVars, statusVars>> /\ submitting' \in BOOLEAN /\ scheduled' \in BOOLEAN
        /\ step' \in {"form", "review", "confirm", "status", "scheduled"}
    BY <1>2 DEF GoToReview, Back, RequestConfirm, PaymentInv, PaymentTypeOK
  <2>2. PaymentTypeOK'
    BY <1>2, <2>1 DEF PaymentInv, PaymentTypeOK, callVars, ledgerVars, statusVars
  <2> QED BY <1>2, <2>1, <2>2, ScreensKeepInv
<1>3. ASSUME NEW c \in Confirmations, Confirm(c), UNCHANGED paidBy PROVE PaymentInv'
  <2> DEFINE p == IF scheduled THEN "authLater" ELSE "auth"
  <2>1. p \in {"auth", "authLater"} /\ p \in Phases /\ TRUE \in BOOLEAN
    BY DEF Phases
  <2>2. phase' = [phase EXCEPT ![c] = p] /\ phase[c] = "unused" /\ submitting' = TRUE /\ outcome' = outcome
        /\ UNCHANGED <<step, scheduled, sequence, sends, ledgerVars, statusVars>>
    BY <1>3 DEF Confirm, Moved
  <2> HIDE DEF p
  <2> QED BY <1>3, <2>1, <2>2, CallMoves
<1>4. ASSUME NEW c \in Confirmations, PollSent(c) \/ PollAnswers(c), UNCHANGED paidBy PROVE PaymentInv'
  <2>1. polls' \in [Confirmations -> 0..MaxPolls]
    BY <1>4, PaymentAssumption DEF PollSent, PollAnswers, PaymentInv, PaymentTypeOK
  <2>2. PaymentTypeOK'
    BY <1>4, <2>1 DEF PollSent, PollAnswers, Shown, PaymentInv, PaymentTypeOK, formVars, callVars, ledgerVars
  <2>3. UNCHANGED <<callVars, ledgerVars>>
    BY <1>4 DEF PollSent, PollAnswers
  <2> QED BY <1>4, <2>2, <2>3, ScreensKeepInv
<1>5. CASE UNCHANGED paymentVars
  BY <1>5 DEF paymentVars, formVars, callVars, ledgerVars, statusVars, PaymentInv, PaymentTypeOK,
              LedgerFollows, SendsCounted, OutcomesTrue, NeverPaid, TxOf
<1> QED BY <1>1, <1>2, <1>3, <1>4, <1>5, IncludeKeepsInv, DropKeepsInv, OtherPaymentKeepsInv DEF PaymentNext

\* What is applied for one call is its one transaction.
LEMMA PaymentInvMeans == PaymentInv => PaymentsTrue
<1> SUFFICES ASSUME PaymentInv PROVE PaymentsTrue
  OBVIOUS
<1>1. \A x \in applied : x \in Tx /\ x.seq = sequence[x.by]
  BY DEF PaymentInv, PaymentTypeOK, LedgerFollows
<1>2. ASSUME NEW c \in Confirmations PROVE {x \in applied : x.by = c} \subseteq {TxOf(c)}
  BY <1>1 DEF Tx, TxOf
<1>3. PaidOncePerConfirmation
  <2> SUFFICES ASSUME NEW c \in Confirmations PROVE Cardinality({x \in applied : x.by = c}) <= 1
    BY DEF PaidOncePerConfirmation
  <2>1. IsFiniteSet({TxOf(c)}) /\ Cardinality({TxOf(c)}) = 1
    BY FS_Singleton
  <2>2. Cardinality({x \in applied : x.by = c}) <= Cardinality({TxOf(c)})
    BY <1>2, <2>1, FS_Subset
  <2> QED BY <2>1, <2>2
<1>4. RejectedIsNeverPaid
  <2> SUFFICES ASSUME NEW c \in Confirmations, outcome[c] = "rejected", sends[c] = 1,
                      NEW x \in applied, x.by = c
               PROVE  FALSE
    BY DEF RejectedIsNeverPaid
  <2>1. x = TxOf(c)
    BY <1>2
  <2> QED BY <2>1 DEF PaymentInv, OutcomesTrue, NeverPaid
<1>5. ReportedIsTaken
  BY DEF PaymentInv, OutcomesTrue, ReportedIsTaken
<1>6. RepaymentReplaces
  <2> SUFFICES ASSUME NEW c \in Confirmations, NEW d \in Confirmations, TxOf(c) \in pool, sequence[d] > seqno
               PROVE  sequence[d] = sequence[c]
    BY DEF RepaymentReplaces
  <2>1. sequence[c] > seqno
    BY DEF PaymentInv, LedgerFollows, TxOf
  <2>2. sequence[c] <= seqno + 1 /\ sequence[d] <= seqno + 1
    BY DEF PaymentInv, LedgerFollows
  <2> QED BY <2>1, <2>2 DEF PaymentInv, PaymentTypeOK
<1> QED BY <1>3, <1>4, <1>5, <1>6 DEF PaymentsTrue

\* The send flow never leaves its types: among them the number of attempts, which is
\* at most the retries and one.
THEOREM PaymentTyped == PaymentSpec => []PaymentTypeOK
<1>1. PaymentInv => PaymentTypeOK
  BY DEF PaymentInv
<1> QED BY <1>1, PaymentInitInv, PaymentStepInv, PTL DEF PaymentSpec

\* However answers are lost and attempts repeated, one confirmation pays at most
\* once; what its only attempt was told has failed is never paid, and what a later one
\* was told has failed is replaced by a payment made meanwhile, not doubled; and the
\* status screen speaks of a transaction the network has taken (submitTransaction,
\* withRetry).
THEOREM PaymentsAreTrue == PaymentSpec => []PaymentsTrue
BY PaymentInitInv, PaymentStepInv, PaymentInvMeans, PTL DEF PaymentSpec

-----------------------------------------------------------------------------
(* Deployment: what is saved is what the ledger has.                           *)

\* A transaction as the network keeps it.
TakenTx == [op : 1..3, seq : Nat, result : {"pending", "SUCCESS", "FAILED", "gone"}]
Ledger == [funded : BOOLEAN, wasm : BOOLEAN, instance : BOOLEAN, owned : BOOLEAN, seq : Nat]
Calls == {"none", "wallet", "owner", "fund", "wasm", "account", "prepare", "send"}
Places == Calls \union {"poll"} \union Saving

\* DeployTypeOK but for the sequence numbers, which take NumbersTaken.
DeployTyped ==
  /\ chain \in Ledger /\ sent \in Seq(TakenTx)
  /\ page \in [Screens -> {"setup", "deploy", "success"}]
  /\ progress \in [Screens -> {"idle", "funding", "success", "error"}]
  /\ loading \in [Screens -> BOOLEAN]
  /\ phrase \in [Screens -> {"none", "short", "long"}]
  /\ at \in [Screens -> Places]
  /\ op \in [Screens -> 1..3] /\ seq \in [Screens -> Nat] /\ hash \in [Screens -> 0..Len(sent)]
  /\ vault \in [salt : Nat, check : Keys, record : Keys] /\ salts \in Nat /\ derived \in [Screens -> Keys]
  /\ account \in BOOLEAN /\ fresh \in BOOLEAN /\ mishap \subseteq {"raced", "cut", "refused"}
  /\ met \in [Screens -> {"nothing", "instance", "owner"}]
  /\ tried \in 0..MaxAttempts /\ faults \in 0..MaxFaults

\* A contract has an owner once its initialization was included, and only then.
OwnerFollows ==
  /\ chain.owned => chain.instance
  /\ \A h \in 1..Len(sent) : sent[h].op = 3 /\ sent[h].result = "SUCCESS" => chain.owned

\* An attempt polls the transaction of the operation it is at, and saves an account
\* that has its owner.
AttemptTrue(s) ==
  /\ at[s] = "poll" /\ hash[s] # 0 => sent[hash[s]].op = op[s]
  /\ at[s] \in Saving => chain.owned

ProfileTrue ==
  /\ account => chain.owned
  /\ \A s \in Screens : page[s] = "success" => chain.owned

DeployInv == DeployTyped /\ OwnerFollows /\ (\A s \in Screens : AttemptTrue(s)) /\ ProfileTrue

LEMMA DeployInitInv == DeployInit => DeployInv
<1> SUFFICES ASSUME DeployInit PROVE DeployInv
  OBVIOUS
<1>1. sent \in Seq(TakenTx) /\ Len(sent) = 0
  BY EmptySeq DEF DeployInit
<1>2. 0 \in 0..MaxAttempts /\ 0 \in 0..MaxFaults /\ 0 \in 0..Len(sent) /\ 1 \in 1..3
  BY <1>1, DeployAssumption
<1>3. chain \in Ledger /\ ~chain.owned
  BY DEF DeployInit, Ledger
<1>4. DeployTyped
  <2>1. NoKey \in Keys /\ \A w \in Passwords : [salt |-> 1, word |-> w] \in Keys
    BY DEF NoKey, Keys
  <2>2. vault \in [salt : Nat, check : Keys, record : Keys]
    <3>1. CASE vault = [salt |-> 0, check |-> NoKey, record |-> NoKey]
      BY <2>1, <3>1
    <3>2. ASSUME NEW w \in Passwords, vault = [salt |-> 1, check |-> [salt |-> 1, word |-> w], record |-> NoKey]
          PROVE  vault \in [salt : Nat, check : Keys, record : Keys]
      <4> DEFINE k == [salt |-> 1, word |-> w]
      <4>1. k \in Keys
        BY <2>1
      <4>2. vault = [salt |-> 1, check |-> k, record |-> NoKey]
        BY <3>2
      <4> HIDE DEF k
      <4> QED BY <2>1, <4>1, <4>2
    <3> QED BY <3>1, <3>2 DEF DeployInit
  <2>3. fresh \in BOOLEAN
    BY DEF DeployInit
  <2> QED BY <1>1, <1>2, <1>3, <2>1, <2>2, <2>3 DEF DeployInit, DeployTyped, Places, Calls
<1>5. OwnerFollows
  BY <1>1, <1>3 DEF OwnerFollows
<1>6. (\A s \in Screens : AttemptTrue(s)) /\ ProfileTrue
  BY DEF DeployInit, AttemptTrue, ProfileTrue, Saving
<1> QED BY <1>4, <1>5, <1>6 DEF DeployInv

\* A screen moves while the network and what was saved stay: its attempt neither
\* polls another transaction nor saves an account without its owner.
LEMMA ScreenMoves ==
  ASSUME DeployInv, NEW s \in Screens, DeployTyped',
         UNCHANGED <<sent, account>>,
         chain.owned' = chain.owned, chain.instance' = chain.instance,
         \A t \in Screens \ {s} : at'[t] = at[t] /\ op'[t] = op[t] /\ hash'[t] = hash[t] /\ page'[t] = page[t],
         AttemptTrue(s)', page'[s] = "success" => page[s] = "success"
  PROVE  DeployInv'
<1>1. OwnerFollows'
  BY DEF DeployInv, OwnerFollows
<1>2. \A t \in Screens : AttemptTrue(t)'
  BY DEF DeployInv, AttemptTrue
<1>3. ProfileTrue'
  BY DEF DeployInv, ProfileTrue
<1> QED BY <1>1, <1>2, <1>3 DEF DeployInv

\* One more fault is within the bound.
LEMMA FaultCounted ==
  ASSUME DeployTyped, faults < MaxFaults
  PROVE  faults + 1 \in 0..MaxFaults /\ faults + 1 >= faults /\ faults >= 0
BY DeployAssumption DEF DeployTyped

\* What an attempt throws, with or without a fault of its call.
LEMMA ThrowsKeepsInv ==
  ASSUME DeployInv, NEW s \in Screens, Throws(s), NEW f \in 0..MaxFaults, faults' = f, f >= faults,
         UNCHANGED <<sent, profileVars, met, tried>>, chain' \in Ledger,
         chain'.owned = chain.owned, chain'.instance = chain.instance
  PROVE  DeployInv'
<1>1. DeployTyped'
  <2>1. 0 \in 0..Len(sent) /\ 1 \in 1..3 /\ "none" \in Places
    BY LenProperties DEF DeployInv, DeployTyped, Places, Calls
  <2> QED BY <2>1 DEF DeployInv, DeployTyped, Throws, Goes, Caught, profileVars, vaultVars
<1>2. \A t \in Screens \ {s} : at'[t] = at[t] /\ op'[t] = op[t] /\ hash'[t] = hash[t] /\ page'[t] = page[t]
  BY DEF DeployInv, DeployTyped, Throws, Goes
<1>3. at'[s] = "none" /\ page' = page
  BY DEF DeployInv, DeployTyped, Throws, Goes
<1> QED BY <1>1, <1>2, <1>3, ScreenMoves DEF AttemptTrue, Saving, profileVars, vaultVars

LEMMA FailingKeepsInv ==
  ASSUME DeployInv, NEW s \in Screens, Failing(s),
         UNCHANGED <<sent, profileVars, met, tried>>, chain' \in Ledger,
         chain'.owned = chain.owned, chain'.instance = chain.instance
  PROVE  DeployInv'
<1>1. faults + 1 \in 0..MaxFaults /\ faults + 1 >= faults
  BY FaultCounted DEF Failing, DeployInv
<1> QED BY <1>1, ThrowsKeepsInv DEF Failing

\* An attempt goes on to an await that neither polls nor saves.
LEMMA GoesOnKeepsInv ==
  ASSUME DeployInv, NEW s \in Screens, NEW to \in Calls, Goes(s, to),
         NEW o \in 1..3, op' = [op EXCEPT ![s] = o], NEW n \in Nat, seq' = [seq EXCEPT ![s] = n],
         NEW h \in 0..Len(sent), hash' = [hash EXCEPT ![s] = h], NEW f \in 0..MaxFaults, faults' = f, f >= faults,
         UNCHANGED <<sent, screenVars, profileVars, met, tried>>, chain' \in Ledger,
         chain'.owned = chain.owned, chain'.instance = chain.instance
  PROVE  DeployInv'
<1>1. DeployTyped'
  BY DEF DeployInv, DeployTyped, Goes, Places, screenVars, profileVars, vaultVars
<1>2. \A t \in Screens \ {s} : at'[t] = at[t] /\ op'[t] = op[t] /\ hash'[t] = hash[t] /\ page'[t] = page[t]
  BY DEF DeployInv, DeployTyped, Goes, screenVars
<1>3. at'[s] = to /\ page' = page
  BY DEF DeployInv, DeployTyped, Goes, screenVars
<1> QED BY <1>1, <1>2, <1>3, ScreenMoves DEF AttemptTrue, Calls, Saving, profileVars, vaultVars

\* What an attempt holds, and what it would be left with if nothing changed.
LEMMA AttemptHolds ==
  ASSUME DeployInv, NEW s \in Screens
  PROVE  /\ op[s] \in 1..3 /\ seq[s] \in Nat /\ hash[s] \in 0..Len(sent) /\ faults \in 0..MaxFaults
         /\ faults >= faults /\ chain \in Ledger
         /\ op = [op EXCEPT ![s] = op[s]] /\ seq = [seq EXCEPT ![s] = seq[s]]
         /\ hash = [hash EXCEPT ![s] = hash[s]]
BY DEF DeployInv, DeployTyped

LEMMA AttemptFaults ==
  ASSUME DeployInv PROVE faults \in 0..MaxFaults /\ faults >= faults
BY DEF DeployInv, DeployTyped

LEMMA PrepareWalletKeepsInv ==
  ASSUME DeployInv, NEW s \in Screens, PrepareWallet(s) PROVE DeployInv'
<1>1. (IF phrase[s] = "short" THEN "owner" ELSE "none") \in Calls
  BY DEF Calls
<1> QED BY <1>1, AttemptHolds, GoesOnKeepsInv DEF PrepareWallet, networkVars

LEMMA FindOwnerKeepsInv ==
  ASSUME DeployInv, NEW s \in Screens, FindOwner(s) PROVE DeployInv'
<1>1. UNCHANGED <<networkVars, screenVars, op, seq, hash, profileVars, met, tried>>
  BY DEF FindOwner
<1>2. CASE Goes(s, IF chain.owned THEN "save" ELSE "fund") /\ UNCHANGED faults
  <2>1. DeployTyped'
    BY <1>1, <1>2 DEF DeployInv, DeployTyped, Goes, Places, Calls, Saving, networkVars, screenVars, profileVars, vaultVars
  <2>2. \A t \in Screens \ {s} : at'[t] = at[t] /\ op'[t] = op[t] /\ hash'[t] = hash[t] /\ page'[t] = page[t]
    BY <1>1, <1>2 DEF DeployInv, DeployTyped, Goes, screenVars
  <2>3. at'[s] = IF chain.owned THEN "save" ELSE "fund"
    BY <1>2 DEF DeployInv, DeployTyped, Goes
  <2>4. AttemptTrue(s)'
    BY <2>3, <1>1 DEF AttemptTrue, Saving, networkVars
  <2> QED BY <1>1, <1>2, <2>1, <2>2, <2>4, AttemptHolds, ScreenMoves DEF networkVars, screenVars, profileVars, vaultVars
<1>3. CASE chain.owned /\ faults < MaxFaults /\ faults' = faults + 1 /\ Goes(s, "fund")
  <2>1. faults + 1 \in 0..MaxFaults /\ faults + 1 >= faults
    BY <1>3, FaultCounted DEF DeployInv
  <2>2. "fund" \in Calls
    BY DEF Calls
  <2> QED BY <1>1, <1>3, <2>1, <2>2, AttemptHolds, GoesOnKeepsInv DEF networkVars
<1> QED BY <1>2, <1>3 DEF FindOwner

LEMMA FundKeepsInv ==
  ASSUME DeployInv, NEW s \in Screens, Fund(s) PROVE DeployInv'
<1>1. UNCHANGED <<sent, profileVars, met, tried>>
  BY DEF Fund
<1> DEFINE c == [chain EXCEPT !.funded = TRUE]
<1>2. c \in Ledger /\ c.owned = chain.owned /\ c.instance = chain.instance /\ chain \in Ledger
  BY DEF DeployInv, DeployTyped, Ledger
<1>3. CASE chain' = c /\ Goes(s, "wasm") /\ Working(s) /\ UNCHANGED <<op, seq, hash>>
  <2>1. "wasm" \in Calls
    BY DEF Calls
  <2> QED BY <1>1, <1>2, <1>3, <2>1, AttemptHolds, GoesOnKeepsInv DEF Working
<1>4. CASE chain.funded /\ Throws(s) /\ UNCHANGED <<chain, faults>>
  BY <1>1, <1>2, <1>4, AttemptHolds, ThrowsKeepsInv
<1>5. CASE Failing(s) /\ chain' \in {chain, c}
  BY <1>1, <1>2, <1>5, FailingKeepsInv
<1> QED BY <1>3, <1>4, <1>5 DEF Fund

LEMMA FindWasmKeepsInv ==
  ASSUME DeployInv, NEW s \in Screens, FindWasm(s) PROVE DeployInv'
<1>1. UNCHANGED <<networkVars, profileVars, met, tried>>
  BY DEF FindWasm
<1>2. CASE /\ op' = [op EXCEPT ![s] = IF chain.wasm THEN 2 ELSE 1]
           /\ Goes(s, "account") /\ Working(s) /\ UNCHANGED <<seq, hash>>
  <2>1. "account" \in Calls /\ (IF chain.wasm THEN 2 ELSE 1) \in 1..3
    BY DEF Calls
  <2> QED BY <1>1, <1>2, <2>1, AttemptHolds, GoesOnKeepsInv DEF networkVars, Working
<1>3. CASE /\ op' = [op EXCEPT ![s] = 1] /\ Goes(s, "account")
           /\ faults < MaxFaults /\ faults' = faults + 1 /\ UNCHANGED <<screenVars, seq, hash>>
  <2>1. "account" \in Calls /\ 1 \in 1..3
    BY DEF Calls
  <2>2. faults + 1 \in 0..MaxFaults /\ faults + 1 >= faults
    BY <1>3, FaultCounted DEF DeployInv
  <2> QED BY <1>1, <1>3, <2>1, <2>2, AttemptHolds, GoesOnKeepsInv DEF networkVars
<1>4. CASE Failing(s)
  BY <1>1, <1>4, AttemptHolds, FailingKeepsInv DEF networkVars
<1> QED BY <1>2, <1>3, <1>4 DEF FindWasm

LEMMA ReadAccountKeepsInv ==
  ASSUME DeployInv, NEW s \in Screens, ReadAccount(s) PROVE DeployInv'
<1>1. UNCHANGED <<networkVars, profileVars, met, tried>>
  BY DEF ReadAccount
<1>2. CASE /\ seq' = [seq EXCEPT ![s] = chain.seq + 1]
           /\ Goes(s, "prepare") /\ Working(s) /\ UNCHANGED <<op, hash>>
  <2>1. "prepare" \in Calls /\ chain.seq + 1 \in Nat
    BY DEF Calls, DeployInv, DeployTyped, Ledger
  <2> QED BY <1>1, <1>2, <2>1, AttemptHolds, GoesOnKeepsInv DEF networkVars, Working
<1>3. CASE Failing(s)
  BY <1>1, <1>3, AttemptHolds, FailingKeepsInv DEF networkVars
<1> QED BY <1>2, <1>3 DEF ReadAccount

LEMMA PrepareKeepsInv ==
  ASSUME DeployInv, NEW s \in Screens, Prepare(s) PROVE DeployInv'
<1>1. UNCHANGED <<networkVars, profileVars, met, tried>>
  BY DEF Prepare
<1>2. CASE Goes(s, "send") /\ Working(s) /\ UNCHANGED <<op, seq, hash>>
  <2>1. "send" \in Calls
    BY DEF Calls
  <2> QED BY <1>1, <1>2, <2>1, AttemptHolds, GoesOnKeepsInv DEF networkVars, Working
<1>3. CASE Throws(s) /\ UNCHANGED faults
  BY <1>1, <1>3, AttemptHolds, ThrowsKeepsInv DEF networkVars
<1>4. CASE Failing(s)
  BY <1>1, <1>4, AttemptHolds, FailingKeepsInv DEF networkVars
<1> QED BY <1>2, <1>3, <1>4 DEF Prepare

\* The network takes one transaction more, and keeps the others.
LEMMA OneTransactionMore ==
  ASSUME DeployInv, NEW s \in Screens, sent' = Append(sent, Transaction(s))
  PROVE  /\ sent' \in Seq(TakenTx) /\ Len(sent') = Len(sent) + 1 /\ Len(sent) \in Nat
         /\ \A h \in 1..Len(sent) : sent'[h] = sent[h]
         /\ sent'[Len(sent) + 1].op = op[s] /\ sent'[Len(sent) + 1].result = "pending"
<1>1. sent \in Seq(TakenTx) /\ Transaction(s) \in TakenTx /\ Transaction(s).op = op[s]
      /\ Transaction(s).result = "pending"
  BY DEF DeployInv, DeployTyped, Transaction, TakenTx
<1> QED BY <1>1, AppendProperties, LenProperties

\* ... which breaks nothing that held of those before it.
LEMMA SentGrows ==
  ASSUME DeployInv, NEW s \in Screens, sent' = Append(sent, Transaction(s)), UNCHANGED <<chain, page, profileVars>>,
         DeployTyped', \A t \in Screens \ {s} : at'[t] = at[t] /\ op'[t] = op[t] /\ hash'[t] = hash[t],
         AttemptTrue(s)'
  PROVE  DeployInv'
<1>1. /\ sent' \in Seq(TakenTx) /\ Len(sent') = Len(sent) + 1 /\ Len(sent) \in Nat
      /\ \A h \in 1..Len(sent) : sent'[h] = sent[h]
      /\ sent'[Len(sent) + 1].op = op[s] /\ sent'[Len(sent) + 1].result = "pending"
  BY OneTransactionMore
<1> DEFINE n == Len(sent)
<1>2. \A h \in 1..Len(sent') : h \in 1..n \/ h = n + 1
  <2> HIDE DEF n
  <2>1. n \in Nat /\ Len(sent') = n + 1
    BY <1>1 DEF n
  <2> QED BY <2>1
<1>3. OwnerFollows'
  BY <1>1, <1>2 DEF DeployInv, OwnerFollows
<1>4. ASSUME NEW t \in Screens \ {s} PROVE AttemptTrue(t)'
  <2>1. hash[t] \in 0..n /\ n \in Nat
    BY <1>1 DEF DeployInv, DeployTyped
  <2>2. hash[t] # 0 => hash[t] \in 1..n
    <3> HIDE DEF n
    <3> QED BY <2>1
  <2>3. AttemptTrue(t)
    BY DEF DeployInv
  <2> QED BY <1>1, <2>2, <2>3 DEF AttemptTrue
<1>5. ProfileTrue'
  BY DEF DeployInv, ProfileTrue, profileVars
<1> QED BY <1>3, <1>4, <1>5 DEF DeployInv

\* An attempt begins to poll a transaction of its operation, or none.
LEMMA BeginsToPoll ==
  ASSUME DeployInv, NEW s \in Screens, Goes(s, "poll"), NEW h \in 0..Len(sent'), hash' = [hash EXCEPT ![s] = h],
         h # 0 => sent'[h].op = op[s], UNCHANGED <<chain, screenVars, op, seq, profileVars, met, tried, faults>>,
         sent' = sent \/ sent' = Append(sent, Transaction(s))
  PROVE  DeployInv'
<1>1. sent' \in Seq(TakenTx) /\ Len(sent') \in Nat /\ Len(sent) \in Nat /\ Len(sent) <= Len(sent')
  <2>1. CASE sent' = sent
    BY <2>1, LenProperties DEF DeployInv, DeployTyped
  <2>2. CASE sent' = Append(sent, Transaction(s))
    <3>1. sent' \in Seq(TakenTx) /\ Len(sent') = Len(sent) + 1 /\ Len(sent) \in Nat
      BY <2>2, OneTransactionMore
    <3> QED BY <3>1
  <2> QED BY <2>1, <2>2
<1>2. 0..Len(sent) \subseteq 0..Len(sent')
  BY <1>1
<1>3. DeployTyped'
  BY <1>1, <1>2 DEF DeployInv, DeployTyped, Goes, Places, screenVars, profileVars, vaultVars
<1>4. \A t \in Screens \ {s} : at'[t] = at[t] /\ op'[t] = op[t] /\ hash'[t] = hash[t] /\ page'[t] = page[t]
  BY DEF DeployInv, DeployTyped, Goes, screenVars
<1>5. at'[s] = "poll" /\ hash'[s] = h /\ op'[s] = op[s]
  BY DEF DeployInv, DeployTyped, Goes
<1>6. AttemptTrue(s)'
  BY <1>5 DEF AttemptTrue, Saving
<1>7. CASE sent' = sent
  BY <1>3, <1>4, <1>6, <1>7, AttemptHolds, ScreenMoves DEF screenVars, profileVars, vaultVars
<1>8. CASE sent' = Append(sent, Transaction(s))
  BY <1>3, <1>4, <1>6, <1>8, AttemptHolds, SentGrows DEF screenVars, profileVars, vaultVars
<1> QED BY <1>7, <1>8

LEMMA SendKeepsInv ==
  ASSUME DeployInv, NEW s \in Screens, Send(s) PROVE DeployInv'
<1>1. UNCHANGED <<chain, profileVars, met, tried>>
  BY DEF Send
<1>2. CASE /\ sent' = Append(sent, Transaction(s)) /\ hash' = [hash EXCEPT ![s] = Len(sent) + 1]
           /\ Goes(s, "poll") /\ Working(s) /\ UNCHANGED <<op, seq>>
  <2> DEFINE h == Len(sent) + 1
  <2>1. Len(sent') = h /\ Len(sent) \in Nat /\ sent'[h].op = op[s]
    BY <1>2, OneTransactionMore
  <2>2. h \in 0..Len(sent')
    BY <2>1
  <2>3. hash' = [hash EXCEPT ![s] = h]
    BY <1>2
  <2> HIDE DEF h
  <2> QED BY <1>1, <1>2, <2>1, <2>2, <2>3, BeginsToPoll DEF Working
<1>3. ASSUME NEW h \in DOMAIN sent \union {0}, h # 0 => sent[h] = Transaction(s), hash' = [hash EXCEPT ![s] = h],
             Goes(s, "poll"), Working(s), UNCHANGED <<sent, op, seq>>
      PROVE  DeployInv'
  <2>1. DOMAIN sent = 1..Len(sent) /\ Len(sent) \in Nat
    BY LenProperties DEF DeployInv, DeployTyped
  <2>2. h \in 0..Len(sent)
    BY <2>1
  <2>3. h # 0 => sent[h].op = op[s]
    BY <1>3 DEF Transaction
  <2> QED BY <1>1, <1>3, <2>2, <2>3, BeginsToPoll DEF Working
<1>4. CASE Throws(s) /\ UNCHANGED <<sent, faults>>
  BY <1>1, <1>4, AttemptHolds, ThrowsKeepsInv
<1>5. CASE Failing(s) /\ UNCHANGED sent
  BY <1>1, <1>5, AttemptHolds, FailingKeepsInv
<1>6. CASE Failing(s) /\ sent' = Append(sent, Transaction(s))
  <2>1. sent' \in Seq(TakenTx) /\ Len(sent') = Len(sent) + 1 /\ Len(sent) \in Nat
    BY <1>6, OneTransactionMore
  <2>2. 0..Len(sent) \subseteq 0..Len(sent') /\ 0 \in 0..Len(sent')
    BY <2>1
  <2>3. faults + 1 \in 0..MaxFaults /\ faults + 1 >= faults /\ faults' = faults + 1
    BY <1>6, FaultCounted DEF Failing, DeployInv
  <2>4. Throws(s)
    BY <1>6 DEF Failing
  <2>5. DeployTyped'
    <3>1. 1 \in 1..3 /\ "none" \in Places
      BY DEF Places, Calls
    <3>2. hash \in [Screens -> 0..Len(sent')] /\ hash' = [hash EXCEPT ![s] = 0]
      BY <2>2, <2>4 DEF DeployInv, DeployTyped, Throws
    <3>3. hash' \in [Screens -> 0..Len(sent')]
      BY <3>2, <2>2
    <3> QED BY <1>1, <2>1, <2>3, <2>4, <3>1, <3>3 DEF DeployInv, DeployTyped, Throws, Goes, Caught, profileVars, vaultVars
  <2>6. \A t \in Screens \ {s} : at'[t] = at[t] /\ op'[t] = op[t] /\ hash'[t] = hash[t]
    BY <2>4 DEF DeployInv, DeployTyped, Throws, Goes
  <2>7. at'[s] = "none" /\ page' = page
    BY <2>4 DEF DeployInv, DeployTyped, Throws, Goes
  <2> QED BY <1>1, <1>6, <2>3, <2>5, <2>6, <2>7, SentGrows DEF AttemptTrue, Saving
<1> QED BY <1>2, <1>3, <1>4, <1>5, <1>6 DEF Send

\* The confirmation of an initialization is of a contract with its owner.
LEMMA PollKeepsInv ==
  ASSUME DeployInv, NEW s \in Screens, Poll(s) PROVE DeployInv'
<1>1. UNCHANGED <<networkVars, profileVars, met, tried>>
  BY DEF Poll
<1>2. CASE /\ Confirmed(s)
           /\ op' = [op EXCEPT ![s] = IF @ = 3 THEN 1 ELSE @ + 1]
           /\ Goes(s, IF op[s] = 3 THEN "save" ELSE "account")
           /\ seq' = [seq EXCEPT ![s] = 0] /\ hash' = [hash EXCEPT ![s] = 0]
           /\ Working(s)
  <2> DEFINE o == IF op[s] = 3 THEN 1 ELSE op[s] + 1
             to == IF op[s] = 3 THEN "save" ELSE "account"
  <2>1. o \in 1..3 /\ to \in Places /\ 0 \in 0..Len(sent) /\ op' = [op EXCEPT ![s] = o]
        /\ Goes(s, to)
    <3>1. op[s] \in 1..3
      BY AttemptHolds
    <3> QED BY <1>2, <3>1, LenProperties DEF DeployInv, DeployTyped, Places, Calls, Saving
  <2>2. op[s] = 3 => chain.owned
    <3>1. hash[s] # 0 /\ sent[hash[s]].result = "SUCCESS"
      BY <1>2 DEF Confirmed, Result
    <3>2. hash[s] \in 1..Len(sent)
      <4>1. hash[s] \in 0..Len(sent) /\ Len(sent) \in Nat
        BY AttemptHolds, LenProperties DEF DeployInv, DeployTyped
      <4> QED BY <3>1, <4>1
    <3>3. sent[hash[s]].op = op[s]
      BY <3>1 DEF Poll, DeployInv, AttemptTrue
    <3> QED BY <3>1, <3>2, <3>3 DEF DeployInv, OwnerFollows
  <2>3. at'[s] = to /\ to # "poll"
    BY <2>1 DEF Goes, DeployInv, DeployTyped
  <2>4. AttemptTrue(s)'
    <3>1. to \in Saving => op[s] = 3
      BY DEF Saving
    <3> QED BY <2>2, <2>3, <3>1, <1>1 DEF AttemptTrue, networkVars
  <2> HIDE DEF o, to
  <2>5. DeployTyped'
    BY <1>1, <1>2, <2>1 DEF DeployInv, DeployTyped, Goes, Working, networkVars, screenVars, profileVars, vaultVars
  <2>6. \A t \in Screens \ {s} : at'[t] = at[t] /\ op'[t] = op[t] /\ hash'[t] = hash[t] /\ page'[t] = page[t]
    BY <1>2, <2>1 DEF DeployInv, DeployTyped, Goes, Working, screenVars
  <2> QED BY <1>1, <1>2, <2>4, <2>5, <2>6, AttemptHolds, ScreenMoves DEF networkVars, screenVars, profileVars, vaultVars, Working
<1>3. CASE Throws(s) /\ UNCHANGED faults
  BY <1>1, <1>3, AttemptHolds, ThrowsKeepsInv DEF networkVars
<1>4. CASE Failing(s)
  BY <1>1, <1>4, AttemptHolds, FailingKeepsInv DEF networkVars
<1> QED BY <1>2, <1>3, <1>4 DEF Poll

\* A screen that saves touches the vault, and has its owner.
LEMMA SaveStepKeepsInv ==
  ASSUME DeployInv, NEW s \in Screens, SaveStep(s) PROVE DeployInv'
<1>1. at[s] \in Saving /\ chain.owned
  BY DEF SaveStep, ReadSalt, WriteCheck, WriteSalt, VerifyPassword, SaveAccount, ShowSuccess, Saving,
         DeployInv, AttemptTrue
<1>2. faults' \in 0..MaxFaults
  BY FaultCounted, AttemptHolds
     DEF SaveStep, ReadSalt, WriteCheck, WriteSalt, VerifyPassword, SaveAccount, ShowSuccess, Unsaved, DeployInv
<1>3. chain' = chain /\ sent' = sent /\ UNCHANGED <<op, seq, hash, fresh, met, tried>>
  BY DEF SaveStep, ReadSalt, WriteCheck, WriteSalt, VerifyPassword, SaveAccount, ShowSuccess, SavingOnly, networkVars
<1>4. vault' \in [salt : Nat, check : Keys, record : Keys] /\ salts' \in Nat /\ derived' \in [Screens -> Keys]
  <2>1. /\ vault \in [salt : Nat, check : Keys, record : Keys] /\ salts \in Nat
        /\ derived \in [Screens -> Keys] /\ derived[s] \in Keys /\ derived[s].salt \in Nat /\ vault.salt \in Nat
    BY DEF DeployInv, DeployTyped, Keys
  <2>2. salts' \in Nat
    BY <2>1 DEF SaveStep, ReadSalt, WriteCheck, WriteSalt, VerifyPassword, SaveAccount, ShowSuccess, Unsaved, vaultVars
  <2>3. \/ UNCHANGED vault \/ vault' = [vault EXCEPT !.check = derived[s]]
        \/ vault' = [vault EXCEPT !.salt = derived[s].salt] \/ vault' = [vault EXCEPT !.record = derived[s]]
    BY DEF SaveStep, ReadSalt, WriteCheck, WriteSalt, VerifyPassword, SaveAccount, ShowSuccess, Unsaved, vaultVars
  <2>4. vault' \in [salt : Nat, check : Keys, record : Keys]
    BY <2>1, <2>3
  <2>5. UNCHANGED derived \/ \E n \in Nat, w \in Passwords : derived' = [derived EXCEPT ![s] = [salt |-> n, word |-> w]]
    <3>1. salts + 1 \in Nat
      BY <2>1
    <3> QED BY <2>1, <3>1 DEF SaveStep, ReadSalt, WriteCheck, WriteSalt, VerifyPassword, SaveAccount, ShowSuccess,
                              Unsaved, vaultVars
  <2>6. \A n \in Nat, w \in Passwords : [salt |-> n, word |-> w] \in Keys
    BY DEF Keys
  <2>7. derived' \in [Screens -> Keys]
    BY <2>1, <2>5, <2>6
  <2> QED BY <2>2, <2>4, <2>7
<1>5. mishap' \subseteq {"raced", "cut", "refused"}
  BY DEF DeployInv, DeployTyped, SaveStep, ReadSalt, WriteCheck, WriteSalt, VerifyPassword, SaveAccount,
         ShowSuccess, Unsaved
<1>6. PICK to \in Saving \union {"none"} : Goes(s, to)
  BY DEF SaveStep, ReadSalt, WriteCheck, WriteSalt, VerifyPassword, SaveAccount, ShowSuccess, Unsaved, Saving
<1>7. /\ account' \in BOOLEAN /\ page' \in [Screens -> {"setup", "deploy", "success"}]
      /\ progress' \in [Screens -> {"idle", "funding", "success", "error"}]
      /\ loading' \in [Screens -> BOOLEAN] /\ phrase' \in [Screens -> {"none", "short", "long"}]
  BY DEF DeployInv, DeployTyped, SaveStep, ReadSalt, WriteCheck, WriteSalt, VerifyPassword, SaveAccount,
         ShowSuccess, SavingOnly, screenVars
<1>8. at' \in [Screens -> Places] /\ \A t \in Screens : at'[t] = IF t = s THEN to ELSE at[t]
  BY <1>6 DEF DeployInv, DeployTyped, Goes, Places, Calls
<1>9. DeployTyped'
  BY <1>2, <1>3, <1>4, <1>5, <1>7, <1>8 DEF DeployInv, DeployTyped
<1>10. OwnerFollows'
  BY <1>3 DEF DeployInv, OwnerFollows
<1>11. \A t \in Screens : AttemptTrue(t)'
  BY <1>1, <1>3, <1>8 DEF DeployInv, AttemptTrue, Saving
<1>12. ProfileTrue'
  BY <1>1, <1>3 DEF ProfileTrue
<1> QED BY <1>9, <1>10, <1>11, <1>12 DEF DeployInv

\* The screens but for the attempt.
LEMMA ScreenKeepsInv ==
  ASSUME DeployInv, NEW s \in Screens, EnterPhrase(s) \/ Start(s) \/ TryAgain(s) \/ GoBack(s) \/ Close(s)
  PROVE  DeployInv'
<1>1. tried' \in 0..MaxAttempts
  <2>1. CASE Start(s)
    <3>1. tried + 1 \in 0..MaxAttempts
      BY <2>1, DeployAssumption DEF Start, DeployInv, DeployTyped
    <3> QED BY <2>1, <3>1 DEF Start
  <2>2. CASE ~Start(s)
    BY <2>2 DEF EnterPhrase, TryAgain, GoBack, Close, DeployInv, DeployTyped
  <2> QED BY <2>1, <2>2
<1>2. Found \in {"nothing", "instance", "owner"} /\ 0 \in 0..Len(sent) /\ 1 \in 1..3
  BY LenProperties DEF Found, DeployInv, DeployTyped
<1>3. DeployTyped'
  <2>1. CASE EnterPhrase(s)
    BY <1>1, <1>2, <2>1 DEF EnterPhrase, DeployInv, DeployTyped, networkVars, attemptVars, profileVars, vaultVars
  <2>2. CASE Start(s)
    BY <1>1, <1>2, <2>2 DEF Start, DeployInv, DeployTyped, Places, Calls, networkVars, profileVars, vaultVars
  <2>3. CASE TryAgain(s)
    BY <1>1, <1>2, <2>3 DEF TryAgain, DeployInv, DeployTyped, networkVars, attemptVars, profileVars, vaultVars
  <2>4. CASE GoBack(s)
    BY <1>1, <1>2, <2>4 DEF GoBack, DeployInv, DeployTyped, networkVars, attemptVars, profileVars, vaultVars
  <2>5. CASE Close(s)
    <3>1. NoKey \in Keys /\ "none" \in Places
      BY DEF NoKey, Keys, Places, Calls
    <3> QED BY <1>1, <1>2, <2>5, <3>1 DEF Close, DeployInv, DeployTyped, networkVars
  <2> QED BY <2>1, <2>2, <2>3, <2>4, <2>5
<1>4. \A t \in Screens \ {s} : at'[t] = at[t] /\ op'[t] = op[t] /\ hash'[t] = hash[t] /\ page'[t] = page[t]
  BY DEF EnterPhrase, Start, TryAgain, GoBack, Close, DeployInv, DeployTyped, attemptVars
<1>5. page'[s] = "success" => page[s] = "success"
  BY DEF EnterPhrase, Start, TryAgain, GoBack, Close, DeployInv, DeployTyped
<1>6. UNCHANGED <<networkVars, account>>
  BY DEF EnterPhrase, Start, TryAgain, GoBack, Close, profileVars
<1>7. AttemptTrue(s)'
  <2>1. AttemptTrue(s)
    BY DEF DeployInv
  <2>2. CASE at'[s] = at[s] /\ op'[s] = op[s] /\ hash'[s] = hash[s]
    BY <2>1, <2>2, <1>6 DEF AttemptTrue, networkVars
  <2>3. CASE at'[s] \in {"wallet", "none"}
    BY <2>3 DEF AttemptTrue, Saving
  <2> QED BY <2>2, <2>3 DEF EnterPhrase, Start, TryAgain, GoBack, Close, DeployInv, DeployTyped, attemptVars
<1> QED BY <1>3, <1>4, <1>5, <1>6, <1>7, ScreenMoves DEF networkVars

\* A transaction that is included or expires stays the operation it was.
LEMMA SettledOne ==
  ASSUME DeployInv, NEW h \in DOMAIN sent, NEW result \in {"SUCCESS", "FAILED", "gone"}, Settled(h, result)
  PROVE  /\ sent' \in Seq(TakenTx) /\ Len(sent') = Len(sent) /\ h \in 1..Len(sent)
         /\ \A i \in 1..Len(sent) : /\ sent'[i].op = sent[i].op
                                    /\ sent'[i].result = IF i = h THEN result ELSE sent[i].result
<1> DEFINE b == [sent[h] EXCEPT !.result = result]
<1>1. sent \in Seq(TakenTx) /\ DOMAIN sent = 1..Len(sent)
  BY LenProperties DEF DeployInv, DeployTyped
<1>2. \A i \in 1..Len(sent) : sent[i] \in TakenTx
  BY <1>1, ElementOfSeq
<1>3. b \in TakenTx /\ b.op = sent[h].op /\ b.result = result
  BY <1>1, <1>2 DEF TakenTx
<1>4. sent' = [sent EXCEPT ![h] = b]
  BY DEF Settled
<1> HIDE DEF b
<1>5. /\ sent' \in Seq(TakenTx) /\ Len(sent') = Len(sent)
      /\ \A i \in 1..Len(sent) : sent'[i] = IF i = h THEN b ELSE sent[i]
  BY <1>1, <1>3, <1>4, ExceptSeq
<1> QED BY <1>1, <1>3, <1>5

\* ... and leaves every attempt as true as it was, when the ledger only grows.
LEMMA SettlingKeepsInv ==
  ASSUME DeployInv, NEW h \in DOMAIN sent, NEW result \in {"SUCCESS", "FAILED", "gone"}, Settled(h, result),
         NEW f \in 0..MaxFaults, faults' = f, f >= faults,
         UNCHANGED <<screenVars, attemptVars, profileVars, met, tried>>, NEW c \in Ledger, chain' = c,
         chain.owned => c.owned, c.owned => c.instance,
         result = "SUCCESS" /\ sent[h].op = 3 => c.owned
  PROVE  DeployInv'
<1>1. /\ sent' \in Seq(TakenTx) /\ Len(sent') = Len(sent) /\ h \in 1..Len(sent)
      /\ \A i \in 1..Len(sent) : /\ sent'[i].op = sent[i].op
                                 /\ sent'[i].result = IF i = h THEN result ELSE sent[i].result
  BY SettledOne
<1>2. DeployTyped'
  BY <1>1 DEF DeployInv, DeployTyped, screenVars, attemptVars, profileVars, vaultVars
<1>3. OwnerFollows'
  BY <1>1 DEF DeployInv, OwnerFollows
<1>4. ASSUME NEW s \in Screens PROVE AttemptTrue(s)'
  <2>1. hash[s] # 0 => hash[s] \in 1..Len(sent)
    <3>1. hash[s] \in 0..Len(sent) /\ Len(sent) \in Nat
      BY LenProperties DEF DeployInv, DeployTyped
    <3> QED BY <3>1
  <2>2. AttemptTrue(s)
    BY DEF DeployInv
  <2> QED BY <1>1, <2>1, <2>2 DEF AttemptTrue, attemptVars
<1>5. ProfileTrue'
  BY DEF DeployInv, ProfileTrue, screenVars, profileVars
<1> QED BY <1>2, <1>3, <1>4, <1>5 DEF DeployInv

LEMMA IncludeDeployKeepsInv ==
  ASSUME DeployInv, NEW h \in DOMAIN sent, IncludeDeploy(h) PROVE DeployInv'
<1>1. UNCHANGED <<screenVars, attemptVars, profileVars, met, tried>>
  BY DEF IncludeDeploy
<1>2. chain \in Ledger /\ (chain.owned => chain.instance) /\ sent[h].op \in 1..3
  <2>1. DOMAIN sent = 1..Len(sent) /\ sent[h] \in TakenTx
    BY LenProperties, ElementOfSeq DEF DeployInv, DeployTyped
  <2> QED BY <2>1 DEF DeployInv, DeployTyped, OwnerFollows, TakenTx
<1>3. CASE /\ Applies(sent[h].op) /\ Settled(h, "SUCCESS") /\ UNCHANGED faults
           /\ chain' = [chain EXCEPT !.seq = @ + 1,
                          !.wasm = @ \/ Ops[sent[h].op] = "upload",
                          !.instance = @ \/ Ops[sent[h].op] = "create",
                          !.owned = @ \/ Ops[sent[h].op] = "initialize"]
  <2> DEFINE c == [chain EXCEPT !.seq = @ + 1,
                          !.wasm = @ \/ Ops[sent[h].op] = "upload",
                          !.instance = @ \/ Ops[sent[h].op] = "create",
                          !.owned = @ \/ Ops[sent[h].op] = "initialize"]
  <2>1. c \in Ledger
    <3> DEFINE w == chain.wasm \/ Ops[sent[h].op] = "upload"
               i == chain.instance \/ Ops[sent[h].op] = "create"
               o == chain.owned \/ Ops[sent[h].op] = "initialize"
               n == chain.seq + 1
    <3>1. w \in BOOLEAN /\ i \in BOOLEAN /\ o \in BOOLEAN
      OBVIOUS
    <3>2. n \in Nat
      BY <1>2 DEF Ledger
    <3>3. c = [chain EXCEPT !.seq = n, !.wasm = w, !.instance = i, !.owned = o]
      OBVIOUS
    <3> HIDE DEF c, w, i, o, n
    <3> QED BY <1>2, <3>1, <3>2, <3>3 DEF Ledger
  <2>2. c.owned = (chain.owned \/ Ops[sent[h].op] = "initialize")
    BY <1>2 DEF Ledger
  <2>3. c.instance = (chain.instance \/ Ops[sent[h].op] = "create")
    BY <1>2 DEF Ledger
  <2>4. Ops[sent[h].op] = "initialize" => chain.instance
    BY <1>3 DEF Applies
  <2>5. sent[h].op = 3 => Ops[sent[h].op] = "initialize"
    BY DEF Ops
  <2>6. (chain.owned => c.owned) /\ (c.owned => c.instance) /\ (sent[h].op = 3 => c.owned)
    <3> HIDE DEF c
    <3> QED BY <1>2, <2>2, <2>3, <2>4, <2>5
  <2>7. chain' = c
    BY <1>3
  <2> HIDE DEF c
  <2> QED BY <1>1, <1>3, <2>1, <2>6, <2>7, AttemptFaults, SettlingKeepsInv
<1>4. CASE /\ Applies(sent[h].op) => faults < MaxFaults
           /\ faults' = IF Applies(sent[h].op) THEN faults + 1 ELSE faults
           /\ Settled(h, "FAILED") /\ chain' = [chain EXCEPT !.seq = @ + 1]
  <2> DEFINE c == [chain EXCEPT !.seq = @ + 1]
             f == IF Applies(sent[h].op) THEN faults + 1 ELSE faults
  <2>1. c \in Ledger /\ c.owned = chain.owned /\ c.instance = chain.instance
    BY <1>2 DEF Ledger
  <2>2. f \in 0..MaxFaults /\ f >= faults
    <3>1. CASE Applies(sent[h].op)
      <4>1. faults + 1 \in 0..MaxFaults /\ faults + 1 >= faults
        BY <1>4, <3>1, FaultCounted DEF DeployInv
      <4> QED BY <3>1, <4>1
    <3>2. CASE ~Applies(sent[h].op)
      BY <3>2, AttemptFaults
    <3> QED BY <3>1, <3>2
  <2>3. chain' = c /\ faults' = f
    BY <1>4
  <2> HIDE DEF c, f
  <2> QED BY <1>1, <1>2, <1>4, <2>1, <2>2, <2>3, SettlingKeepsInv
<1> QED BY <1>3, <1>4 DEF IncludeDeploy

LEMMA ExpireKeepsInv ==
  ASSUME DeployInv, NEW h \in DOMAIN sent, Expire(h) PROVE DeployInv'
<1>1. chain \in Ledger /\ (chain.owned => chain.instance)
  BY DEF DeployInv, DeployTyped, OwnerFollows
<1> QED BY <1>1, AttemptFaults, SettlingKeepsInv DEF Expire

LEMMA DeployStepInv == DeployInv /\ [DeployNext]_deployVars => DeployInv'
<1> SUFFICES ASSUME DeployInv, [DeployNext]_deployVars PROVE DeployInv'
  OBVIOUS
<1>1. ASSUME NEW s \in Screens, EnterPhrase(s) \/ Start(s) \/ TryAgain(s) \/ GoBack(s) \/ Close(s)
      PROVE  DeployInv'
  BY <1>1, ScreenKeepsInv
<1>2. ASSUME NEW s \in Screens, Attempt(s) PROVE DeployInv'
  BY <1>2, PrepareWalletKeepsInv, FindOwnerKeepsInv, FundKeepsInv, FindWasmKeepsInv, ReadAccountKeepsInv,
     PrepareKeepsInv, SendKeepsInv, PollKeepsInv, SaveStepKeepsInv DEF Attempt
<1>3. ASSUME NEW h \in DOMAIN sent, IncludeDeploy(h) \/ Expire(h) PROVE DeployInv'
  BY <1>3, IncludeDeployKeepsInv, ExpireKeepsInv
<1>4. CASE UNCHANGED deployVars
  BY <1>4 DEF deployVars, networkVars, screenVars, attemptVars, profileVars, vaultVars, DeployInv, DeployTyped, OwnerFollows,
              AttemptTrue, ProfileTrue
<1> QED BY <1>1, <1>2, <1>3, <1>4 DEF DeployNext

\* Neither a call failed, nor did another wallet have the vault, nor did two screens run
\* its first unlock at once.
Clean == fresh /\ faults = 0 /\ "raced" \notin mishap

\* One screen at a time runs the first unlock, as long as there is no salt.
FirstRunAlone ==
  /\ \A s, t \in Screens : at[s] \in FirstRun /\ at[t] \in FirstRun => s = t
  /\ \A s \in Screens : at[s] \in FirstRun => vault.salt = 0 /\ derived[s].salt # 0
  /\ \A s \in Screens : at[s] = "firstSalt" => vault.check = derived[s]

\* What is stored under a key, or about to be, is under the one that is checked.
KeysMatch ==
  /\ vault.salt # 0 => vault.check.salt = vault.salt
  /\ \A s \in Screens : at[s] = "check" => vault.salt # 0
  /\ \A s \in Screens : at[s] = "record" => derived[s] = vault.check /\ vault.salt # 0
  /\ vault.record # NoKey => vault.record = vault.check /\ vault.salt # 0

\* A vault without its record was cut short, or is about to have it; and a screen that
\* shows the success without it had its password refused.
PhraseKept ==
  /\ vault.salt # 0 /\ vault.record = NoKey => "cut" \in mishap \/ \E s \in Screens : at[s] = "record"
  /\ account \/ (\E s \in Screens : at[s] = "show") =>
       vault.salt # 0 /\ (vault.record = NoKey => "refused" \in mishap)

VaultFollows == Clean => FirstRunAlone /\ KeysMatch /\ PhraseKept

\* An attempt that is under way is shown as one, so no other starts over it.
Loads == \A s \in Screens : at[s] # "none" => loading[s] = TRUE

\* Whatever is done outside of the vault only closes a screen that uses it.
LEMMA VaultRests ==
  ASSUME VaultFollows, faults' = 0 => faults = 0, UNCHANGED <<vault, account, fresh>>, mishap \subseteq mishap',
         \A t \in Screens : at'[t] \in Saving \ {"save"} => at'[t] = at[t] /\ derived'[t] = derived[t],
         \A t \in Screens : at[t] = "record" => at'[t] = "record" \/ "cut" \in mishap'
  PROVE  VaultFollows'
<1> SUFFICES ASSUME Clean' PROVE (FirstRunAlone /\ KeysMatch /\ PhraseKept)'
  BY DEF VaultFollows
<1>1. FirstRunAlone /\ KeysMatch /\ PhraseKept
  BY DEF VaultFollows, Clean
<1>2. FirstRunAlone'
  BY <1>1 DEF FirstRunAlone, FirstRun, Saving
<1>3. KeysMatch'
  BY <1>1 DEF KeysMatch, Saving
<1>4. PhraseKept'
  BY <1>1 DEF PhraseKept, Saving
<1> QED BY <1>2, <1>3, <1>4

LEMMA ScreenKeepsVault ==
  ASSUME DeployInv, Loads, VaultFollows, NEW s \in Screens,
         EnterPhrase(s) \/ Start(s) \/ TryAgain(s) \/ GoBack(s) \/ Close(s)
  PROVE  VaultFollows'
<1>1. faults' = faults /\ mishap \subseteq mishap' /\ UNCHANGED <<vault, account, fresh>>
  BY DEF EnterPhrase, Start, TryAgain, GoBack, Close, profileVars, vaultVars
<1>2. \A t \in Screens : at'[t] \in Saving \ {"save"} => at'[t] = at[t] /\ derived'[t] = derived[t]
  BY DEF EnterPhrase, Start, TryAgain, GoBack, Close, attemptVars, profileVars, vaultVars, Saving,
         DeployInv, DeployTyped
<1>3. ASSUME NEW t \in Screens, at[t] = "record" PROVE at'[t] = "record" \/ "cut" \in mishap'
  <2>1. CASE Start(s)
    <3>1. t # s
      BY <1>3, <2>1 DEF Start, Loads
    <3> QED BY <1>3, <2>1, <3>1 DEF Start, DeployInv, DeployTyped
  <2>2. CASE Close(s)
    BY <1>3, <2>2 DEF Close, DeployInv, DeployTyped
  <2>3. CASE EnterPhrase(s) \/ TryAgain(s) \/ GoBack(s)
    BY <1>3, <2>3 DEF EnterPhrase, TryAgain, GoBack, attemptVars
  <2> QED BY <2>1, <2>2, <2>3
<1> QED BY <1>1, <1>2, <1>3, VaultRests

\* An attempt that does not save: it stays outside, or comes to it.
LEMMA AttemptKeepsVault ==
  ASSUME DeployInv, VaultFollows, NEW s \in Screens, Attempt(s), ~SaveStep(s)
  PROVE  VaultFollows'
<1>1. UNCHANGED <<vault, derived, mishap, account, fresh>>
  BY DEF Attempt, PrepareWallet, FindOwner, Fund, FindWasm, ReadAccount, Prepare, Send, Poll, profileVars, vaultVars
<1>2. faults' = faults \/ faults' = faults + 1
  BY DEF Attempt, PrepareWallet, FindOwner, Fund, FindWasm, ReadAccount, Prepare, Send, Poll, Failing, Working
<1>3. faults' = 0 => faults = 0
  BY <1>2 DEF DeployInv, DeployTyped
<1>4. at[s] \notin Saving
  BY DEF Attempt, PrepareWallet, FindOwner, Fund, FindWasm, ReadAccount, Prepare, Send, Poll, Saving
<1>5. PICK to \in Calls \union {"poll", "save"} : Goes(s, to)
  BY DEF Attempt, PrepareWallet, FindOwner, Fund, FindWasm, ReadAccount, Prepare, Send, Poll, Failing, Throws, Calls
<1>6. \A t \in Screens : at'[t] = IF t = s THEN to ELSE at[t]
  BY <1>5 DEF Goes, DeployInv, DeployTyped
<1>7. to \notin Saving \ {"save"} /\ "record" \in Saving
  BY <1>5 DEF Calls, Saving
<1> QED BY <1>1, <1>3, <1>4, <1>6, <1>7, VaultRests

\* The steps that save.  What is under way on another screen is a first run only if
\* there is no salt, and a record only if there is one.
LEMMA SavesAt ==
  ASSUME DeployInv, NEW s \in Screens, NEW to, Goes(s, to)
  PROVE  \A t \in Screens : at'[t] = IF t = s THEN to ELSE at[t]
BY DEF DeployInv, DeployTyped, Goes

LEMMA FaultsUnclean ==
  ASSUME DeployInv, NEW s \in Screens, Unsaved(s) PROVE ~Clean'
<1>1. faults + 1 # 0
  BY DEF DeployInv, DeployTyped
<1> QED BY <1>1 DEF Unsaved, Clean

LEMMA ReadSaltKeepsVault ==
  ASSUME DeployInv, VaultFollows, NEW s \in Screens, ReadSalt(s) PROVE VaultFollows'
<1> SUFFICES ASSUME Clean' PROVE (FirstRunAlone /\ KeysMatch /\ PhraseKept)'
  BY DEF VaultFollows
<1>0. at[s] = "save" /\ ~Unsaved(s) /\ UNCHANGED <<account, fresh, faults>> /\ vault' = vault
  BY FaultsUnclean DEF ReadSalt, SavingOnly
<1>1. Clean /\ mishap \subseteq mishap'
  BY <1>0 DEF Clean, ReadSalt
<1>2. FirstRunAlone /\ KeysMatch /\ PhraseKept
  BY <1>1 DEF VaultFollows
<1>3. CASE vault.salt = 0
  <2>1. Goes(s, "firstCheck") /\ ~\E t \in Screens : at[t] \in FirstRun
    BY <1>0, <1>3 DEF ReadSalt, Clean
  <2>2. PICK w \in Passwords : derived' = [derived EXCEPT ![s] = [salt |-> salts + 1, word |-> w]]
    BY <1>0, <1>3 DEF ReadSalt
  <2>3. salts + 1 # 0
    BY DEF DeployInv, DeployTyped
  <2>4. \A t \in Screens : at'[t] = IF t = s THEN "firstCheck" ELSE at[t]
    BY <2>1, SavesAt
  <2>5. derived'[s].salt # 0 /\ \A t \in Screens \ {s} : derived'[t] = derived[t]
    BY <2>2, <2>3 DEF DeployInv, DeployTyped
  <2>6. FirstRunAlone'
    BY <1>0, <1>3, <2>1, <2>4, <2>5 DEF FirstRunAlone, FirstRun
  <2>7. KeysMatch'
    BY <1>0, <1>2, <2>4, <2>5 DEF KeysMatch
  <2>8. PhraseKept'
    BY <1>0, <1>1, <1>2, <2>4 DEF PhraseKept
  <2> QED BY <2>6, <2>7, <2>8
<1>4. CASE vault.salt # 0
  <2>1. Goes(s, "check") /\ \A t \in Screens \ {s} : derived'[t] = derived[t]
    BY <1>0, <1>4 DEF ReadSalt, DeployInv, DeployTyped
  <2>2. \A t \in Screens : at'[t] = IF t = s THEN "check" ELSE at[t]
    BY <2>1, SavesAt
  <2>3. FirstRunAlone'
    BY <1>0, <1>2, <2>1, <2>2 DEF FirstRunAlone, FirstRun
  <2>4. KeysMatch'
    BY <1>0, <1>2, <1>4, <2>1, <2>2 DEF KeysMatch
  <2>5. PhraseKept'
    BY <1>0, <1>1, <1>2, <2>2 DEF PhraseKept
  <2> QED BY <2>3, <2>4, <2>5
<1> QED BY <1>3, <1>4

LEMMA WriteCheckKeepsVault ==
  ASSUME DeployInv, VaultFollows, NEW s \in Screens, WriteCheck(s) PROVE VaultFollows'
<1> SUFFICES ASSUME Clean' PROVE (FirstRunAlone /\ KeysMatch /\ PhraseKept)'
  BY DEF VaultFollows
<1>1. /\ at[s] = "firstCheck" /\ vault' = [vault EXCEPT !.check = derived[s]] /\ Goes(s, "firstSalt")
      /\ UNCHANGED <<account, fresh, derived, mishap, faults>>
  BY FaultsUnclean DEF WriteCheck, SavingOnly
<1>2. FirstRunAlone /\ KeysMatch /\ PhraseKept
  BY <1>1 DEF VaultFollows, Clean
<1>3. \A t \in Screens : at'[t] = IF t = s THEN "firstSalt" ELSE at[t]
  BY <1>1, SavesAt
<1>4. vault'.salt = vault.salt /\ vault'.check = derived[s] /\ vault'.record = vault.record
  BY <1>1 DEF DeployInv, DeployTyped
<1>5. vault.salt = 0 /\ \A t \in Screens \ {s} : at[t] \notin FirstRun
  BY <1>1, <1>2 DEF FirstRunAlone, FirstRun
<1>6. FirstRunAlone'
  BY <1>1, <1>2, <1>3, <1>4, <1>5 DEF FirstRunAlone, FirstRun
<1>7. KeysMatch'
  BY <1>1, <1>2, <1>3, <1>4, <1>5 DEF KeysMatch
<1>8. PhraseKept'
  BY <1>1, <1>2, <1>3, <1>4, <1>5 DEF PhraseKept
<1> QED BY <1>6, <1>7, <1>8

LEMMA WriteSaltKeepsVault ==
  ASSUME DeployInv, VaultFollows, NEW s \in Screens, WriteSalt(s) PROVE VaultFollows'
<1> SUFFICES ASSUME Clean' PROVE (FirstRunAlone /\ KeysMatch /\ PhraseKept)'
  BY DEF VaultFollows
<1>1. /\ at[s] = "firstSalt" /\ vault' = [vault EXCEPT !.salt = derived[s].salt] /\ Goes(s, "record")
      /\ UNCHANGED <<account, fresh, derived, mishap, faults>>
  BY FaultsUnclean DEF WriteSalt, SavingOnly
<1>2. FirstRunAlone /\ KeysMatch /\ PhraseKept
  BY <1>1 DEF VaultFollows, Clean
<1>3. \A t \in Screens : at'[t] = IF t = s THEN "record" ELSE at[t]
  BY <1>1, SavesAt
<1>4. vault'.salt = derived[s].salt /\ vault'.check = vault.check /\ vault'.record = vault.record
  BY <1>1 DEF DeployInv, DeployTyped
<1>5. /\ vault.salt = 0 /\ derived[s].salt # 0 /\ vault.check = derived[s]
      /\ \A t \in Screens \ {s} : at[t] \notin FirstRun
  BY <1>1, <1>2 DEF FirstRunAlone, FirstRun
<1>6. FirstRunAlone'
  BY <1>1, <1>3, <1>5 DEF FirstRunAlone, FirstRun
<1>7. KeysMatch'
  BY <1>1, <1>2, <1>3, <1>4, <1>5 DEF KeysMatch
<1>8. PhraseKept'
  BY <1>1, <1>2, <1>3, <1>4, <1>5 DEF PhraseKept
<1> QED BY <1>6, <1>7, <1>8

LEMMA VerifyPasswordKeepsVault ==
  ASSUME DeployInv, VaultFollows, NEW s \in Screens, VerifyPassword(s) PROVE VaultFollows'
<1> SUFFICES ASSUME Clean' PROVE (FirstRunAlone /\ KeysMatch /\ PhraseKept)'
  BY DEF VaultFollows
<1>1. /\ at[s] = "check" /\ UNCHANGED <<vault, derived, account, fresh, faults>> /\ mishap \subseteq mishap'
      /\ \/ vault.check = derived[s] /\ Goes(s, "record")
         \/ Goes(s, "show") /\ "refused" \in mishap'
  BY FaultsUnclean DEF VerifyPassword, SavingOnly, vaultVars
<1>2. FirstRunAlone /\ KeysMatch /\ PhraseKept
  BY <1>1 DEF VaultFollows, Clean
<1>3. PICK to \in {"record", "show"} : /\ Goes(s, to)
                                       /\ to = "record" => vault.check = derived[s]
                                       /\ to = "show" => "refused" \in mishap'
  BY <1>1
<1>4. \A t \in Screens : at'[t] = IF t = s THEN to ELSE at[t]
  BY <1>3, SavesAt
<1>5. FirstRunAlone'
  BY <1>1, <1>2, <1>3, <1>4 DEF FirstRunAlone, FirstRun
<1>6. KeysMatch'
  BY <1>1, <1>2, <1>3, <1>4 DEF KeysMatch
<1>7. PhraseKept'
  BY <1>1, <1>2, <1>3, <1>4 DEF PhraseKept, KeysMatch
<1> QED BY <1>5, <1>6, <1>7

LEMMA SaveAccountKeepsVault ==
  ASSUME DeployInv, VaultFollows, NEW s \in Screens, SaveAccount(s) PROVE VaultFollows'
<1> SUFFICES ASSUME Clean' PROVE (FirstRunAlone /\ KeysMatch /\ PhraseKept)'
  BY DEF VaultFollows
<1>1. /\ at[s] = "record" /\ vault' = [vault EXCEPT !.record = derived[s]] /\ Goes(s, "show")
      /\ UNCHANGED <<account, fresh, derived, mishap, faults>>
  BY FaultsUnclean DEF SaveAccount, SavingOnly
<1>2. FirstRunAlone /\ KeysMatch /\ PhraseKept
  BY <1>1 DEF VaultFollows, Clean
<1>3. \A t \in Screens : at'[t] = IF t = s THEN "show" ELSE at[t]
  BY <1>1, SavesAt
<1>4. vault'.salt = vault.salt /\ vault'.check = vault.check /\ vault'.record = derived[s]
  BY <1>1 DEF DeployInv, DeployTyped
<1>5. vault.salt # 0 /\ derived[s] = vault.check /\ vault.check.salt = vault.salt
  BY <1>1, <1>2 DEF KeysMatch
<1>6. derived[s] # NoKey
  BY <1>5 DEF NoKey
<1>7. FirstRunAlone'
  BY <1>1, <1>2, <1>3, <1>4 DEF FirstRunAlone, FirstRun
<1>8. KeysMatch'
  BY <1>1, <1>2, <1>3, <1>4, <1>5 DEF KeysMatch
<1>9. PhraseKept'
  BY <1>3, <1>4, <1>5, <1>6 DEF PhraseKept
<1> QED BY <1>7, <1>8, <1>9

LEMMA ShowSuccessKeepsVault ==
  ASSUME DeployInv, VaultFollows, NEW s \in Screens, ShowSuccess(s) PROVE VaultFollows'
<1> SUFFICES ASSUME Clean' PROVE (FirstRunAlone /\ KeysMatch /\ PhraseKept)'
  BY DEF VaultFollows
<1>1. at[s] = "show" /\ Goes(s, "none") /\ UNCHANGED <<vault, derived, fresh, mishap, faults>>
  BY DEF ShowSuccess, vaultVars
<1>2. FirstRunAlone /\ KeysMatch /\ PhraseKept
  BY <1>1 DEF VaultFollows, Clean
<1>3. \A t \in Screens : at'[t] = IF t = s THEN "none" ELSE at[t]
  BY <1>1, SavesAt
<1>4. FirstRunAlone'
  BY <1>1, <1>2, <1>3 DEF FirstRunAlone, FirstRun
<1>5. KeysMatch'
  BY <1>1, <1>2, <1>3 DEF KeysMatch
<1>6. PhraseKept'
  BY <1>1, <1>2, <1>3 DEF PhraseKept
<1> QED BY <1>4, <1>5, <1>6

LEMMA LoadsStep ==
  ASSUME DeployInv, Loads, [DeployNext]_deployVars PROVE Loads'
<1>1. ASSUME NEW s \in Screens, EnterPhrase(s) \/ Start(s) \/ TryAgain(s) \/ GoBack(s) \/ Close(s)
      PROVE  Loads'
  <2>1. \A t \in Screens \ {s} : at'[t] = at[t] /\ loading'[t] = loading[t]
    BY <1>1 DEF EnterPhrase, Start, TryAgain, GoBack, Close, attemptVars, DeployInv, DeployTyped
  <2>2. at'[s] # "none" => loading'[s] = TRUE
    <3>1. CASE Start(s)
      BY <3>1 DEF Start, DeployInv, DeployTyped
    <3>2. CASE Close(s)
      BY <3>2 DEF Close, DeployInv, DeployTyped
    <3>3. CASE EnterPhrase(s) \/ TryAgain(s) \/ GoBack(s)
      BY <3>3 DEF EnterPhrase, TryAgain, GoBack, attemptVars, Loads
    <3> QED BY <1>1, <3>1, <3>2, <3>3
  <2> QED BY <2>1, <2>2 DEF Loads
<1>2. ASSUME NEW s \in Screens, Attempt(s) PROVE Loads'
  <2>1. at[s] # "none"
    BY <1>2 DEF Attempt, SaveStep, PrepareWallet, FindOwner, Fund, FindWasm, ReadAccount, Prepare, Send, Poll,
                ReadSalt, WriteCheck, WriteSalt, VerifyPassword, SaveAccount, ShowSuccess
  <2>2. \/ Throws(s) \/ ShowSuccess(s)
        \/ UNCHANGED screenVars /\ \E to \in Places : Goes(s, to)
    <3>1. SaveStep(s) => ShowSuccess(s) \/ (UNCHANGED screenVars /\ \E to \in Places : Goes(s, to))
      BY DEF SaveStep, ReadSalt, WriteCheck, WriteSalt, VerifyPassword, SaveAccount, Unsaved, SavingOnly, Places, Saving
    <3> QED BY <1>2, <3>1 DEF Attempt, PrepareWallet, FindOwner, Fund, FindWasm, ReadAccount, Prepare, Send, Poll,
                              Failing, Working, Places, Calls, Saving
  <2> QED BY <2>1, <2>2 DEF Loads, Throws, Caught, ShowSuccess, Goes, screenVars, DeployInv, DeployTyped
<1>3. ASSUME NEW h \in DOMAIN sent, IncludeDeploy(h) \/ Expire(h) PROVE Loads'
  BY <1>3 DEF Loads, IncludeDeploy, Expire, screenVars, attemptVars
<1>4. CASE UNCHANGED deployVars
  BY <1>4 DEF Loads, deployVars, screenVars, attemptVars
<1> QED BY <1>1, <1>2, <1>3, <1>4 DEF DeployNext

LEMMA VaultStep ==
  ASSUME DeployInv, Loads, VaultFollows, [DeployNext]_deployVars PROVE VaultFollows'
<1>1. ASSUME NEW s \in Screens, EnterPhrase(s) \/ Start(s) \/ TryAgain(s) \/ GoBack(s) \/ Close(s)
      PROVE  VaultFollows'
  BY <1>1, ScreenKeepsVault
<1>2. ASSUME NEW s \in Screens, Attempt(s) PROVE VaultFollows'
  BY <1>2, AttemptKeepsVault, ReadSaltKeepsVault, WriteCheckKeepsVault, WriteSaltKeepsVault,
     VerifyPasswordKeepsVault, SaveAccountKeepsVault, ShowSuccessKeepsVault DEF SaveStep
<1>3. ASSUME NEW h \in DOMAIN sent, IncludeDeploy(h) \/ Expire(h) PROVE VaultFollows'
  <2>1. faults' = faults \/ faults' = faults + 1
    BY <1>3 DEF IncludeDeploy, Expire
  <2>2. faults' = 0 => faults = 0
    BY <2>1 DEF DeployInv, DeployTyped
  <2>3. UNCHANGED <<at, derived, vault, account, fresh, mishap>>
    BY <1>3 DEF IncludeDeploy, Expire, attemptVars, profileVars, vaultVars
  <2> QED BY <2>2, <2>3, VaultRests
<1>4. CASE UNCHANGED deployVars
  BY <1>4, VaultRests DEF deployVars, attemptVars, profileVars, vaultVars
<1> QED BY <1>1, <1>2, <1>3, <1>4 DEF DeployNext

LEMMA VaultInit == DeployInit => Loads /\ VaultFollows
<1> SUFFICES ASSUME DeployInit PROVE Loads /\ VaultFollows
  OBVIOUS
<1>1. Loads /\ FirstRunAlone
  BY DEF DeployInit, Loads, FirstRunAlone, FirstRun
<1>2. ASSUME fresh PROVE KeysMatch /\ PhraseKept
  <2>1. vault.salt = 0 /\ vault.record = NoKey
    BY <1>2 DEF DeployInit
  <2> QED BY <2>1 DEF DeployInit, KeysMatch, PhraseKept
<1> QED BY <1>1, <1>2 DEF VaultFollows, Clean

LEMMA VaultMeans == DeployInv /\ VaultFollows => DeploymentTrue
<1> SUFFICES ASSUME DeployInv, VaultFollows PROVE DeploymentTrue
  OBVIOUS
<1>1. (account \/ \E s \in Screens : page[s] = "success") => chain.instance /\ chain.owned
  BY DEF DeployInv, OwnerFollows, ProfileTrue
<1>2. ASSUME account, Clean, ~({"cut", "refused"} \subseteq mishap), ~\E s \in Screens : at[s] = "record"
      PROVE  PhraseReadable
  <2>1. KeysMatch /\ PhraseKept
    BY <1>2 DEF VaultFollows
  <2>2. vault.salt # 0 /\ vault.record # NoKey
    BY <1>2, <2>1 DEF PhraseKept
  <2> QED BY <2>1, <2>2 DEF KeysMatch, PhraseReadable
<1> QED BY <1>1, <1>2 DEF DeploymentTrue, Clean

\* Whichever attempt of whichever screen deployed it, and however late its
\* transactions were included, a wallet that is shown as ready has its contract with
\* its owner.  Its phrase is in the vault, readable, or about to be written there,
\* whatever is closed and opened again and whichever passwords are entered, unless a
\* call failed, another wallet had the vault, two first unlocks overlapped, or a
\* password was refused after a screen was closed between the unlock and saveAccount
\* (deployAccount of useOnboarding.ts, unlock of secure-storage-manager.ts).
THEOREM DeploymentIsTrue == DeploySpec => []DeploymentTrue
<1>1. DeployInit => DeployInv /\ Loads /\ VaultFollows
  BY DeployInitInv, VaultInit
<1>2. DeployInv /\ Loads /\ VaultFollows /\ [DeployNext]_deployVars => (DeployInv /\ Loads /\ VaultFollows)'
  BY DeployStepInv, LoadsStep, VaultStep
<1> QED BY <1>1, <1>2, VaultMeans, PTL DEF DeploySpec

-----------------------------------------------------------------------------
(* The sequence numbers of the account: the ledger includes one at a time, and *)
(* none without a transaction that the network took.                           *)

\* What a screen is about to sign is at most the next number, each number that was
\* included was that of a transaction, and none runs ahead of the transactions taken.
NumbersTaken ==
  /\ \A s \in Screens : seq[s] <= chain.seq + 1
  /\ \A n \in 1..chain.seq : \E h \in 1..Len(sent) : sent[h].seq = n
  /\ \A h \in 1..Len(sent) : sent[h].seq \in 1..Len(sent)

\* As many numbers cannot come from fewer transactions.
LEMMA NumbersCounted ==
  ASSUME DeployInv, NumbersTaken PROVE chain.seq \in 0..Len(sent)
<1> DEFINE N == 1..chain.seq
           H == 1..Len(sent)
           f == [n \in N |-> CHOOSE h \in H : sent[h].seq = n]
<1>1. chain.seq \in Nat /\ Len(sent) \in Nat
  BY LenProperties DEF DeployInv, DeployTyped, Ledger
<1>2. \A n \in N : f[n] \in H /\ sent[f[n]].seq = n
  BY DEF NumbersTaken
<1> HIDE DEF f
<1>3. f \in [N -> H]
  BY <1>2 DEF f
<1>4. f \in Injection(N, H)
  BY <1>2, <1>3 DEF Injection, IsInjective
<1>5. IsFiniteSet(H) /\ Cardinality(H) = Len(sent) /\ Cardinality(N) = chain.seq
  <2>1. ASSUME NEW k \in Nat PROVE IsFiniteSet(1..k) /\ Cardinality(1..k) = k
    <3>1. IsFiniteSet(1..k) /\ Cardinality(1..k) = IF 1 > k THEN 0 ELSE k - 1 + 1
      BY FS_Interval
    <3> QED BY <3>1
  <2> QED BY <1>1, <2>1
<1>6. Cardinality(N) <= Cardinality(H)
  BY <1>4, <1>5, FS_Injection
<1> QED BY <1>1, <1>5, <1>6

LEMMA NumbersMean == DeployInv /\ NumbersTaken => DeployTypeOK
<1> SUFFICES ASSUME DeployInv, NumbersTaken PROVE DeployTypeOK
  OBVIOUS
<1> DEFINE n == Len(sent)
<1>1. n \in Nat /\ chain \in Ledger /\ chain.seq \in 0..n /\ DOMAIN sent = 1..n
  BY NumbersCounted, LenProperties DEF DeployInv, DeployTyped
<1>2. \A h \in 1..n : sent[h] \in TakenTx /\ sent[h].seq \in 1..n
  BY ElementOfSeq DEF DeployInv, DeployTyped, NumbersTaken
<1>3. ASSUME NEW s \in Screens PROVE seq[s] \in 0..(n + 1)
  <2>1. seq[s] \in Nat /\ seq[s] <= chain.seq + 1
    BY DEF DeployInv, DeployTyped, NumbersTaken
  <2> HIDE DEF n
  <2>2. chain.seq \in Int
    BY <1>1
  <2> QED BY <1>1, <2>1, <2>2
<1>4. seq \in [Screens -> 0..(n + 1)]
  BY <1>3 DEF DeployInv, DeployTyped
<1>5. chain \in [funded : BOOLEAN, wasm : BOOLEAN, instance : BOOLEAN, owned : BOOLEAN, seq : 0..n]
  <2> HIDE DEF n
  <2> QED BY <1>1 DEF Ledger
<1>6. \A h \in DOMAIN sent :
        sent[h] \in [op : 1..3, seq : 1..n, result : {"pending", "SUCCESS", "FAILED", "gone"}]
  <2> HIDE DEF n
  <2> QED BY <1>1, <1>2 DEF TakenTx
<1> QED BY <1>4, <1>5, <1>6 DEF DeployTypeOK, DeployInv, DeployTyped, Places, Calls

\* Whatever a screen does without a transaction that is taken: it forgets its number,
\* keeps it or reads the next one.
LEMMA NumbersStay ==
  ASSUME DeployInv, NumbersTaken, sent' = sent, chain'.seq = chain.seq,
         \A s \in Screens : seq'[s] \in {seq[s], 0, chain.seq + 1}
  PROVE  NumbersTaken'
<1>1. chain.seq \in Nat
  BY DEF DeployInv, DeployTyped, Ledger
<1>2. \A s \in Screens : seq'[s] <= chain.seq + 1
  BY <1>1 DEF NumbersTaken
<1> QED BY <1>2 DEF NumbersTaken

LEMMA ThrowsForgets ==
  ASSUME DeployInv, NEW s \in Screens, Throws(s)
  PROVE  \A t \in Screens : seq'[t] \in {seq[t], 0}
BY DEF Throws, DeployInv, DeployTyped

\* A transaction is taken under the next number at most, so it is one of as many.
LEMMA SendKeepsNumbers ==
  ASSUME DeployInv, NumbersTaken, NEW s \in Screens, Send(s) PROVE NumbersTaken'
<1>1. chain' = chain /\ \A t \in Screens : seq'[t] \in {seq[t], 0}
  BY ThrowsForgets DEF Send, Working, Failing
<1>2. CASE sent' = sent
  BY <1>1, <1>2, NumbersStay
<1>3. CASE seq[s] > chain.seq /\ sent' = Append(sent, Transaction(s))
  <2> DEFINE n == Len(sent)
  <2>1. /\ n \in Nat /\ Len(sent') = n + 1 /\ \A h \in 1..n : sent'[h] = sent[h]
        /\ sent'[n + 1].seq = seq[s]
    <3>1. sent \in Seq(TakenTx) /\ Transaction(s) \in TakenTx /\ Transaction(s).seq = seq[s]
      BY DEF DeployInv, DeployTyped, Transaction, TakenTx
    <3> QED BY <1>3, <3>1, AppendProperties, LenProperties
  <2>2. chain.seq \in 0..n /\ seq[s] \in Nat /\ seq[s] <= chain.seq + 1
    BY NumbersCounted DEF NumbersTaken, DeployInv, DeployTyped
  <2>3. /\ \A m \in 1..chain.seq : \E h \in 1..n : sent[h].seq = m
        /\ \A h \in 1..n : sent[h].seq \in 1..n
        /\ \A t \in Screens : seq[t] <= chain.seq + 1
    BY DEF NumbersTaken
  <2> HIDE DEF n
  <2>4. \A m \in 1..chain.seq : \E h \in 1..(n + 1) : sent'[h].seq = m
    <3> SUFFICES ASSUME NEW m \in 1..chain.seq PROVE \E h \in 1..(n + 1) : sent'[h].seq = m
      OBVIOUS
    <3>1. PICK h \in 1..n : sent[h].seq = m
      BY <2>3
    <3> QED BY <2>1, <3>1
  <2>5. seq[s] \in 1..(n + 1)
    BY <1>3, <2>1, <2>2
  <2>6. ASSUME NEW h \in 1..(n + 1) PROVE sent'[h].seq \in 1..(n + 1)
    <3>1. CASE h \in 1..n
      <4>1. sent[h].seq \in 1..n
        BY <2>3, <3>1
      <4> QED BY <2>1, <3>1, <4>1
    <3>2. CASE h = n + 1
      BY <2>1, <2>5, <3>2
    <3> QED BY <2>1, <3>1, <3>2
  <2>7. \A t \in Screens : seq'[t] <= chain.seq + 1
    BY <1>1, <2>2, <2>3
  <2> QED BY <1>1, <2>1, <2>4, <2>6, <2>7 DEF NumbersTaken
<1> QED BY <1>2, <1>3 DEF Send

\* The ledger goes on to the number of a transaction it has.
LEMMA NetworkKeepsNumbers ==
  ASSUME DeployInv, NumbersTaken, NEW h \in DOMAIN sent, IncludeDeploy(h) \/ Expire(h) PROVE NumbersTaken'
<1> DEFINE n == Len(sent)
<1>1. PICK result \in {"SUCCESS", "FAILED", "gone"} : Settled(h, result)
  BY DEF IncludeDeploy, Expire
<1>2. /\ Len(sent') = n /\ h \in 1..n /\ \A i \in 1..n : sent'[i].seq = sent[i].seq
  <2> DEFINE b == [sent[h] EXCEPT !.result = result]
  <2>1. sent \in Seq(TakenTx) /\ DOMAIN sent = 1..n
    BY LenProperties DEF DeployInv, DeployTyped
  <2>2. \A i \in 1..n : sent[i] \in TakenTx
    BY <2>1, ElementOfSeq
  <2>3. b \in TakenTx /\ b.seq = sent[h].seq
    BY <2>1, <2>2 DEF TakenTx
  <2>4. sent' = [sent EXCEPT ![h] = b]
    BY <1>1 DEF Settled
  <2> HIDE DEF b
  <2>5. Len(sent') = n /\ \A i \in 1..n : sent'[i] = IF i = h THEN b ELSE sent[i]
    BY <2>1, <2>3, <2>4, ExceptSeq
  <2> QED BY <2>1, <2>3, <2>5
<1>3. seq' = seq /\ chain \in Ledger /\ chain.seq \in Nat
  BY DEF IncludeDeploy, Expire, attemptVars, DeployInv, DeployTyped, Ledger
<1>4. chain'.seq = chain.seq \/ (chain'.seq = chain.seq + 1 /\ sent[h].seq = chain.seq + 1)
  BY <1>3 DEF IncludeDeploy, Expire, Ledger
<1> HIDE DEF n
<1>5. /\ \A m \in 1..chain.seq : \E i \in 1..n : sent[i].seq = m
      /\ \A i \in 1..n : sent[i].seq \in 1..n
      /\ \A t \in Screens : seq[t] <= chain.seq + 1 /\ seq[t] \in Nat
  BY DEF NumbersTaken, n, DeployInv, DeployTyped
<1>6. \A m \in 1..chain'.seq : \E i \in 1..n : sent'[i].seq = m
  <2> SUFFICES ASSUME NEW m \in 1..chain'.seq PROVE \E i \in 1..n : sent'[i].seq = m
    OBVIOUS
  <2>1. CASE m \in 1..chain.seq
    <3>1. PICK i \in 1..n : sent[i].seq = m
      BY <1>5, <2>1
    <3> QED BY <1>2, <3>1
  <2>2. CASE m = chain.seq + 1 /\ sent[h].seq = chain.seq + 1
    BY <1>2, <2>2
  <2> QED BY <1>3, <1>4, <2>1, <2>2
<1>7. \A t \in Screens : seq'[t] <= chain'.seq + 1
  BY <1>3, <1>4, <1>5
<1> QED BY <1>2, <1>5, <1>6, <1>7 DEF NumbersTaken, n

LEMMA NumbersStepInv == DeployInv /\ NumbersTaken /\ [DeployNext]_deployVars => NumbersTaken'
<1> SUFFICES ASSUME DeployInv, NumbersTaken, [DeployNext]_deployVars PROVE NumbersTaken'
  OBVIOUS
<1>0. chain \in Ledger /\ seq \in [Screens -> Nat]
  BY DEF DeployInv, DeployTyped
<1>1. ASSUME NEW s \in Screens, EnterPhrase(s) \/ Start(s) \/ TryAgain(s) \/ GoBack(s) \/ Close(s)
      PROVE  NumbersTaken'
  <2>1. sent' = sent /\ chain' = chain /\ (seq' = seq \/ seq' = [seq EXCEPT ![s] = 0])
    BY <1>1 DEF EnterPhrase, Start, TryAgain, GoBack, Close, networkVars, attemptVars
  <2> QED BY <1>0, <2>1, NumbersStay
<1>2. ASSUME NEW s \in Screens, Attempt(s), ~Send(s), ~SaveStep(s) PROVE NumbersTaken'
  <2>1. sent' = sent
    BY <1>2 DEF Attempt, PrepareWallet, FindOwner, Fund, FindWasm, ReadAccount, Prepare, Poll, networkVars
  <2>2. chain'.seq = chain.seq
    BY <1>0, <1>2 DEF Attempt, PrepareWallet, FindOwner, Fund, FindWasm, ReadAccount, Prepare, Poll, networkVars,
                      Ledger
  <2>3. \/ Throws(s) \/ seq' = seq \/ seq' = [seq EXCEPT ![s] = 0]
        \/ seq' = [seq EXCEPT ![s] = chain.seq + 1]
    BY <1>2 DEF Attempt, PrepareWallet, FindOwner, Fund, FindWasm, ReadAccount, Prepare, Poll, Failing, Working
  <2>4. \A t \in Screens : seq'[t] \in {seq[t], 0, chain.seq + 1}
    BY <1>0, <2>3, ThrowsForgets
  <2> QED BY <2>1, <2>2, <2>4, NumbersStay
<1>3. ASSUME NEW s \in Screens, Send(s) PROVE NumbersTaken'
  BY <1>3, SendKeepsNumbers
<1>4. ASSUME NEW h \in DOMAIN sent, IncludeDeploy(h) \/ Expire(h) PROVE NumbersTaken'
  BY <1>4, NetworkKeepsNumbers
<1>5. ASSUME NEW s \in Screens, SaveStep(s) PROVE NumbersTaken'
  <2>1. sent' = sent /\ chain' = chain /\ seq' = seq
    BY <1>5 DEF SaveStep, ReadSalt, WriteCheck, WriteSalt, VerifyPassword, SaveAccount, ShowSuccess, SavingOnly,
                networkVars
  <2> QED BY <2>1, NumbersStay
<1>6. CASE UNCHANGED deployVars
  BY <1>6, NumbersStay DEF deployVars, networkVars, attemptVars
<1> QED BY <1>1, <1>2, <1>3, <1>4, <1>5, <1>6 DEF DeployNext, Attempt

LEMMA NumbersInit == DeployInit => NumbersTaken
<1> SUFFICES ASSUME DeployInit PROVE NumbersTaken
  OBVIOUS
<1>1. Len(sent) = 0 /\ chain.seq = 0 /\ \A s \in Screens : seq[s] = 0
  BY EmptySeq DEF DeployInit
<1>2. 1..0 = {}
  OBVIOUS
<1> QED BY <1>1, <1>2 DEF NumbersTaken

\* The deployment's variables have their types, and every sequence number is accounted
\* for: the ledger has included no more of them than the network took transactions,
\* whatever was sent twice, dropped or included late (submitAndConfirm).
THEOREM DeploymentTyped == DeploySpec => []DeployTypeOK
<1>1. DeployInit => DeployInv /\ NumbersTaken
  BY DeployInitInv, NumbersInit
<1>2. DeployInv /\ NumbersTaken /\ [DeployNext]_deployVars => (DeployInv /\ NumbersTaken)'
  BY DeployStepInv, NumbersStepInv
<1> QED BY <1>1, <1>2, NumbersMean, PTL DEF DeploySpec

-----------------------------------------------------------------------------
(* The session, and the requests of pages.                                     *)

\* What the step of a handler says about it.
HandlersMatch ==
  \A h \in Handlers :
    /\ Stands(h, "idle") => handler[h] = Resting
    /\ handler[h].at \in {"load", "vault", "count", "clear"} => handler[h].op = "unlock"
    /\ handler[h].at \in {"vault", "count"} => handler[h].failed < MaxFailures

LockoutMatches == attempts.lockout = "none" <=> attempts.failed < MaxFailures

\* Nothing that could bring a locked session back is in flight, and no handler holds a
\* record that is still valid.
SealHolds ==
  /\ sealed # "no" => ~flag /\ ~vaultOpen
  /\ sealed = "locking" => \A h \in Handlers : handler[h].at \in {"idle", "remove"}
  /\ sealed = "sealed" =>
       /\ record = "none"
       /\ \A h \in Handlers : /\ handler[h].at \in {"idle", "remove", "read", "restore"}
                              /\ Stands(h, "restore") => handler[h].seen # "valid"

\* One unlock at a time counts each wrong password, but for the one it has just judged.
TriesCounted ==
  ~raced =>
    /\ \A g, h \in Handlers : handler[g].op = "unlock" /\ handler[h].op = "unlock" => g = h
    /\ \A h \in Handlers : handler[h].at \in {"vault", "count"} =>
         attempts.lockout # "running" /\ handler[h].failed = Failures
    /\ \A h \in Handlers : Stands(h, "clear") => tries = 0
    /\ tries <= restarts + Failures + 1
    /\ (\A h \in Handlers : ~Stands(h, "count")) => tries <= restarts + Failures

SessionInv == SessionTypeOK /\ HandlersMatch /\ LockoutMatches /\ SealHolds /\ TriesCounted

LEMMA SessionInitInv == SessionInit => SessionInv
<1> SUFFICES ASSUME SessionInit PROVE SessionInv
  OBVIOUS
<1> USE SessionAssumption DEF SessionInit, Resting, NoAttempts
<1>1. SessionTypeOK
  <2>1. handler \in [Handlers -> [at : HandlerSteps, failed : 0..MaxFailures,
                                  op : {"none", "unlock", "lock", "refresh", "restore", "sign"},
                                  seen : {"none", "valid", "expired"}]]
    BY DEF HandlerSteps
  <2>2. attempts \in [failed : 0..MaxFailures, lockout : Lockouts]
    BY DEF Lockouts
  <2>3. restarts \in 0..MaxRestarts /\ tries \in Nat
    OBVIOUS
  <2> QED BY <2>1, <2>2, <2>3 DEF SessionTypeOK
<1>2. HandlersMatch /\ LockoutMatches /\ SealHolds
  BY DEF HandlersMatch, LockoutMatches, SealHolds, Stands
<1>3. TriesCounted
  BY DEF TriesCounted, Failures, Stands
<1> QED BY <1>1, <1>2, <1>3 DEF SessionInv

HandlerType == [at : HandlerSteps, failed : 0..MaxFailures,
                op : {"none", "unlock", "lock", "refresh", "restore", "sign"},
                seen : {"none", "valid", "expired"}]

\* A handler that steps leaves the others alone.
LEMMA MoveFacts ==
  ASSUME SessionTypeOK, NEW h \in Handlers, NEW place \in HandlerSteps, Moves(h, place)
  PROVE  /\ handler' \in [Handlers -> HandlerType]
         /\ handler'[h].at = place /\ handler'[h].op = handler[h].op
         /\ handler'[h].failed = handler[h].failed /\ handler'[h].seen = handler[h].seen
         /\ \A g \in Handlers : g # h => handler'[g] = handler[g]
BY DEF Moves, SessionTypeOK, HandlerType

LEMMA EndFacts ==
  ASSUME SessionTypeOK, NEW h \in Handlers, Ends(h)
  PROVE  /\ handler' \in [Handlers -> HandlerType] /\ handler'[h] = Resting
         /\ \A g \in Handlers : g # h => handler'[g] = handler[g]
BY SessionAssumption DEF Ends, SessionTypeOK, HandlerType, Resting, HandlerSteps

LEMMA BeginFacts ==
  ASSUME SessionTypeOK, NEW h \in Handlers, NEW task \in {"unlock", "lock", "refresh", "restore", "sign"},
         NEW place \in HandlerSteps, Begins(h, task, place)
  PROVE  /\ Stands(h, "idle") /\ handler' \in [Handlers -> HandlerType]
         /\ handler'[h].at = place /\ handler'[h].op = task /\ handler'[h].failed = 0 /\ handler'[h].seen = "none"
         /\ \A g \in Handlers : g # h => handler'[g] = handler[g]
         /\ sealed' \in {"no", "locking", "sealed"}
         /\ sealed' = "locking" => task = "lock" /\ \A g \in Handlers : g # h => Stands(g, "idle")
         /\ sealed' = "sealed" => sealed = "sealed" /\ task # "unlock"
<1> DEFINE begun == [Resting EXCEPT !.at = place, !.op = task]
<1>1. begun.at = place /\ begun.op = task /\ begun.failed = 0 /\ begun.seen = "none"
  BY DEF Resting
<1>2. begun \in HandlerType
  <2>1. Resting \in HandlerType
    BY SessionAssumption DEF Resting, HandlerType, HandlerSteps
  <2> QED BY <2>1 DEF HandlerType
<1>0. Stands(h, "idle") /\ handler' = [handler EXCEPT ![h] = begun]
  BY DEF Begins
<1> HIDE DEF begun
<1>3. sealed \in {"no", "locking", "sealed"}
  BY DEF SessionTypeOK
<1>4. sealed' = "locking" => task = "lock" /\ Alone(h)
  BY <1>3 DEF Begins
<1>5. sealed' = "sealed" => sealed = "sealed" /\ task # "unlock"
  BY <1>3 DEF Begins
<1>6. sealed' \in {"no", "locking", "sealed"}
  BY <1>3 DEF Begins
<1>7. handler \in [Handlers -> HandlerType]
  BY DEF SessionTypeOK, HandlerType
<1> QED BY <1>0, <1>1, <1>2, <1>4, <1>5, <1>6, <1>7 DEF Alone

\* Handlers that begin: only an unlock may race, and only a lock seals.
LEMMA BeginsKeepsInv ==
  ASSUME SessionInv, NEW h \in Handlers, NEW task \in {"unlock", "lock", "refresh", "restore", "sign"},
         NEW place \in HandlerSteps, Begins(h, task, place),
         task = "unlock" => place = "load" /\ raced' = (raced \/ \E g \in Handlers : handler[g].op = "unlock"),
         task # "unlock" => place \in {"remove", "ttl", "read", "account"} /\ raced' = raced,
         task = "lock" => place = "remove" /\ ~flag' /\ ~vaultOpen',
         task # "lock" => flag' = flag /\ vaultOpen' = vaultOpen,
         task = "refresh" => flag,
         task = "restore" => place = "read",
         task = "sign" => place = IF flag THEN "account" ELSE "read",
         flag' \in BOOLEAN, vaultOpen' \in BOOLEAN,
         UNCHANGED <<onboarded, record, attempts, restarts, tries>>
  PROVE  SessionInv'
<1>1. /\ Stands(h, "idle") /\ handler' \in [Handlers -> HandlerType]
      /\ handler'[h].at = place /\ handler'[h].op = task /\ handler'[h].failed = 0 /\ handler'[h].seen = "none"
      /\ \A g \in Handlers : g # h => handler'[g] = handler[g]
      /\ sealed' \in {"no", "locking", "sealed"}
      /\ sealed' = "locking" => task = "lock" /\ \A g \in Handlers : g # h => Stands(g, "idle")
      /\ sealed' = "sealed" => sealed = "sealed" /\ task # "unlock"
  BY BeginFacts DEF SessionInv
<1>2. SessionTypeOK'
  <2>1. raced' \in BOOLEAN
    BY DEF SessionInv, SessionTypeOK
  <2> QED BY <1>1, <2>1 DEF SessionInv, SessionTypeOK, HandlerType
<1>3. HandlersMatch'
  BY <1>1 DEF SessionInv, HandlersMatch, Stands
<1>4. LockoutMatches'
  BY DEF SessionInv, LockoutMatches
<1>5. SealHolds'
  <2>1. CASE sealed' = "no"
    BY <2>1 DEF SealHolds
  <2>2. CASE sealed' = "locking"
    BY <1>1, <2>2 DEF SealHolds, Stands
  <2>3. CASE sealed' = "sealed"
    BY <1>1, <2>3 DEF SessionInv, SealHolds, Stands
  <2> QED BY <1>1, <2>1, <2>2, <2>3
<1>6. TriesCounted'
  <2> SUFFICES ASSUME ~raced' PROVE TriesCounted'
    BY DEF TriesCounted
  <2>1. ~raced
    BY DEF SessionInv, SessionTypeOK
  <2>2. Failures' = Failures
    BY DEF Failures
  <2>3. \A g \in Handlers : handler'[g].at \in {"vault", "count", "clear"} => handler'[g] = handler[g]
    BY <1>1
  <2>4. \A f, g \in Handlers : handler'[f].op = "unlock" /\ handler'[g].op = "unlock" => f = g
    <3>1. CASE task = "unlock"
      BY <1>1, <2>1, <3>1
    <3>2. CASE task # "unlock"
      BY <1>1, <2>1, <3>2 DEF SessionInv, TriesCounted
    <3> QED BY <3>1, <3>2
  <2>5. (\A g \in Handlers : ~Stands(g, "count")') => \A g \in Handlers : ~Stands(g, "count")
    BY <1>1 DEF Stands
  <2> QED BY <2>1, <2>2, <2>3, <2>4, <2>5 DEF SessionInv, TriesCounted, Stands
<1> QED BY <1>2, <1>3, <1>4, <1>5, <1>6 DEF SessionInv

\* A step that judges no password and loads no count.
LEMMA QuietStepKeepsInv ==
  ASSUME SessionInv, NEW h \in Handlers, handler' \in [Handlers -> HandlerType],
         \A g \in Handlers : g # h => handler'[g] = handler[g],
         handler[h].at # "count",
         \/ handler'[h] = Resting
         \/ /\ handler'[h].at \in HandlerSteps \ {"idle", "load", "vault", "count", "clear"}
            /\ handler'[h].op = handler[h].op,
         UNCHANGED <<onboarded, attempts, restarts, tries, raced>>,
         flag' \in BOOLEAN, vaultOpen' \in BOOLEAN, record' \in {"none", "valid", "expired"},
         sealed' \in {"no", "locking", "sealed"}, SealHolds'
  PROVE  SessionInv'
<1>1. SessionTypeOK'
  BY DEF SessionInv, SessionTypeOK, HandlerType
<1>2. HandlersMatch'
  BY DEF SessionInv, HandlersMatch, Stands, Resting
<1>3. LockoutMatches'
  BY DEF SessionInv, LockoutMatches
<1>4. TriesCounted'
  <2> SUFFICES ASSUME ~raced PROVE TriesCounted'
    BY DEF TriesCounted
  <2>1. Failures' = Failures
    BY DEF Failures
  <2>2. \A g \in Handlers : handler'[g].at \in {"vault", "count", "clear"} => handler'[g] = handler[g]
    BY DEF Resting
  <2>3. \A g \in Handlers : handler'[g].op = "unlock" => handler[g].op = "unlock"
    BY DEF Resting
  <2>4. (\A g \in Handlers : ~Stands(g, "count")') => \A g \in Handlers : ~Stands(g, "count")
    BY DEF Stands
  <2> QED BY <2>1, <2>2, <2>3, <2>4 DEF SessionInv, TriesCounted, Stands
<1> QED BY <1>1, <1>2, <1>3, <1>4 DEF SessionInv

\* Where the handlers of a sealed session are.
LEMMA Unsealed ==
  ASSUME SessionInv, NEW h \in Handlers, handler[h].at \notin {"idle", "remove", "read", "restore"}
  PROVE  sealed = "no"
BY DEF SessionInv, SealHolds, SessionTypeOK

LEMMA QuietHandlers ==
  ASSUME SessionInv, NEW h \in Handlers,
         ReadTtl(h) \/ PutRecord(h) \/ RaiseFlag(h) \/ RemoveRecord(h) \/ ReadRecord(h) \/ Restore(h)
  PROVE  SessionInv'
<1> USE DEF sessionHistory
<1>0. SessionTypeOK
  BY DEF SessionInv
<1>1. CASE ReadTtl(h)
  <2>1. Moves(h, "put") /\ Stands(h, "ttl") /\ sealed' = sealed /\ sealed = "no"
    BY <1>1, Unsealed DEF ReadTtl, Stands
  <2>2. "put" \in HandlerSteps
    BY DEF HandlerSteps
  <2>3. SealHolds'
    BY <2>1 DEF SealHolds
  <2> QED BY <1>0, <1>1, <2>1, <2>2, <2>3, MoveFacts, QuietStepKeepsInv DEF ReadTtl, Stands, SessionTypeOK
<1>2. CASE PutRecord(h)
  <2>1. Stands(h, "put") /\ sealed' = sealed /\ sealed = "no"
    BY <1>2, Unsealed DEF PutRecord, Stands
  <2>2. {"flag", "remove"} \subseteq HandlerSteps
    BY DEF HandlerSteps
  <2>3. SealHolds'
    BY <2>1 DEF SealHolds
  <2>4. /\ handler' \in [Handlers -> HandlerType] /\ \A g \in Handlers : g # h => handler'[g] = handler[g]
        /\ (handler'[h] = Resting \/ (handler'[h].at \in {"flag", "remove"} /\ handler'[h].op = handler[h].op))
    BY <1>0, <1>2, <2>2, MoveFacts, EndFacts DEF PutRecord
  <2>5. UNCHANGED <<onboarded, attempts, restarts, tries, raced>> /\ flag' \in BOOLEAN /\ vaultOpen' = vaultOpen
        /\ record' \in {"none", "valid", "expired"}
    BY <1>0, <1>2 DEF PutRecord, SessionTypeOK
  <2> QED BY <1>0, <2>1, <2>2, <2>3, <2>4, <2>5, QuietStepKeepsInv DEF Stands, SessionTypeOK
<1>3. CASE RaiseFlag(h)
  <2>1. Stands(h, "flag") /\ sealed' = sealed /\ sealed = "no"
    BY <1>3, Unsealed DEF RaiseFlag, Stands
  <2>2. SealHolds'
    BY <2>1 DEF SealHolds
  <2> QED BY <1>0, <1>3, <2>1, <2>2, EndFacts, QuietStepKeepsInv DEF RaiseFlag, Stands, SessionTypeOK
<1>4. CASE RemoveRecord(h)
  <2>1. /\ handler' \in [Handlers -> HandlerType] /\ handler'[h] = Resting
        /\ \A g \in Handlers : g # h => handler'[g] = handler[g]
    BY <1>0, <1>4, EndFacts DEF RemoveRecord
  <2>2. sealed' = (IF sealed = "locking" THEN "sealed" ELSE sealed) /\ sealed' \in {"no", "locking", "sealed"}
        /\ record' = "none" /\ UNCHANGED <<flag, vaultOpen>>
    BY <1>0, <1>4 DEF RemoveRecord, SessionTypeOK
  <2>3. SealHolds'
    <3>1. CASE sealed = "no"
      BY <2>2, <3>1 DEF SealHolds
    <3>2. CASE sealed # "no"
      BY <1>0, <2>1, <2>2, <3>2 DEF SessionInv, SealHolds, Stands, Resting, SessionTypeOK
    <3> QED BY <3>1, <3>2
  <2> QED BY <1>0, <1>4, <2>1, <2>2, <2>3, QuietStepKeepsInv DEF RemoveRecord, Stands, SessionTypeOK
<1>5. CASE ReadRecord(h)
  <2>1. /\ handler' \in [Handlers -> HandlerType] /\ handler'[h].at = "restore" /\ handler'[h].op = handler[h].op
        /\ handler'[h].seen = record /\ \A g \in Handlers : g # h => handler'[g] = handler[g]
    <3>1. "restore" \in HandlerSteps
      BY DEF HandlerSteps
    <3> QED BY <1>0, <1>5, <3>1 DEF ReadRecord, SessionTypeOK, HandlerType
  <2>2. UNCHANGED <<sealed, record, flag, vaultOpen>> /\ Stands(h, "read")
    BY <1>5 DEF ReadRecord
  <2>3. SealHolds'
    BY <2>1, <2>2 DEF SessionInv, SealHolds, Stands
  <2>4. "restore" \in HandlerSteps
    BY DEF HandlerSteps
  <2> QED BY <1>0, <1>5, <2>1, <2>2, <2>3, <2>4, QuietStepKeepsInv DEF ReadRecord, Stands, SessionTypeOK
<1>6. CASE Restore(h)
  <2>1. /\ handler' \in [Handlers -> HandlerType] /\ handler'[h] = Resting
        /\ \A g \in Handlers : g # h => handler'[g] = handler[g]
    BY <1>0, <1>6, EndFacts DEF Restore
  <2>2. /\ Stands(h, "restore") /\ flag' = (handler[h].seen = "valid") /\ record' \in {"none", record}
        /\ UNCHANGED <<sealed, vaultOpen>>
    BY <1>6 DEF Restore, Restored
  <2>3. SealHolds'
    BY <1>0, <2>1, <2>2 DEF SessionInv, SealHolds, Stands, Resting, SessionTypeOK
  <2> QED BY <1>0, <1>6, <2>1, <2>2, <2>3, QuietStepKeepsInv DEF Restore, Stands, SessionTypeOK
<1> QED BY <1>1, <1>2, <1>3, <1>4, <1>5, <1>6

\* The count a handler has loaded is the stored one while it is the only unlock.
LEMMA LoadAttemptsKeepsInv ==
  ASSUME SessionInv, NEW h \in Handlers, LoadAttempts(h) PROVE SessionInv'
<1>0. SessionTypeOK /\ Stands(h, "load") /\ sealed = "no" /\ handler[h].op = "unlock"
      /\ UNCHANGED <<onboarded, flag, vaultOpen, record, attempts, restarts, tries, raced, sealed>>
  BY Unsealed DEF SessionInv, LoadAttempts, Stands, HandlersMatch, sessionHistory
<1>1. SealHolds'
  BY <1>0 DEF SealHolds
<1>2. CASE attempts.lockout = "running" \/ ~onboarded
  <2>1. Ends(h)
    BY <1>2 DEF LoadAttempts
  <2> QED BY <1>0, <1>1, <2>1, EndFacts, QuietStepKeepsInv DEF Stands, SessionTypeOK
<1>3. CASE ~(attempts.lockout = "running" \/ ~onboarded)
  <2>1. handler' = [handler EXCEPT ![h].at = "vault", ![h].failed = Failures]
    BY <1>3 DEF LoadAttempts
  <2>2. Failures \in 0..MaxFailures /\ Failures < MaxFailures
    <3>1. CASE attempts.lockout = "over"
      BY <3>1, SessionAssumption DEF Failures
    <3>2. CASE attempts.lockout = "none"
      BY <1>0, <3>2 DEF Failures, SessionInv, LockoutMatches, SessionTypeOK
    <3> QED BY <1>0, <1>3, <3>1, <3>2 DEF SessionTypeOK, Lockouts
  <2>3. /\ handler' \in [Handlers -> HandlerType] /\ handler'[h].at = "vault" /\ handler'[h].op = "unlock"
        /\ handler'[h].failed = Failures /\ \A g \in Handlers : g # h => handler'[g] = handler[g]
    <3>1. "vault" \in HandlerSteps
      BY DEF HandlerSteps
    <3> QED BY <1>0, <2>1, <2>2, <3>1 DEF SessionTypeOK, HandlerType
  <2>4. SessionTypeOK'
    BY <1>0, <2>3 DEF SessionTypeOK, HandlerType
  <2>5. HandlersMatch' /\ LockoutMatches'
    BY <1>0, <2>2, <2>3 DEF SessionInv, HandlersMatch, LockoutMatches, Stands
  <2>6. TriesCounted'
    <3> SUFFICES ASSUME ~raced PROVE TriesCounted'
      BY <1>0 DEF TriesCounted
    <3>1. Failures' = Failures
      BY <1>0 DEF Failures
    <3>2. \A g \in Handlers : handler'[g].op = handler[g].op
      BY <1>0, <2>3
    <3>3. (\A g \in Handlers : ~Stands(g, "count")') => \A g \in Handlers : ~Stands(g, "count")
      BY <1>0, <2>3 DEF Stands
    <3> QED BY <1>0, <1>3, <2>3, <3>1, <3>2, <3>3 DEF SessionInv, TriesCounted, Stands
  <2> QED BY <1>1, <2>4, <2>5, <2>6 DEF SessionInv
<1> QED BY <1>2, <1>3

LEMMA JudgePasswordKeepsInv ==
  ASSUME SessionInv, NEW h \in Handlers, JudgePassword(h) PROVE SessionInv'
<1>0. SessionTypeOK /\ Stands(h, "vault") /\ sealed = "no" /\ handler[h].op = "unlock"
      /\ handler[h].failed < MaxFailures
      /\ UNCHANGED <<onboarded, flag, record, attempts, restarts, raced, sealed>>
  BY Unsealed DEF SessionInv, JudgePassword, Stands, HandlersMatch
<1>1. SealHolds'
  BY <1>0 DEF SealHolds
<1>2. \/ Moves(h, "clear") /\ vaultOpen' = TRUE /\ tries' = 0
      \/ Moves(h, "count") /\ tries' = tries + 1 /\ vaultOpen' = vaultOpen
  BY DEF JudgePassword
<1>3. /\ handler' \in [Handlers -> HandlerType] /\ handler'[h].at \in {"clear", "count"}
      /\ handler'[h].op = "unlock" /\ handler'[h].failed = handler[h].failed
      /\ \A g \in Handlers : g # h => handler'[g] = handler[g]
      /\ handler'[h].at = "clear" => tries' = 0
      /\ handler'[h].at = "count" => tries' = tries + 1
  <2>1. {"clear", "count"} \subseteq HandlerSteps
    BY DEF HandlerSteps
  <2>2. CASE Moves(h, "clear") /\ tries' = 0
    BY <1>0, <2>1, <2>2, MoveFacts
  <2>3. CASE Moves(h, "count") /\ tries' = tries + 1
    BY <1>0, <2>1, <2>3, MoveFacts
  <2> QED BY <1>2, <2>2, <2>3
<1>4. tries \in Nat /\ tries' \in Nat /\ vaultOpen' \in BOOLEAN
  <2>1. tries \in Nat /\ vaultOpen \in BOOLEAN
    BY <1>0 DEF SessionTypeOK
  <2>2. tries' = 0 \/ tries' = tries + 1
    BY <1>2
  <2>3. vaultOpen' = TRUE \/ vaultOpen' = vaultOpen
    BY <1>2
  <2>4. tries' \in Nat
    BY <2>1, <2>2
  <2>5. vaultOpen' \in BOOLEAN
    BY <2>1, <2>3
  <2> QED BY <2>1, <2>4, <2>5
<1>5. SessionTypeOK'
  BY <1>0, <1>3, <1>4 DEF SessionTypeOK, HandlerType
<1>6. HandlersMatch' /\ LockoutMatches'
  BY <1>0, <1>3 DEF SessionInv, HandlersMatch, LockoutMatches, Stands
<1>7. TriesCounted'
  <2> SUFFICES ASSUME ~raced PROVE TriesCounted'
    BY <1>0 DEF TriesCounted
  <2>1. Failures' = Failures /\ Failures \in Nat /\ restarts \in Nat
    BY <1>0, SessionAssumption DEF Failures, SessionTypeOK
  <2>2. \A g \in Handlers : handler'[g].op = handler[g].op
    BY <1>0, <1>3
  <2>3. \A g \in Handlers : g # h => handler[g].at \notin {"vault", "count", "clear"}
    BY <1>0 DEF SessionInv, TriesCounted, HandlersMatch
  <2>4. tries <= restarts + Failures /\ attempts.lockout # "running" /\ handler[h].failed = Failures
    <3>1. \A g \in Handlers : ~Stands(g, "count")
      BY <1>0, <2>3 DEF Stands
    <3> QED BY <1>0, <3>1 DEF SessionInv, TriesCounted, Stands
  <2> DEFINE t == tries'
             n == restarts + Failures
  <2>5. n \in Nat /\ tries <= n /\ t \in Nat /\ (t = 0 \/ t = tries + 1)
    BY <1>2, <1>4, <2>1, <2>4
  <2>6. handler'[h].at = "clear" => t = 0
    BY <1>3
  <2> HIDE DEF t, n
  <2>7. t <= n + 1 /\ (t = 0 => t <= n)
    BY <1>4, <2>5
  <2>8. \A f, g \in Handlers : handler'[f].op = "unlock" /\ handler'[g].op = "unlock" => f = g
    BY <2>2 DEF SessionInv, TriesCounted
  <2>9. \A g \in Handlers : handler'[g].at \in {"vault", "count"} =>
          attempts.lockout # "running" /\ handler'[g].failed = Failures
    BY <1>3, <2>3, <2>4
  <2>10. \A g \in Handlers : handler'[g].at = "clear" => t = 0
    BY <1>3, <2>3, <2>6
  <2>11. (\A g \in Handlers : handler'[g].at # "count") => t <= n
    BY <1>3, <2>6, <2>7
  <2> QED BY <1>0, <2>1, <2>7, <2>8, <2>9, <2>10, <2>11 DEF TriesCounted, Stands, t, n
<1> QED BY <1>1, <1>5, <1>6, <1>7 DEF SessionInv

LEMMA CountFailureKeepsInv ==
  ASSUME SessionInv, NEW h \in Handlers, CountFailure(h) PROVE SessionInv'
<1> DEFINE n == handler[h].failed + 1
<1>0. SessionTypeOK /\ Stands(h, "count") /\ sealed = "no" /\ handler[h].op = "unlock"
      /\ handler[h].failed < MaxFailures /\ Ends(h)
      /\ attempts' = [failed |-> n, lockout |-> Lockout(n)]
      /\ UNCHANGED <<onboarded, flag, vaultOpen, record, restarts, tries, raced, sealed>>
  BY Unsealed DEF SessionInv, CountFailure, Stands, HandlersMatch, sessionHistory
<1>1. SealHolds'
  BY <1>0 DEF SealHolds
<1>2. handler[h].failed \in 0..MaxFailures
  BY <1>0 DEF SessionTypeOK
<1>3. n \in 0..MaxFailures /\ n \in Nat
  BY <1>0, <1>2, SessionAssumption
<1> HIDE DEF n
<1>4. Lockout(n) \in {"none", "running"} /\ (Lockout(n) = "none" <=> n < MaxFailures)
  BY DEF Lockout
<1>5. /\ handler' \in [Handlers -> HandlerType] /\ handler'[h] = Resting
      /\ \A g \in Handlers : g # h => handler'[g] = handler[g]
  BY <1>0, EndFacts
<1>6. attempts' \in [failed : 0..MaxFailures, lockout : Lockouts] /\ attempts'.failed = n
      /\ attempts'.lockout = Lockout(n)
  BY <1>0, <1>3, <1>4 DEF Lockouts
<1>7. SessionTypeOK'
  BY <1>0, <1>5, <1>6 DEF SessionTypeOK, HandlerType
<1>8. HandlersMatch'
  BY <1>5 DEF SessionInv, HandlersMatch, Stands, Resting
<1>9. LockoutMatches'
  BY <1>4, <1>6 DEF LockoutMatches
<1>10. TriesCounted'
  <2> SUFFICES ASSUME ~raced PROVE TriesCounted'
    BY <1>0 DEF TriesCounted
  <2>1. Failures' = n
    BY <1>4, <1>6 DEF Failures
  <2>2. \A g \in Handlers : handler'[g].op = "unlock" => handler[g].op = "unlock" /\ g # h
    BY <1>5 DEF Resting
  <2>3. \A g \in Handlers : handler'[g].at \notin {"vault", "count", "clear"}
    BY <1>0, <1>5 DEF SessionInv, TriesCounted, HandlersMatch, Resting
  <2>4. tries <= restarts + n
    <3>1. handler[h].failed = Failures /\ tries <= restarts + Failures + 1
      BY <1>0 DEF SessionInv, TriesCounted, Stands
    <3>2. restarts \in Nat /\ Failures \in Nat /\ tries \in Nat
      BY <1>0, <1>2, <3>1, SessionAssumption DEF SessionTypeOK
    <3> QED BY <3>1, <3>2 DEF n
  <2>5. tries <= restarts + n + 1
    BY <1>0, <1>3, <2>4, SessionAssumption DEF SessionTypeOK
  <2> QED BY <1>0, <2>1, <2>2, <2>3, <2>4, <2>5 DEF SessionInv, TriesCounted, Stands
<1> QED BY <1>1, <1>7, <1>8, <1>9, <1>10 DEF SessionInv

LEMMA ClearAttemptsKeepsInv ==
  ASSUME SessionInv, NEW h \in Handlers, ClearAttempts(h) PROVE SessionInv'
<1>0. SessionTypeOK /\ Stands(h, "clear") /\ sealed = "no" /\ handler[h].op = "unlock"
      /\ Moves(h, "ttl") /\ attempts' = NoAttempts
      /\ UNCHANGED <<onboarded, flag, vaultOpen, record, restarts, tries, raced, sealed>>
  BY Unsealed DEF SessionInv, ClearAttempts, Stands, HandlersMatch, sessionHistory
<1>1. SealHolds'
  BY <1>0 DEF SealHolds
<1>2. /\ handler' \in [Handlers -> HandlerType] /\ handler'[h].at = "ttl" /\ handler'[h].op = "unlock"
      /\ \A g \in Handlers : g # h => handler'[g] = handler[g]
  <2>1. "ttl" \in HandlerSteps
    BY DEF HandlerSteps
  <2> QED BY <1>0, <2>1, MoveFacts
<1>3. SessionTypeOK'
  <2>1. attempts' \in [failed : 0..MaxFailures, lockout : Lockouts]
    BY <1>0, SessionAssumption DEF NoAttempts, Lockouts
  <2> QED BY <1>0, <1>2, <2>1 DEF SessionTypeOK, HandlerType
<1>4. HandlersMatch'
  BY <1>2 DEF SessionInv, HandlersMatch, Stands
<1>5. LockoutMatches'
  BY <1>0, SessionAssumption DEF LockoutMatches, NoAttempts
<1>6. TriesCounted'
  <2> SUFFICES ASSUME ~raced PROVE TriesCounted'
    BY <1>0 DEF TriesCounted
  <2>1. Failures' = 0 /\ restarts \in Nat
    BY <1>0, SessionAssumption DEF Failures, NoAttempts, SessionTypeOK
  <2>2. \A f, g \in Handlers : handler'[f].op = "unlock" /\ handler'[g].op = "unlock" => f = g
    BY <1>0, <1>2 DEF SessionInv, TriesCounted
  <2>3. \A g \in Handlers : handler'[g].at \notin {"vault", "count", "clear"}
    BY <1>0, <1>2 DEF SessionInv, TriesCounted, HandlersMatch
  <2>4. tries = 0
    BY <1>0 DEF SessionInv, TriesCounted
  <2> QED BY <1>0, <2>1, <2>2, <2>3, <2>4 DEF TriesCounted, Stands
<1> QED BY <1>1, <1>3, <1>4, <1>5, <1>6 DEF SessionInv

\* A request that signs is a handler of the session.
LEMMA SigningStepsKeepSession ==
  ASSUME SessionInv, NEW h \in Handlers, UNCHANGED <<onboarded, vaultOpen, attempts, restarts, sessionHistory>>,
         \/ Restored(h) /\ flag' /\ Moves(h, "account")
         \/ Restored(h) /\ Ends(h)
         \/ /\ Stands(h, "account") /\ Ends(h)
            /\ UNCHANGED <<flag, record>> \/ (flag' = FALSE /\ record' = "none")
  PROVE  SessionInv'
<1>0. SessionTypeOK /\ UNCHANGED <<onboarded, vaultOpen, attempts, restarts, tries, raced, sealed>>
  BY DEF SessionInv, sessionHistory
<1>1. CASE Restored(h) /\ flag' /\ Moves(h, "account")
  <2>1. Stands(h, "restore") /\ flag' = (handler[h].seen = "valid") /\ record' \in {"none", record}
    BY <1>1 DEF Restored
  <2>2. "account" \in HandlerSteps
    BY DEF HandlerSteps
  <2>3. sealed # "sealed" /\ sealed # "locking"
    BY <1>1, <2>1 DEF SessionInv, SealHolds, Stands
  <2>4. SealHolds'
    BY <1>0, <2>3 DEF SealHolds, SessionTypeOK
  <2> QED BY <1>0, <1>1, <2>1, <2>2, <2>4, MoveFacts, QuietStepKeepsInv DEF Stands, SessionTypeOK
<1>2. CASE Restored(h) /\ Ends(h)
  <2>1. Stands(h, "restore") /\ flag' = (handler[h].seen = "valid") /\ record' \in {"none", record}
    BY <1>2 DEF Restored
  <2>2. /\ handler' \in [Handlers -> HandlerType] /\ handler'[h] = Resting
        /\ \A g \in Handlers : g # h => handler'[g] = handler[g]
    BY <1>0, <1>2, EndFacts
  <2>3. SealHolds'
    BY <1>0, <2>1, <2>2 DEF SessionInv, SealHolds, Stands, Resting, SessionTypeOK
  <2> QED BY <1>0, <2>1, <2>2, <2>3, QuietStepKeepsInv DEF Stands, SessionTypeOK
<1>3. CASE /\ Stands(h, "account") /\ Ends(h)
           /\ UNCHANGED <<flag, record>> \/ (flag' = FALSE /\ record' = "none")
  <2>1. sealed = "no"
    BY <1>3, Unsealed DEF Stands
  <2>2. SealHolds'
    BY <1>0, <2>1 DEF SealHolds
  <2>3. flag' \in BOOLEAN /\ record' \in {"none", "valid", "expired"}
    BY <1>0, <1>3 DEF SessionTypeOK
  <2> QED BY <1>0, <1>3, <2>2, <2>3, EndFacts, QuietStepKeepsInv DEF Stands, SessionTypeOK
<1> QED BY <1>1, <1>2, <1>3

\* A worker that ends takes its handlers with it, and lets one more password through.
LEMMA WorkerEndsKeepsInv ==
  ASSUME SessionInv, WorkerEnds PROVE SessionInv'
<1>0. /\ SessionTypeOK /\ restarts < MaxRestarts /\ restarts' = restarts + 1
      /\ flag' = FALSE /\ vaultOpen' = FALSE /\ record' \in {record, "none"}
      /\ handler' = [h \in Handlers |-> Resting]
      /\ UNCHANGED <<onboarded, attempts, tries, raced>>
      /\ sealed' = IF sealed = "locking" THEN "no" ELSE sealed
  BY DEF SessionInv, WorkerEnds
<1>1. \A h \in Handlers : handler'[h] = Resting
  BY <1>0
<1>2. SessionTypeOK'
  <2>1. Resting \in HandlerType
    BY SessionAssumption DEF Resting, HandlerType, HandlerSteps
  <2>2. restarts' \in 0..MaxRestarts
    BY <1>0, SessionAssumption DEF SessionTypeOK
  <2> QED BY <1>0, <2>1, <2>2 DEF SessionTypeOK, HandlerType
<1>3. HandlersMatch'
  BY <1>1 DEF HandlersMatch, Stands, Resting
<1>4. LockoutMatches'
  BY <1>0 DEF SessionInv, LockoutMatches
<1>5. SealHolds'
  BY <1>0, <1>1 DEF SessionInv, SealHolds, SessionTypeOK, Stands, Resting
<1>6. TriesCounted'
  <2> SUFFICES ASSUME ~raced PROVE TriesCounted'
    BY <1>0 DEF TriesCounted
  <2>1. Failures' = Failures
    BY <1>0 DEF Failures
  <2>2. tries <= restarts + Failures + 1
    BY DEF SessionInv, TriesCounted
  <2>3. tries \in Nat /\ Failures \in Nat /\ restarts \in Nat
    BY <1>0, SessionAssumption DEF Failures, SessionTypeOK
  <2>4. tries <= restarts' + Failures /\ tries <= restarts' + Failures + 1
    BY <1>0, <2>2, <2>3
  <2> QED BY <1>0, <1>1, <2>1, <2>4 DEF TriesCounted, Stands, Resting
<1> QED BY <1>2, <1>3, <1>4, <1>5, <1>6 DEF SessionInv

LEMMA TimePassesKeepsInv ==
  ASSUME SessionInv, TimePasses PROVE SessionInv'
<1>0. SessionTypeOK /\ UNCHANGED <<onboarded, flag, vaultOpen, handler, restarts, raced, sealed>>
  BY DEF SessionInv, TimePasses
<1>1. CASE record = "valid" /\ record' = "expired" /\ UNCHANGED <<attempts, tries>>
  <2>1. SessionTypeOK' /\ HandlersMatch' /\ LockoutMatches'
    BY <1>0, <1>1 DEF SessionInv, SessionTypeOK, HandlersMatch, LockoutMatches, Stands
  <2>2. SealHolds'
    BY <1>0, <1>1 DEF SessionInv, SealHolds, Stands
  <2>3. TriesCounted'
    BY <1>0, <1>1 DEF SessionInv, TriesCounted, Failures, Stands
  <2> QED BY <2>1, <2>2, <2>3 DEF SessionInv
<1>2. CASE /\ attempts.lockout = "running" /\ attempts' = [attempts EXCEPT !.lockout = "over"]
           /\ tries' = 0 /\ UNCHANGED record
  <2>1. attempts' \in [failed : 0..MaxFailures, lockout : Lockouts] /\ attempts'.failed = attempts.failed
        /\ attempts'.lockout = "over"
    BY <1>0, <1>2 DEF SessionTypeOK, Lockouts
  <2>2. SessionTypeOK'
    BY <1>0, <1>2, <2>1 DEF SessionTypeOK
  <2>3. HandlersMatch' /\ LockoutMatches' /\ SealHolds'
    BY <1>0, <1>2, <2>1 DEF SessionInv, HandlersMatch, LockoutMatches, SealHolds, Stands
  <2>4. TriesCounted'
    <3> SUFFICES ASSUME ~raced PROVE TriesCounted'
      BY <1>0 DEF TriesCounted
    <3>1. Failures' = 0 /\ restarts \in Nat
      BY <1>0, <2>1, SessionAssumption DEF Failures, SessionTypeOK
    <3>2. \A h \in Handlers : handler[h].at \notin {"vault", "count"}
      BY <1>2 DEF SessionInv, TriesCounted
    <3>3. 0 <= restarts + 0 + 1 /\ 0 <= restarts + 0
      BY <3>1
    <3> QED BY <1>0, <1>2, <3>1, <3>2, <3>3 DEF SessionInv, TriesCounted, Stands
  <2> QED BY <2>2, <2>3, <2>4 DEF SessionInv
<1> QED BY <1>1, <1>2 DEF TimePasses

LEMMA SessionUnchanged ==
  ASSUME SessionInv, UNCHANGED sessionVars PROVE SessionInv'
<1> USE DEF sessionVars, sessionHistory
<1>1. SessionTypeOK' /\ HandlersMatch' /\ LockoutMatches' /\ SealHolds'
  BY DEF SessionInv, SessionTypeOK, HandlersMatch, LockoutMatches, SealHolds, Stands
<1>2. TriesCounted'
  BY DEF SessionInv, TriesCounted, Failures, Stands
<1> QED BY <1>1, <1>2 DEF SessionInv

LEMMA HandlerStartsKeepsInv ==
  ASSUME SessionInv, NEW h \in Handlers, HandlerStarts(h) PROVE SessionInv'
<1>0. SessionTypeOK /\ {"load", "ttl", "remove", "read"} \subseteq HandlerSteps /\ flag \in BOOLEAN /\ vaultOpen \in BOOLEAN
  BY DEF SessionInv, SessionTypeOK, HandlerSteps
<1>1. CASE UnlockStarts(h)
  BY <1>0, <1>1, BeginsKeepsInv DEF UnlockStarts
<1>2. CASE RefreshStarts(h)
  BY <1>0, <1>2, BeginsKeepsInv DEF RefreshStarts
<1>3. CASE LockStarts(h)
  BY <1>0, <1>3, BeginsKeepsInv DEF LockStarts
<1>4. CASE RestoreStarts(h)
  BY <1>0, <1>4, BeginsKeepsInv DEF RestoreStarts
<1> QED BY <1>1, <1>2, <1>3, <1>4 DEF HandlerStarts

LEMMA SessionMeans == SessionInv => SessionTypeOK /\ SessionSafe
<1> SUFFICES ASSUME SessionInv PROVE SessionTypeOK /\ SessionSafe
  OBVIOUS
<1>1. LockHolds
  BY DEF SessionInv, SealHolds, LockHolds
<1>2. LockoutAfterFailures
  <2> SUFFICES ASSUME ~raced PROVE tries <= MaxFailures + restarts
    BY DEF LockoutAfterFailures
  <2>1. SessionTypeOK /\ restarts \in Nat /\ tries \in Nat /\ Failures \in Nat /\ Failures <= MaxFailures
    BY SessionAssumption DEF SessionInv, SessionTypeOK, Failures
  <2>2. CASE \A h \in Handlers : ~Stands(h, "count")
    <3>1. tries <= restarts + Failures
      BY <2>2 DEF SessionInv, TriesCounted
    <3> QED BY <2>1, <3>1, SessionAssumption
  <2>3. CASE \E h \in Handlers : Stands(h, "count")
    <3>1. Failures < MaxFailures /\ tries <= restarts + Failures + 1
      BY <2>3 DEF SessionInv, TriesCounted, HandlersMatch, Stands
    <3> QED BY <2>1, <3>1, SessionAssumption
  <2> QED BY <2>2, <2>3
<1> QED BY <1>1, <1>2 DEF SessionInv, SessionSafe

-----------------------------------------------------------------------------
\* A request that is answered is nobody's any more: not the queue's, not a handler's, and
\* its screen asks nothing.
RequestMatches(r) ==
  /\ stage[r] \in {"new", "asked"} => r \notin approval \union callback \union opening
  /\ stage[r] = "waiting" => r \notin opening
  /\ signer[r] # Unsigned => r \in agreed /\ screen[r] \in {"busy", "closed"}
  /\ kind[r] = "sign" /\ stage[r] = "ok" =>
       /\ r \in agreed /\ entry[r] = "resolved" /\ signer[r] = Unsigned
       /\ r \notin approval \union callback \union opening /\ screen[r] \in {"done", "closed"}
  /\ kind[r] = "sign" /\ stage[r] \in Answers /\ r \in approval => r \in unopened

RequestsMatch == NoSigningAfterRefusal /\ \A r \in Requests : RequestMatches(r)

\* The types of the variables that are not the session's.
QueueTypeOK ==
  /\ kind \in [Requests -> {"query", "access", "sign", "sessionKey"}]
  /\ stage \in [Requests -> {"new", "asked", "opening", "waiting"} \union Answers]
  /\ approval \subseteq Requests /\ callback \subseteq Requests /\ mapped \subseteq Requests
  /\ entry \in [Requests -> {"none", "pending", "resolved", "rejected", "timed-out"}]
  /\ opening \subseteq Requests /\ old \subseteq Requests /\ agreed \subseteq Requests
  /\ screen \in [Requests -> {"none", "open", "busy", "done", "closed"}]
  /\ signer \in [Requests -> Handlers \union {Unsigned}]
  /\ stored \subseteq Origins /\ known \subseteq Origins /\ unopened \subseteq Requests /\ mistimed \subseteq Requests

LEMMA TypesSplit == RequestTypeOK <=> SessionTypeOK /\ calls \in 0..MaxCalls /\ QueueTypeOK
BY DEF RequestTypeOK, QueueTypeOK

RequestInv == QueueTypeOK /\ RequestsMatch

LEMMA RequestInitInv == RequestInit => SessionInv /\ calls \in 0..MaxCalls /\ RequestInv
<1> SUFFICES ASSUME RequestInit PROVE SessionInv /\ calls \in 0..MaxCalls /\ RequestInv
  OBVIOUS
<1>1. SessionInv /\ calls \in 0..MaxCalls
  BY SessionInitInv, RequestAssumption DEF RequestInit
<1>2. QueueTypeOK
  BY RequestAssumption DEF RequestInit, QueueTypeOK, Answers
<1>3. RequestsMatch
  BY DEF RequestInit, RequestsMatch, RequestMatches, NoSigningAfterRefusal, Answers
<1> QED BY <1>1, <1>2, <1>3 DEF RequestInv

\* A step that gives a request nothing but a refusal, after which it is not pending.
LEMMA RequestFrame ==
  ASSUME NEW r \in Requests, RequestMatches(r), kind' = kind,
         stage'[r] = stage[r] \/ (stage'[r] = "refused" /\ r \notin approval'),
         r \in approval' => r \in approval, r \in callback' => r \in callback, r \in opening' => r \in opening,
         entry'[r] = entry[r] \/ r \in approval \union callback,
         screen'[r] = screen[r] \/ (screen[r] = "done" /\ screen'[r] = "closed"),
         signer'[r] = signer[r],
         r \in agreed => r \in agreed', r \in unopened => r \in unopened'
  PROVE  RequestMatches(r)'
BY DEF RequestMatches, Answers, Unsigned

\* What rejecting a set of requests does to each.
LEMMA RefusedFacts ==
  ASSUME QueueTypeOK, NEW S
  PROVE  /\ Refused(S) \in [Requests -> {"new", "asked", "opening", "waiting"} \union Answers]
         /\ Marked(S) \in [Requests -> {"none", "pending", "resolved", "rejected", "timed-out"}]
         /\ \A r \in Requests :
              /\ Refused(S)[r] = stage[r] \/ (Refused(S)[r] = "refused" /\ r \in S /\ stage[r] = "waiting")
              /\ r \notin S => Marked(S)[r] = entry[r]
BY DEF QueueTypeOK, Refused, Marked, Answers

LEMMA RejectFacts ==
  ASSUME QueueTypeOK, NEW q \in Requests, Reject(q)
  PROVE  /\ stage' \in [Requests -> {"new", "asked", "opening", "waiting"} \union Answers]
         /\ entry' \in [Requests -> {"none", "pending", "resolved", "rejected", "timed-out"}]
         /\ approval' = approval \ {q} /\ callback' = callback \ {q}
         /\ \A r \in Requests :
              /\ stage'[r] = stage[r] \/ (stage'[r] = "refused" /\ r = q)
              /\ r # q => entry'[r] = entry[r]
BY RefusedFacts DEF Reject

LEMMA StaleFacts ==
  ASSUME QueueTypeOK
  PROVE  /\ Stale \subseteq approval \union callback /\ Stale \subseteq Requests
         /\ Refused(Stale) \in [Requests -> {"new", "asked", "opening", "waiting"} \union Answers]
         /\ Marked(Stale) \in [Requests -> {"none", "pending", "resolved", "rejected", "timed-out"}]
         /\ \A r \in Requests :
              /\ Refused(Stale)[r] = stage[r]
                 \/ (Refused(Stale)[r] = "refused" /\ r \in Stale /\ stage[r] = "waiting")
              /\ r \notin Stale => Marked(Stale)[r] = entry[r]
<1>1. Stale \subseteq approval \union callback /\ Stale \subseteq Requests
  BY DEF Stale, QueueTypeOK
<1> QED BY <1>1, RefusedFacts

\* The handlers of pages' requests in the worker.
LEMMA AskKeeps ==
  ASSUME RequestInv, NEW q \in Requests, kind' = kind, Ask(q) \/ AnswerAtOnce(q) PROVE RequestInv'
<1>0. QueueTypeOK /\ RequestsMatch /\ UNCHANGED <<queue, screens, signer, old, allowlist, userHistory>>
  BY DEF RequestInv, Ask, AnswerAtOnce
<1> USE DEF queue, screens, allowlist, userHistory
<1>1. /\ stage[q] \in {"new", "asked"}
      /\ \/ stage' = [stage EXCEPT ![q] = "asked"]
         \/ stage' = [stage EXCEPT ![q] = "refused"]
         \/ kind[q] # "sign" /\ stage' = [stage EXCEPT ![q] = "ok"]
  <2>1. CASE Ask(q)
    BY <2>1 DEF Ask
  <2>2. CASE AnswerAtOnce(q)
    BY <2>2 DEF AnswerAtOnce
  <2> QED BY <2>1, <2>2
<1>2. QueueTypeOK'
  BY <1>0, <1>1 DEF QueueTypeOK, Answers
<1>3. NoSigningAfterRefusal'
  BY <1>0 DEF RequestsMatch, NoSigningAfterRefusal
<1>4. \A r \in Requests : RequestMatches(r)'
  <2> SUFFICES ASSUME NEW r \in Requests PROVE RequestMatches(r)'
    OBVIOUS
  <2>1. CASE r = q
    <3>1. stage'[r] \in {"asked", "refused", "ok"} /\ (stage'[r] = "ok" => kind[r] # "sign")
      BY <1>0, <1>1, <2>1 DEF QueueTypeOK
    <3> QED BY <1>0, <1>1, <2>1, <3>1 DEF RequestsMatch, RequestMatches, Answers
  <2>2. CASE r # q
    <3>1. stage'[r] = stage[r]
      BY <1>0, <1>1, <2>2 DEF QueueTypeOK
    <3> QED BY <1>0, <3>1 DEF RequestsMatch, RequestMatches
  <2> QED BY <2>1, <2>2
<1> QED BY <1>2, <1>3, <1>4 DEF RequestInv, RequestsMatch

LEMMA EnqueueKeeps ==
  ASSUME RequestInv, NEW q \in Requests, kind' = kind, Enqueue(q) PROVE RequestInv'
<1>0. QueueTypeOK /\ RequestsMatch
  BY DEF RequestInv
<1>1. /\ stage[q] = "asked" /\ kind[q] \in {"access", "sign", "sessionKey"}
      /\ approval' = (approval \ Stale) \union {q} /\ callback' = callback \ Stale
      /\ entry' = [Marked(Stale) EXCEPT ![q] = "pending"]
      /\ stage' = [Refused(Stale) EXCEPT ![q] = IF Awaited(q) THEN "opening" ELSE "ok"]
      /\ opening' = opening \union {q}
      /\ UNCHANGED <<mapped, screen, signer, old, stored, known, agreed, unopened, mistimed>>
  BY DEF Enqueue, allowlist, userHistory
<1>2. stage'[q] \in {"opening", "ok"} /\ (stage'[q] = "ok" => kind[q] # "sign")
  BY <1>0, <1>1, StaleFacts DEF Awaited
<1>3. QueueTypeOK'
  <2>1. (IF Awaited(q) THEN "opening" ELSE "ok") \in {"new", "asked", "opening", "waiting"} \union Answers
    BY DEF Answers
  <2>2. stage' \in [Requests -> {"new", "asked", "opening", "waiting"} \union Answers]
    BY <1>0, <1>1, <2>1, StaleFacts
  <2>3. entry' \in [Requests -> {"none", "pending", "resolved", "rejected", "timed-out"}]
    BY <1>0, <1>1, StaleFacts
  <2> QED BY <1>0, <1>1, <2>2, <2>3 DEF QueueTypeOK
<1>4. NoSigningAfterRefusal'
  BY <1>0, <1>1 DEF RequestsMatch, NoSigningAfterRefusal
<1>5. \A r \in Requests : RequestMatches(r)'
  <2> SUFFICES ASSUME NEW r \in Requests PROVE RequestMatches(r)'
    OBVIOUS
  <2>1. CASE r = q
    BY <1>0, <1>1, <1>2, <2>1 DEF RequestsMatch, RequestMatches, Answers, Unsigned
  <2>2. CASE r # q
    <3>1. /\ stage'[r] = Refused(Stale)[r] /\ entry'[r] = Marked(Stale)[r]
      BY <1>0, <1>1, <2>2, StaleFacts
    <3>2. /\ stage'[r] = stage[r] \/ (stage'[r] = "refused" /\ r \notin approval')
      BY <1>0, <1>1, <2>2, <3>1, StaleFacts
    <3>3. entry'[r] = entry[r] \/ r \in approval \union callback
      BY <1>0, <3>1, StaleFacts
    <3> QED BY <1>0, <1>1, <2>2, <3>2, <3>3, RequestFrame DEF RequestsMatch
  <2> QED BY <2>1, <2>2
<1> QED BY <1>3, <1>4, <1>5 DEF RequestInv, RequestsMatch

LEMMA OtherEnqueuedKeeps ==
  ASSUME RequestInv, kind' = kind, OtherEnqueued PROVE RequestInv'
<1>0. QueueTypeOK /\ RequestsMatch
  BY DEF RequestInv
<1>1. /\ approval' = approval \ Stale /\ callback' = callback \ Stale
      /\ entry' = Marked(Stale) /\ stage' = Refused(Stale)
      /\ UNCHANGED <<mapped, opening, screen, signer, old, stored, known, agreed, unopened, mistimed>>
  BY DEF OtherEnqueued, screens, allowlist, userHistory
<1>2. QueueTypeOK'
  BY <1>0, <1>1, StaleFacts DEF QueueTypeOK
<1>3. NoSigningAfterRefusal'
  BY <1>0, <1>1 DEF RequestsMatch, NoSigningAfterRefusal
<1>4. \A r \in Requests : RequestMatches(r)'
  <2> SUFFICES ASSUME NEW r \in Requests PROVE RequestMatches(r)'
    OBVIOUS
  <2>1. /\ stage'[r] = stage[r] \/ (stage'[r] = "refused" /\ r \notin approval')
        /\ entry'[r] = entry[r] \/ r \in approval \union callback
    BY <1>0, <1>1, StaleFacts
  <2> QED BY <1>0, <1>1, <2>1, RequestFrame DEF RequestsMatch
<1> QED BY <1>2, <1>3, <1>4 DEF RequestInv, RequestsMatch

LEMMA OpenedKeeps ==
  ASSUME RequestInv, NEW q \in Requests, kind' = kind, Opened(q) PROVE RequestInv'
<1>0. QueueTypeOK /\ RequestsMatch
  BY DEF RequestInv
<1>1. /\ q \in opening /\ opening' = opening \ {q} /\ mapped' \in {mapped, mapped \union {q}}
      /\ UNCHANGED <<screen, signer, old, stored, known, agreed, unopened, mistimed>>
  BY DEF Opened, allowlist, userHistory
<1>2. NoSigningAfterRefusal'
  BY <1>0, <1>1 DEF RequestsMatch, NoSigningAfterRefusal
<1>3. CASE stage[q] = "opening"
  <2>1. /\ approval' = approval \ Stale /\ callback' = (callback \ Stale) \union {q}
        /\ entry' = Marked(Stale) /\ stage' = [Refused(Stale) EXCEPT ![q] = "waiting"]
    BY <1>3 DEF Opened
  <2>2. QueueTypeOK'
    <3>1. stage' \in [Requests -> {"new", "asked", "opening", "waiting"} \union Answers]
      BY <1>0, <2>1, StaleFacts
    <3> QED BY <1>0, <1>1, <2>1, <3>1, StaleFacts DEF QueueTypeOK
  <2>3. \A r \in Requests : RequestMatches(r)'
    <3> SUFFICES ASSUME NEW r \in Requests PROVE RequestMatches(r)'
      OBVIOUS
    <3>1. CASE r = q
      <4>1. stage'[r] = "waiting"
        BY <1>0, <2>1, <3>1, StaleFacts
      <4> QED BY <1>0, <1>1, <2>1, <3>1, <4>1 DEF RequestsMatch, RequestMatches, Answers
    <3>2. CASE r # q
      <4>1. stage'[r] = Refused(Stale)[r] /\ entry'[r] = Marked(Stale)[r]
        BY <1>0, <2>1, <3>2, StaleFacts
      <4>2. /\ stage'[r] = stage[r] \/ (stage'[r] = "refused" /\ r \notin approval')
            /\ entry'[r] = entry[r] \/ r \in approval \union callback
        BY <1>0, <2>1, <4>1, StaleFacts
      <4> QED BY <1>0, <1>1, <2>1, <3>2, <4>2, RequestFrame DEF RequestsMatch
    <3> QED BY <3>1, <3>2
  <2> QED BY <1>2, <2>2, <2>3 DEF RequestInv, RequestsMatch
<1>4. CASE stage[q] # "opening"
  <2>1. UNCHANGED <<approval, callback, entry, stage>>
    BY <1>4 DEF Opened
  <2>2. QueueTypeOK'
    BY <1>0, <1>1, <2>1 DEF QueueTypeOK
  <2>3. \A r \in Requests : RequestMatches(r)'
    BY <1>0, <1>1, <2>1, RequestFrame DEF RequestsMatch
  <2> QED BY <1>2, <2>2, <2>3 DEF RequestInv, RequestsMatch
<1> QED BY <1>3, <1>4

LEMMA OpenFailsKeeps ==
  ASSUME RequestInv, NEW q \in Requests, kind' = kind, OpenFails(q) PROVE RequestInv'
<1>0. QueueTypeOK /\ RequestsMatch
  BY DEF RequestInv
<1>1. /\ q \in opening /\ opening' = opening \ {q} /\ unopened' = unopened \union {q}
      /\ screen' = screen \/ (screen[q] = "none" /\ screen' = [screen EXCEPT ![q] = "open"])
      /\ stage' = IF stage[q] = "opening" THEN [stage EXCEPT ![q] = "refused"] ELSE stage
      /\ UNCHANGED <<approval, callback, entry, mapped, signer, old, stored, known, agreed, mistimed>>
  BY DEF OpenFails, queue, allowlist
<1>2. QueueTypeOK'
  BY <1>0, <1>1 DEF QueueTypeOK, Answers
<1>3. NoSigningAfterRefusal'
  BY <1>0, <1>1 DEF RequestsMatch, NoSigningAfterRefusal
<1>4. \A r \in Requests : RequestMatches(r)'
  <2> SUFFICES ASSUME NEW r \in Requests PROVE RequestMatches(r)'
    OBVIOUS
  <2>1. CASE r = q
    <3>1. stage'[r] \in {stage[r], "refused"} /\ r \in unopened'
          /\ (screen'[r] = screen[r] \/ (screen[r] = "none" /\ screen'[r] = "open"))
      BY <1>0, <1>1, <2>1 DEF QueueTypeOK
    <3> QED BY <1>0, <1>1, <2>1, <3>1 DEF RequestsMatch, RequestMatches, Answers, Unsigned
  <2>2. CASE r # q
    <3>1. stage'[r] = stage[r] /\ screen'[r] = screen[r]
      BY <1>0, <1>1, <2>2 DEF QueueTypeOK
    <3> QED BY <1>0, <1>1, <3>1, RequestFrame DEF RequestsMatch
  <2> QED BY <2>1, <2>2
<1> QED BY <1>2, <1>3, <1>4 DEF RequestInv, RequestsMatch

LEMMA TimeOutKeeps ==
  ASSUME RequestInv, NEW q \in Requests, kind' = kind, TimeOut(q) PROVE RequestInv'
<1>0. QueueTypeOK /\ RequestsMatch
  BY DEF RequestInv
<1>1. /\ stage[q] = "waiting" /\ approval' = approval \ {q}
      /\ entry' = [entry EXCEPT ![q] = "timed-out"] /\ stage' = [stage EXCEPT ![q] = "refused"]
      /\ UNCHANGED <<callback, mapped, opening, screen, signer, old, stored, known, agreed, unopened, mistimed>>
  BY DEF TimeOut, screens, allowlist, userHistory
<1>2. QueueTypeOK'
  BY <1>0, <1>1 DEF QueueTypeOK, Answers
<1>3. NoSigningAfterRefusal'
  BY <1>0, <1>1 DEF RequestsMatch, NoSigningAfterRefusal
<1>4. \A r \in Requests : RequestMatches(r)'
  <2> SUFFICES ASSUME NEW r \in Requests PROVE RequestMatches(r)'
    OBVIOUS
  <2>1. CASE r = q
    <3>1. stage'[r] = "refused" /\ r \notin approval'
      BY <1>0, <1>1, <2>1 DEF QueueTypeOK
    <3> QED BY <1>0, <1>1, <2>1, <3>1 DEF RequestsMatch, RequestMatches, Answers
  <2>2. CASE r # q
    <3>1. stage'[r] = stage[r] /\ entry'[r] = entry[r]
      BY <1>0, <1>1, <2>2 DEF QueueTypeOK
    <3> QED BY <1>0, <1>1, <3>1, RequestFrame DEF RequestsMatch
  <2> QED BY <2>1, <2>2
<1> QED BY <1>2, <1>3, <1>4 DEF RequestInv, RequestsMatch

LEMMA BrowserKeeps ==
  ASSUME RequestInv, NEW q \in Requests, BrowserStep(q) PROVE RequestInv'
<1>0. QueueTypeOK /\ RequestsMatch /\ kind' = kind
  BY DEF RequestInv, BrowserStep
<1> USE DEF queue, screens, allowlist, userHistory
<1>1. CASE Age(q)
  <2>1. QueueTypeOK' /\ NoSigningAfterRefusal'
    BY <1>0, <1>1 DEF Age, QueueTypeOK, RequestsMatch, NoSigningAfterRefusal
  <2>2. \A r \in Requests : RequestMatches(r)'
    BY <1>0, <1>1, RequestFrame DEF Age, RequestsMatch
  <2> QED BY <2>1, <2>2 DEF RequestInv, RequestsMatch
<1>2. CASE Show(q)
  <2>0. /\ q \in opening /\ screen[q] = "none" /\ screen' = [screen EXCEPT ![q] = "open"]
        /\ UNCHANGED <<stage, approval, callback, entry, mapped, opening, signer, old, stored, known>>
        /\ UNCHANGED <<agreed, unopened, mistimed>>
    BY <1>2 DEF Show
  <2>1. QueueTypeOK' /\ NoSigningAfterRefusal'
    BY <1>0, <2>0 DEF QueueTypeOK, RequestsMatch, NoSigningAfterRefusal
  <2>2. \A r \in Requests : RequestMatches(r)'
    <3> SUFFICES ASSUME NEW r \in Requests PROVE RequestMatches(r)'
      OBVIOUS
    <3>1. CASE r = q
      BY <1>0, <2>0, <3>1 DEF RequestsMatch, RequestMatches, Answers, Unsigned
    <3>2. CASE r # q
      <4>1. screen'[r] = screen[r]
        BY <1>0, <2>0, <3>2 DEF QueueTypeOK
      <4> QED BY <1>0, <2>0, <4>1, RequestFrame DEF RequestsMatch
    <3> QED BY <3>1, <3>2
  <2> QED BY <2>1, <2>2 DEF RequestInv, RequestsMatch
<1> QED BY <1>1, <1>2 DEF BrowserStep

\* A screen asks only for a request that no page was told to be signed.
LEMMA OpenScreen ==
  ASSUME RequestInv, NEW q \in Requests, screen[q] = "open"
  PROVE  signer[q] = Unsigned /\ ~(kind[q] = "sign" /\ stage[q] = "ok")
BY DEF RequestInv, RequestsMatch, RequestMatches

\* The user's decisions.  What rejects a request leaves the others alone.
LEMMA RejectKeeps ==
  ASSUME RequestInv, NEW q \in Requests, Reject(q), kind' = kind,
         ~(kind[q] = "sign" /\ stage[q] = "ok"),
         screen' \in [Requests -> {"none", "open", "busy", "done", "closed"}],
         \A r \in Requests : r # q => screen'[r] = screen[r],
         signer' \in [Requests -> Handlers \union {Unsigned}],
         \A r \in Requests : r # q => signer'[r] = signer[r],
         signer'[q] = Unsigned \/ (signer'[q] = signer[q] /\ screen'[q] = "closed"),
         agreed' \in {agreed, agreed \union {q}}, mapped' \subseteq mapped,
         UNCHANGED <<opening, old, stored, known, unopened, mistimed>>
  PROVE  RequestInv'
<1>0. QueueTypeOK /\ RequestsMatch
  BY DEF RequestInv
<1>1. /\ stage' \in [Requests -> {"new", "asked", "opening", "waiting"} \union Answers]
      /\ entry' \in [Requests -> {"none", "pending", "resolved", "rejected", "timed-out"}]
      /\ approval' = approval \ {q} /\ callback' = callback \ {q}
      /\ \A r \in Requests :
           /\ stage'[r] = stage[r] \/ (stage'[r] = "refused" /\ r = q)
           /\ r # q => entry'[r] = entry[r]
  BY <1>0, RejectFacts
<1>2. QueueTypeOK'
  BY <1>0, <1>1 DEF QueueTypeOK
<1>3. NoSigningAfterRefusal'
  BY <1>0 DEF RequestsMatch, NoSigningAfterRefusal
<1>4. \A r \in Requests : RequestMatches(r)'
  <2> SUFFICES ASSUME NEW r \in Requests PROVE RequestMatches(r)'
    OBVIOUS
  <2>1. CASE r = q
    <3>1. stage'[r] \in {stage[r], "refused"} /\ r \notin approval' /\ r \notin callback'
      BY <1>1, <2>1
    <3>2. signer'[r] = Unsigned \/ (signer'[r] = signer[r] /\ screen'[r] = "closed")
      BY <2>1
    <3>3. r \in agreed => r \in agreed'
      OBVIOUS
    <3> QED BY <1>0, <2>1, <3>1, <3>2, <3>3 DEF RequestsMatch, RequestMatches, Answers
  <2>2. CASE r # q
    <3>1. stage'[r] = stage[r] /\ entry'[r] = entry[r] /\ screen'[r] = screen[r] /\ signer'[r] = signer[r]
      BY <1>1, <2>2
    <3> QED BY <1>0, <1>1, <3>1, RequestFrame DEF RequestsMatch
  <2> QED BY <2>1, <2>2
<1> QED BY <1>2, <1>3, <1>4 DEF RequestInv, RequestsMatch

\* A screen that ends without the queue.
LEMMA ScreenKeeps ==
  ASSUME RequestInv, NEW q \in Requests, NEW to \in {"done", "closed"}, kind' = kind,
         screen' = [screen EXCEPT ![q] = to], screen[q] = "open" \/ to = "closed",
         agreed' \in {agreed, agreed \union {q}}, mapped' \subseteq mapped,
         UNCHANGED <<stage, approval, callback, entry, signer, opening, old, stored, known, unopened, mistimed>>
  PROVE  RequestInv'
<1>0. QueueTypeOK /\ RequestsMatch
  BY DEF RequestInv
<1>1. QueueTypeOK'
  BY <1>0 DEF QueueTypeOK
<1>2. NoSigningAfterRefusal'
  BY <1>0 DEF RequestsMatch, NoSigningAfterRefusal
<1>3. \A r \in Requests : RequestMatches(r)'
  <2> SUFFICES ASSUME NEW r \in Requests PROVE RequestMatches(r)'
    OBVIOUS
  <2>1. CASE r = q
    <3>1. screen'[r] = to /\ (r \in agreed => r \in agreed')
      BY <1>0, <2>1 DEF QueueTypeOK
    <3> QED BY <1>0, <2>1, <3>1, OpenScreen DEF RequestsMatch, RequestMatches
  <2>2. CASE r # q
    <3>1. screen'[r] = screen[r] /\ (r \in agreed => r \in agreed')
      BY <1>0, <2>2 DEF QueueTypeOK
    <3> QED BY <1>0, <3>1, RequestFrame DEF RequestsMatch
  <2> QED BY <2>1, <2>2
<1> QED BY <1>1, <1>2, <1>3 DEF RequestInv, RequestsMatch

LEMMA ApproveKeeps ==
  ASSUME SessionInv, RequestInv, NEW q \in Requests, NEW h \in Handlers, Approve(q, h), kind' = kind
  PROVE  SessionInv' /\ RequestInv'
<1>0. QueueTypeOK /\ RequestsMatch
  BY DEF RequestInv
<1>1. /\ screen[q] = "open" /\ agreed' = agreed \union {q}
      /\ UNCHANGED <<mapped, opening, old, stored, known, unopened>>
      /\ signer[q] = Unsigned /\ ~(kind[q] = "sign" /\ stage[q] = "ok")
  BY OpenScreen DEF Approve, allowlist
<1>2. CASE /\ Unhandled(q) /\ screen' = [screen EXCEPT ![q] = "done"]
           /\ UNCHANGED <<sessionVars, stage, approval, callback, entry, signer, mistimed>>
  <2>1. RequestInv'
    BY <1>1, <1>2, ScreenKeeps
  <2> QED BY <1>2, <2>1, SessionUnchanged
<1>3. CASE /\ ~Unhandled(q) /\ ~Pending(q) /\ screen' = [screen EXCEPT ![q] = "done"]
           /\ Reject(q) /\ UNCHANGED <<sessionVars, signer, mistimed>>
  <2>1. screen' \in [Requests -> {"none", "open", "busy", "done", "closed"}]
        /\ \A r \in Requests : r # q => screen'[r] = screen[r]
    BY <1>0, <1>3 DEF QueueTypeOK
  <2>2. signer' \in [Requests -> Handlers \union {Unsigned}] /\ signer' = signer
    BY <1>0, <1>3 DEF QueueTypeOK
  <2>3. RequestInv'
    BY <1>1, <1>3, <2>1, <2>2, RejectKeeps
  <2> QED BY <1>3, <2>3, SessionUnchanged
<1>4. CASE /\ ~Unhandled(q) /\ Pending(q)
           /\ Begins(h, "sign", IF flag THEN "account" ELSE "read")
           /\ screen' = [screen EXCEPT ![q] = "busy"] /\ signer' = [signer EXCEPT ![q] = h]
           /\ mistimed' = IF stage[q] \in Answers THEN mistimed \union {q} ELSE mistimed
           /\ UNCHANGED <<onboarded, flag, vaultOpen, record, attempts, restarts, tries, raced,
                          stage, approval, callback, entry>>
  <2>1. SessionInv'
    <3> DEFINE place == IF flag THEN "account" ELSE "read"
    <3>1. Begins(h, "sign", place) /\ place = (IF flag THEN "account" ELSE "read") /\ place \in HandlerSteps
          /\ place \in {"remove", "ttl", "read", "account"}
      BY <1>4 DEF HandlerSteps
    <3>2. flag' \in BOOLEAN /\ vaultOpen' \in BOOLEAN
      BY <1>4 DEF SessionInv, SessionTypeOK
    <3> HIDE DEF place
    <3> QED BY <1>4, <3>1, <3>2, BeginsKeepsInv
  <2>2. QueueTypeOK'
    BY <1>0, <1>1, <1>4 DEF QueueTypeOK
  <2>3. NoSigningAfterRefusal'
    <3>1. kind[q] = "sign" /\ stage[q] \in Answers => q \in unopened
      BY <1>0, <1>4 DEF RequestsMatch, RequestMatches, Pending
    <3> QED BY <1>0, <1>1, <1>4, <3>1 DEF RequestsMatch, NoSigningAfterRefusal
  <2>4. \A r \in Requests : RequestMatches(r)'
    <3> SUFFICES ASSUME NEW r \in Requests PROVE RequestMatches(r)'
      OBVIOUS
    <3>1. CASE r = q
      <4>1. screen'[r] = "busy" /\ r \in agreed'
        BY <1>0, <1>1, <1>4, <3>1 DEF QueueTypeOK
      <4> QED BY <1>0, <1>1, <1>4, <3>1, <4>1 DEF RequestsMatch, RequestMatches
    <3>2. CASE r # q
      <4>1. screen'[r] = screen[r] /\ signer'[r] = signer[r] /\ (r \in agreed => r \in agreed')
        BY <1>0, <1>1, <1>4, <3>2 DEF QueueTypeOK
      <4> QED BY <1>0, <1>1, <1>4, <4>1, RequestFrame DEF RequestsMatch
    <3> QED BY <3>1, <3>2
  <2> QED BY <2>1, <2>2, <2>3, <2>4 DEF RequestInv, RequestsMatch
<1> QED BY <1>2, <1>3, <1>4 DEF Approve

LEMMA DeclineKeeps ==
  ASSUME SessionInv, RequestInv, NEW q \in Requests, Decline(q), kind' = kind
  PROVE  SessionInv' /\ RequestInv'
<1>0. QueueTypeOK /\ RequestsMatch
  BY DEF RequestInv
<1>1. /\ screen[q] = "open" /\ screen' = [screen EXCEPT ![q] = "done"]
      /\ UNCHANGED <<sessionVars, mapped, opening, signer, old, stored, known, agreed, unopened, mistimed>>
      /\ signer[q] = Unsigned /\ ~(kind[q] = "sign" /\ stage[q] = "ok")
  BY OpenScreen DEF Decline, allowlist, userHistory
<1>2. SessionInv'
  BY <1>1, SessionUnchanged
<1>3. CASE Unhandled(q)
  BY <1>1, <1>2, <1>3, ScreenKeeps DEF Decline
<1>4. CASE ~Unhandled(q)
  <2>1. screen' \in [Requests -> {"none", "open", "busy", "done", "closed"}]
        /\ \A r \in Requests : r # q => screen'[r] = screen[r]
    BY <1>0, <1>1 DEF QueueTypeOK
  <2>2. signer' \in [Requests -> Handlers \union {Unsigned}] /\ Reject(q)
    BY <1>0, <1>1, <1>4 DEF QueueTypeOK, Decline
  <2> QED BY <1>1, <1>2, <2>1, <2>2, RejectKeeps
<1> QED BY <1>3, <1>4

LEMMA CloseWindowKeeps ==
  ASSUME SessionInv, RequestInv, NEW q \in Requests, CloseWindow(q), kind' = kind
  PROVE  SessionInv' /\ RequestInv'
<1>0. QueueTypeOK /\ RequestsMatch
  BY DEF RequestInv
<1>1. /\ screen' = [screen EXCEPT ![q] = "closed"] /\ mapped' \subseteq mapped
      /\ UNCHANGED <<sessionVars, opening, signer, old, stored, known, agreed, unopened, mistimed>>
  BY DEF CloseWindow, allowlist, userHistory
<1>2. SessionInv'
  BY <1>1, SessionUnchanged
<1>3. CASE q \in mapped \intersect approval
  <2>1. screen' \in [Requests -> {"none", "open", "busy", "done", "closed"}] /\ screen'[q] = "closed"
        /\ \A r \in Requests : r # q => screen'[r] = screen[r]
    BY <1>0, <1>1 DEF QueueTypeOK
  <2>2. signer' \in [Requests -> Handlers \union {Unsigned}] /\ Reject(q)
    BY <1>0, <1>1, <1>3 DEF QueueTypeOK, CloseWindow
  <2>3. ~(kind[q] = "sign" /\ stage[q] = "ok")
    BY <1>0, <1>3 DEF RequestsMatch, RequestMatches
  <2> QED BY <1>1, <1>2, <2>1, <2>2, <2>3, RejectKeeps
<1>4. CASE q \notin mapped \intersect approval
  <2>1. UNCHANGED <<stage, approval, callback, entry>>
    BY <1>4 DEF CloseWindow
  <2> QED BY <1>1, <1>2, <2>1, ScreenKeeps
<1> QED BY <1>3, <1>4

\* The end of a handler that signs.
LEMMA SignerLeavesFacts ==
  ASSUME RequestInv, NEW q \in Requests, NEW h \in Handlers, signer[q] = h, SignerLeaves(q)
  PROVE  /\ q \in agreed /\ ~(kind[q] = "sign" /\ stage[q] = "ok")
         /\ screen' \in [Requests -> {"none", "open", "busy", "done", "closed"}]
         /\ screen'[q] \in {"done", "closed"}
         /\ signer' \in [Requests -> Handlers \union {Unsigned}] /\ signer'[q] = Unsigned
         /\ \A r \in Requests : r # q => screen'[r] = screen[r] /\ signer'[r] = signer[r]
         /\ UNCHANGED <<mapped, opening, old, stored, known, agreed, unopened, mistimed>>
<1>1. signer[q] # Unsigned
  BY RequestAssumption DEF Unsigned
<1>2. /\ q \in agreed /\ screen[q] \in {"busy", "closed"} /\ ~(kind[q] = "sign" /\ stage[q] = "ok")
  BY <1>1 DEF RequestInv, RequestsMatch, RequestMatches
<1>3. /\ signer \in [Requests -> Handlers \union {Unsigned}]
      /\ screen \in [Requests -> {"none", "open", "busy", "done", "closed"}]
  BY DEF RequestInv, QueueTypeOK
<1> QED BY <1>2, <1>3 DEF SignerLeaves, allowlist, userHistory

LEMMA SignKeeps ==
  ASSUME SessionInv, RequestInv, NEW q \in Requests, NEW h \in Handlers, Sign(q, h), kind' = kind
  PROVE  SessionInv' /\ RequestInv'
<1>0. QueueTypeOK /\ RequestsMatch
  BY DEF RequestInv
<1>1. /\ signer[q] = h /\ Stands(h, "account") /\ Ends(h) /\ SignerLeaves(q)
      /\ UNCHANGED <<onboarded, vaultOpen, attempts, restarts, sessionHistory>>
      /\ UNCHANGED <<flag, record>> \/ (flag' = FALSE /\ record' = "none")
  BY DEF Sign
<1>2. SessionInv'
  BY <1>1, SigningStepsKeepSession
<1>3. CASE Reject(q)
  BY <1>1, <1>2, <1>3, SignerLeavesFacts, RejectKeeps
<1>4. CASE Resolve(q)
  <2>1. /\ approval' = approval \ {q} /\ callback' = callback \ {q}
        /\ entry' = [entry EXCEPT ![q] = "resolved"]
        /\ stage' = IF stage[q] = "waiting" /\ q \in callback THEN [stage EXCEPT ![q] = "ok"] ELSE stage
    BY <1>4 DEF Resolve
  <2>2. QueueTypeOK'
    BY <1>0, <1>1, <2>1, SignerLeavesFacts DEF QueueTypeOK, Answers
  <2>3. NoSigningAfterRefusal'
    BY <1>0, <1>1, SignerLeavesFacts DEF RequestsMatch, NoSigningAfterRefusal
  <2>4. \A r \in Requests : RequestMatches(r)'
    <3> SUFFICES ASSUME NEW r \in Requests PROVE RequestMatches(r)'
      OBVIOUS
    <3>1. CASE r = q
      <4>1. /\ stage'[r] = stage[r] \/ (stage[r] = "waiting" /\ stage'[r] = "ok")
            /\ entry'[r] = "resolved" /\ r \notin approval' /\ r \notin callback'
            /\ signer'[r] = Unsigned /\ screen'[r] \in {"done", "closed"} /\ r \in agreed'
            /\ opening' = opening /\ unopened' = unopened
        BY <1>0, <1>1, <2>1, <3>1, SignerLeavesFacts DEF QueueTypeOK
      <4> QED BY <1>0, <4>1 DEF RequestsMatch, RequestMatches, Answers
    <3>2. CASE r # q
      <4>1. /\ stage'[r] = stage[r] /\ entry'[r] = entry[r] /\ screen'[r] = screen[r] /\ signer'[r] = signer[r]
            /\ UNCHANGED <<opening, agreed, unopened>>
        BY <1>0, <1>1, <2>1, <3>2, SignerLeavesFacts DEF QueueTypeOK
      <4> QED BY <1>0, <2>1, <4>1, RequestFrame DEF RequestsMatch
    <3> QED BY <3>1, <3>2
  <2> QED BY <1>2, <2>2, <2>3, <2>4 DEF RequestInv, RequestsMatch
<1> QED BY <1>3, <1>4 DEF Sign

LEMMA RequestsUnchanged ==
  ASSUME RequestInv, UNCHANGED requestVars PROVE RequestInv'
<1> USE DEF requestVars, queue, screens, allowlist, userHistory
<1>1. QueueTypeOK' /\ NoSigningAfterRefusal'
  BY DEF RequestInv, QueueTypeOK, RequestsMatch, NoSigningAfterRefusal
<1>2. \A r \in Requests : RequestMatches(r)'
  BY RequestFrame DEF RequestInv, RequestsMatch
<1> QED BY <1>1, <1>2 DEF RequestInv, RequestsMatch

LEMMA SignRestoresKeeps ==
  ASSUME SessionInv, RequestInv, NEW q \in Requests, NEW h \in Handlers, SignRestores(q, h), kind' = kind
  PROVE  SessionInv' /\ RequestInv'
<1>1. signer[q] = h /\ Restored(h) /\ UNCHANGED <<onboarded, vaultOpen, attempts, restarts, sessionHistory>>
  BY DEF SignRestores
<1>2. CASE flag' /\ Moves(h, "account") /\ UNCHANGED requestVars
  BY <1>1, <1>2, SigningStepsKeepSession, RequestsUnchanged
<1>3. CASE Ends(h) /\ Reject(q) /\ SignerLeaves(q)
  <2>1. SessionInv'
    BY <1>1, <1>3, SigningStepsKeepSession
  <2>2. RequestInv'
    BY <1>1, <1>3, SignerLeavesFacts, RejectKeeps
  <2> QED BY <2>1, <2>2
<1> QED BY <1>2, <1>3 DEF SignRestores

LEMMA RestartKeeps ==
  ASSUME SessionInv, RequestInv, RestartRequests, kind' = kind PROVE SessionInv' /\ RequestInv'
<1>0. QueueTypeOK /\ RequestsMatch /\ SessionInv'
  BY WorkerEndsKeepsInv DEF RequestInv, RestartRequests
<1>1. /\ stage' = [r \in Requests |-> IF stage[r] \in {"asked", "opening", "waiting"}
                                      THEN "refused" ELSE stage[r]]
      /\ approval' = {} /\ callback' = {} /\ mapped' = {} /\ opening' = {}
      /\ screen' = [r \in Requests |-> IF screen[r] = "busy" THEN "done" ELSE screen[r]]
      /\ signer' = [r \in Requests |-> Unsigned] /\ known' = stored
      /\ UNCHANGED <<entry, old, stored, agreed, unopened, mistimed>>
  BY DEF RestartRequests, userHistory
<1>2. QueueTypeOK'
  BY <1>0, <1>1 DEF QueueTypeOK, Answers
<1>3. NoSigningAfterRefusal'
  BY <1>0, <1>1 DEF RequestsMatch, NoSigningAfterRefusal
<1>4. \A r \in Requests : RequestMatches(r)'
  BY <1>0, <1>1 DEF RequestsMatch, RequestMatches, Answers
<1> QED BY <1>0, <1>2, <1>3, <1>4 DEF RequestInv, RequestsMatch

LEMMA RevokeKeeps ==
  ASSUME SessionInv, RequestInv, NEW o \in Origins, Revoke(o), kind' = kind PROVE SessionInv' /\ RequestInv'
<1>1. /\ stored' = stored \ {o} /\ UNCHANGED sessionVars
      /\ UNCHANGED <<stage, approval, callback, entry, mapped, opening, screen, signer, old, known>>
      /\ UNCHANGED <<agreed, unopened, mistimed>>
  BY DEF Revoke, queue, screens, userHistory
<1>2. QueueTypeOK' /\ NoSigningAfterRefusal'
  BY <1>1 DEF RequestInv, QueueTypeOK, RequestsMatch, NoSigningAfterRefusal
<1>3. \A r \in Requests : RequestMatches(r)'
  BY <1>1, RequestFrame DEF RequestInv, RequestsMatch
<1> QED BY <1>1, <1>2, <1>3, SessionUnchanged DEF RequestInv, RequestsMatch

-----------------------------------------------------------------------------
ExternalInv == SessionInv /\ calls \in 0..MaxCalls /\ RequestInv

LEMMA SessionStepKeepsInv ==
  ASSUME ExternalInv, SessionStep PROVE ExternalInv'
<1>1. RequestInv' /\ calls' \in 0..MaxCalls
  BY RequestsUnchanged, RequestAssumption DEF ExternalInv, SessionStep
<1>2. SessionInv'
  <2>1. ASSUME NEW h \in Handlers, HandlerStarts(h) PROVE SessionInv'
    BY <2>1, HandlerStartsKeepsInv DEF ExternalInv
  <2>2. ASSUME NEW h \in Handlers, HandlerStep(h) PROVE SessionInv'
    BY <2>2, LoadAttemptsKeepsInv, JudgePasswordKeepsInv, CountFailureKeepsInv, ClearAttemptsKeepsInv,
       QuietHandlers DEF ExternalInv, HandlerStep
  <2> QED BY <2>1, <2>2, TimePassesKeepsInv DEF ExternalInv, SessionStep
<1> QED BY <1>1, <1>2 DEF ExternalInv

LEMMA ExternalStepInv == ExternalInv /\ [ExternalNext]_externalVars => ExternalInv'
<1> SUFFICES ASSUME ExternalInv, [ExternalNext]_externalVars PROVE ExternalInv'
  OBVIOUS
<1>0. SessionInv /\ RequestInv /\ calls \in 0..MaxCalls
  BY DEF ExternalInv
<1>1. ASSUME NEW r \in Requests, WorkerStep(r) PROVE ExternalInv'
  <2>0. kind' = kind /\ calls' = calls
    BY <1>1 DEF WorkerStep
  <2>1. CASE AnswerAtOnce(r) \/ Enqueue(r) \/ Opened(r) \/ OpenFails(r) \/ TimeOut(r)
    <3>1. RequestInv'
      BY <1>0, <2>0, <2>1, AskKeeps, EnqueueKeeps, OpenedKeeps, OpenFailsKeeps, TimeOutKeeps
    <3>2. UNCHANGED sessionVars
      BY <2>1 DEF AnswerAtOnce, Enqueue, Opened, OpenFails, TimeOut
    <3> QED BY <1>0, <2>0, <3>1, <3>2, SessionUnchanged DEF ExternalInv
  <2>2. ASSUME NEW h \in Handlers, SignRestores(r, h) \/ Sign(r, h) PROVE ExternalInv'
    BY <1>0, <2>0, <2>2, SignRestoresKeeps, SignKeeps DEF ExternalInv
  <2> QED BY <1>1, <2>1, <2>2 DEF WorkerStep
<1>2. ASSUME NEW r \in Requests, BrowserStep(r) PROVE ExternalInv'
  BY <1>0, <1>2, BrowserKeeps, SessionUnchanged DEF ExternalInv, BrowserStep, Show, Age
<1>3. ASSUME NEW r \in Requests, UserStep(r), UNCHANGED <<kind, calls>> PROVE ExternalInv'
  <2>1. CASE Ask(r)
    BY <1>0, <1>3, <2>1, AskKeeps, SessionUnchanged DEF ExternalInv, Ask
  <2>2. ASSUME NEW h \in Handlers, Approve(r, h) PROVE ExternalInv'
    BY <1>0, <1>3, <2>2, ApproveKeeps DEF ExternalInv
  <2>3. CASE Decline(r)
    BY <1>0, <1>3, <2>3, DeclineKeeps DEF ExternalInv
  <2>4. CASE CloseWindow(r)
    BY <1>0, <1>3, <2>4, CloseWindowKeeps DEF ExternalInv
  <2> QED BY <1>3, <2>1, <2>2, <2>3, <2>4 DEF UserStep
<1>4. ASSUME NEW o \in Origins, Revoke(o), UNCHANGED <<kind, calls>> PROVE ExternalInv'
  BY <1>0, <1>4, RevokeKeeps DEF ExternalInv
<1>5. CASE OtherEnqueued /\ UNCHANGED <<kind, calls>>
  BY <1>0, <1>5, OtherEnqueuedKeeps, SessionUnchanged DEF ExternalInv, OtherEnqueued
<1>6. CASE RestartRequests /\ UNCHANGED <<kind, calls>>
  BY <1>0, <1>6, RestartKeeps DEF ExternalInv
<1>7. CASE UNCHANGED externalVars
  BY <1>0, <1>7, SessionUnchanged, RequestsUnchanged DEF ExternalInv, externalVars
<1> QED BY <1>1, <1>2, <1>3, <1>4, <1>5, <1>6, <1>7, SessionStepKeepsInv DEF ExternalNext

\* The inductive invariants hold in every reachable state of the session and of the
\* requests.
THEOREM ExternalInvariant == ExternalSpec => []ExternalInv
<1>1. RequestInit => ExternalInv
  BY RequestInitInv DEF ExternalInv
<1> QED BY <1>1, ExternalStepInv, PTL DEF ExternalSpec

\* The variables of the session and of the requests have their types.
THEOREM ExternalTyped == ExternalSpec => []RequestTypeOK
<1>1. ExternalInv => RequestTypeOK
  BY SessionMeans, TypesSplit DEF ExternalInv, RequestInv
<1> QED BY <1>1, ExternalInvariant, PTL

\* For any handlers in flight, restarts and requests that sign beside them: a lock that
\* was alone in flight holds until the next unlock, and unlocks that come one at a time
\* meet a lockout after MaxFailures wrong passwords.
THEOREM SessionIsSafe == ExternalSpec => []SessionSafe
<1>1. ExternalInv => SessionSafe
  BY SessionMeans DEF ExternalInv
<1> QED BY <1>1, ExternalInvariant, PTL

\* For any requests of any origins, with screens that fail to open, timers, sweeps,
\* closed windows and workers that end at any moment: nothing is signed for a page but
\* what the user approved, nor after a refusal.
THEOREM SigningIsConsented == ExternalSpec => []SigningConsented
<1>1. ExternalInv => SigningConsented
  BY DEF ExternalInv, RequestInv, RequestsMatch, RequestMatches, SigningConsented, SignedWasApproved
<1> QED BY <1>1, ExternalInvariant, PTL

-----------------------------------------------------------------------------
(* The composition: each part keeps its invariant in its own steps, and the    *)
(* steps of the other parts leave it alone.                                    *)

\* What holds of each part, session and requests together.
Deployed == DeployInv /\ NumbersTaken /\ Loads /\ VaultFollows
ExtensionInv == ExternalInv /\ PaymentInv /\ Deployed

LEMMA DeployedStep == Deployed /\ [DeployNext]_deployVars => Deployed'
BY DeployStepInv, NumbersStepInv, LoadsStep, VaultStep DEF Deployed

LEMMA ExtensionStepInv == ExtensionInv /\ [ExtensionNext]_extensionVars => ExtensionInv'
<1> SUFFICES ASSUME ExtensionInv, [ExtensionNext]_extensionVars PROVE ExtensionInv'
  OBVIOUS
<1>0. ExternalInv /\ PaymentInv /\ Deployed
  BY DEF ExtensionInv
<1>1. ASSUME UNCHANGED externalVars PROVE ExternalInv'
  BY <1>0, <1>1, ExternalStepInv
<1>2. ASSUME UNCHANGED paymentVars PROVE PaymentInv'
  BY <1>0, <1>2, PaymentStepInv
<1>3. ASSUME UNCHANGED deployVars PROVE Deployed'
  BY <1>0, <1>3, DeployedStep
<1>4. CASE SessionPart
  <2>1. ExternalInv'
    <3>1. CASE SessionStep
      BY <1>0, <3>1, SessionStepKeepsInv
    <3>2. CASE WorkerEnds /\ UNCHANGED <<requestVars, calls>>
      BY <1>0, <3>2, WorkerEndsKeepsInv, RequestsUnchanged DEF ExternalInv
    <3> QED BY <1>4, <3>1, <3>2 DEF SessionPart
  <2> QED BY <1>2, <1>3, <1>4, <2>1 DEF SessionPart, ExtensionInv
<1>5. CASE RequestsPart(ExternalNext)
  BY <1>0, <1>2, <1>3, <1>5, ExternalStepInv DEF RequestsPart, ExtensionInv
<1>6. CASE PaymentPart(PaymentNext)
  BY <1>0, <1>1, <1>3, <1>6, PaymentStepInv DEF PaymentPart, ExtensionInv
<1>7. CASE DeployPart(DeployNext)
  BY <1>0, <1>1, <1>2, <1>7, DeployedStep DEF DeployPart, ExtensionInv
<1>8. CASE UNCHANGED extensionVars
  BY <1>1, <1>2, <1>3, <1>8 DEF extensionVars, ExtensionInv
<1> QED BY <1>4, <1>5, <1>6, <1>7, <1>8 DEF ExtensionNext

\* The invariants of the parts hold together, from the start and in every step.
LEMMA ExtensionInvariant == ExtensionSpec => []ExtensionInv
<1>1. ExtensionInit => ExtensionInv
  BY RequestInitInv, PaymentInitInv, DeployInitInv, NumbersInit, VaultInit
     DEF ExtensionInit, ExtensionInv, ExternalInv, Deployed
<1> QED BY <1>1, ExtensionStepInv, PTL DEF ExtensionSpec

\* What the extension stores and shows has its types in every part at once, with
\* sequence numbers that transactions account for.
THEOREM ExtensionTyped == ExtensionSpec => []TypesOK
<1>1. ExtensionInv => TypesOK
  BY SessionMeans, TypesSplit, NumbersMean DEF ExtensionInv, Deployed, ExternalInv, RequestInv, PaymentInv, TypesOK
<1> QED BY <1>1, ExtensionInvariant, PTL

\* What the parts promise holds of the extension as a whole, of the sessions, requests,
\* payments and deployments of one browser together.
THEOREM ExtensionIsTrue ==
  ExtensionSpec => [](SessionSafe /\ SigningConsented /\ PaymentsTrue /\ DeploymentTrue)
<1>1. ASSUME ExtensionInv PROVE SessionSafe /\ SigningConsented /\ PaymentsTrue /\ DeploymentTrue
  <2>0. ExternalInv /\ PaymentInv /\ DeployInv /\ VaultFollows
    BY <1>1 DEF ExtensionInv, Deployed
  <2>1. SessionSafe
    BY <2>0, SessionMeans DEF ExternalInv
  <2>2. SigningConsented
    BY <2>0 DEF ExternalInv, RequestInv, RequestsMatch, RequestMatches, SigningConsented, SignedWasApproved
  <2>3. PaymentsTrue
    BY <2>0, PaymentInvMeans
  <2>4. DeploymentTrue
    BY <2>0, VaultMeans
  <2> QED BY <2>1, <2>2, <2>3, <2>4
<1> QED BY <1>1, ExtensionInvariant, PTL
================================================================================
