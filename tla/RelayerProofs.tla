----------------------------- MODULE RelayerProofs -----------------------------
(* Theorems about the execution of requests, for any calls, any number of      *)
(* processes and attempts, any crashes and failing queries, and about the life of *)
(* the processes, for any migrations, open requests, faults and budget.        *)
EXTENDS RelayExecution, RelayerProcess, SequenceTheorems, TLAPS

-----------------------------------------------------------------------------
(* Requests: the nonce record and the answers.                                 *)

\* What holds of one attempt: its nonce is on record before it reaches the
\* network, and the answer it carries is true.
Good(a, used, accepted) ==
  /\ a.at \in {"simulate", "submit"} => Nonce[a.call] \in used
  /\ a.answer = "success" => a.body \in accepted /\ Key[a.body] = Key[a.call]
  /\ a.at = "store" => a.answer = "success"
  /\ a.at \in {"lookup", "evict", "store"} => Key[a.call] \in Keys
  /\ a.at \notin {"store", "closed"} => a.body = a.call

AttemptsGood == \A i \in Ids : Good(attempts[i], usedNonces, ledger)

StoreTrue ==
  \A k \in DOMAIN idem :
    idem[k].answer = "success" /\ idem[k].body \in ledger /\ Key[idem[k].body] = k

Inv == TypeOK /\ AttemptsGood /\ StoreTrue /\ HandedIsRecorded

LEMMA AttemptFacts ==
  ASSUME Inv, NEW i \in Ids
  PROVE  /\ attempts[i] \in Attempt /\ i \in 1..Len(attempts)
         /\ Good(attempts[i], usedNonces, ledger)
         /\ NonceOf(i) \in Nat /\ KeyOf(i) \in Keys \union {NoKey}
<1>1. attempts \in Seq(Attempt)
  BY DEF Inv, TypeOK
<1>2. i \in 1..Len(attempts) /\ attempts[i] \in Attempt
  BY <1>1, LenProperties, ElementOfSeq DEF Ids
<1> QED BY <1>2, RelayAssumption DEF Inv, AttemptsGood, NonceOf, KeyOf, Attempt

\* Moving or answering an attempt leaves a record of the same type.
LEMMA RecordType ==
  \A a \in Attempt :
    /\ \A to \in Open \union {"closed"} : [a EXCEPT !.at = to] \in Attempt
    /\ \A to \in Open \union {"closed"}, answer \in Answers :
         [a EXCEPT !.answer = answer, !.at = to] \in Attempt
    /\ \A answer \in Answers, c \in Calls :
         [a EXCEPT !.at = "closed", !.answer = answer, !.body = c] \in Attempt
BY DEF Attempt

\* One attempt becomes b while the record of nonces and the ledger only grow.
LEMMA OneChanges ==
  ASSUME Inv, NEW i \in Ids, NEW b \in Attempt,
         attempts' = [attempts EXCEPT ![i] = b],
         usedNonces \subseteq usedNonces', ledger \subseteq ledger',
         Good(b, usedNonces', ledger')
  PROVE  attempts' \in Seq(Attempt) /\ AttemptsGood'
<1>1. attempts \in Seq(Attempt) /\ i \in 1..Len(attempts)
  BY AttemptFacts DEF Inv, TypeOK
<1>2. /\ attempts' \in Seq(Attempt) /\ Len(attempts') = Len(attempts)
      /\ \A j \in 1..Len(attempts) : attempts'[j] = IF j = i THEN b ELSE attempts[j]
  BY <1>1, ExceptSeq
<1>3. Ids = 1..Len(attempts) /\ Ids' = 1..Len(attempts)
  BY <1>1, <1>2, LenProperties DEF Ids
<1>4. ASSUME NEW j \in Ids PROVE Good(attempts'[j], usedNonces', ledger')
  <2>1. CASE j = i
    BY <1>2, <1>3, <2>1
  <2>2. CASE j # i
    BY <1>2, <1>3, <2>2, AttemptFacts DEF Good
  <2> QED BY <2>1, <2>2
<1> QED BY <1>2, <1>3, <1>4 DEF AttemptsGood

\* goto: the next phase is reached with the nonce it needs on record.
LEMMA GotoGood ==
  ASSUME Inv, NEW i \in Ids, NEW from \in Open, NEW to \in Open \union {"closed"},
         Goto(i, from, to), from # "store" \/ to = "closed",
         usedNonces \subseteq usedNonces', ledger \subseteq ledger',
         to \in {"simulate", "submit"} => NonceOf(i) \in usedNonces',
         to = "evict" => from = "lookup", to \notin {"lookup", "store"}
  PROVE  attempts' \in Seq(Attempt) /\ AttemptsGood'
<1> DEFINE b == [attempts[i] EXCEPT !.at = to]
<1>1. attempts[i] \in Attempt /\ Good(attempts[i], usedNonces, ledger)
  BY AttemptFacts
<1>2. b \in Attempt /\ b.at = to /\ b.call = attempts[i].call
      /\ b.answer = attempts[i].answer /\ b.body = attempts[i].body
  BY <1>1, RecordType DEF Attempt
<1>3. attempts' = [attempts EXCEPT ![i] = b] /\ attempts[i].at = from
  BY DEF Goto
<1>4. Good(b, usedNonces', ledger')
  BY <1>1, <1>2, <1>3 DEF Good, NonceOf, Open
<1> HIDE DEF b
<1> QED BY <1>2, <1>3, <1>4, OneChanges

\* respond: a success is given for an accepted transaction only.
LEMMA RespondGood ==
  ASSUME Inv, NEW i \in Ids, NEW answer \in Answers, Respond(i, answer),
         attempts[i].at \notin {"store", "closed"},
         usedNonces \subseteq usedNonces', ledger \subseteq ledger',
         answer = "success" => attempts[i].call \in ledger'
  PROVE  attempts' \in Seq(Attempt) /\ AttemptsGood'
<1> DEFINE to == IF Cacheable(i, answer) THEN "store" ELSE "closed"
           b == [attempts[i] EXCEPT !.answer = answer, !.at = to]
<1>1. attempts[i] \in Attempt /\ Good(attempts[i], usedNonces, ledger)
      /\ KeyOf(i) \in Keys \union {NoKey}
  BY AttemptFacts
<1>2. b \in Attempt /\ b.at = to /\ b.call = attempts[i].call
      /\ b.answer = answer /\ b.body = attempts[i].body
  BY <1>1, RecordType DEF Attempt, Open
<1>3. attempts' = [attempts EXCEPT ![i] = b]
  BY DEF Respond
<1>4. Good(b, usedNonces', ledger')
  BY <1>1, <1>2 DEF Good, Cacheable, KeyOf
<1> HIDE DEF b
<1> QED BY <1>2, <1>3, <1>4, OneChanges

\* A process ends.
LEMMA DeathGood ==
  ASSUME Inv, NEW h, HostDies(h), UNCHANGED <<usedNonces, ledger>>
  PROVE  attempts' \in Seq(Attempt) /\ AttemptsGood'
<1> DEFINE b(i) == IF attempts[i].host = h THEN [attempts[i] EXCEPT !.at = "closed"]
                   ELSE attempts[i]
<1>1. ASSUME NEW i \in Ids PROVE b(i) \in Attempt /\ Good(b(i), usedNonces, ledger)
  <2>1. attempts[i] \in Attempt /\ Good(attempts[i], usedNonces, ledger)
    BY AttemptFacts
  <2> QED BY <2>1 DEF Good, Attempt
<1>2. attempts \in Seq(Attempt)
  BY DEF Inv, TypeOK
<1>3. Ids = 1..Len(attempts) /\ Len(attempts) \in Nat
  BY <1>2, LenProperties DEF Ids
<1>4. attempts' = [i \in 1..Len(attempts) |-> b(i)]
  BY <1>3 DEF HostDies
<1> HIDE DEF b
<1>5. attempts' \in [1..Len(attempts) -> Attempt]
  BY <1>1, <1>3, <1>4
<1>6. attempts' \in Seq(Attempt)
  BY <1>3, <1>5, SeqDef
<1>7. Ids' = Ids /\ \A i \in Ids : attempts'[i] = b(i)
  BY <1>3, <1>4 DEF Ids
<1>8. AttemptsGood'
  BY <1>1, <1>7 DEF AttemptsGood
<1> QED BY <1>6, <1>8

LEMMA InitInv == Init => Inv
<1> SUFFICES ASSUME Init PROVE Inv
  OBVIOUS
<1>1. attempts \in Seq(Attempt) /\ Ids = {}
  BY EmptySeq DEF Init, Ids
<1>2. DOMAIN idem = {} /\ idem \in [DOMAIN idem -> Entry]
  BY DEF Init
<1> QED BY <1>1, <1>2 DEF Init, Inv, TypeOK, AttemptsGood, StoreTrue, HandedIsRecorded

LEMMA SendInv ==
  ASSUME Inv, NEW c \in Calls, NEW h \in Hosts, Send(c, h)
  PROVE  Inv'
<1> DEFINE b == [call |-> c, host |-> h, at |-> IF Key[c] = NoKey THEN "fresh" ELSE "lookup",
                 answer |-> "none", body |-> c]
<1>1. b \in Attempt /\ Good(b, usedNonces, ledger)
  BY RelayAssumption DEF Attempt, Open, Answers, Good
<1>2. attempts \in Seq(Attempt) /\ attempts' = Append(attempts, b)
      /\ UNCHANGED <<idem, usedNonces, ledger, handed, now, crashes, dbErrors>>
  BY DEF Inv, TypeOK, Send
<1> HIDE DEF b
<1>3. /\ attempts' \in Seq(Attempt) /\ Len(attempts') = Len(attempts) + 1
      /\ \A j \in 1..Len(attempts) : attempts'[j] = attempts[j]
      /\ attempts'[Len(attempts) + 1] = b
  BY <1>1, <1>2, AppendProperties
<1>4. Ids = 1..Len(attempts) /\ Ids' = 1..(Len(attempts) + 1) /\ Len(attempts) \in Nat
  BY <1>2, <1>3, LenProperties DEF Ids
<1>5. AttemptsGood'
  BY <1>1, <1>2, <1>3, <1>4 DEF Inv, AttemptsGood
<1> QED BY <1>2, <1>3, <1>5 DEF Inv, TypeOK, StoreTrue, HandedIsRecorded

LEMMA StepInv ==
  ASSUME Inv, NEW i \in Ids, Step(i)
  PROVE  Inv'
<1>0. attempts[i] \in Attempt /\ Good(attempts[i], usedNonces, ledger)
      /\ NonceOf(i) \in Nat /\ KeyOf(i) \in Keys \union {NoKey}
  BY AttemptFacts
<1>1. ASSUME attempts' \in Seq(Attempt), AttemptsGood',
             UNCHANGED <<idem, usedNonces, ledger, handed, now, crashes, dbErrors>>
      PROVE  Inv'
  BY <1>1 DEF Inv, TypeOK, StoreTrue, HandedIsRecorded
<1>2. ASSUME Lookup(i) PROVE Inv'
  <2>1. UNCHANGED <<idem, usedNonces, ledger, handed, now, crashes, dbErrors>>
        /\ attempts[i].at = "lookup"
    BY <1>2 DEF Lookup
  <2>2. ASSUME NEW to \in {"fresh", "evict"}, Goto(i, "lookup", to)
        PROVE  attempts' \in Seq(Attempt) /\ AttemptsGood'
    BY <2>1, <2>2, GotoGood DEF Open
  <2>3. ASSUME KeyOf(i) \in DOMAIN idem,
               attempts' = [attempts EXCEPT ![i].at = "closed", ![i].answer = idem[KeyOf(i)].answer,
                                            ![i].body = idem[KeyOf(i)].body]
        PROVE  attempts' \in Seq(Attempt) /\ AttemptsGood'
    <3> DEFINE e == idem[KeyOf(i)]
               b == [attempts[i] EXCEPT !.at = "closed", !.answer = e.answer, !.body = e.body]
    <3>1. e \in Entry /\ e.answer = "success" /\ e.body \in ledger /\ Key[e.body] = KeyOf(i)
      BY <2>3 DEF Inv, TypeOK, StoreTrue
    <3>2. e.answer \in Answers /\ e.body \in Calls
      BY <3>1 DEF Entry
    <3>3. attempts' = [attempts EXCEPT ![i] = b]
      BY <2>3
    <3> HIDE DEF e
    <3>4. b \in Attempt /\ b.at = "closed" /\ b.answer = e.answer /\ b.body = e.body
          /\ b.call = attempts[i].call
      BY <1>0, <3>2, RecordType DEF Attempt
    <3>5. Good(b, usedNonces', ledger')
      BY <2>1, <3>1, <3>4 DEF Good, KeyOf
    <3> HIDE DEF b
    <3> QED BY <2>1, <3>3, <3>4, <3>5, OneChanges
  <2> QED BY <1>1, <1>2, <2>1, <2>2, <2>3 DEF Lookup
<1>3. ASSUME Evict(i) PROVE Inv'
  <2>1. UNCHANGED <<usedNonces, ledger, handed, now, crashes, dbErrors>>
        /\ idem' = Evicted(KeyOf(i)) /\ Goto(i, "evict", "fresh")
    BY <1>3 DEF Evict
  <2>2. attempts' \in Seq(Attempt) /\ AttemptsGood'
    BY <2>1, GotoGood DEF Open
  <2>3. DOMAIN idem' \subseteq DOMAIN idem /\ idem' \in [DOMAIN idem' -> Entry]
        /\ \A k \in DOMAIN idem' : idem'[k] = idem[k]
    BY <2>1 DEF Evicted, Inv, TypeOK
  <2> QED BY <2>1, <2>2, <2>3 DEF Inv, TypeOK, StoreTrue, HandedIsRecorded
<1>4. ASSUME Store(i) PROVE Inv'
  <2>1. UNCHANGED <<usedNonces, ledger, handed, now, crashes, dbErrors>>
        /\ idem' = Stored(i) /\ Goto(i, "store", "closed") /\ attempts[i].at = "store"
    BY <1>4 DEF Store, Goto
  <2>2. attempts' \in Seq(Attempt) /\ AttemptsGood'
    BY <2>1, GotoGood DEF Open
  <2> DEFINE e == [answer |-> attempts[i].answer, body |-> attempts[i].body, expires |-> now + TTL]
  <2>3. /\ e \in Entry /\ e.answer = "success" /\ e.body \in ledger
        /\ Key[e.body] = KeyOf(i) /\ KeyOf(i) \in Keys
    BY <1>0, <2>1, RelayAssumption DEF Good, KeyOf, Attempt, Entry, Inv, TypeOK
  <2>4. idem' = [x \in DOMAIN idem \union {KeyOf(i)} |-> IF x = KeyOf(i) THEN e ELSE idem[x]]
    BY <2>1 DEF Stored
  <2> HIDE DEF e
  <2>5. DOMAIN idem' = DOMAIN idem \union {KeyOf(i)} /\ idem' \in [DOMAIN idem' -> Entry]
    BY <2>3, <2>4 DEF Inv, TypeOK
  <2>6. StoreTrue'
    BY <2>1, <2>3, <2>4, <2>5 DEF Inv, StoreTrue
  <2> QED BY <2>1, <2>2, <2>3, <2>5, <2>6 DEF Inv, TypeOK, HandedIsRecorded
<1>5. ASSUME AssertFresh(i) PROVE Inv'
  <2>1. attempts' \in Seq(Attempt) /\ AttemptsGood'
    BY <1>5, GotoGood, RespondGood DEF AssertFresh, Open, Answers
  <2> QED BY <1>1, <1>5, <2>1 DEF AssertFresh
<1>6. ASSUME Verify(i) PROVE Inv'
  <2>1. attempts' \in Seq(Attempt) /\ AttemptsGood'
    BY <1>6, GotoGood, RespondGood DEF Verify, Open, Answers
  <2> QED BY <1>1, <1>6, <2>1 DEF Verify
<1>7. ASSUME Track(i) PROVE Inv'
  <2>1. usedNonces' = usedNonces \union {NonceOf(i)} /\ Goto(i, "track", "simulate")
        /\ UNCHANGED <<idem, ledger, handed, now, crashes, dbErrors>>
    BY <1>7 DEF Track, Tracked
  <2>2. attempts' \in Seq(Attempt) /\ AttemptsGood'
    BY <2>1, GotoGood DEF Open
  <2> QED BY <1>0, <2>1, <2>2 DEF Inv, TypeOK, StoreTrue, HandedIsRecorded
<1>8. ASSUME Simulate(i) PROVE Inv'
  <2>1. attempts[i].at = "simulate" /\ NonceOf(i) \in usedNonces
        /\ UNCHANGED <<idem, usedNonces, ledger, handed, now, crashes, dbErrors>>
    BY <1>0, <1>8 DEF Simulate, Good, NonceOf
  <2>2. attempts' \in Seq(Attempt) /\ AttemptsGood'
    BY <1>8, <2>1, GotoGood, RespondGood DEF Simulate, Open, Answers
  <2> QED BY <1>1, <2>1, <2>2
<1>9. ASSUME Submit(i) PROVE Inv'
  <2> DEFINE c == attempts[i].call
  <2>1. /\ attempts[i].at = "submit" /\ handed' = handed \union {c}
        /\ ledger' \in {ledger, ledger \union {c}}
        /\ UNCHANGED <<idem, usedNonces, now, crashes, dbErrors>>
    BY <1>9 DEF Submit
  <2>2. c \in Calls /\ Nonce[c] \in usedNonces
    BY <1>0, <2>1 DEF Good, Attempt
  <2>3. PICK answer \in SubmitAnswer(i) : Respond(i, answer)
    BY <1>9 DEF Submit
  <2>4. answer \in Answers /\ (answer = "success" => c \in ledger')
    BY <2>3 DEF SubmitAnswer, Answers
  <2>5. attempts' \in Seq(Attempt) /\ AttemptsGood'
    BY <2>1, <2>3, <2>4, RespondGood
  <2>6. ledger \subseteq ledger' /\ ledger' \subseteq Calls /\ handed' \subseteq Calls
    BY <2>1, <2>2 DEF Inv, TypeOK
  <2> HIDE DEF c
  <2> QED BY <2>1, <2>2, <2>5, <2>6 DEF Inv, TypeOK, StoreTrue, HandedIsRecorded
<1> QED BY <1>2, <1>3, <1>4, <1>5, <1>6, <1>7, <1>8, <1>9 DEF Step

LEMMA FailureInv ==
  ASSUME Inv, \/ \E i \in Ids : QueryFails(i)
              \/ \E h \in Hosts : Crash(h)
              \/ Tick
  PROVE  Inv'
<1>1. ASSUME NEW i \in Ids, QueryFails(i) PROVE Inv'
  <2>1. UNCHANGED <<idem, usedNonces, ledger, handed, now, crashes>> /\ dbErrors' = dbErrors + 1
    BY <1>1 DEF QueryFails
  <2>2. attempts' \in Seq(Attempt) /\ AttemptsGood'
    BY <1>1, <2>1, GotoGood, RespondGood, DeathGood DEF QueryFails, Open, Answers
  <2> QED BY <2>1, <2>2 DEF Inv, TypeOK, StoreTrue, HandedIsRecorded
<1>2. ASSUME NEW h \in Hosts, Crash(h) PROVE Inv'
  <2>1. UNCHANGED <<idem, usedNonces, ledger, handed, now, dbErrors>> /\ crashes' = crashes + 1
    BY <1>2 DEF Crash
  <2>2. attempts' \in Seq(Attempt) /\ AttemptsGood'
    BY <1>2, <2>1, DeathGood DEF Crash
  <2> QED BY <2>1, <2>2 DEF Inv, TypeOK, StoreTrue, HandedIsRecorded
<1>3. ASSUME Tick PROVE Inv'
  BY <1>3 DEF Tick, Inv, TypeOK, AttemptsGood, Ids, StoreTrue, HandedIsRecorded
<1> QED BY <1>1, <1>2, <1>3

LEMMA InvInductive == Inv /\ [Next]_vars => Inv'
<1> SUFFICES ASSUME Inv, [Next]_vars PROVE Inv'
  OBVIOUS
<1>1. CASE UNCHANGED vars
  BY <1>1 DEF vars, Inv, TypeOK, AttemptsGood, Ids, StoreTrue, HandedIsRecorded
<1>2. CASE Next
  BY <1>2, SendInv, StepInv, FailureInv DEF Next
<1> QED BY <1>1, <1>2

\* The tables and the attempts keep their types (executeRelay and its stores).
THEOREM TypeCorrect == Spec => []TypeOK
<1>1. Inv => TypeOK
  BY DEF Inv
<1> QED BY InitInv, InvInductive, <1>1, PTL DEF Spec

\* No transaction leaves the relayer before its nonce is on record
\* (executeRelay tracks before it submits).
THEOREM NonceRecordedFirst == Spec => []HandedIsRecorded
<1>1. Inv => HandedIsRecorded
  BY DEF Inv
<1> QED BY InitInv, InvInductive, <1>1, PTL DEF Spec

\* Successes are true, given or repeated (createIdempotencyMiddleware).
THEOREM SuccessesTrue == Spec => []SuccessIsTrue
<1>1. Inv => SuccessIsTrue
  BY DEF Inv, AttemptsGood, Good, StoreTrue, SuccessIsTrue, KeyOf
<1> QED BY InitInv, InvInductive, <1>1, PTL DEF Spec

\* Only goto("fresh", "verify") of its own takes an attempt past the check.
LEMMA OwnGoto ==
  ASSUME Inv, NEW i \in Ids, NEW j \in Ids, attempts[i].at = "fresh",
         attempts'[i].at = "verify", NEW from, NEW to, Goto(j, from, to)
  PROVE  i = j /\ from = "fresh" /\ to = "verify"
<1>1. attempts \in [Ids -> Attempt] /\ attempts[i] \in Attempt /\ attempts[j] \in Attempt
  BY AttemptFacts, LenProperties DEF Inv, TypeOK, Ids
<1>2. attempts' = [attempts EXCEPT ![j] = [attempts[j] EXCEPT !.at = to]]
      /\ attempts[j].at = from
  BY DEF Goto
<1> DEFINE b == [attempts[j] EXCEPT !.at = to]
<1>3. b.at = to
  BY <1>1 DEF Attempt
<1> HIDE DEF b
<1>4. attempts'[i] = IF i = j THEN b ELSE attempts[i]
  BY <1>1, <1>2 DEF b
<1> QED BY <1>2, <1>3, <1>4

LEMMA NotByAnswer ==
  ASSUME Inv, NEW i \in Ids, NEW j \in Ids, attempts[i].at = "fresh",
         attempts'[i].at = "verify", NEW answer, Respond(j, answer)
  PROVE  FALSE
<1> DEFINE to == IF Cacheable(j, answer) THEN "store" ELSE "closed"
           b == [attempts[j] EXCEPT !.answer = answer, !.at = to]
<1>1. attempts \in [Ids -> Attempt] /\ attempts[i] \in Attempt /\ attempts[j] \in Attempt
  BY AttemptFacts, LenProperties DEF Inv, TypeOK, Ids
<1>2. attempts' = [attempts EXCEPT ![j] = b]
  BY DEF Respond
<1>3. b.at \in {"store", "closed"}
  BY <1>1 DEF Attempt
<1> HIDE DEF b
<1>4. attempts'[i] = IF i = j THEN b ELSE attempts[i]
  BY <1>1, <1>2
<1> QED BY <1>3, <1>4

LEMMA NotByDeath ==
  ASSUME Inv, NEW i \in Ids, attempts[i].at = "fresh", attempts'[i].at = "verify",
         NEW h, HostDies(h)
  PROVE  FALSE
<1>1. attempts[i] \in Attempt
  BY AttemptFacts
<1>2. attempts'[i] = IF attempts[i].host = h THEN [attempts[i] EXCEPT !.at = "closed"]
                     ELSE attempts[i]
  BY DEF HostDies
<1> QED BY <1>1, <1>2 DEF Attempt

LEMMA PassesByCheck ==
  ASSUME Inv, Next, NEW i \in Ids, attempts[i].at = "fresh", attempts'[i].at = "verify"
  PROVE  NonceOf(i) \notin usedNonces
<1>1. ASSUME NEW c \in Calls, NEW h \in Hosts, Send(c, h) PROVE FALSE
  <2> DEFINE b == [call |-> c, host |-> h, at |-> IF Key[c] = NoKey THEN "fresh" ELSE "lookup",
                   answer |-> "none", body |-> c]
  <2>1. b \in Attempt
    BY RelayAssumption DEF Attempt, Open, Answers
  <2>2. attempts \in Seq(Attempt) /\ attempts' = Append(attempts, b) /\ i \in 1..Len(attempts)
    BY <1>1, AttemptFacts DEF Inv, TypeOK, Send
  <2> HIDE DEF b
  <2>3. attempts'[i] = attempts[i]
    BY <2>1, <2>2, AppendProperties
  <2> QED BY <2>3
<1>2. ASSUME NEW j \in Ids, Step(j) PROVE NonceOf(i) \notin usedNonces
  <2>1. CASE AssertFresh(j)
    BY <2>1, OwnGoto, NotByAnswer DEF AssertFresh, FreshNonce
  <2>2. CASE Lookup(j)
    <3>1. ~ Goto(j, "lookup", "fresh") /\ ~ Goto(j, "lookup", "evict")
      BY OwnGoto
    <3> DEFINE e == idem[KeyOf(j)]
               b == [attempts[j] EXCEPT !.at = "closed", !.answer = e.answer, !.body = e.body]
    <3>2. attempts' = [attempts EXCEPT ![j] = b]
      BY <2>2, <3>1 DEF Lookup
    <3>3. attempts \in [Ids -> Attempt] /\ attempts[j] \in Attempt
      BY AttemptFacts, LenProperties DEF Inv, TypeOK, Ids
    <3>4. b.at = "closed"
      BY <3>3 DEF Attempt
    <3> HIDE DEF b
    <3>5. attempts'[i] = IF i = j THEN b ELSE attempts[i]
      BY <3>2, <3>3
    <3> QED BY <3>4, <3>5
  <2>3. CASE Evict(j) \/ Store(j) \/ Track(j)
    BY <2>3, OwnGoto DEF Evict, Store, Track
  <2>4. CASE Verify(j) \/ Simulate(j)
    BY <2>4, OwnGoto, NotByAnswer DEF Verify, Simulate
  <2>5. CASE Submit(j)
    BY <2>5, NotByAnswer DEF Submit
  <2> QED BY <1>2, <2>1, <2>2, <2>3, <2>4, <2>5 DEF Step
<1>3. ASSUME NEW j \in Ids, QueryFails(j) PROVE FALSE
  BY <1>3, OwnGoto, NotByAnswer, NotByDeath DEF QueryFails
<1>4. ASSUME NEW h \in Hosts, Crash(h) PROVE FALSE
  BY <1>4, NotByDeath DEF Crash
<1>5. ~ Tick
  BY DEF Tick
<1> QED BY <1>1, <1>2, <1>3, <1>4, <1>5 DEF Next

\* The nonce check lets a request pass only while no transaction with its
\* nonce has left (assertFresh).
THEOREM CheckedBeforeHanded == Spec => PassesOnlyUnhanded
<1> DEFINE Passes == \A i \in Ids :
      attempts[i].at = "fresh" /\ attempts'[i].at = "verify"
        => \A c \in handed : Nonce[c] # NonceOf(i)
<1>1. Inv /\ [Next]_vars => [Passes]_vars
  <2> SUFFICES ASSUME Inv, Next, NEW i \in Ids,
                      attempts[i].at = "fresh", attempts'[i].at = "verify",
                      NEW c \in handed, Nonce[c] = NonceOf(i)
               PROVE  FALSE
    BY DEF vars
  <2>1. Nonce[c] \in usedNonces
    BY DEF Inv, HandedIsRecorded
  <2> QED BY <2>1, PassesByCheck
<1> QED BY InitInv, InvInductive, <1>1, PTL DEF Spec, PassesOnlyUnhanded

-----------------------------------------------------------------------------
(* Processes: migrations and the shutdown.                                     *)

-----------------------------------------------------------------------------
\* The parts of the inductive invariant.

ProcessTypes ==
  /\ phase \in [Procs -> Phases]
  /\ applied \subseteq 1..Migrations
  /\ lock \in Procs \union {Nobody}
  /\ next \in [Procs -> 1..(Migrations + 1)]
  /\ missing \in [Procs -> BOOLEAN]
  /\ done \in [Procs -> SUBSET (1..Migrations)]
  /\ collided \in BOOLEAN
  /\ polling \in [Procs -> BOOLEAN] /\ ticking \in [Procs -> BOOLEAN]
  /\ conns \in [Procs -> Nat] /\ orphans \in [Procs -> Nat]
  /\ closed \in [Procs -> Results] /\ drained \in [Procs -> Results]
  /\ pool \in [Procs -> {"open", "ending", "ended"}]
  /\ elapsed \in [Procs -> Nat] /\ closeBy \in [Procs -> Nat]
  /\ code \in [Procs -> {0, 1}]
  /\ faults \in Nat

\* A transaction is open only under the lock.
OnlyUnderLock(p) == phase[p] # "migrating" \/ lock # p => done[p] = {} /\ ~missing[p]

\* What a process has passed is committed or in its own transaction ...
Passed(p) ==
  phase[p] = "migrating" =>
    \A m \in 1..Migrations : m < next[p] => m \in applied \/ m \in done[p]

\* ... and what it found missing still is.
FoundMissing(p) == missing[p] => next[p] \in (1..Migrations) \ applied

ServesMigrated(p) == Running(p) => applied = 1..Migrations

\* What the event loop knows at each step of runShutdown, in flags ...
Flags(p) ==
  /\ phase[p] \in {"migrating", "serving"} => closed[p] = "pending" /\ drained[p] = "pending"
  /\ phase[p] \in {"draining", "closing"} => ~polling[p]
  /\ phase[p] \in {"draining", "closing"} /\ drained[p] = "yes" => ~ticking[p]
  /\ phase[p] = "closing" => drained[p] = "yes"
  /\ phase[p] = "exited" /\ code[p] = 0 => ~ticking[p]

\* ... and in numbers.
Deadlines(p) ==
  /\ elapsed[p] <= Budget
  /\ phase[p] = "closing" => closeBy[p] <= Budget /\ closed[p] = "yes" /\ drained[p] = "yes"
  /\ phase[p] \in {"draining", "closing"} /\ closed[p] = "yes" => conns[p] = 0
  /\ closed[p] = "no" \/ drained[p] = "no" => elapsed[p] = Budget
  /\ phase[p] = "exited" /\ code[p] = 0 => conns[p] = 0 /\ pool[p] = "ended"

ProcessInv ==
  /\ ProcessTypes
  /\ ~collided
  /\ \A p \in Procs : OnlyUnderLock(p) /\ Passed(p) /\ FoundMissing(p) /\ ServesMigrated(p)
  /\ \A p \in Procs : Flags(p)
  /\ \A p \in Procs : Deadlines(p)

\* The steps of one process.
ProcStep(p) ==
  \/ Boot(p) \/ TakeLock(p) \/ LookForMigration(p) \/ ApplyMigration(p)
  \/ Serve(p) \/ Dies(p) \/ TickStarts(p) \/ TickEnds(p) \/ RequestArrives(p)
  \/ RequestAnswered(p) \/ ClientLeaves(p) \/ OrphanEnds(p) \/ Signal(p)
  \/ SignalAgain(p) \/ ServerCloses(p) \/ SchedulerDrains(p) \/ DrainTimesOut(p)
  \/ StartClosers(p) \/ NoBudgetLeft(p) \/ PoolEnds(p) \/ PoolFails(p)
  \/ Elapse(p)

LEMMA NextIsAStep == ProcessNext <=> \E p \in Procs : ProcStep(p)
BY DEF ProcessNext, Migrate, Wind, ProcStep

-----------------------------------------------------------------------------
\* Every step keeps the types.
LEMMA StepKeepsTypes ==
  ASSUME ProcessInv, NEW p \in Procs, ProcStep(p)
  PROVE  ProcessTypes'
<1> USE ProcessAssumption DEF Phases, Results, migrationVars, workVars, shutdownVars
<1>0. ProcessTypes /\ FoundMissing(p)
  BY DEF ProcessInv
<1>1. CASE Boot(p)
  BY <1>0, <1>1 DEF Boot, ProcessTypes
<1>2. CASE TakeLock(p)
  BY <1>0, <1>2 DEF TakeLock, ProcessTypes
<1>3. CASE LookForMigration(p)
  <2>0. next[p] <= Migrations
    BY <1>0, <1>3 DEF LookForMigration, LockHeld, FoundMissing, ProcessTypes
  <2>1. next[p] \in Nat /\ next[p] + 1 \in 1..(Migrations + 1)
    <3>1. next[p] \in 1..(Migrations + 1)
      BY <1>0 DEF ProcessTypes
    <3> QED BY <2>0, <3>1
  <2>2. next' \in [Procs -> 1..(Migrations + 1)]
    BY <1>0, <1>3, <2>1 DEF LookForMigration, ProcessTypes
  <2>3. done' \in [Procs -> SUBSET (1..Migrations)]
    <3>1. next[p] \in 1..Migrations
      <4>1. next[p] \in 1..(Migrations + 1)
        BY <1>0 DEF ProcessTypes
      <4> QED BY <2>0, <4>1
    <3> QED BY <1>0, <1>3, <3>1 DEF LookForMigration, ProcessTypes
  <2>4. missing' \in [Procs -> BOOLEAN] /\ collided' \in BOOLEAN
    BY <1>0, <1>3 DEF LookForMigration, ProcessTypes
  <2> QED BY <1>0, <1>3, <2>2, <2>3, <2>4 DEF LookForMigration, ProcessTypes
<1>4. CASE ApplyMigration(p)
  <2>0. next[p] <= Migrations
    BY <1>0, <1>4 DEF ApplyMigration, LockHeld, FoundMissing, ProcessTypes
  <2>1. next[p] \in Nat /\ next[p] + 1 \in 1..(Migrations + 1)
    <3>1. next[p] \in 1..(Migrations + 1)
      BY <1>0 DEF ProcessTypes
    <3> QED BY <2>0, <3>1
  <2>2. next' \in [Procs -> 1..(Migrations + 1)]
    BY <1>0, <1>4, <2>1 DEF ApplyMigration, ProcessTypes
  <2>3. done' \in [Procs -> SUBSET (1..Migrations)]
    <3>1. next[p] \in 1..Migrations
      <4>1. next[p] \in 1..(Migrations + 1)
        BY <1>0 DEF ProcessTypes
      <4> QED BY <2>0, <4>1
    <3> QED BY <1>0, <1>4, <3>1 DEF ApplyMigration, ProcessTypes
  <2>4. missing' \in [Procs -> BOOLEAN] /\ collided' \in BOOLEAN
    BY <1>0, <1>4 DEF ApplyMigration, ProcessTypes
  <2> QED BY <1>0, <1>4, <2>2, <2>3, <2>4 DEF ApplyMigration, ProcessTypes
<1>5. CASE Serve(p)
  BY <1>0, <1>5 DEF Serve, EndTransaction, LockHeld, ProcessTypes
<1>6. CASE Dies(p)
  BY <1>0, <1>6 DEF Dies, EndTransaction, Exit, ProcessTypes
<1>7. CASE TickStarts(p)
  BY <1>0, <1>7 DEF TickStarts, Running, ProcessTypes
<1>8. CASE TickEnds(p)
  BY <1>0, <1>8 DEF TickEnds, Running, ProcessTypes
<1>9. CASE RequestArrives(p)
  BY <1>0, <1>9 DEF RequestArrives, ProcessTypes
<1>10. CASE RequestAnswered(p)
  BY <1>0, <1>10 DEF RequestAnswered, Running, ProcessTypes
<1>11. CASE ClientLeaves(p)
  BY <1>0, <1>11 DEF ClientLeaves, Running, ProcessTypes
<1>12. CASE OrphanEnds(p)
  BY <1>0, <1>12 DEF OrphanEnds, Running, ProcessTypes
<1>13. CASE Signal(p)
  BY <1>0, <1>13 DEF Signal, PollingStopped, ProcessTypes
<1>14. CASE SignalAgain(p)
  BY <1>0, <1>14 DEF SignalAgain, Exit, ProcessTypes
<1>15. CASE ServerCloses(p)
  BY <1>0, <1>15 DEF ServerCloses, ProcessTypes
<1>16. CASE SchedulerDrains(p)
  BY <1>0, <1>16 DEF SchedulerDrains, TickIsOver, ProcessTypes
<1>17. CASE DrainTimesOut(p)
  BY <1>0, <1>17 DEF DrainTimesOut, ProcessTypes
<1>18. CASE StartClosers(p)
  BY <1>0, <1>18 DEF StartClosers, Remaining, Settled, ProcessTypes
<1>19. CASE NoBudgetLeft(p)
  BY <1>0, <1>19 DEF NoBudgetLeft, Exit, Settled, Remaining, ProcessTypes
<1>20. CASE PoolEnds(p)
  BY <1>0, <1>20 DEF PoolEnds, Exit, CleanCode, ProcessTypes
<1>21. CASE PoolFails(p)
  BY <1>0, <1>21 DEF PoolFails, Exit, ProcessTypes
<1>22. CASE Elapse(p)
  BY <1>0, <1>22 DEF Elapse, Settled, ProcessTypes
<1> QED BY <1>1, <1>2, <1>3, <1>4, <1>5, <1>6, <1>7, <1>8, <1>9, <1>10, <1>11, <1>12,
           <1>13, <1>14, <1>15, <1>16, <1>17, <1>18, <1>19, <1>20, <1>21, <1>22 DEF ProcStep

-----------------------------------------------------------------------------
\* A step of one process leaves the others as they are.
LEMMA OthersStay ==
  ASSUME ProcessTypes, NEW p \in Procs, ProcStep(p), NEW q \in Procs, q # p
  PROVE  /\ phase'[q] = phase[q] /\ next'[q] = next[q] /\ missing'[q] = missing[q]
         /\ done'[q] = done[q] /\ polling'[q] = polling[q] /\ ticking'[q] = ticking[q]
         /\ conns'[q] = conns[q] /\ closed'[q] = closed[q] /\ drained'[q] = drained[q]
         /\ pool'[q] = pool[q] /\ elapsed'[q] = elapsed[q] /\ closeBy'[q] = closeBy[q]
         /\ code'[q] = code[q]
<1> USE DEF ProcessTypes, migrationVars, workVars, shutdownVars
<1>1. CASE Boot(p)
  BY <1>1 DEF Boot
<1>2. CASE TakeLock(p)
  BY <1>2 DEF TakeLock
<1>3. CASE LookForMigration(p)
  BY <1>3 DEF LookForMigration, LockHeld
<1>4. CASE ApplyMigration(p)
  BY <1>4 DEF ApplyMigration, LockHeld
<1>5. CASE Serve(p)
  BY <1>5 DEF Serve, EndTransaction, LockHeld
<1>6. CASE Dies(p)
  BY <1>6 DEF Dies, EndTransaction, Exit
<1>7. CASE TickStarts(p)
  BY <1>7 DEF TickStarts, Running
<1>8. CASE TickEnds(p)
  BY <1>8 DEF TickEnds, Running
<1>9. CASE RequestArrives(p)
  BY <1>9 DEF RequestArrives
<1>10. CASE RequestAnswered(p)
  BY <1>10 DEF RequestAnswered, Running
<1>11. CASE ClientLeaves(p)
  BY <1>11 DEF ClientLeaves, Running
<1>12. CASE OrphanEnds(p)
  BY <1>12 DEF OrphanEnds, Running
<1>13. CASE Signal(p)
  BY <1>13 DEF Signal, PollingStopped
<1>14. CASE SignalAgain(p)
  BY <1>14 DEF SignalAgain, Exit
<1>15. CASE ServerCloses(p)
  BY <1>15 DEF ServerCloses
<1>16. CASE SchedulerDrains(p)
  BY <1>16 DEF SchedulerDrains, TickIsOver
<1>17. CASE DrainTimesOut(p)
  BY <1>17 DEF DrainTimesOut
<1>18. CASE StartClosers(p)
  BY <1>18 DEF StartClosers, Remaining, Settled
<1>19. CASE NoBudgetLeft(p)
  BY <1>19 DEF NoBudgetLeft, Exit, Settled, Remaining
<1>20. CASE PoolEnds(p)
  BY <1>20 DEF PoolEnds, Exit, CleanCode
<1>21. CASE PoolFails(p)
  BY <1>21 DEF PoolFails, Exit
<1>22. CASE Elapse(p)
  BY <1>22 DEF Elapse, Settled
<1> QED BY <1>1, <1>2, <1>3, <1>4, <1>5, <1>6, <1>7, <1>8, <1>9, <1>10, <1>11, <1>12,
           <1>13, <1>14, <1>15, <1>16, <1>17, <1>18, <1>19, <1>20, <1>21, <1>22 DEF ProcStep

-----------------------------------------------------------------------------
LEMMA StepKeepsFlags ==
  ASSUME ProcessInv, NEW p \in Procs, ProcStep(p)
  PROVE  Flags(p)'
<1> USE ProcessAssumption DEF ProcessTypes, Phases, Results, migrationVars, workVars, shutdownVars
<1>0. ProcessTypes /\ Flags(p) /\ Deadlines(p)
  BY DEF ProcessInv
<1>1. CASE Boot(p)
  BY <1>0, <1>1 DEF Boot, Flags
<1>2. CASE TakeLock(p)
  BY <1>0, <1>2 DEF TakeLock, Flags
<1>3. CASE LookForMigration(p)
  BY <1>0, <1>3 DEF LookForMigration, LockHeld, Flags
<1>4. CASE ApplyMigration(p)
  BY <1>0, <1>4 DEF ApplyMigration, LockHeld, Flags
<1>5. CASE Serve(p)
  BY <1>0, <1>5 DEF Serve, EndTransaction, LockHeld, Flags
<1>6. CASE Dies(p)
  BY <1>0, <1>6 DEF Dies, EndTransaction, Exit, Flags
<1>7. CASE TickStarts(p)
  BY <1>0, <1>7 DEF TickStarts, Running, Flags
<1>8. CASE TickEnds(p)
  BY <1>0, <1>8 DEF TickEnds, Running, Flags
<1>9. CASE RequestArrives(p)
  BY <1>0, <1>9 DEF RequestArrives, Flags
<1>10. CASE RequestAnswered(p)
  BY <1>0, <1>10 DEF RequestAnswered, Running, Flags
<1>11. CASE ClientLeaves(p)
  BY <1>0, <1>11 DEF ClientLeaves, Running, Flags
<1>12. CASE OrphanEnds(p)
  BY <1>0, <1>12 DEF OrphanEnds, Running, Flags
<1>13. CASE Signal(p)
  BY <1>0, <1>13 DEF Signal, PollingStopped, Flags
<1>14. CASE SignalAgain(p)
  BY <1>0, <1>14 DEF SignalAgain, Exit, Flags
<1>15. CASE ServerCloses(p)
  BY <1>0, <1>15 DEF ServerCloses, Flags
<1>16. CASE SchedulerDrains(p)
  BY <1>0, <1>16 DEF SchedulerDrains, TickIsOver, Flags
<1>17. CASE DrainTimesOut(p)
  BY <1>0, <1>17 DEF DrainTimesOut, Flags
<1>18. CASE StartClosers(p)
  <2>1. drained[p] = "yes"
    <3>1. elapsed[p] \in Nat /\ Budget - elapsed[p] > 0 /\ drained[p] \in Results /\ drained[p] # "pending"
      BY <1>0, <1>18 DEF StartClosers, Remaining, Settled
    <3>2. drained[p] # "no"
      BY <1>0, <3>1 DEF Deadlines
    <3> QED BY <3>1, <3>2
  <2> QED BY <1>0, <1>18, <2>1 DEF StartClosers, Settled, Flags
<1>19. CASE NoBudgetLeft(p)
  BY <1>0, <1>19 DEF NoBudgetLeft, Exit, Settled, Remaining, Flags
<1>20. CASE PoolEnds(p)
  BY <1>0, <1>20 DEF PoolEnds, Exit, CleanCode, Flags
<1>21. CASE PoolFails(p)
  BY <1>0, <1>21 DEF PoolFails, Exit, Flags
<1>22. CASE Elapse(p)
  BY <1>0, <1>22 DEF Elapse, Settled, Flags
<1> QED BY <1>1, <1>2, <1>3, <1>4, <1>5, <1>6, <1>7, <1>8, <1>9, <1>10, <1>11, <1>12,
           <1>13, <1>14, <1>15, <1>16, <1>17, <1>18, <1>19, <1>20, <1>21, <1>22 DEF ProcStep

-----------------------------------------------------------------------------
LEMMA StepKeepsDeadlines ==
  ASSUME ProcessInv, NEW p \in Procs, ProcStep(p)
  PROVE  Deadlines(p)'
<1> USE ProcessAssumption DEF ProcessTypes, Phases, Results, migrationVars, workVars, shutdownVars
<1>0. ProcessTypes /\ Flags(p) /\ Deadlines(p)
  BY DEF ProcessInv
<1>1. CASE Boot(p)
  BY <1>0, <1>1 DEF Boot, Deadlines, Flags
<1>2. CASE TakeLock(p)
  BY <1>0, <1>2 DEF TakeLock, Deadlines, Flags
<1>3. CASE LookForMigration(p)
  BY <1>0, <1>3 DEF LookForMigration, LockHeld, Deadlines, Flags
<1>4. CASE ApplyMigration(p)
  BY <1>0, <1>4 DEF ApplyMigration, LockHeld, Deadlines, Flags
<1>5. CASE Serve(p)
  BY <1>0, <1>5 DEF Serve, EndTransaction, LockHeld, Deadlines, Flags
<1>6. CASE Dies(p)
  BY <1>0, <1>6 DEF Dies, EndTransaction, Exit, Deadlines, Flags
<1>7. CASE TickStarts(p)
  BY <1>0, <1>7 DEF TickStarts, Running, Deadlines, Flags
<1>8. CASE TickEnds(p)
  BY <1>0, <1>8 DEF TickEnds, Running, Deadlines, Flags
<1>9. CASE RequestArrives(p)
  BY <1>0, <1>9 DEF RequestArrives, Deadlines, Flags
<1>10. CASE RequestAnswered(p)
  BY <1>0, <1>10 DEF RequestAnswered, Running, Deadlines, Flags
<1>11. CASE ClientLeaves(p)
  BY <1>0, <1>11 DEF ClientLeaves, Running, Deadlines, Flags
<1>12. CASE OrphanEnds(p)
  BY <1>0, <1>12 DEF OrphanEnds, Running, Deadlines, Flags
<1>13. CASE Signal(p)
  BY <1>0, <1>13 DEF Signal, PollingStopped, Deadlines, Flags
<1>14. CASE SignalAgain(p)
  BY <1>0, <1>14 DEF SignalAgain, Exit, Deadlines, Flags
<1>15. CASE ServerCloses(p)
  BY <1>0, <1>15 DEF ServerCloses, Deadlines, Flags
<1>16. CASE SchedulerDrains(p)
  BY <1>0, <1>16 DEF SchedulerDrains, TickIsOver, Deadlines, Flags
<1>17. CASE DrainTimesOut(p)
  BY <1>0, <1>17 DEF DrainTimesOut, Deadlines, Flags
<1>18. CASE StartClosers(p)
  BY <1>0, <1>18 DEF StartClosers, Remaining, Settled, Deadlines, Flags
<1>19. CASE NoBudgetLeft(p)
  BY <1>0, <1>19 DEF NoBudgetLeft, Exit, Settled, Remaining, Deadlines, Flags
<1>20. CASE PoolEnds(p)
  BY <1>0, <1>20 DEF PoolEnds, Exit, CleanCode, Deadlines, Flags
<1>21. CASE PoolFails(p)
  BY <1>0, <1>21 DEF PoolFails, Exit, Deadlines, Flags
<1>22. CASE Elapse(p)
  BY <1>0, <1>22 DEF Elapse, Settled, Deadlines, Flags
<1> QED BY <1>1, <1>2, <1>3, <1>4, <1>5, <1>6, <1>7, <1>8, <1>9, <1>10, <1>11, <1>12,
           <1>13, <1>14, <1>15, <1>16, <1>17, <1>18, <1>19, <1>20, <1>21, <1>22 DEF ProcStep

-----------------------------------------------------------------------------
\* Most steps of a running process do not touch the migrations.
LEMMA RunningStepsAreQuiet ==
  ASSUME ProcessTypes, NEW p \in Procs,
         TickStarts(p) \/ TickEnds(p) \/ RequestArrives(p) \/ RequestAnswered(p)
         \/ ClientLeaves(p) \/ OrphanEnds(p) \/ Signal(p) \/ SignalAgain(p)
         \/ ServerCloses(p) \/ SchedulerDrains(p) \/ DrainTimesOut(p)
         \/ StartClosers(p) \/ NoBudgetLeft(p) \/ PoolEnds(p) \/ PoolFails(p)
         \/ Elapse(p)
  PROVE  /\ Running(p) /\ phase'[p] # "migrating"
         /\ UNCHANGED migrationVars
<1> USE DEF ProcessTypes, migrationVars
<1>1. CASE TickStarts(p)
  BY <1>1 DEF TickStarts, Settled, Running
<1>2. CASE TickEnds(p)
  BY <1>2 DEF TickEnds, Settled, Running
<1>3. CASE RequestArrives(p)
  BY <1>3 DEF RequestArrives, Settled, Running
<1>4. CASE RequestAnswered(p)
  BY <1>4 DEF RequestAnswered, Settled, Running
<1>5. CASE ClientLeaves(p)
  BY <1>5 DEF ClientLeaves, Settled, Running
<1>6. CASE OrphanEnds(p)
  BY <1>6 DEF OrphanEnds, Settled, Running
<1>7. CASE Signal(p)
  BY <1>7 DEF Signal, PollingStopped, Settled, Running
<1>8. CASE SignalAgain(p)
  BY <1>8 DEF SignalAgain, Exit, Settled, Running
<1>9. CASE ServerCloses(p)
  BY <1>9 DEF ServerCloses, Settled, Running
<1>10. CASE SchedulerDrains(p)
  BY <1>10 DEF SchedulerDrains, TickIsOver, Settled, Running
<1>11. CASE DrainTimesOut(p)
  BY <1>11 DEF DrainTimesOut, Settled, Running
<1>12. CASE StartClosers(p)
  BY <1>12 DEF StartClosers, Remaining, Settled, Running
<1>13. CASE NoBudgetLeft(p)
  BY <1>13 DEF NoBudgetLeft, Exit, Settled, Remaining, Running
<1>14. CASE PoolEnds(p)
  BY <1>14 DEF PoolEnds, Exit, CleanCode, Settled, Running
<1>15. CASE PoolFails(p)
  BY <1>15 DEF PoolFails, Exit, Settled, Running
<1>16. CASE Elapse(p)
  BY <1>16 DEF Elapse, Settled, Running
<1> QED BY <1>1, <1>2, <1>3, <1>4, <1>5, <1>6, <1>7, <1>8, <1>9, <1>10, <1>11, <1>12,
           <1>13, <1>14, <1>15, <1>16

\* What a process needs to know of the migrations.
MigrationsKnown(q) == OnlyUnderLock(q) /\ Passed(q) /\ FoundMissing(q) /\ ServesMigrated(q)

LEMMA QuietKeepsMigrations ==
  ASSUME ProcessInv, NEW p \in Procs, ProcStep(p), NEW q \in Procs,
         Running(p), phase'[p] # "migrating", UNCHANGED migrationVars
  PROVE  ~collided' /\ MigrationsKnown(q)'
<1>1. ~collided /\ ProcessTypes /\ MigrationsKnown(q)
  BY DEF ProcessInv, MigrationsKnown
<1>2. CASE q = p
  BY <1>1, <1>2 DEF MigrationsKnown, OnlyUnderLock, Passed, FoundMissing, ServesMigrated,
                    Running, migrationVars
<1>3. CASE q # p
  <2>1. phase'[q] = phase[q]
    BY <1>1, <1>3, OthersStay
  <2> QED BY <1>1, <2>1 DEF MigrationsKnown, OnlyUnderLock, Passed, FoundMissing,
                            ServesMigrated, Running, migrationVars
<1> QED BY <1>2, <1>3

\* The others while p boots, looks at migrations or applies one.
LEMMA OthersKnow ==
  ASSUME ProcessInv, NEW p \in Procs, ProcStep(p), NEW q \in Procs, q # p,
         applied' = applied, lock' = lock \/ lock # q
  PROVE  MigrationsKnown(q)'
<1>1. ProcessTypes /\ MigrationsKnown(q)
  BY DEF ProcessInv, MigrationsKnown
<1>2. phase'[q] = phase[q] /\ next'[q] = next[q] /\ missing'[q] = missing[q] /\ done'[q] = done[q]
  BY <1>1, OthersStay
<1> QED BY <1>1, <1>2 DEF MigrationsKnown, OnlyUnderLock, Passed, FoundMissing, ServesMigrated, Running

LEMMA BootKnows ==
  ASSUME ProcessInv, NEW p \in Procs, Boot(p)
  PROVE  ~collided' /\ MigrationsKnown(p)'
<1>1. ~collided /\ ProcessTypes /\ MigrationsKnown(p)
  BY DEF ProcessInv, MigrationsKnown
<1>2. phase'[p] = "migrating" /\ next'[p] = 1 /\ missing' = missing /\ done' = done
      /\ phase[p] = "exited" /\ applied' = applied /\ lock' = lock /\ collided' = collided
  BY <1>1 DEF Boot, ProcessTypes
<1>3. ~missing[p] /\ done[p] = {}
  BY <1>1, <1>2 DEF MigrationsKnown, OnlyUnderLock
<1>4. Passed(p)'
  BY <1>2, ProcessAssumption DEF Passed
<1> QED BY <1>1, <1>2, <1>3, <1>4 DEF MigrationsKnown, OnlyUnderLock, FoundMissing, ServesMigrated, Running

LEMMA TakeLockKnows ==
  ASSUME ProcessInv, NEW p \in Procs, TakeLock(p)
  PROVE  ~collided' /\ MigrationsKnown(p)'
<1>1. ~collided /\ ProcessTypes /\ MigrationsKnown(p)
  BY DEF ProcessInv, MigrationsKnown
<1> QED BY <1>1 DEF TakeLock, MigrationsKnown, OnlyUnderLock, Passed, FoundMissing, ServesMigrated, Running

\* A migration found applied is passed; one that is not is remembered as missing.
LEMMA LookKnows ==
  ASSUME ProcessInv, NEW p \in Procs, LookForMigration(p)
  PROVE  ~collided' /\ MigrationsKnown(p)'
<1>1. ~collided /\ ProcessTypes /\ MigrationsKnown(p)
  BY DEF ProcessInv, MigrationsKnown
<1>2. /\ phase[p] = "migrating" /\ phase' = phase /\ lock = p /\ ~missing[p] /\ next[p] <= Migrations
      /\ applied' = applied /\ lock' = lock /\ done' = done /\ collided' = collided
  BY DEF LookForMigration, LockHeld
<1>3. next[p] \in 1..Migrations
  <2>1. next[p] \in 1..(Migrations + 1)
    BY <1>1 DEF ProcessTypes
  <2> QED BY <1>2, <2>1, ProcessAssumption
<1>4. CASE next[p] \in applied
  <2>1. next' = [next EXCEPT ![p] = @ + 1] /\ missing' = missing
    BY <1>4 DEF LookForMigration
  <2>2. next'[p] = next[p] + 1
    BY <1>1, <2>1 DEF ProcessTypes
  <2>3. Passed(p)'
    <3>1. ASSUME NEW m \in 1..Migrations, m < next'[p] PROVE m \in applied \/ m \in done[p]
      <4>1. CASE m = next[p]
        BY <1>4, <4>1
      <4>2. CASE m < next[p]
        BY <1>1, <1>2, <4>2 DEF MigrationsKnown, Passed
      <4> QED BY <1>3, <2>2, <3>1, <4>1, <4>2, ProcessAssumption
    <3> QED BY <1>2, <3>1 DEF Passed
  <2> QED BY <1>1, <1>2, <2>1, <2>3
          DEF MigrationsKnown, OnlyUnderLock, FoundMissing, ServesMigrated, Running
<1>5. CASE next[p] \notin applied
  <2>1. next' = next /\ missing'[p]
    BY <1>1, <1>5 DEF LookForMigration, ProcessTypes
  <2>2. Passed(p)'
    BY <1>1, <1>2, <2>1 DEF MigrationsKnown, Passed
  <2> QED BY <1>1, <1>2, <1>3, <1>5, <2>1, <2>2
          DEF MigrationsKnown, OnlyUnderLock, FoundMissing, ServesMigrated, Running
<1> QED BY <1>4, <1>5

\* What is missing under the lock is missing until its holder applies it.
LEMMA ApplyKnows ==
  ASSUME ProcessInv, NEW p \in Procs, ApplyMigration(p)
  PROVE  ~collided' /\ MigrationsKnown(p)'
<1>1. ~collided /\ ProcessTypes /\ MigrationsKnown(p)
  BY DEF ProcessInv, MigrationsKnown
<1>2. /\ phase[p] = "migrating" /\ phase' = phase /\ missing[p]
      /\ applied' = applied /\ lock' = lock
      /\ collided' = (collided \/ next[p] \in applied)
  BY DEF ApplyMigration
<1>3. /\ missing'[p] = FALSE /\ next'[p] = next[p] + 1 /\ done'[p] = done[p] \union {next[p]}
  BY <1>1 DEF ApplyMigration, ProcessTypes
<1>4. next[p] \in 1..Migrations /\ next[p] \notin applied
  BY <1>1, <1>2 DEF MigrationsKnown, FoundMissing
<1>5. lock = p
  BY <1>1, <1>2 DEF MigrationsKnown, OnlyUnderLock
<1>6. Passed(p)'
  <2>1. ASSUME NEW m \in 1..Migrations, m < next'[p] PROVE m \in applied \/ m \in done'[p]
    <3>1. CASE m = next[p]
      BY <1>3, <3>1
    <3>2. CASE m < next[p]
      BY <1>1, <1>2, <1>3, <3>2 DEF MigrationsKnown, Passed
    <3> QED BY <1>3, <1>4, <2>1, <3>1, <3>2, ProcessAssumption
  <2> QED BY <1>2, <2>1 DEF Passed
<1> QED BY <1>1, <1>2, <1>3, <1>4, <1>5, <1>6
        DEF MigrationsKnown, OnlyUnderLock, FoundMissing, ServesMigrated, Running

\* The commit completes the migrations; nobody else has looked at any.
LEMMA ServeKnows ==
  ASSUME ProcessInv, NEW p \in Procs, Serve(p), NEW q \in Procs
  PROVE  ~collided' /\ MigrationsKnown(q)'
<1>1. ~collided /\ ProcessTypes /\ MigrationsKnown(p) /\ MigrationsKnown(q)
  BY DEF ProcessInv, MigrationsKnown
<1>2. /\ phase[p] = "migrating" /\ lock = p /\ next[p] > Migrations
      /\ applied' = applied \union done[p] /\ lock' = Nobody
      /\ collided' = collided /\ next' = next
      /\ phase' = [phase EXCEPT ![p] = "serving"]
      /\ done' = [done EXCEPT ![p] = {}] /\ missing' = [missing EXCEPT ![p] = FALSE]
  BY DEF Serve, EndTransaction, LockHeld
<1>3. applied' = 1..Migrations
  <2>1. applied \subseteq 1..Migrations /\ done[p] \subseteq 1..Migrations
        /\ next[p] \in 1..(Migrations + 1)
    BY <1>1 DEF ProcessTypes
  <2>2. ASSUME NEW m \in 1..Migrations PROVE m \in applied \/ m \in done[p]
    <3>1. m < next[p]
      BY <1>2, <2>1, ProcessAssumption
    <3> QED BY <1>1, <1>2, <3>1 DEF MigrationsKnown, Passed
  <2> QED BY <1>2, <2>1, <2>2
<1>4. CASE q = p
  <2>1. phase'[q] = "serving" /\ done'[q] = {} /\ missing'[q] = FALSE
    BY <1>1, <1>2, <1>4 DEF ProcessTypes
  <2> QED BY <1>1, <1>2, <1>3, <2>1
          DEF MigrationsKnown, OnlyUnderLock, Passed, FoundMissing, ServesMigrated
<1>5. CASE q # p
  <2>1. phase'[q] = phase[q] /\ done'[q] = done[q] /\ missing'[q] = missing[q]
    BY <1>1, <1>2, <1>5 DEF ProcessTypes
  <2>2. done[q] = {} /\ ~missing[q]
    BY <1>1, <1>2, <1>5 DEF MigrationsKnown, OnlyUnderLock
  <2>3. Passed(q)'
    BY <1>3 DEF Passed
  <2> QED BY <1>1, <1>2, <1>3, <2>1, <2>2, <2>3
          DEF MigrationsKnown, OnlyUnderLock, FoundMissing, ServesMigrated
<1> QED BY <1>4, <1>5

LEMMA DeathKnows ==
  ASSUME ProcessInv, NEW p \in Procs, Dies(p)
  PROVE  ~collided' /\ MigrationsKnown(p)'
<1>1. ~collided /\ ProcessTypes /\ MigrationsKnown(p)
  BY DEF ProcessInv, MigrationsKnown
<1>2. phase'[p] = "exited" /\ done'[p] = {} /\ ~missing'[p] /\ collided' = collided
  BY <1>1 DEF Dies, EndTransaction, Exit, ProcessTypes
<1> QED BY <1>1, <1>2
        DEF MigrationsKnown, OnlyUnderLock, Passed, FoundMissing, ServesMigrated, Running

LEMMA StepKeepsMigrations ==
  ASSUME ProcessInv, NEW p \in Procs, ProcStep(p), NEW q \in Procs
  PROVE  ~collided' /\ MigrationsKnown(q)'
<1>1. CASE Boot(p)
  <2>1. applied' = applied /\ lock' = lock
    BY <1>1 DEF Boot
  <2> QED BY <1>1, <2>1, BootKnows, OthersKnow
<1>2. CASE TakeLock(p)
  <2>1. applied' = applied /\ lock = Nobody
    BY <1>2 DEF TakeLock
  <2> QED BY <1>2, <2>1, TakeLockKnows, OthersKnow, ProcessAssumption
<1>3. CASE LookForMigration(p)
  <2>1. applied' = applied /\ lock' = lock
    BY <1>3 DEF LookForMigration
  <2> QED BY <1>3, <2>1, LookKnows, OthersKnow
<1>4. CASE ApplyMigration(p)
  <2>1. applied' = applied /\ lock' = lock
    BY <1>4 DEF ApplyMigration
  <2> QED BY <1>4, <2>1, ApplyKnows, OthersKnow
<1>5. CASE Serve(p)
  BY <1>5, ServeKnows
<1>6. CASE Dies(p)
  <2>1. applied' = applied /\ (lock' = lock \/ lock = p)
    BY <1>6 DEF Dies, EndTransaction
  <2> QED BY <1>6, <2>1, DeathKnows, OthersKnow
<1>7. CASE ~(\/ Boot(p) \/ TakeLock(p) \/ LookForMigration(p) \/ ApplyMigration(p)
             \/ Serve(p) \/ Dies(p))
  <2>1. Running(p) /\ phase'[p] # "migrating" /\ UNCHANGED migrationVars
    BY <1>7, RunningStepsAreQuiet DEF ProcStep, ProcessInv
  <2> QED BY <2>1, QuietKeepsMigrations
<1> QED BY <1>1, <1>2, <1>3, <1>4, <1>5, <1>6, <1>7

-----------------------------------------------------------------------------
LEMMA InitHasInv == ProcessInit => ProcessInv
<1> SUFFICES ASSUME ProcessInit PROVE ProcessInv
  OBVIOUS
<1>1. ProcessTypes
  <2>1. next \in [Procs -> 1..(Migrations + 1)] /\ applied \subseteq 1..Migrations
    BY ProcessAssumption DEF ProcessInit
  <2>2. /\ missing \in [Procs -> BOOLEAN] /\ collided \in BOOLEAN
        /\ polling \in [Procs -> BOOLEAN] /\ ticking \in [Procs -> BOOLEAN]
    BY DEF ProcessInit
  <2>3. /\ conns \in [Procs -> Nat] /\ orphans \in [Procs -> Nat]
        /\ elapsed \in [Procs -> Nat] /\ closeBy \in [Procs -> Nat]
        /\ code \in [Procs -> {0, 1}] /\ faults \in Nat
    BY DEF ProcessInit
  <2>4. /\ phase \in [Procs -> Phases]
        /\ closed \in [Procs -> Results] /\ drained \in [Procs -> Results]
        /\ pool \in [Procs -> {"open", "ending", "ended"}]
        /\ lock \in Procs \union {Nobody} /\ done \in [Procs -> SUBSET (1..Migrations)]
    BY DEF ProcessInit, Phases, Results
  <2> QED BY <2>1, <2>2, <2>3, <2>4 DEF ProcessTypes
<1>2. ASSUME NEW p \in Procs
      PROVE  OnlyUnderLock(p) /\ Passed(p) /\ FoundMissing(p) /\ ServesMigrated(p)
  BY DEF ProcessInit, OnlyUnderLock, Passed, FoundMissing, ServesMigrated, Running
<1>3. ASSUME NEW p \in Procs PROVE Flags(p) /\ Deadlines(p)
  BY ProcessAssumption DEF ProcessInit, Flags, Deadlines
<1> QED BY <1>1, <1>2, <1>3 DEF ProcessInv, ProcessInit

LEMMA NextKeepsInv == ProcessInv /\ [ProcessNext]_processVars => ProcessInv'
<1> SUFFICES ASSUME ProcessInv, [ProcessNext]_processVars PROVE ProcessInv'
  OBVIOUS
<1>1. ASSUME NEW p \in Procs, ProcStep(p) PROVE ProcessInv'
  <2>1. ProcessTypes'
    BY <1>1, StepKeepsTypes
  <2>2. ~collided' /\ \A q \in Procs : MigrationsKnown(q)'
    BY <1>1, StepKeepsMigrations
  <2>3. ASSUME NEW q \in Procs PROVE Flags(q)' /\ Deadlines(q)'
    <3>1. CASE q = p
      BY <1>1, <3>1, StepKeepsFlags, StepKeepsDeadlines
    <3>2. CASE q # p
      <4>1. Flags(q) /\ Deadlines(q) /\ ProcessTypes
        BY DEF ProcessInv
      <4>2. /\ phase'[q] = phase[q] /\ polling'[q] = polling[q] /\ ticking'[q] = ticking[q]
            /\ conns'[q] = conns[q] /\ closed'[q] = closed[q] /\ drained'[q] = drained[q]
            /\ pool'[q] = pool[q] /\ elapsed'[q] = elapsed[q] /\ closeBy'[q] = closeBy[q]
            /\ code'[q] = code[q]
        BY <1>1, <3>2, <4>1, OthersStay
      <4> QED BY <4>1, <4>2 DEF Flags, Deadlines
    <3> QED BY <3>1, <3>2
  <2> QED BY <2>1, <2>2, <2>3 DEF ProcessInv, MigrationsKnown
<1>2. CASE UNCHANGED processVars
  BY <1>2 DEF processVars, migrationVars, workVars, shutdownVars, ProcessInv, ProcessTypes,
              OnlyUnderLock, Passed, FoundMissing, ServesMigrated, Flags, Deadlines, Running
<1> QED BY <1>1, <1>2, NextIsAStep

\* The process keeps the inductive invariant.
THEOREM ProcessInvariant == ProcessSpec => []ProcessInv
BY InitHasInv, NextKeepsInv, PTL DEF ProcessSpec

\* What a process holds has its types, and nothing of a transaction is left without
\* the lock it runs under (runMigrations).
THEOREM ProcessTypesCorrect == ProcessSpec => []ProcessTypeOK
<1>1. ProcessInv => ProcessTypeOK
  BY DEF ProcessInv, ProcessTypes, ProcessTypeOK, OnlyUnderLock
<1> QED BY <1>1, ProcessInvariant, PTL

\* However many processes start together, and wherever they die, no migration is
\* applied over a committed one and none serves before all are (runMigrations).
THEOREM MigrationsOnce == ProcessSpec => []MigratedOnce
<1>1. ProcessInv => MigratedOnce
  BY DEF ProcessInv, MigratedOnce, ServesMigrated
<1> QED BY <1>1, ProcessInvariant, PTL

\* The pool is closed only over finished work, the shutdown keeps to its budget, and
\* exit code 0 tells the truth (runShutdown).
THEOREM ShutdownKeepsOrder == ProcessSpec => []ShutdownOrderly
<1>1. ProcessInv => ShutdownOrderly
  BY DEF ProcessInv, Flags, Deadlines, ShutdownOrderly, PoolOutlivesWork, ExitWithinBudget,
         CleanExitIsClean
<1> QED BY <1>1, ProcessInvariant, PTL
================================================================================
