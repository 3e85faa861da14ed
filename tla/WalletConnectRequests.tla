------------------------- MODULE WalletConnectRequests -------------------------
(***************************************************************************)
(* Requests of dApps to the mobile wallet (WalletKitProvider.tsx, its      *)
(* approval sheets, stellar-handlers.ts, mobile-sign-service.ts).          *)
(*                                                                         *)
(* Each kind of sheet has one slot, which a newer request or proposal      *)
(* takes from the one before it.  A tap starts a handler with the request  *)
(* the sheet showed; what the handler clears after its awaits is whatever  *)
(* the slot holds by then.                                                 *)
(***************************************************************************)
EXTENDS Integers, FiniteSets

CONSTANTS
  DappRequests,   \* requests, by their id
  Topics,         \* proposals, and the sessions they become
  Taps,           \* taps on the sheets, and direct requests: the handlers they start
  Blank,          \* no request, no proposal
  MaxUndelivered, \* bound on answers that WalletKit fails to deliver
  MaxLocks        \* bound on locks of the wallet

ASSUME WalletAssumption ==
  /\ DappRequests \intersect Topics = {} /\ Blank \notin DappRequests \union Topics
  /\ IsFiniteSet(Taps) /\ MaxUndelivered \in Nat /\ MaxLocks \in Nat

VARIABLES
  asks, topicOf,  \* what each request asks ("xdr", "auth" or "message"), and its session
  arrived,        \* requests that have come
  sessions,       \* getActiveSessions
  proposal, xdrSheet, authSheet,  \* the slots
  done,           \* signXdrStatus is "success"
  closing,        \* timers of 1.5 seconds that will clear the XDR sheet
  tap,            \* the handler each tap started
  mounted, locks, \* the provider is mounted while the wallet is unlocked
  answers,        \* history: what was answered to each request
  agreed, declined, signed,  \* history: requests approved, refused and signed
  undelivered

slotVars == <<proposal, xdrSheet, authSheet, done, closing>>
askVars == <<asks, topicOf, arrived>>
lockVars == <<mounted, locks>>
tapHistory == <<answers, agreed, declined, signed, undelivered>>
walletVars == <<askVars, sessions, slotVars, tap, lockVars, tapHistory>>

\* The mount whose sheet a handler came from; a request that has no sheet belongs to none.
NoMount == MaxLocks + 1
Unused == [of |-> Blank, at |-> "idle", says |-> "result", mount |-> NoMount]
Answers == {"result", "refused", "error", "noSession"}

WalletTypeOK ==
  /\ asks \in [DappRequests -> {"xdr", "auth", "message"}] /\ topicOf \in [DappRequests -> Topics]
  /\ arrived \subseteq DappRequests /\ sessions \subseteq Topics
  /\ proposal \in Topics \union {Blank}
  /\ {xdrSheet, authSheet} \subseteq DappRequests \union {Blank}
  /\ done \in BOOLEAN /\ closing \in 0..Cardinality(Taps)
  /\ tap \in [Taps -> [of : DappRequests \union Topics \union {Blank}, says : Answers,
                       mount : 0..NoMount,
                       at : {"idle", "sign", "answer", "connect", "leave", "used"}]]
  /\ mounted \in BOOLEAN /\ locks \in 0..MaxLocks
  /\ answers \in [DappRequests -> SUBSET Answers]
  /\ agreed \subseteq DappRequests /\ declined \subseteq DappRequests /\ signed \subseteq DappRequests
  /\ undelivered \in 0..MaxUndelivered

WalletInit ==
  /\ asks \in [DappRequests -> {"xdr", "auth", "message"}] /\ topicOf \in [DappRequests -> Topics]
  /\ arrived = {} /\ sessions \in SUBSET Topics
  /\ proposal = Blank /\ xdrSheet = Blank /\ authSheet = Blank /\ done = FALSE /\ closing = 0
  /\ tap = [t \in Taps |-> Unused]
  /\ mounted = TRUE /\ locks = 0
  /\ answers = [r \in DappRequests |-> {}]
  /\ agreed = {} /\ declined = {} /\ signed = {} /\ undelivered = 0

Fresh(t) == tap[t].at = "idle"
Begins(t, of, at, says, mount) ==
  tap' = [tap EXCEPT ![t] = [of |-> of, at |-> at, says |-> says, mount |-> mount]]
GoesOn(t, of, at, says) == Begins(t, of, at, says, tap[t].mount)
Stops(t) == Begins(t, Blank, "used", "result", NoMount)
Mounted(t) == tap[t].mount = locks

-----------------------------------------------------------------------------
\* Sessions

\* session_proposal; it replaces the one on the sheet, whose timer goes with it.
Propose(p) ==
  /\ mounted /\ p \notin sessions /\ proposal' = p
  /\ UNCHANGED <<askVars, sessions, xdrSheet, authSheet, done, closing, tap, lockVars, tapHistory>>

\* The timer of 60 seconds; nothing is sent.
ProposalTimesOut ==
  /\ proposal # Blank /\ proposal' = Blank
  /\ UNCHANGED <<askVars, sessions, xdrSheet, authSheet, done, closing, tap, lockVars, tapHistory>>

\* handleSheetApprove, handleSheetReject.
DecideProposal(t) ==
  /\ mounted /\ Fresh(t) /\ proposal # Blank
  /\ \E at \in {"connect", "leave"} : Begins(t, proposal, at, "result", locks)
  /\ UNCHANGED <<askVars, sessions, slotVars, lockVars, tapHistory>>

\* What becomes of it, delivered or not: the finally clears the slot.
ProposalDecided(t) ==
  /\ tap[t].at \in {"connect", "leave"} /\ Stops(t)
  /\ \/ /\ sessions' = IF tap[t].at = "connect" THEN sessions \union {tap[t].of} ELSE sessions
        /\ UNCHANGED undelivered
     \/ undelivered < MaxUndelivered /\ undelivered' = undelivered + 1 /\ UNCHANGED sessions
  /\ proposal' = IF Mounted(t) THEN Blank ELSE proposal
  /\ UNCHANGED <<askVars, xdrSheet, authSheet, done, closing, lockVars, answers, agreed, declined, signed>>

\* session_delete, or disconnectSession.
Disconnect(p) ==
  /\ p \in sessions /\ sessions' = sessions \ {p}
  /\ UNCHANGED <<askVars, slotVars, tap, lockVars, tapHistory>>

-----------------------------------------------------------------------------
\* Requests

\* session_request: a sheet for a transaction, one for an auth entry that can be read
\* (its refusal goes straight to WalletKit), and none for a message.  WalletKit delivers
\* requests of active sessions.
RequestArrives(r, t) ==
  /\ mounted /\ Fresh(t) /\ r \notin arrived /\ topicOf[r] \in sessions
  /\ arrived' = arrived \union {r}
  /\ \/ /\ asks[r] = "xdr" /\ xdrSheet' = r /\ done' = FALSE
        /\ UNCHANGED <<authSheet, tap>>
     \/ /\ asks[r] = "auth" /\ authSheet' = r
        /\ UNCHANGED <<xdrSheet, done, tap>>
     \/ /\ asks[r] = "auth" /\ Begins(t, r, "answer", "error", NoMount)
        /\ UNCHANGED <<xdrSheet, authSheet, done>>
     \/ /\ asks[r] = "message" /\ Begins(t, r, "sign", "result", NoMount)
        /\ UNCHANGED <<xdrSheet, authSheet, done>>
  /\ UNCHANGED <<asks, topicOf, sessions, proposal, closing, lockVars, tapHistory>>

\* A tap on a sheet that shows r; the success page has no buttons.
Shows(r) == (xdrSheet = r /\ ~done) \/ authSheet = r

\* handleSignXdrApprove, handleAuthEntryApprove: without a session nothing is signed.
Approves(t, r) ==
  /\ mounted /\ Fresh(t) /\ Shows(r) /\ agreed' = agreed \union {r}
  /\ IF topicOf[r] \in sessions THEN Begins(t, r, "sign", "result", locks)
     ELSE Begins(t, r, "answer", IF asks[r] = "xdr" THEN "noSession" ELSE "refused", locks)
  /\ UNCHANGED <<askVars, sessions, slotVars, lockVars, answers, declined, signed, undelivered>>

\* handleSignXdrReject, handleAuthEntryReject.
Declines(t, r) ==
  /\ mounted /\ Fresh(t) /\ Shows(r) /\ declined' = declined \union {r}
  /\ Begins(t, r, "answer", "refused", locks)
  /\ UNCHANGED <<askVars, sessions, slotVars, lockVars, answers, agreed, signed, undelivered>>

\* mutant: the handler reads the slot again after its await.
SubjectNow(t) ==
  IF tap[t].of \in DappRequests /\ asks[tap[t].of] = "xdr" /\ xdrSheet # Blank THEN xdrSheet ELSE tap[t].of

\* The request a handler works for.
Subject(t) == tap[t].of

\* handleStellarRpcRequest: the vault is locked or the submission of what was signed
\* fails, or the signature is the result.
SignRequest(t) ==
  /\ tap[t].at = "sign"
  /\ \/ mounted /\ GoesOn(t, Subject(t), "answer", "result") /\ signed' = signed \union {Subject(t)}
     \/ /\ GoesOn(t, Subject(t), "answer", "error")
        /\ \/ UNCHANGED signed
           \/ mounted /\ asks[Subject(t)] = "xdr" /\ signed' = signed \union {Subject(t)}
  /\ UNCHANGED <<askVars, sessions, slotVars, lockVars, answers, agreed, declined, undelivered>>

\* What follows an answer: the timer after a result, the slot itself after anything else.
\* Of the XDR handlers only handleSignXdrReject resets the status.  Nothing of it
\* reaches a provider that was mounted since.
Cleared(t) ==
  LET xdr == Mounted(t) /\ asks[tap[t].of] = "xdr"
      signs == xdr /\ tap[t].says = "result" IN
  /\ closing' = IF signs THEN closing + 1 ELSE closing
  /\ done' = (signs \/ (done /\ ~(xdr /\ tap[t].says = "refused")))
  /\ xdrSheet' = IF xdr /\ ~signs THEN Blank ELSE xdrSheet
  /\ authSheet' = IF Mounted(t) /\ asks[tap[t].of] = "auth" THEN Blank ELSE authSheet

\* respondSessionRequest.  What is lost after a result is answered once more, with an
\* error; after anything else it is thrown to nobody: the XDR sheet stays, and the
\* auth sheet goes.
Respond(t) ==
  /\ tap[t].at = "answer"
  /\ \/ /\ answers' = [answers EXCEPT ![Subject(t)] = @ \union {tap[t].says}]
        /\ Stops(t) /\ Cleared(t) /\ UNCHANGED undelivered
     \/ /\ undelivered < MaxUndelivered /\ undelivered' = undelivered + 1
        /\ answers' \in {answers, [answers EXCEPT ![Subject(t)] = @ \union {tap[t].says}]}
        /\ IF tap[t].says = "result" THEN GoesOn(t, tap[t].of, "answer", "error") ELSE Stops(t)
        /\ authSheet' \in {authSheet} \union
             (IF Mounted(t) /\ asks[tap[t].of] = "auth" /\ tap[t].says # "result" THEN {Blank} ELSE {})
        /\ UNCHANGED <<xdrSheet, done, closing>>
  /\ UNCHANGED <<askVars, sessions, proposal, lockVars, agreed, declined, signed>>

\* The timer of a success page.
CloseSheet ==
  /\ closing > 0 /\ closing' = closing - 1
  /\ xdrSheet' = Blank /\ done' = FALSE
  /\ UNCHANGED <<askVars, sessions, proposal, authSheet, tap, lockVars, tapHistory>>

-----------------------------------------------------------------------------
\* handleLock unmounts the provider; its handlers in flight go on. Unlocking mounts another.
LockWallet ==
  /\ mounted /\ locks < MaxLocks /\ locks' = locks + 1 /\ mounted' = FALSE
  /\ proposal' = Blank /\ xdrSheet' = Blank /\ authSheet' = Blank /\ done' = FALSE /\ closing' = 0
  /\ UNCHANGED <<askVars, sessions, tap, tapHistory>>

UnlockAgain ==
  /\ ~mounted /\ mounted' = TRUE
  /\ UNCHANGED <<askVars, sessions, slotVars, tap, locks, tapHistory>>

WalletNext ==
  \/ \E p \in Topics : Propose(p) \/ Disconnect(p)
  \/ ProposalTimesOut \/ CloseSheet \/ LockWallet \/ UnlockAgain
  \/ \E t \in Taps :
       \/ DecideProposal(t) \/ ProposalDecided(t) \/ SignRequest(t) \/ Respond(t)
       \/ \E r \in DappRequests : RequestArrives(r, t) \/ Approves(t, r) \/ Declines(t, r)

WalletSpec == WalletInit /\ [][WalletNext]_walletVars

-----------------------------------------------------------------------------
(* However taps, newer requests, timers, locks and lost answers interleave, a  *)
(* dApp gets a signature of a transaction or an auth entry only for a request  *)
(* whose own sheet the user approved, and the answer it gets is of that        *)
(* request's signing (handleSignXdrApprove, handleAuthEntryApprove).           *)
ResultWasApproved ==
  \A r \in DappRequests :
    /\ asks[r] # "message" /\ r \in signed => r \in agreed
    /\ "result" \in answers[r] => r \in signed
    /\ "refused" \in answers[r] => r \in declined \/ (asks[r] = "auth" /\ r \in agreed)

(* A request the user has decided on does not stay without an answer once its  *)
(* handlers are over, unless WalletKit failed to deliver one                   *)
(* (handleSignXdrApprove, handleSignXdrReject, handleAuthEntryApprove).        *)
DecidedIsAnswered ==
  \A r \in agreed \union declined :
    answers[r] # {} \/ undelivered > 0 \/ \E t \in Taps : tap[t].of = r

\* A dApp is answered as the user decided.
DappsAnswered == ResultWasApproved /\ DecidedIsAnswered
=============================================================================
