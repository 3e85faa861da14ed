---------------------------- MODULE ExternalRequests ----------------------------
(***************************************************************************)
(* Requests of web pages to the extension's background worker              *)
(* (external/handlers.ts, response-queue.ts, approval-window.ts,           *)
(* service-worker.ts, content-script/index.ts).                            *)
(*                                                                         *)
(* A page's request waits for the user in an approval screen, a document   *)
(* of its own that the worker hears from by messages.  The approvals, the  *)
(* response callbacks and the windows opened live in the worker; the       *)
(* status entries of chrome.storage.session outlive it.                    *)
(***************************************************************************)
EXTENDS UnlockSession

CONSTANTS
  Requests,    \* requests of the pages
  Kinds,       \* what they may ask: "query", "access", "sign", "sessionKey"
  Origins, Origin,
  MaxCalls     \* bound on unlocks, locks, refreshes and restores

ASSUME RequestAssumption ==
  /\ Kinds \subseteq [Requests -> {"query", "access", "sign", "sessionKey"}]
  /\ Origin \in [Requests -> Origins] /\ "unsigned" \notin Handlers /\ MaxCalls \in Nat

VARIABLES
  kind,        \* what each request asks
  stage,       \* how far the handler of a request has come, and how it was answered
  approval,    \* pendingApprovals
  callback,    \* responseCallbacks
  entry,       \* status entries
  opening,     \* openApprovalWindow in flight
  mapped,      \* approvalWindowMap
  screen,      \* the approval screen of a request
  signer,      \* the handler that signs a request, if there is one
  old,         \* requests enqueued more than five minutes ago
  stored, known,  \* the allowlist, in storage and in the worker
  agreed,      \* history: requests the user approved
  calls,
  unopened,    \* history: requests whose screen could not be opened
  mistimed     \* history: requests whose signing began after the page had been answered

queue == <<approval, callback, entry, mapped>>
screens == <<opening, screen>>
allowlist == <<stored, known>>
userHistory == <<agreed, unopened, mistimed>>
requestVars == <<kind, stage, queue, screens, signer, old, allowlist, userHistory>>
externalVars == <<sessionVars, requestVars, calls>>

Answers == {"ok", "refused"}
Unsigned == "unsigned"

RequestTypeOK ==
  /\ SessionTypeOK /\ calls \in 0..MaxCalls
  /\ kind \in [Requests -> {"query", "access", "sign", "sessionKey"}]
  /\ stage \in [Requests -> {"new", "asked", "opening", "waiting"} \union Answers]
  /\ approval \subseteq Requests /\ callback \subseteq Requests /\ mapped \subseteq Requests
  /\ entry \in [Requests -> {"none", "pending", "resolved", "rejected", "timed-out"}]
  /\ opening \subseteq Requests /\ old \subseteq Requests /\ agreed \subseteq Requests
  /\ screen \in [Requests -> {"none", "open", "busy", "done", "closed"}]
  /\ signer \in [Requests -> Handlers \union {Unsigned}]
  /\ stored \subseteq Origins /\ known \subseteq Origins /\ unopened \subseteq Requests /\ mistimed \subseteq Requests

RequestInit ==
  /\ SessionInit /\ calls = 0
  /\ kind \in Kinds
  /\ stage = [r \in Requests |-> "new"]
  /\ approval = {} /\ callback = {} /\ mapped = {} /\ opening = {} /\ old = {}
  /\ entry = [r \in Requests |-> "none"]
  /\ screen = [r \in Requests |-> "none"]
  /\ signer = [r \in Requests |-> Unsigned]
  /\ stored \in SUBSET Origins /\ known = stored
  /\ agreed = {} /\ unopened = {} /\ mistimed = {}

-----------------------------------------------------------------------------
\* rejectRequest for each of a set of requests; the pages that wait on their
\* callbacks are refused.
Refused(S) == [r \in Requests |-> IF r \in S \intersect callback /\ stage[r] = "waiting"
                                  THEN "refused" ELSE stage[r]]
Marked(S) == [r \in Requests |-> IF r \in S THEN "rejected" ELSE entry[r]]
Reject(r) ==
  /\ approval' = approval \ {r} /\ callback' = callback \ {r}
  /\ entry' = Marked({r}) /\ stage' = Refused({r})

\* sweepStaleRequests
Stale == old \intersect (approval \union callback)

\* A page asks; the content script and the dispatcher let the request through.
Ask(r) ==
  /\ stage[r] = "new"
  /\ stage' = [stage EXCEPT ![r] = "asked"]
  /\ UNCHANGED <<sessionVars, queue, screens, signer, old, allowlist, userHistory>>

\* The handlers that only read (getAddress, isConnected, getSmartAccount, getPublicKey,
\* getNetwork), access that an origin has already, and origins that have none.
AnswerAtOnce(r) ==
  /\ stage[r] = "asked"
  /\ \/ kind[r] = "query"
     \/ kind[r] = "access" /\ Origin[r] \in known
     \/ kind[r] \in {"sign", "sessionKey"} /\ Origin[r] \notin known
  /\ stage' = [stage EXCEPT ![r] = IF Origin[r] \in known THEN "ok" ELSE "refused"]
  /\ UNCHANGED <<sessionVars, queue, screens, signer, old, allowlist, userHistory>>

AwaitedAccess(r) == kind[r] = "access" \* mutant: signing does not wait for the decision
Awaited(r) == kind[r] # "sessionKey"

\* enqueueApproval, then openApprovalWindow, which requestSessionKey does not wait for.
Enqueue(r) ==
  /\ stage[r] = "asked"
  /\ \/ kind[r] = "access" /\ Origin[r] \notin known
     \/ kind[r] \in {"sign", "sessionKey"} /\ Origin[r] \in known
  /\ approval' = (approval \ Stale) \union {r} /\ callback' = callback \ Stale
  /\ entry' = [Marked(Stale) EXCEPT ![r] = "pending"]
  /\ stage' = [Refused(Stale) EXCEPT ![r] = IF Awaited(r) THEN "opening" ELSE "ok"]
  /\ opening' = opening \union {r}
  /\ UNCHANGED <<sessionVars, mapped, screen, signer, old, allowlist, userHistory>>

\* A request that is not followed here is enqueued, or waits.
OtherEnqueued ==
  /\ Stale # {}
  /\ approval' = approval \ Stale /\ callback' = callback \ Stale
  /\ entry' = Marked(Stale) /\ stage' = Refused(Stale)
  /\ UNCHANGED <<sessionVars, mapped, screens, signer, old, allowlist, userHistory>>

\* The browser shows the screen before it tells the worker so.
Show(r) ==
  /\ r \in opening /\ screen[r] = "none"
  /\ screen' = [screen EXCEPT ![r] = "open"]
  /\ UNCHANGED <<sessionVars, stage, queue, opening, signer, old, allowlist, userHistory>>

\* openApprovalWindow returns, for a popup or for a side panel, which is not mapped:
\* waitForApproval.
Opened(r) ==
  /\ r \in opening /\ screen[r] # "none"
  /\ opening' = opening \ {r}
  /\ mapped' \in {mapped, mapped \union {r}}
  /\ IF stage[r] = "opening"
     THEN /\ approval' = approval \ Stale /\ callback' = (callback \ Stale) \union {r}
          /\ entry' = Marked(Stale)
          /\ stage' = [Refused(Stale) EXCEPT ![r] = "waiting"]
     ELSE UNCHANGED <<approval, callback, entry, stage>>
  /\ UNCHANGED <<sessionVars, screen, signer, old, allowlist, userHistory>>

\* It throws: the page is refused, the approval stays, and a side panel that does not
\* show it may have been pointed at it.
OpenFails(r) ==
  /\ r \in opening
  /\ opening' = opening \ {r}
  /\ screen' = screen \/ (screen[r] = "none" /\ screen' = [screen EXCEPT ![r] = "open"])
  /\ stage' = IF stage[r] = "opening" THEN [stage EXCEPT ![r] = "refused"] ELSE stage
  /\ unopened' = unopened \union {r}
  /\ UNCHANGED <<sessionVars, queue, signer, old, allowlist, agreed, mistimed>>

\* mutant: the timer only ends what the queue still knows
TimeOutQueued(r) ==
  /\ stage[r] = "waiting" /\ r \in old /\ r \in approval
  /\ approval' = approval \ {r}
  /\ entry' = [entry EXCEPT ![r] = "timed-out"]
  /\ stage' = [stage EXCEPT ![r] = "refused"]
  /\ UNCHANGED <<sessionVars, callback, mapped, screens, signer, old, allowlist, userHistory>>
\* The timer of waitForApproval leaves the callback.
TimeOut(r) ==
  /\ stage[r] = "waiting" /\ r \in old
  /\ approval' = approval \ {r}
  /\ entry' = [entry EXCEPT ![r] = "timed-out"]
  /\ stage' = [stage EXCEPT ![r] = "refused"]
  /\ UNCHANGED <<sessionVars, callback, mapped, screens, signer, old, allowlist, userHistory>>

\* Five minutes pass.
Age(r) ==
  /\ r \in approval \union callback /\ r \notin old
  /\ old' = old \union {r}
  /\ UNCHANGED <<sessionVars, stage, queue, screens, signer, allowlist, userHistory>>

-----------------------------------------------------------------------------
\* The user in the approval screen

\* What the screens of the other kinds send is handled; what GrantAccessScreen sends
\* is not.
Unhandled(r) == kind[r] = "access"

Known(r) == TRUE \* mutant: an approval is taken without looking for the request
Pending(r) == r \in approval

\* APPROVE_SIGN_REQUEST, APPROVE_AUTH_ENTRY_REQUEST, APPROVE_ACCESS_REQUEST
Approve(r, h) ==
  /\ screen[r] = "open"
  /\ agreed' = agreed \union {r}
  /\ \/ /\ Unhandled(r)
        /\ screen' = [screen EXCEPT ![r] = "done"]
        /\ UNCHANGED <<sessionVars, stage, approval, callback, entry, signer, mistimed>>
     \/ /\ ~Unhandled(r) /\ ~Pending(r)
        /\ screen' = [screen EXCEPT ![r] = "done"]
        /\ Reject(r)
        /\ UNCHANGED <<sessionVars, signer, mistimed>>
     \/ /\ ~Unhandled(r) /\ Pending(r)
        /\ Begins(h, "sign", IF flag THEN "account" ELSE "read")
        /\ screen' = [screen EXCEPT ![r] = "busy"] /\ signer' = [signer EXCEPT ![r] = h]
        /\ mistimed' = IF stage[r] \in Answers THEN mistimed \union {r} ELSE mistimed
        /\ UNCHANGED <<onboarded, flag, vaultOpen, record, attempts, restarts, tries, raced,
                       stage, approval, callback, entry>>
  /\ UNCHANGED <<mapped, opening, old, allowlist, unopened>>

\* REJECT_SIGN_REQUEST, REJECT_AUTH_ENTRY_REQUEST, REJECT_ACCESS_REQUEST
Decline(r) ==
  /\ screen[r] = "open"
  /\ screen' = [screen EXCEPT ![r] = "done"]
  /\ IF Unhandled(r) THEN UNCHANGED <<stage, approval, callback, entry>> ELSE Reject(r)
  /\ UNCHANGED <<sessionVars, mapped, opening, signer, old, allowlist, userHistory>>

\* onRemoved of a window the worker knows of.
CloseWindow(r) ==
  /\ screen[r] \in {"open", "busy", "done"}
  /\ screen' = [screen EXCEPT ![r] = "closed"]
  /\ mapped' = mapped \ {r}
  /\ IF r \in mapped \intersect approval
     THEN Reject(r)
     ELSE UNCHANGED <<stage, approval, callback, entry>>
  /\ UNCHANGED <<sessionVars, opening, signer, old, allowlist, userHistory>>

\* ConnectedSitesScreen revokes in a store of its own document.
Revoke(o) ==
  /\ o \in stored /\ stored' = stored \ {o}
  /\ UNCHANGED <<sessionVars, stage, queue, screens, signer, old, known, userHistory>>

-----------------------------------------------------------------------------
\* Signing, in a handler of the session

Resolve(r) ==
  /\ approval' = approval \ {r} /\ callback' = callback \ {r}
  /\ entry' = [entry EXCEPT ![r] = "resolved"]
  /\ stage' = IF stage[r] = "waiting" /\ r \in callback THEN [stage EXCEPT ![r] = "ok"] ELSE stage

SignerLeaves(r) ==
  /\ signer' = [signer EXCEPT ![r] = Unsigned]
  /\ screen' = IF screen[r] = "busy" THEN [screen EXCEPT ![r] = "done"] ELSE screen
  /\ UNCHANGED <<mapped, opening, old, allowlist, userHistory>>

\* isBackgroundSessionUnlockedAsync has read the session record.
SignRestores(r, h) ==
  /\ signer[r] = h /\ Restored(h)
  /\ IF flag'
     THEN Moves(h, "account") /\ UNCHANGED requestVars
     ELSE Ends(h) /\ Reject(r) /\ SignerLeaves(r)
  /\ UNCHANGED <<onboarded, vaultOpen, attempts, restarts, sessionHistory>>

\* getSigningKeypair: a locked vault ends the session.  A session key request has
\* nothing to sign.
Sign(r, h) ==
  /\ signer[r] = h /\ Stands(h, "account") /\ Ends(h)
  /\ IF vaultOpen
     THEN /\ IF kind[r] = "sign" THEN Resolve(r) ELSE Reject(r)
          /\ UNCHANGED <<flag, record>>
     ELSE Reject(r) /\ flag' = FALSE /\ record' = "none"
  /\ SignerLeaves(r)
  /\ UNCHANGED <<onboarded, vaultOpen, attempts, restarts, sessionHistory>>

-----------------------------------------------------------------------------
\* The worker ends: the pages that wait are told so by the browser.
RestartRequests ==
  /\ WorkerEnds
  /\ stage' = [r \in Requests |-> IF stage[r] \in {"asked", "opening", "waiting"}
                                  THEN "refused" ELSE stage[r]]
  /\ approval' = {} /\ callback' = {} /\ mapped' = {} /\ opening' = {}
  /\ screen' = [r \in Requests |-> IF screen[r] = "busy" THEN "done" ELSE screen[r]]
  /\ signer' = [r \in Requests |-> Unsigned]
  /\ known' = stored
  /\ UNCHANGED <<entry, old, stored, userHistory>>

WorkerStep(r) ==
  /\ \/ AnswerAtOnce(r) \/ Enqueue(r) \/ Opened(r) \/ OpenFails(r) \/ TimeOut(r)
     \/ \E h \in Handlers : SignRestores(r, h) \/ Sign(r, h)
  /\ UNCHANGED <<kind, calls>>
BrowserStep(r) == (Show(r) \/ Age(r)) /\ UNCHANGED <<kind, calls>>
UserStep(r) == Ask(r) \/ (\E h \in Handlers : Approve(r, h)) \/ Decline(r) \/ CloseWindow(r)

SessionStep ==
  /\ \/ (\E h \in Handlers : HandlerStarts(h)) /\ calls < MaxCalls /\ calls' = calls + 1
     \/ ((\E h \in Handlers : HandlerStep(h)) \/ TimePasses) /\ UNCHANGED calls
  /\ UNCHANGED requestVars

ExternalNext ==
  \/ \E r \in Requests : WorkerStep(r) \/ BrowserStep(r)
  \/ /\ \/ \E r \in Requests : UserStep(r)
        \/ \E o \in Origins : Revoke(o)
        \/ OtherEnqueued \/ RestartRequests
     /\ UNCHANGED <<kind, calls>>
  \/ SessionStep

\* The browser runs the worker and its timers.
ExternalFairness ==
  \A r \in Requests : WF_externalVars(WorkerStep(r)) /\ WF_externalVars(BrowserStep(r))

ExternalSpec == RequestInit /\ [][ExternalNext]_externalVars /\ ExternalFairness
-----------------------------------------------------------------------------
(***************************************************************************)
(* Properties.                                                             *)
(***************************************************************************)

\* A page that is told that its transaction, message or entry is signed has the
\* approval of the user, and its status entry never says otherwise
\* (waitForApproval, resolveRequest).
SignedWasApproved ==
  \A r \in Requests : kind[r] = "sign" /\ stage[r] = "ok" => r \in agreed /\ entry[r] = "resolved"

\* The worker does not begin to sign for a page that has been refused, the refusal
\* of a screen that could not be opened apart.
NoSigningAfterRefusal ==
  \A r \in mistimed : kind[r] = "sign" => r \in unopened

\* Nothing is signed for a page but what the user approved, nor after a refusal.
SigningConsented == SignedWasApproved /\ NoSigningAfterRefusal

\* Every request is answered: by the user, by the window that closes, by the timer,
\* or by the worker's end.
EveryRequestAnswered == \A r \in Requests : stage[r] = "asked" ~> stage[r] \in Answers
================================================================================
