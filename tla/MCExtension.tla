------------------------------ MODULE MCExtension ------------------------------
(* Small instances of the extension, one per behaviour: the session of the     *)
(* background worker, a page's request with a shorter session, payments, and   *)
(* the deployment of an account.                                               *)
EXTENDS ExternalRequests, PaymentFlow, AccountDeployment, TLC

CONSTANTS r1, o1

VARIABLE part

MCKinds == {(r1 :> k) : k \in {"sign", "access", "sessionKey", "query"}}
MCOrigin == (r1 :> o1)

\* Bound on the calls of the session beside a request.
Brief == calls' <= 1

RequestsPart(A) == part = "requests" /\ A /\ Brief /\ UNCHANGED <<part, paymentVars, deployVars>>
SessionPart ==
  /\ part = "session"
  /\ SessionStep \/ (WorkerEnds /\ UNCHANGED <<requestVars, calls>>)
  /\ UNCHANGED <<part, paymentVars, deployVars>>
PaymentPart(A) == part = "payment" /\ A /\ UNCHANGED <<part, externalVars, deployVars>>
DeployPart(A) == part = "deploy" /\ A /\ UNCHANGED <<part, externalVars, paymentVars>>
extensionVars == <<part, externalVars, paymentVars, deployVars>>

ExtensionInit ==
  /\ part \in {"session", "requests", "payment", "deploy"}
  /\ RequestInit /\ PaymentInit /\ DeployInit
  /\ part # "requests" => kind = [r \in Requests |-> "query"] /\ stored = {}
  /\ part \in {"payment", "deploy"} => ~onboarded
  /\ part # "deploy" => fresh /\ ~chain.wasm
  /\ part # "payment" => paidBy = "horizon"

ExtensionNext ==
  SessionPart \/ RequestsPart(ExternalNext) \/ PaymentPart(PaymentNext) \/ DeployPart(DeployNext)

\* ExternalFairness, PaymentFairness and DeployFairness.
ExtensionFairness ==
  /\ \A r \in Requests :
       /\ WF_externalVars(RequestsPart(WorkerStep(r)))
       /\ WF_externalVars(RequestsPart(BrowserStep(r)))
  /\ \A c \in Confirmations : WF_paymentVars(PaymentPart(ConfirmationStep(c)))
  /\ \A s \in Screens : WF_deployVars(DeployPart(Attempt(s)))

\* The types of all parts.
TypesOK == RequestTypeOK /\ PaymentTypeOK /\ DeployTypeOK

\* A page's request is answered and a submission ends (see EveryRequestAnswered
\* and SubmissionEnds).
ExtensionSettles == EveryRequestAnswered /\ SubmissionEnds

ExtensionSpec == ExtensionInit /\ [][ExtensionNext]_extensionVars /\ ExtensionFairness
================================================================================
