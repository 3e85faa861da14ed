----------------------------- MODULE JobLifecycle -----------------------------
(***************************************************************************)
(* What the relayer's job queue promises of each job: it is queued, then   *)
(* running, and leaves "running" by completing, by going back to the queue *)
(* with one more failed attempt, or, at the last attempt, by becoming      *)
(* dead.                                                                   *)
(*                                                                         *)
(* This is less than the life cycle at the head of queue/types.ts, in two  *)
(* places where the code departs from it.  Its stage "failed", between     *)
(* running and the retry, is no state of its own: nack writes "pending" or *)
(* "dead" at once and no code writes "failed".  And "completed" is final   *)
(* only once the worker has heard of it: a worker whose ack was committed  *)
(* but not answered takes the job for failed, and its nack takes the       *)
(* completion back, at most once for each such ack.                        *)
(***************************************************************************)
EXTENDS Naturals

CONSTANTS Jobs, MaxAttempts

VARIABLES
  status,    \* status of each job, "absent" before it is enqueued
  attempts,  \* failed attempts of each job
  unheard    \* jobs completed without the worker hearing of it

vars == <<status, attempts, unheard>>

Init ==
  /\ status = [j \in Jobs |-> "absent"]
  /\ attempts = [j \in Jobs |-> 0]
  /\ unheard = [j \in Jobs |-> FALSE]

Move(j, from, to) == status[j] = from /\ status' = [status EXCEPT ![j] = to]

Submit(j) == Move(j, "absent", "pending") /\ UNCHANGED <<attempts, unheard>>
Claim(j) == Move(j, "pending", "processing") /\ UNCHANGED <<attempts, unheard>>
Succeed(j) == Move(j, "processing", "completed") /\ UNCHANGED <<attempts, unheard>>

\* The job is completed and its worker does not hear of it.
SucceedUnheard(j) ==
  /\ Move(j, "processing", "completed")
  /\ unheard' = [unheard EXCEPT ![j] = TRUE]
  /\ UNCHANGED attempts

\* One more failed attempt: back to the queue, or dead.
FailFrom(j, from) ==
  /\ Move(j, from, IF attempts[j] + 1 >= MaxAttempts THEN "dead" ELSE "pending")
  /\ attempts' = [attempts EXCEPT ![j] = @ + 1]

Fail(j) == FailFrom(j, "processing") /\ UNCHANGED unheard

\* The worker that was not told of the completion takes it back.
Retract(j) ==
  /\ unheard[j]
  /\ FailFrom(j, "completed")
  /\ unheard' = [unheard EXCEPT ![j] = FALSE]

Next ==
  \E j \in Jobs :
    Submit(j) \/ Claim(j) \/ Succeed(j) \/ SucceedUnheard(j) \/ Fail(j) \/ Retract(j)

Spec == Init /\ [][Next]_vars
=============================================================================
