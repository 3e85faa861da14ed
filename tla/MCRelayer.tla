------------------------------- MODULE MCRelayer -------------------------------
(* Small instances of two parts of the relayer, one per behaviour: requests to *)
(* relay, and the start and the shutdown of processes.                         *)
EXTENDS RelayExecution, RelayerProcess, TLC

CONSTANTS c1, c2, c3, k1, h1, h2

VARIABLE part

\* Two calls with one key, and one that repeats a nonce without a key.
MCNonce == (c1 :> 0 @@ c2 :> 1 @@ c3 :> 0)
MCKey == (c1 :> k1 @@ c2 :> k1 @@ c3 :> NoKey)

\* The processes are alike: the first request goes to h1.
FirstToH1 == attempts' # << >> => attempts'[1].host = h1

ProcessPart(A) == part = "processes" /\ A /\ UNCHANGED <<part, vars>>
relayerVars == <<part, vars, processVars>>

RelayerInit == part \in {"requests", "processes"} /\ Init /\ ProcessInit
RelayerNext ==
  \/ part = "requests" /\ Next /\ FirstToH1 /\ UNCHANGED <<part, processVars>>
  \/ ProcessPart(ProcessNext)

\* ProcessFairness.
RelayerFairness ==
  \A p \in Procs : /\ WF_processVars(ProcessPart(Migrate(p)))
                  /\ SF_processVars(ProcessPart(TakeLock(p)))
                  /\ WF_processVars(ProcessPart(Wind(p)))

RelayerSpec == RelayerInit /\ [][RelayerNext]_relayerVars /\ RelayerFairness

\* A process that is told to stop exits, and one that starts serves (see
\* SignalledExits and StarterServes).
ProcessSettles ==
  part = "processes" => SignalledExits /\ StarterServes
================================================================================
