------------------------------ MODULE MCContracts ------------------------------
(* Small instances of the account (its owners, then the spending of a session *)
(* key), of the invoice contract and of the upgrade governor.  They share no  *)
(* state, so each behaviour runs one of them.                                 *)
EXTENDS Account, Invoice, UpgradeGovernor, TLC

CONSTANTS a1, a2, a3, k1, c1, c2, m1, p1, p2, s1, s2

VARIABLE contract

MCPolicies ==
  {[perCall |-> Unlimited, limit |-> 2, window |-> 1],
   [perCall |-> 1, limit |-> Unlimited, window |-> 1]}
\* With and without a positive integer.
MCArgs == {{1}, {-1}, {-1, 2}}
MCRejects == {<<m1, c2>>}
MCEither == {{PERMISSION_EXECUTE}, {PERMISSION_SEND_PAYMENT}}

MCDueDates == {NoDue, 1}
MCSignerLists == {<<s1>>, <<s1, s2>>, <<s1, s1>>}
MCWasmPolicies ==
  {Permissive, [min |-> 2, max |-> 3, required |-> {"upgrade"}, forbidden |-> {"import"}]}
MCAttestations ==
  {[hash |-> "hash", size |-> 2, exports |-> {"upgrade"}, imports |-> {}],
   [hash |-> "hash", size |-> 4, exports |-> {}, imports |-> {"import"}]}

\* One owner, and a key that spends.
Spending == INSTANCE Account WITH
  Addresses <- {a1}, Contracts <- {c1}, Args <- {{1}, {-1, 2}}, Modules <- {},
  PermissionSets <- {{PERMISSION_EXECUTE}}, Expiries <- {0, 9}, MaxVersion <- 1,
  MaxNonce <- 3, MaxSigned <- 3

\* Three owners, one execution and one signed message.
Owners == INSTANCE Account WITH Args <- {{1}, {-1}}, MaxNonce <- 1, MaxSigned <- 1

\* Bound on the instants of that instance.
Brief == now' <= 1

ContractsInit ==
  /\ contract \in {"owners", "spending", "invoice", "governor"}
  /\ Init /\ InvoiceInit /\ GovernorInit

ContractsNext ==
  /\ UNCHANGED contract
  /\ \/ contract = "owners" /\ Owners!Next /\ Brief /\ UNCHANGED <<invoiceVars, governorVars>>
     \/ contract = "spending" /\ Spending!Next /\ UNCHANGED <<invoiceVars, governorVars>>
     \/ contract = "invoice" /\ InvoiceNext /\ UNCHANGED <<vars, governorVars>>
     \/ contract = "governor" /\ GovernorNext /\ UNCHANGED <<vars, invoiceVars>>

ContractsSpec ==
  ContractsInit /\ [][ContractsNext]_<<contract, vars, invoiceVars, governorVars>>

MCSymmetry == Permutations({a1, a2, a3})
================================================================================
