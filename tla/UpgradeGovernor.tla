---------------------------- MODULE UpgradeGovernor ----------------------------
(***************************************************************************)
(* The upgrade governor (contracts/upgrade) and the account it upgrades.   *)
(*                                                                         *)
(* An action is one successful contract call (see Account).  Executing a   *)
(* proposal calls upgrade on the target account, which asks for the        *)
(* authorisation of the account's owner: a call without it fails as a      *)
(* whole and is no step.  Anyone may submit either execution.              *)
(***************************************************************************)
EXTENDS Integers, Sequences, FiniteSets

CONSTANTS
  Signers,       \* addresses that may be signers
  SignerLists,   \* signer lists offered to update_multisig_config
  Attestations,  \* attestations offered to propose_upgrade, hash included
  WasmPolicies,  \* policies offered to set_contract_validation
  Delays,        \* delays offered to initialize and set_timelock_delay
  MaxSigners,    \* MAX_SIGNERS
  MaxProposals,  \* bound on proposals
  MaxClock       \* bound on the ledger timestamp

ZeroHash == "zero hash"
NoConfig == [threshold |-> 0, signers |-> << >>]

WasmPolicy == [min : Nat, max : Nat, required : SUBSET STRING, forbidden : SUBSET STRING]
Permissive == [min |-> 0, max |-> 0, required |-> {}, forbidden |-> {}]

ASSUME GovernorAssumption ==
  /\ SignerLists \subseteq Seq(Signers)
  /\ WasmPolicies \subseteq WasmPolicy
  /\ Attestations \subseteq [hash : STRING, size : Nat, exports : SUBSET STRING,
                             imports : SUBSET STRING]
  /\ Delays \subseteq Nat /\ MaxSigners \in Nat
  /\ MaxProposals \in Nat /\ MaxClock \in Nat

VARIABLES
  governed,      \* DataKey::Owner is set
  delay,         \* DataKey::TimelockDelay
  proposals,     \* DataKey::Proposal, in the order of their ids
  wasmPolicy,    \* DataKey::ContractValidation
  config,        \* DataKey::MultisigConfig
  approvals,     \* DataKey::SignatureRecord
  clock,         \* ledger timestamp
  promised,      \* history: the delay in force when each proposal was made
  upgrades       \* history: upgrades of the target

policyVars == <<delay, wasmPolicy, config>>
governorVars == <<governed, policyVars, proposals, approvals, clock, promised, upgrades>>

Clocks == 0..MaxClock
ProposalIds == 1..Len(proposals)
Proposal == [hash : STRING, proposed : Clocks, after : Nat,
             executed : BOOLEAN, cancelled : BOOLEAN]

GovernorTypeOK ==
  /\ governed \in BOOLEAN
  /\ delay \in Nat
  /\ proposals \in Seq(Proposal) /\ Len(proposals) <= MaxProposals
  /\ wasmPolicy \in WasmPolicy
  /\ config \in [threshold : Nat, signers : Seq(Signers)]
  /\ config.threshold <= Len(config.signers)
  /\ approvals \subseteq ProposalIds \X Signers
  /\ clock \in Clocks
  /\ promised \in [ProposalIds -> Nat]
  /\ upgrades \in Seq([id : ProposalIds, at : Clocks, multisig : BOOLEAN])

GovernorInit ==
  /\ governed = FALSE /\ delay = 0 /\ proposals = << >>
  /\ wasmPolicy = Permissive /\ config = NoConfig
  /\ approvals = {} /\ clock = 0
  /\ promised = << >> /\ upgrades = << >>

-----------------------------------------------------------------------------
\* The owner's calls.

GovernorInitialize(d) ==
  /\ ~governed
  /\ governed' = TRUE /\ delay' = d
  /\ UNCHANGED <<wasmPolicy, config, proposals, approvals, clock, promised, upgrades>>

\* set_timelock_delay
SetTimelockDelay(d) ==
  /\ governed
  /\ delay' = d
  /\ UNCHANGED <<governed, wasmPolicy, config, proposals, approvals, clock, promised, upgrades>>

SetContractValidation(pol) ==
  /\ governed
  /\ wasmPolicy' = pol
  /\ UNCHANGED <<governed, delay, config, proposals, approvals, clock, promised, upgrades>>

UpdateMultisigConfigUnchecked(n, list) == \* mutant: the threshold may exceed the list
  /\ governed
  /\ n > 0 /\ Len(list) <= MaxSigners
  /\ config' = [threshold |-> n, signers |-> list]
  /\ UNCHANGED <<governed, delay, wasmPolicy, proposals, approvals, clock, promised, upgrades>>
\* update_multisig_config: a list may name a signer twice.
UpdateMultisigConfig(n, list) ==
  /\ governed
  /\ n > 0 /\ Len(list) <= MaxSigners /\ n <= Len(list)
  /\ config' = [threshold |-> n, signers |-> list]
  /\ UNCHANGED <<governed, delay, wasmPolicy, proposals, approvals, clock, promised, upgrades>>

\* validate_wasm_metadata
ValidWasm(pol, att) ==
  /\ att.hash # ZeroHash
  /\ pol.min > 0 => att.size >= pol.min
  /\ pol.max > 0 => att.size <= pol.max
  /\ pol.required \subseteq att.exports
  /\ pol.forbidden \intersect att.imports = {}

ProposeUpgrade(att) ==
  /\ governed
  /\ ValidWasm(wasmPolicy, att)
  /\ Len(proposals) < MaxProposals
  /\ proposals' = Append(proposals,
       [hash |-> att.hash, proposed |-> clock, after |-> clock + delay,
        executed |-> FALSE, cancelled |-> FALSE])
  /\ promised' = Append(promised, delay)
  /\ UNCHANGED <<governed, policyVars, approvals, clock, upgrades>>

\* Neither executed nor cancelled.
Pending(id) == ~proposals[id].executed /\ ~proposals[id].cancelled

CancelUpgrade(id) ==
  /\ Pending(id)
  /\ proposals' = [proposals EXCEPT ![id].cancelled = TRUE]
  /\ UNCHANGED <<governed, policyVars, approvals, clock, promised, upgrades>>

-----------------------------------------------------------------------------
\* Signers and executions.

SignerNames(list) == {list[n] : n \in DOMAIN list}

SubmitMultisigSignature(s, id) ==
  /\ s \in SignerNames(config.signers)
  /\ Pending(id)
  /\ <<id, s>> \notin approvals
  /\ approvals' = approvals \union {<<id, s>>}
  /\ UNCHANGED <<governed, policyVars, proposals, clock, promised, upgrades>>

ElapsedUnderCurrentDelay(id) == clock >= proposals[id].proposed + delay \* mutant: the delay of today
\* The time lock that was announced with the proposal.
Elapsed(id) == clock >= proposals[id].after

\* The call of upgrade, then the proposal is marked.
UpgradeTarget(id, multisig) ==
  /\ Pending(id)
  /\ Elapsed(id)
  /\ upgrades' = Append(upgrades, [id |-> id, at |-> clock, multisig |-> multisig])
  /\ proposals' = [proposals EXCEPT ![id].executed = TRUE]
  /\ UNCHANGED <<governed, policyVars, approvals, clock, promised>>

ExecuteUpgrade(id) == UpgradeTarget(id, FALSE)

SignaturesOfAny(id) == \* mutant: for whichever proposal
  {n \in DOMAIN config.signers : \E m \in ProposalIds : <<m, config.signers[n]>> \in approvals}
\* The entries of the signers' list that have a record.
Signatures(id) == {n \in DOMAIN config.signers : <<id, config.signers[n]>> \in approvals}

ExecuteMultisigUpgrade(id) ==
  /\ config # NoConfig
  /\ Cardinality(Signatures(id)) >= config.threshold
  /\ UpgradeTarget(id, TRUE)

ClockAdvances ==
  /\ clock < MaxClock
  /\ clock' = clock + 1
  /\ UNCHANGED <<governed, policyVars, proposals, approvals, promised, upgrades>>

GovernorNext ==
  \/ \E d \in Delays : GovernorInitialize(d) \/ SetTimelockDelay(d)
  \/ \E pol \in WasmPolicies : SetContractValidation(pol)
  \/ \E list \in SignerLists, n \in 0..MaxSigners : UpdateMultisigConfig(n, list)
  \/ \E att \in Attestations : ProposeUpgrade(att)
  \/ \E id \in ProposalIds :
       \/ CancelUpgrade(id) \/ ExecuteUpgrade(id) \/ ExecuteMultisigUpgrade(id)
       \/ \E s \in Signers : SubmitMultisigSignature(s, id)
  \/ ClockAdvances

GovernorSpec == GovernorInit /\ [][GovernorNext]_governorVars

-----------------------------------------------------------------------------
(***************************************************************************)
(* Properties.                                                             *)
(***************************************************************************)

\* The target is upgraded at most once for a proposal, by whichever of the two
\* executions, never for a cancelled one, and not before the delay in force when
\* it was proposed has passed, whatever the owner sets later (execute_upgrade,
\* execute_multisig_upgrade, cancel_upgrade, set_timelock_delay).
UpgradesOnceInTime ==
  \A n \in DOMAIN upgrades :
    LET p == proposals[upgrades[n].id] IN
    /\ ~p.cancelled
    /\ upgrades[n].at >= p.proposed + promised[upgrades[n].id]
    /\ \A m \in DOMAIN upgrades : upgrades[m].id = upgrades[n].id => m = n

Distinct(list) == \A m, n \in DOMAIN list : list[m] = list[n] => m = n

\* An upgrade executed with signatures has those of as many present signers as
\* the present policy asks for, given for that proposal, when the policy names
\* no signer twice (the count in execute_multisig_upgrade after
\* update_multisig_config has replaced the signers).
MultisigQuorum ==
  [][\A n \in DOMAIN upgrades' \ DOMAIN upgrades :
       upgrades'[n].multisig /\ Distinct(config.signers) =>
         Cardinality({s \in SignerNames(config.signers) : <<upgrades'[n].id, s>> \in approvals})
           >= config.threshold]_governorVars
=============================================================================
