------------------------------- MODULE MCClients -------------------------------
(* Small instances of three parts of the clients, one per behaviour: the vault *)
(* of the wallets, a batch of payouts from the dashboard, and the requests of  *)
(* dApps to the mobile wallet.                                                 *)
EXTENDS SecureStorage, BulkPayouts, WalletConnectRequests, TLC

CONSTANTS c1, c2, p1, p2, a1, x1, x2, w1, w2, q1, q2

VARIABLE part

MCBatches == {{x1}, {x1, x2}}

clientVars == <<part, vaultVars, payoutVars, walletVars>>
ClientsInit ==
  /\ part \in {"vault", "payouts", "dapps"} /\ VaultInit /\ PayoutInit /\ WalletInit
  /\ part # "dapps" => sessions = {} /\ \A q \in DappRequests : asks[q] = "xdr"
ClientsNext ==
  /\ UNCHANGED part
  /\ \/ part = "vault" /\ VaultNext /\ UNCHANGED <<payoutVars, walletVars>>
     \/ part = "payouts" /\ PayoutNext /\ UNCHANGED <<vaultVars, walletVars>>
     \/ part = "dapps" /\ WalletNext /\ UNCHANGED <<vaultVars, payoutVars>>

ClientsSpec == ClientsInit /\ [][ClientsNext]_clientVars

\* The types of all parts.
TypesOK == VaultTypeOK /\ PayoutTypeOK /\ WalletTypeOK

MCSymmetry ==
  Permutations({c1, c2}) \union Permutations({p1, p2}) \union Permutations({w1, w2})
================================================================================
