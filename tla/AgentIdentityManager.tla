------------------------- MODULE AgentIdentityManager -------------------------
(***************************************************************************)
(* AgentIdentityManager: the identity of an agent whose wallet is a chain  *)
(* adapter.  The document is adopted for the address the adapter gives and *)
(* signed by whom it asks, which a SolanaAdapter with a keypair and a      *)
(* wallet need not agree on; the wallet it asks may be switched until its  *)
(* user signs.                                                             *)
(***************************************************************************)
EXTENDS AgentIdentity, ChainAdapter

ASSUME ManagerAssumption == Controllers = WalletAccounts \cup {OwnAccount} /\ NoAddress = Nobody

managerVars == <<adapterVars, identityVars>>

\* The chain type, which is part of the key, is the adapter's for life.
InitializeWithAdapter == IsConnected /\ InitializeIdentity(Address)

UpdateDocument == Update(Address)

\* signIdentity and signMessage; the DID of a message is the one after the await.  A
\* wallet that is not connected rejects the call.
SignWithAdapter == Signer # Nobody /\ SignIdentity(FALSE)

\* The constructor and restoreIdentity, whose await nothing can get in before.
NewIdentityManager == NewManager(IF IsConnected THEN Address ELSE Nobody)

ManagerStep ==
  \/ AdapterStep /\ AccountChanges(Address' = Address)
  \/ /\ UNCHANGED adapterVars
     /\ \/ InitializeWithAdapter \/ UpdateDocument \/ SignWithAdapter \/ NewIdentityManager
        \/ WalletSignsIdentity(Signer) \/ SignatureArrives \/ SignatureRefused \/ ClearIdentity

\* A MonmouthWallet and its callback play no part.
ManagerSpec(kinds) ==
  AdapterInit(kinds) /\ IdentityInit /\ [][ManagerStep /\ UNCHANGED identityWallet]_<<identityWallet, managerVars>>
=============================================================================
