----------------------------- MODULE ChainAdapter -----------------------------
(***************************************************************************)
(* The chain adapters of the SDK.  An EvmAdapter has one account for life; *)
(* a SolanaAdapter has a keypair, an external wallet, or both.  What the   *)
(* external wallet is connected to is decided by its user, at any time,    *)
(* also between the awaits of a transaction.                               *)
(*                                                                         *)
(* Balances, fees and receipts, which change nothing, are left out, and an *)
(* adapter without any account, whose calls all fail.                      *)
(***************************************************************************)
EXTENDS Naturals

CONSTANTS
  WalletAccounts, \* accounts of the external wallet's user
  OwnAccount,     \* of the configured key
  Nobody,
  Sends,          \* transactions, each sent once
  Values

ASSUME AdapterAssumption ==
  OwnAccount \notin WalletAccounts /\ Nobody \notin WalletAccounts \cup {OwnAccount} /\ Values \subseteq Nat

VARIABLES
  adapter,    \* what it is made of
  adapterOn,  \* its flag: connect was called last
  wallet,     \* the account the external wallet is connected to
  sends       \* transaction -> how far it is

adapterVars == <<adapter, adapterOn, wallet, sends>>

SomeAccount == WalletAccounts \cup {OwnAccount}
Ended(stage) == [stage |-> stage]
SendRecord ==
  [stage: {"building", "signing", "sending"}, value: Values, from: SomeAccount, payer: SomeAccount]

AdapterTypeOK ==
  /\ adapter \in {"evm", "keypair", "wallet", "both"} /\ adapterOn \in BOOLEAN
  /\ wallet \in WalletAccounts \cup {Nobody}
  /\ sends \in [Sends -> SendRecord \cup {Ended("new"), Ended("done")}]

AdapterInit(kinds) ==
  /\ adapter \in kinds /\ adapterOn = FALSE /\ wallet = Nobody
  /\ sends = [s \in Sends |-> Ended("new")]

HasWallet == adapter \in {"wallet", "both"}

IsConnected == IF HasWallet THEN wallet # Nobody ELSE adapterOn

\* getAddress throws when it is Nobody.
Address ==
  IF HasWallet /\ wallet # Nobody THEN wallet
  ELSE IF adapter = "wallet" THEN Nobody ELSE OwnAccount

\* Whom sign asks; the flag is not looked at.
Signer == IF HasWallet THEN wallet ELSE OwnAccount

\* The external wallet asks its user for an account.
ConnectAdapter ==
  /\ adapterOn' = TRUE
  /\ IF HasWallet THEN wallet' \in WalletAccounts ELSE UNCHANGED wallet
  /\ UNCHANGED <<adapter, sends>>

DisconnectAdapter ==
  /\ adapterOn' = FALSE
  /\ wallet' = Nobody
  /\ UNCHANGED <<adapter, sends>>

\* The user connects, switches or disconnects in the wallet itself.
WalletChanges ==
  /\ HasWallet
  /\ wallet' \in (WalletAccounts \cup {Nobody}) \ {wallet}
  /\ UNCHANGED <<adapter, adapterOn, sends>>

-----------------------------------------------------------------------------
(* sendTransaction *)

Underway(s) == sends[s].stage \in {"building", "signing", "sending"}

\* On Solana a transaction names its sender before the blockhash is awaited.
Submit(s, value) ==
  /\ sends[s] = Ended("new") /\ Address # Nobody
  /\ sends' = [sends EXCEPT ![s] =
       [stage |-> IF adapter = "evm" THEN "sending" ELSE "building",
        value |-> value, from |-> Address, payer |-> Address]]
  /\ UNCHANGED <<adapter, adapterOn, wallet>>

\* The fee payer is looked up afterwards; without one the transaction cannot be
\* compiled.
Blockhash(s) ==
  /\ sends[s].stage = "building"
  /\ sends' = [sends EXCEPT ![s] =
       IF Signer = Nobody THEN Ended("done")
       ELSE [@ EXCEPT !.payer = Signer, !.stage = IF HasWallet THEN "signing" ELSE "sending"]]
  /\ UNCHANGED <<adapter, adapterOn, wallet>>

\* The wallet signs for the account it is connected to; a transaction that still
\* lacks a signature cannot be serialized.
WalletSigns(s) ==
  /\ sends[s].stage = "signing"
  /\ sends' = [sends EXCEPT ![s] =
       IF wallet = @.payer /\ (@.value > 0 => @.from = wallet) THEN [@ EXCEPT !.stage = "sending"] ELSE Ended("done")]
  /\ UNCHANGED <<adapter, adapterOn, wallet>>

\* The call returns: with a keypair after the confirmation, otherwise with the
\* hash alone, although a SolanaAdapter says "confirmed" of it.
Answered(s) ==
  /\ sends[s].stage = "sending"
  /\ sends' = [sends EXCEPT ![s] = Ended("done")]
  /\ UNCHANGED <<adapter, adapterOn, wallet>>

\* The call fails, before or after the transaction went out.
Rejected(s) ==
  /\ Underway(s)
  /\ sends' = [sends EXCEPT ![s] = Ended("done")]
  /\ UNCHANGED <<adapter, adapterOn, wallet>>

AdapterStep ==
  \/ ConnectAdapter \/ DisconnectAdapter \/ WalletChanges
  \/ \E s \in Sends : Blockhash(s) \/ WalletSigns(s) \/ Rejected(s)
=============================================================================
