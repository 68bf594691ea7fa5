------------------------------ MODULE MCWallets -------------------------------
\* The wallets of the SDK and what is built on them; a behaviour exercises one of
\* the ways to use them.
EXTENDS EscrowClient, AgentIdentityManager, AgentWallet, SolanaX402, EIP712Signer, TLC

\* AgentWallet: limits of 2 a transaction and 3 a day; by default it does not deploy.
AgentLimits(refusing) == [maxPerTransaction |-> 2, maxPerDay |-> 3, refused |-> refusing]
NoDeployments == AgentLimits({Deployment})
NoneAllowed == AgentLimits(Receivers)
DefaultOrNone == {NoDeployments, NoneAllowed}

AllAccounts == WalletAccounts \cup {OwnAccount}

\* Requests on both sides of a limit, and configurations with and without one.
AskedAmounts == {[amount |-> amount, expiry |-> 0] : amount \in {1, 2}}
SolanaDefault == [maxAutoApprove |-> 0, autoRetry |-> TRUE, approver |-> FALSE]
SolanaConfigs ==
  {[maxAutoApprove |-> max, autoRetry |-> retry, approver |-> approver] :
     max \in {0, 1}, retry \in BOOLEAN, approver \in BOOLEAN}

VARIABLE app
agentOwn == <<walletTime, loadedAt, limits, sessionEnd, dailySpent, lastSpendDay, savedState, walletHistory>>
x402Own == <<config, requests, x402Time>>
vars ==
  <<app, escrowVars, identityWallet, identityVars, adapterVars, agentOwn, x402Own, signerVars>>

Apps == {"commerce", "identity", "adapter identity", "agent", "solana agent", "x402", "typed data"}
AdapterOf(a) ==
  CASE a = "agent" -> {"evm"}
    [] a = "solana agent" -> {"both"}
    [] a = "adapter identity" -> {"evm", "keypair", "wallet", "both"}
    [] a = "x402" -> {"keypair", "wallet", "both"}
    [] OTHER -> {"evm"}

Init ==
  /\ app \in Apps
  /\ EscrowInit /\ IdentityInit
  /\ AgentInit(AdapterOf(app))
  /\ X402Init(AdapterOf(app), IF app = "x402" THEN Configs ELSE {SolanaDefault})
  /\ app # "identity" => ~hasCallback
  /\ SignerInit
  /\ app # "typed data" => ~hasSigner /\ signAccount = CHOOSE a \in KeyAccounts : TRUE

UnchangedBut(group) ==
  /\ UNCHANGED app
  /\ group # "commerce" => UNCHANGED escrowVars
  /\ group # "identity" => UNCHANGED identityWallet
  /\ group \notin {"identity", "adapter identity"} => UNCHANGED identityVars
  /\ group # "agent" => UNCHANGED agentOwn
  /\ group # "x402" => UNCHANGED x402Own
  /\ group # "typed data" => UNCHANGED signerVars
  /\ group \in {"commerce", "identity", "typed data"} => UNCHANGED adapterVars

\* Transactions are numbered in the order they are sent.
SentInOrder == \A s, t \in Sends : s < t /\ sends'[t] # Ended("new") => sends'[s] # Ended("new")

\* On Solana the owner changes no limit and nothing is recorded from outside.
Next ==
  \/ app = "commerce" /\ EscrowStep /\ UnchangedBut("commerce")
  \/ app = "identity" /\ IdentityStep /\ UnchangedBut("identity")
  \/ app = "adapter identity" /\ ManagerStep /\ UnchangedBut("adapter identity")
  \/ app = "agent" /\ AgentStep /\ SentInOrder /\ UnchangedBut("agent")
  \/ app = "solana agent" /\ AgentStep /\ SentInOrder /\ UNCHANGED <<limits, outside, loadedAt>> /\ UnchangedBut("agent")
  \/ app = "x402" /\ X402Step /\ UnchangedBut("x402")
  \/ app = "typed data" /\ SignerStep /\ UnchangedBut("typed data")

Spec == Init /\ [][Next]_vars
=============================================================================
