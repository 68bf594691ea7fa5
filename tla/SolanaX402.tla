------------------------------ MODULE SolanaX402 ------------------------------
(***************************************************************************)
(* SolanaX402Client: a request that is answered 402 is repeated with a     *)
(* signed payment.  Between its awaits the user of the external wallet may *)
(* switch or disconnect it, also while it is asked to sign, and time       *)
(* passes.  The client has a keypair, a wallet or both, like a             *)
(* SolanaAdapter, and takes the payer from publicKey and the signer from   *)
(* connected, at different moments.                                        *)
(***************************************************************************)
EXTENDS ChainAdapter

CONSTANTS
  X402Requests,
  Asked,        \* what servers may ask for: amount and expiry
  Configs,      \* configurations of the client
  MaxX402Time   \* bound on the clock

ASSUME X402Assumption ==
  /\ Asked \subseteq [amount: Nat, expiry: Nat]
  /\ Configs \subseteq [maxAutoApprove: Nat, autoRetry: BOOLEAN, approver: BOOLEAN]
  /\ MaxX402Time \in Nat

VARIABLES
  config,
  requests,   \* request -> how far it is
  x402Time

x402Vars == <<adapterVars, config, requests, x402Time>>

Over(stage) == [stage |-> stage]
Waiting ==
  [stage: {"fetching", "approving", "signing", "repeating", "preparing", "countersigning", "transferring"},
   asked: Asked, header: SomeAccount \cup {Nobody}, payer: SomeAccount \cup {Nobody},
   signer: SomeAccount \cup {Nobody},   \* Nobody until the wallet that is asked has signed
   approved: BOOLEAN,
   switched: BOOLEAN]                   \* history: the wallet changed while it was asked

X402TypeOK ==
  /\ AdapterTypeOK
  /\ config \in Configs
  /\ requests \in [X402Requests -> Waiting \cup {Over("new"), Over("done")}]
  /\ x402Time \in 0 .. MaxX402Time

X402Init(kinds, configs) ==
  /\ AdapterInit(kinds)
  /\ config \in configs
  /\ requests = [r \in X402Requests |-> Over("new")]
  /\ x402Time = 0

Unmoved == UNCHANGED <<adapterVars, config, x402Time>>
Finish(r) == requests' = [requests EXCEPT ![r] = Over("done")]

\* getPayerAddress: the external wallet before the keypair.
PayerAddress == Address

-----------------------------------------------------------------------------
(* fetch *)

\* What the server will ask for is in the record before it is known.
FetchPaid(r, asked) ==
  /\ requests[r] = Over("new")
  /\ requests' = [requests EXCEPT ![r] =
       [stage |-> "fetching", asked |-> asked, header |-> PayerAddress,
        payer |-> Nobody, signer |-> Nobody, approved |-> FALSE, switched |-> FALSE]]
  /\ Unmoved

\* 0 is no limit under which anything is approved.
AutoApproves(amount) == config.maxAutoApprove > 0 /\ amount <= config.maxAutoApprove

\* Mutant: the payer is the one the first request named.
HeaderPayer(request) == request.header

PayerOf(request) == PayerAddress

WalletConnected == HasWallet /\ wallet # Nobody

\* signPayment, up to the await of the signature: the keypair's, or that of the wallet,
\* which is not told for which account.
SignPayment(r, request) ==
  IF PayerAddress = Nobody THEN Finish(r)
  ELSE requests' = [requests EXCEPT ![r] =
         [request EXCEPT !.stage = "signing", !.payer = PayerOf(request),
                         !.signer = IF WalletConnected THEN Nobody ELSE OwnAccount]]

AsksWallet(request) ==
  request \in Waiting /\ request.stage = "signing" /\ request.signer = Nobody

AsksApproval(request) == config.approver /\ ~AutoApproves(request.asked.amount)

MayPay(request) == config.autoRetry \/ AutoApproves(request.asked.amount)

\* handlePaymentRequired up to its first await.
AnswerIs402(r) ==
  /\ requests[r].stage = "fetching"
  /\ IF x402Time > requests[r].asked.expiry THEN Finish(r)
     ELSE IF AsksApproval(requests[r]) THEN requests' = [requests EXCEPT ![r].stage = "approving"]
     ELSE IF MayPay(requests[r]) THEN SignPayment(r, requests[r])
     ELSE Finish(r)
  /\ Unmoved

\* The expiry is not looked at again; without autoRetry nothing is paid.
PaymentApproved(r) ==
  /\ requests[r].stage = "approving"
  /\ IF MayPay(requests[r]) THEN SignPayment(r, [requests[r] EXCEPT !.approved = TRUE]) ELSE Finish(r)
  /\ Unmoved

\* The wallet signs for the account it is at by now.  The request is repeated,
\* without a timer.
PaymentSigned(r) ==
  /\ requests[r].stage = "signing"
  /\ AsksWallet(requests[r]) => wallet # Nobody
  /\ requests' = [requests EXCEPT ![r].stage = "repeating",
                                 ![r].signer = IF AsksWallet(requests[r]) THEN wallet ELSE @]
  /\ Unmoved

-----------------------------------------------------------------------------
(* sendPayment: the payment as a transaction, which the application starts *)

CreateTransaction(r, asked) ==
  /\ requests[r] = Over("new") /\ PayerAddress # Nobody
  /\ requests' = [requests EXCEPT ![r] =
       [stage |-> "preparing", asked |-> asked, header |-> Nobody,
        payer |-> PayerAddress, signer |-> Nobody, approved |-> TRUE, switched |-> FALSE]]
  /\ Unmoved

\* The blockhash is there.  A wallet that is connected is asked, otherwise the keypair
\* signs, which it can only for itself.
SendPayment(r) ==
  /\ requests[r].stage = "preparing"
  /\ IF WalletConnected THEN requests' = [requests EXCEPT ![r].stage = "countersigning"]
     ELSE IF adapter # "wallet" /\ requests[r].payer = OwnAccount
     THEN requests' = [requests EXCEPT ![r].stage = "transferring", ![r].signer = OwnAccount]
     ELSE Finish(r)
  /\ Unmoved

\* A transaction without the signature of its fee payer is not sent.
TransactionSigned(r) ==
  /\ requests[r].stage = "countersigning" /\ wallet # Nobody
  /\ IF requests[r].payer = wallet
     THEN requests' = [requests EXCEPT ![r].stage = "transferring", ![r].signer = wallet]
     ELSE Finish(r)
  /\ Unmoved

-----------------------------------------------------------------------------
\* An answer of any kind; a refusal, an error, or the timer of the first request.
RequestEnds(r) ==
  /\ requests[r] \in Waiting
  /\ Finish(r)
  /\ Unmoved

X402Tick ==
  /\ x402Time < MaxX402Time /\ x402Time' = x402Time + 1
  /\ UNCHANGED <<adapterVars, config, requests>>

\* Who is asked for a signature meanwhile will give that of another account.
WalletMoves ==
  /\ AdapterStep
  /\ requests' = [r \in X402Requests |->
       IF AsksWallet(requests[r]) /\ wallet' # wallet THEN [requests[r] EXCEPT !.switched = TRUE] ELSE requests[r]]
  /\ UNCHANGED <<config, x402Time>>

X402Step ==
  \/ \E r \in X402Requests :
       \/ \E asked \in Asked : FetchPaid(r, asked) \/ CreateTransaction(r, asked)
       \/ AnswerIs402(r) \/ PaymentApproved(r) \/ PaymentSigned(r)
       \/ SendPayment(r) \/ TransactionSigned(r) \/ RequestEnds(r)
  \/ X402Tick
  \/ WalletMoves

X402Spec(kinds, configs) == X402Init(kinds, configs) /\ [][X402Step]_x402Vars

-----------------------------------------------------------------------------
(* Properties *)

Paying(r) == requests[r] \in Waiting /\ requests[r].stage \in {"signing", "repeating", "transferring"}
Handed(r) == requests[r] \in Waiting /\ requests[r].stage \in {"repeating", "transferring"}

\* A payment that leaves the client names the account that signed it: the keypair and the
\* wallet are chosen twice, by publicKey for the payer and by connected for the signer, and
\* the wallet may have been switched or disconnected since the request was made or the
\* approval asked for.  Only a switch while signMessage is awaited parts them.
PayerSigns ==
  \A r \in X402Requests : Handed(r) /\ ~requests[r].switched => requests[r].payer = requests[r].signer

\* wallet-sdk/src/payments/SolanaX402Client.ts:97 calls the name that goes with the signature
\* "Payer public key", and verifyPayment checks one by the other.
PayerAlwaysSigns == \A r \in X402Requests : Handed(r) => requests[r].payer = requests[r].signer

\* wallet-sdk/src/payments/SolanaX402Client.ts:46 says of maxAutoApprove: "Maximum
\* auto-approve amount in lamports (0 = require confirmation)".
ZeroRequiresConfirmation ==
  \A r \in X402Requests : Paying(r) /\ config.maxAutoApprove = 0 => requests[r].approved
=============================================================================
