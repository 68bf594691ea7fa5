----------------------------- MODULE EIP712Signer -----------------------------
(***************************************************************************)
(* EIP712Signer, which signs identities, payments and escrow requests, and *)
(* the ways there are to check what it signed: its own methods, the        *)
(* functions of verification.ts and the MonmouthVerifier contract.         *)
(*                                                                         *)
(* A method takes a nonce, awaits the wallet and then notes the nonce.     *)
(* Several may wait at a time, and the application may set another account *)
(* or signer meanwhile.  Nonces live in memory: a reload of the page makes *)
(* a signer that starts from the first again.                              *)
(*                                                                         *)
(* A signature is the account whose key made it over exactly its message;  *)
(* hashing and recovery are cryptography, which does what it promises.     *)
(***************************************************************************)
EXTENDS Naturals

CONSTANTS
  Signings,        \* calls of the sign methods
  KeyAccounts,     \* accounts of the wallet
  NoKey,           \* what a stub signature, or one over another message, recovers to
  Validities,      \* expirySeconds of a call; 0 when it is left out
  DefaultValidity, \* defaultExpirySeconds
  MaxSignTime,     \* bound on the clock, in seconds
  MaxReloads       \* bound on reloads of the page

ASSUME SignerAssumption ==
  /\ NoKey \notin KeyAccounts
  /\ Validities \subseteq Nat /\ DefaultValidity \in Nat \ {0}
  /\ MaxSignTime \in Nat /\ MaxReloads \in Nat

\* What the sign methods build: an escrow request has no expiry; a payment's nonce is the
\* caller's, not the signer's.
Kinds == {"identity", "payment", "escrow create", "escrow action"}
Numbered == Kinds \ {"payment"}
SignedMessage ==
  [kind: Kinds, nonce: Nat, controller: KeyAccounts \cup {NoKey}, expiry: Nat]

\* A call: what it signs, whose key signs, and once it is back SignedData.signer.
\* `load` is the load of the page it was made in (history).
Untried == [stage |-> "untried"]
Refused == [stage |-> "refused"]
Signing == [stage: {"waiting", "signed"}, message: SignedMessage,
            by: KeyAccounts \cup {NoKey}, signer: KeyAccounts, load: 0 .. MaxReloads]

VARIABLES
  signAccount,     \* this.account
  hasSigner,
  counters,        \* LocalNonceManager.counters
  usedNonces,      \* LocalNonceManager.nonces: pairs of account and nonce
  signings,
  signTime,
  reloads

signerVars == <<signAccount, hasSigner, counters, usedNonces, signings, signTime, reloads>>

SignerTypeOK ==
  /\ signAccount \in KeyAccounts /\ hasSigner \in BOOLEAN
  /\ counters \in [KeyAccounts -> Nat]
  /\ usedNonces \subseteq KeyAccounts \X Nat
  /\ signings \in [Signings -> Signing \cup {Untried, Refused}]
  /\ signTime \in 0 .. MaxSignTime /\ reloads \in 0 .. MaxReloads

\* A new LocalNonceManager: 0 where the Map has no entry.
NoneCounted == [a \in KeyAccounts |-> 0]

SignerInit ==
  /\ signAccount \in KeyAccounts /\ hasSigner \in BOOLEAN
  /\ counters = NoneCounted /\ usedNonces = {}
  /\ signings = [s \in Signings |-> Untried]
  /\ signTime = 0 /\ reloads = 0

-----------------------------------------------------------------------------
(* Signing *)

\* Mutant: the nonce is advanced when the signature is there.
CountedLater == UNCHANGED counters

\* getNextNonce.
NextNonce == counters[signAccount] + 1
TakeNonce == counters' = [counters EXCEPT ![signAccount] = NextNonce]

\* sign, up to the await of the wallet; without one a stub signature is made.
AskWallet(s, message) ==
  /\ signings[s] = Untried
  /\ signings' = [signings EXCEPT ![s] =
       [stage |-> "waiting", message |-> message,
        by |-> IF hasSigner THEN signAccount ELSE NoKey, signer |-> signAccount, load |-> reloads]]
  /\ UNCHANGED <<signAccount, hasSigner, usedNonces, signTime, reloads>>

ValidFor(seconds) == IF seconds = 0 THEN DefaultValidity ELSE seconds

SignTypedIdentity(s, controller, seconds) ==
  /\ TakeNonce
  /\ AskWallet(s, [kind |-> "identity", nonce |-> NextNonce, controller |-> controller,
                   expiry |-> signTime + ValidFor(seconds)])

\* signEscrowCreate, signEscrowAction.
SignTypedEscrow(s, kind) ==
  /\ TakeNonce
  /\ AskWallet(s, [kind |-> kind, nonce |-> NextNonce, controller |-> NoKey, expiry |-> 0])

\* A payment's nonce comes with the requirement; one value stands for all.
PaymentNonce == 1
SignTypedPayment(s, nonce, expiry) ==
  /\ UNCHANGED counters
  /\ AskWallet(s, [kind |-> "payment", nonce |-> nonce, controller |-> NoKey, expiry |-> expiry])

\* Who waited when the page was loaded again is gone.
AwaitsWallet(s) ==
  signings[s] \in Signing /\ signings[s].stage = "waiting" /\ signings[s].load = reloads

\* The wallet has signed.  Whose nonce is noted, and who is named as the signer,
\* is the account that is set by now.
SignReturns(s) ==
  /\ AwaitsWallet(s)
  /\ signings' = [signings EXCEPT ![s].stage = "signed", ![s].signer = signAccount]
  /\ usedNonces' = IF signings[s].message.kind \in Numbered
                   THEN usedNonces \cup {<<signAccount, signings[s].message.nonce>>} ELSE usedNonces
  /\ UNCHANGED <<signAccount, hasSigner, counters, signTime, reloads>>

\* SIGN_REJECTED or INVALID_MESSAGE: the nonce stays taken and is not noted.
SignFails(s) ==
  /\ AwaitsWallet(s) /\ signings[s].by # NoKey
  /\ signings' = [signings EXCEPT ![s] = Refused]
  /\ UNCHANGED <<signAccount, hasSigner, counters, usedNonces, signTime, reloads>>

SetAccount(a) ==
  /\ signAccount' = a
  /\ UNCHANGED <<hasSigner, counters, usedNonces, signings, signTime, reloads>>

SetSigner ==
  /\ hasSigner' = TRUE
  /\ UNCHANGED <<signAccount, counters, usedNonces, signings, signTime, reloads>>

\* The page is loaded again; what was signed is with whoever got it.
ReloadSigner ==
  /\ reloads < MaxReloads
  /\ reloads' = reloads + 1
  /\ signAccount' \in KeyAccounts /\ hasSigner' \in BOOLEAN
  /\ counters' = NoneCounted /\ usedNonces' = {}
  /\ UNCHANGED <<signings, signTime>>

SecondPasses ==
  /\ signTime < MaxSignTime
  /\ signTime' = signTime + 1
  /\ UNCHANGED <<signAccount, hasSigner, counters, usedNonces, signings, reloads>>

SignerStep ==
  \/ \E s \in Signings, a \in KeyAccounts, seconds \in Validities : SignTypedIdentity(s, a, seconds)
  \/ \E s \in Signings, kind \in {"escrow create", "escrow action"} : SignTypedEscrow(s, kind)
  \/ \E s \in Signings, expiry \in 0 .. MaxSignTime : SignTypedPayment(s, PaymentNonce, expiry)
  \/ \E s \in Signings : SignReturns(s) \/ SignFails(s)
  \/ \E a \in KeyAccounts : SetAccount(a)
  \/ SetSigner
  \/ ReloadSigner
  \/ SecondPasses

SignerSpec == SignerInit /\ [][SignerStep]_signerVars

-----------------------------------------------------------------------------
(* Checking what was signed, now *)

\* SignedData.expiresAt; none is undefined, and 0 counts as none.
ExpiresAt(d) == IF d.message.kind \in {"identity", "payment"} THEN d.message.expiry ELSE 0
HasExpired(d) == ExpiresAt(d) # 0 /\ signTime > ExpiresAt(d)

\* recoverTypedDataAddress; a stub signature is nobody's.
RecoverSigner(d) == d.by

\* verifyIdentity, verifyPayment of the signer that is in the page.
VerifyOwnIdentity(d) ==
  /\ ~HasExpired(d)
  /\ <<d.signer, d.message.nonce>> \notin usedNonces
  /\ RecoverSigner(d) = d.signer /\ RecoverSigner(d) = d.message.controller
VerifyOwnPayment(d) == ~HasExpired(d) /\ RecoverSigner(d) = d.signer

\* verification.ts, anywhere and without a memory of nonces.
VerifyIdentitySignature(d) ==
  ~HasExpired(d) /\ RecoverSigner(d) = d.signer /\ RecoverSigner(d) = d.message.controller
VerifyPaymentSignature(d, payer) ==
  signTime <= d.message.expiry /\ RecoverSigner(d) = d.signer /\ RecoverSigner(d) = payer

\* MonmouthVerifier.  The domain of its identities names the contract, the SDK's
\* does not, so that it recovers somebody else from what the SDK signed.  Whoever signed
\* a payment, it is valid.  Its own nonces are marked by verifyAndConsumeIdentity only,
\* which for the same reason accepts nothing that the SDK signed.
IdentitySignerOnChain(d) == NoKey
VerifyIdentityOnChain(d) ==
  signTime <= d.message.expiry /\ IdentitySignerOnChain(d) = d.message.controller
VerifyPaymentOnChain(d) == signTime <= d.message.expiry /\ RecoverSigner(d) # NoKey

-----------------------------------------------------------------------------
(* Properties *)

IsSigned(s, kinds) ==
  signings[s] \in Signing /\ signings[s].stage = "signed" /\ signings[s].message.kind \in kinds

\* Between two reloads no account signs two messages with one nonce, whatever
\* waits at the same time, is refused, or comes back after another account or
\* signer was set: the contracts take each nonce of an account once only.
NoncesDiffer ==
  \A s, t \in Signings :
    /\ s # t /\ IsSigned(s, Numbered) /\ IsSigned(t, Numbered)
    /\ signings[s].load = signings[t].load
    /\ signings[s].by = signings[t].by /\ signings[s].by # NoKey
    => signings[s].message.nonce # signings[t].message.nonce

\* A signed payment that still runs is accepted by the signer's own check exactly if
\* verification.ts accepts it as paid by the signer it names, and then the contract
\* accepts it too: the three compare the expiry in three ways.
PaymentChecksAgree ==
  \A s \in Signings :
    IsSigned(s, {"payment"}) /\ signings[s].message.expiry > 0 =>
      /\ VerifyOwnPayment(signings[s]) <=> VerifyPaymentSignature(signings[s], signings[s].signer)
      /\ VerifyOwnPayment(signings[s]) => VerifyPaymentOnChain(signings[s])

\* EIP712Signer.ts:25 verifies an identity "later" with the signer that signed it.
OwnIdentityVerifies ==
  \A s \in Signings :
    IsSigned(s, {"identity"}) /\ VerifyIdentitySignature(signings[s]) => VerifyOwnIdentity(signings[s])

\* verification.ts:119 has "Verify identity signature on-chain".
IdentityVerifiesOnChain ==
  \A s \in Signings :
    IsSigned(s, {"identity"}) /\ VerifyIdentitySignature(signings[s]) => VerifyIdentityOnChain(signings[s])
=============================================================================
