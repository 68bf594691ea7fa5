------------------------ MODULE MonmouthEscrowProofs ------------------------
(***************************************************************************)
(* The escrow contract is well typed, pays no escrow more than was paid in *)
(* for it, accepts no signature twice, owns exactly what its open escrows  *)
(* claim and what nobody can claim, and implements EscrowVault, for any    *)
(* accounts, tokens, amounts, fees and bounds.                             *)
(***************************************************************************)
EXTENDS MonmouthEscrow, FiniteSetTheorems, WellFoundedInduction, TLAPS

\* The part of the state that moves when funds do, and what TypeOK says of it.
FundsOK ==
  /\ Ids \subseteq EscrowId
  /\ escrows \in [Ids -> Escrow]
  /\ held \in [AnyToken -> Nat]
  /\ deposited \in [Ids -> Nat]
  /\ paidOut \in [Ids -> Nat]
  /\ stray \in [AnyToken -> Nat]

\* The rest of TypeOK.
RestOK ==
  /\ block \in 0 .. MaxBlock
  /\ nonces \in [Depositors -> 0 .. MaxNonce]
  /\ protocolFeeBps \in 0 .. MaxFeeBps
  /\ feeRecipient \in Accounts \cup {NoOne}
  /\ admin \in Accounts \cup {NoOne}
  /\ signed \subseteq Signature
  /\ spent \subseteq signed

\* TypeOK is the two parts and the flags of the ids that exist.
LEMMA TypeParts == TypeOK <=> FundsOK /\ RestOK /\ disputed \subseteq Ids
BY DEF TypeOK, FundsOK, RestOK

\* The amount of an escrow that exists is a natural number.
LEMMA AmountNat == ASSUME EscrowAssumption, TypeOK, NEW id \in Ids PROVE id.amount \in Nat
<1>1. id \in EscrowId
  BY DEF TypeOK
<1>2. id.amount \in Amounts
  BY <1>1 DEF EscrowId
<1> QED BY <1>2 DEF EscrowAssumption

\* Division of naturals stays among them (fees and splits).
LEMMA DivNat == \A n \in Nat, d \in Nat \ {0} : n \div d \in Nat
BY SMT

\* An amount multiplied by basis points is a natural number.
LEMMA TimesNat == \A m, n \in Nat : m * n \in Nat
BY SMT

\* Creating an escrow, under a new id or one that exists, keeps the funds in order.
LEMMA StoreKeeps ==
  ASSUME EscrowAssumption, TypeOK, NeverOverpaid,
         NEW a \in Depositors, NEW terms \in CreateTerms, NEW arbiter \in Accounts \cup {NoOne},
         StoreEscrow(a, terms, arbiter)
  PROVE  FundsOK' /\ NeverOverpaid' /\ Ids \subseteq Ids'
<1> DEFINE id == IdOf(a, terms)
<1>1. FundsOK /\ block \in 0 .. MaxBlock
  BY DEF TypeOK, FundsOK
<1>2. id \in EscrowId /\ id.amount = terms.amount
  BY <1>1 DEF IdOf, EscrowId, CreateTerms
<1>3. terms.amount \in Nat /\ terms.token \in AnyToken /\ block + terms.duration \in Nat
  <2>1. terms.amount \in Amounts /\ terms.duration \in Durations /\ terms.token \in AnyToken
    BY DEF CreateTerms
  <2>2. block \in Nat
    BY <1>1 DEF EscrowAssumption
  <2>3. Amounts \subseteq Nat /\ Durations \subseteq Nat
    BY DEF EscrowAssumption
  <2>4. terms.amount \in Nat /\ terms.duration \in Nat
    BY <2>1, <2>3
  <2> QED BY <2>1, <2>2, <2>4
<1>4. Ids' = Ids \cup {id}
  BY DEF StoreEscrow, Updated, Ids
<1>5. [expiresAt |-> block + terms.duration, state |-> "Created", arbiter |-> arbiter] \in Escrow
  BY <1>3 DEF Escrow, State
<1>6. FundsOK'
  <2>1. Ids' \subseteq EscrowId
    BY <1>1, <1>2, <1>4 DEF FundsOK
  <2>2. escrows' \in [Ids' -> Escrow]
    BY <1>1, <1>4, <1>5 DEF FundsOK, StoreEscrow, Updated, Ids
  <2>3. held' \in [AnyToken -> Nat] /\ stray' \in [AnyToken -> Nat]
    BY <1>1, <1>3 DEF FundsOK, StoreEscrow
  <2>4. deposited' \in [Ids' -> Nat] /\ paidOut' \in [Ids' -> Nat]
    BY <1>1, <1>3, <1>4 DEF FundsOK, StoreEscrow, Updated
  <2> QED BY <2>1, <2>2, <2>3, <2>4 DEF FundsOK
<1>7. NeverOverpaid'
  <2> SUFFICES ASSUME NEW x \in Ids'
              PROVE  paidOut'[x] + (IF Open(x)' THEN x.amount ELSE 0) <= deposited'[x]
    BY DEF NeverOverpaid
  <2>1. CASE x = id
    <3>1. CASE id \in Ids
      <4>1. paidOut[id] <= deposited[id]
        BY <1>1, <1>2, <1>3, <3>1 DEF NeverOverpaid, FundsOK
      <4>2. paidOut'[id] = paidOut[id] /\ deposited'[id] = deposited[id] + terms.amount
        BY <1>1, <3>1 DEF StoreEscrow, Updated, FundsOK
      <4> QED BY <1>1, <1>2, <1>3, <2>1, <3>1, <4>1, <4>2 DEF FundsOK
    <3>2. CASE id \notin Ids
      <4>1. paidOut'[id] = 0 /\ deposited'[id] = 0 + terms.amount
        BY <1>1, <3>2 DEF StoreEscrow, Updated, FundsOK
      <4> QED BY <1>2, <1>3, <2>1, <4>1
    <3> QED BY <3>1, <3>2
  <2>2. CASE x # id
    <3>1. x \in Ids /\ escrows'[x] = escrows[x] /\ paidOut'[x] = paidOut[x]
          /\ deposited'[x] = deposited[x]
      BY <1>1, <1>4, <2>2 DEF StoreEscrow, Updated, FundsOK, Ids
    <3> QED BY <3>1 DEF NeverOverpaid, Open
  <2> QED BY <2>1, <2>2
<1> QED BY <1>4, <1>6, <1>7

\* Settling an open escrow for at most its amount keeps the funds in order.
LEMMA SettleKeeps ==
  ASSUME EscrowAssumption, TypeOK, NeverOverpaid,
         NEW id \in Ids, Open(id),
         NEW state \in {"Released", "Refunded"}, MoveTo(id, state),
         NEW amount \in Nat, amount <= id.amount, NEW unsent \in Nat,
         PayOut(id, amount, unsent)
  PROVE  FundsOK' /\ NeverOverpaid' /\ Ids' = Ids
<1>1. FundsOK /\ id \in EscrowId /\ id.token \in AnyToken /\ id.amount \in Nat
  BY DEF TypeOK, FundsOK, EscrowId, EscrowAssumption
<1>2. Ids' = Ids
  BY <1>1 DEF MoveTo, Ids
<1>3. escrows' \in [Ids' -> Escrow]
  BY <1>1, <1>2 DEF MoveTo, FundsOK, Escrow, State
<1>4. held' \in [AnyToken -> Nat] /\ stray' \in [AnyToken -> Nat]
  BY <1>1 DEF PayOut, FundsOK
<1>5. paidOut' \in [Ids' -> Nat] /\ deposited' \in [Ids' -> Nat]
  BY <1>1, <1>2 DEF PayOut, FundsOK
<1>6. NeverOverpaid'
  <2> SUFFICES ASSUME NEW x \in Ids
              PROVE  paidOut'[x] + (IF Open(x)' THEN x.amount ELSE 0) <= deposited'[x]
    BY <1>2 DEF NeverOverpaid
  <2>1. CASE x = id
    <3>1. ~Open(x)' /\ paidOut'[x] = paidOut[x] + amount /\ deposited'[x] = deposited[x]
      BY <1>1, <2>1 DEF MoveTo, PayOut, Open, FundsOK, Escrow
    <3>2. paidOut[x] + x.amount <= deposited[x]
      BY <2>1 DEF NeverOverpaid
    <3> QED BY <1>1, <2>1, <3>1, <3>2 DEF FundsOK
  <2>2. CASE x # id
    <3>1. escrows'[x] = escrows[x] /\ paidOut'[x] = paidOut[x] /\ deposited'[x] = deposited[x]
      BY <1>1, <2>2 DEF MoveTo, PayOut, FundsOK
    <3> QED BY <3>1 DEF NeverOverpaid, Open
  <2> QED BY <2>1, <2>2
<1> QED BY <1>1, <1>2, <1>3, <1>4, <1>5, <1>6 DEF FundsOK

\* The release of _release, whoever asks for it, keeps the funds in order.
LEMMA PayRecipientKeeps ==
  ASSUME EscrowAssumption, TypeOK, NeverOverpaid, NEW id, InState(id, "Created"), PayRecipient(id)
  PROVE  FundsOK' /\ NeverOverpaid' /\ Ids' = Ids
<1>1. id \in Ids /\ Open(id) /\ MoveTo(id, "Released")
  BY DEF InState, Open, PayRecipient
<1>2. id.amount \in Nat
  BY <1>1, AmountNat
<1>3. FeeOf(id) \in Nat
  <2>1. protocolFeeBps \in Nat
    BY DEF TypeOK, EscrowAssumption
  <2> QED BY <1>2, <2>1, TimesNat, DivNat DEF FeeOf, EscrowAssumption
<1>4. FeeOf(id) <= id.amount
  BY DEF PayRecipient
<1>5. PICK amount \in Nat, unsent \in Nat : amount <= id.amount /\ PayOut(id, amount, unsent)
  <2>1. PayOut(id, id.amount, 0) \/ PayOut(id, id.amount - FeeOf(id), FeeOf(id))
    BY DEF PayRecipient
  <2>2. id.amount - FeeOf(id) \in Nat /\ id.amount - FeeOf(id) <= id.amount
    BY <1>2, <1>3, <1>4
  <2> QED BY <1>2, <1>3, <2>1, <2>2
<1> QED BY <1>1, <1>5, SettleKeeps

\* A signature that is accepted is of the nonce the signer is at, which moves on.
LEMMA AcceptKeeps ==
  ASSUME EscrowAssumption, TypeOK, ReplaySafe, NEW s \in signed, AcceptSignature(s),
         UNCHANGED <<block, disputed, adminVars, signed>>
  PROVE  RestOK' /\ ReplaySafe'
<1>1. RestOK /\ s \in Signature /\ MaxNonce \in Nat
  BY DEF TypeOK, RestOK, EscrowAssumption
<1>2. s.signer \in Depositors /\ s.nonce \in 0 .. MaxNonce - 1
  BY <1>1 DEF Signature
<1>3. nonces' = [nonces EXCEPT ![s.signer] = @ + 1] /\ spent' = spent \cup {s}
      /\ s.nonce = nonces[s.signer]
  BY DEF AcceptSignature, NonceUsed
<1>4. nonces' \in [Depositors -> 0 .. MaxNonce]
  BY <1>1, <1>2, <1>3 DEF RestOK
<1>5. RestOK'
  BY <1>1, <1>3, <1>4 DEF RestOK, adminVars
<1>6. ReplaySafe'
  <2> SUFFICES ASSUME NEW t \in spent'
              PROVE  t.nonce < nonces'[t.signer]
    BY DEF ReplaySafe
  <2>1. t \in signed /\ t \in Signature
    BY <1>1, <1>3 DEF RestOK
  <2>2. t.signer \in Depositors /\ t.nonce \in 0 .. MaxNonce - 1
    BY <2>1 DEF Signature
  <2>3. nonces[t.signer] <= nonces'[t.signer]
    BY <1>1, <1>3, <2>2 DEF RestOK
  <2>4. CASE t \in spent
    BY <1>1, <1>4, <2>2, <2>3, <2>4 DEF ReplaySafe, RestOK
  <2>5. CASE t = s
    BY <1>1, <1>2, <1>3, <2>5 DEF RestOK
  <2> QED BY <1>3, <2>4, <2>5
<1> QED BY <1>5, <1>6

-----------------------------------------------------------------------------

\* What the three theorems need of each other.
IInv == TypeOK /\ NeverOverpaid /\ ReplaySafe

\* The contract starts with no escrow and no signature.
LEMMA InitInv == ASSUME EscrowAssumption, Init PROVE IInv
<1>1. TypeOK
  BY DEF Init, TypeOK, EscrowAssumption, Ids
<1>2. NeverOverpaid
  BY DEF Init, NeverOverpaid, Ids
<1>3. ReplaySafe
  BY DEF Init, ReplaySafe
<1> QED BY <1>1, <1>2, <1>3 DEF IInv

\* Steps that leave the funds and the signatures alone.
LEMMA QuietSteps ==
  ASSUME EscrowAssumption, IInv, UNCHANGED <<fundVars, nonces, disputed, spent>>, RestOK'
  PROVE  IInv'
<1>1. FundsOK' /\ disputed' \subseteq Ids'
  BY DEF IInv, TypeOK, FundsOK, fundVars, Ids
<1>2. NeverOverpaid' /\ ReplaySafe'
  BY DEF IInv, NeverOverpaid, ReplaySafe, fundVars, Ids, Open
<1> QED BY <1>1, <1>2, TypeParts DEF TypeOK, RestOK, FundsOK, IInv

\* Steps that move funds and nothing else.
LEMMA FundSteps ==
  ASSUME EscrowAssumption, IInv, FundsOK', NeverOverpaid', Ids \subseteq Ids',
         UNCHANGED <<block, nonces, disputed, adminVars, signed, spent>>
  PROVE  IInv'
<1>1. RestOK' /\ disputed' \subseteq Ids' /\ ReplaySafe'
  BY DEF IInv, TypeOK, RestOK, ReplaySafe, adminVars
<1> QED BY <1>1 DEF IInv, TypeOK, FundsOK, RestOK

\* Every step keeps the invariant.
LEMMA NextInv == ASSUME EscrowAssumption, IInv, [Next]_vars PROVE IInv'
<1> USE DEF IInv
<1>1. ASSUME NEW a \in Depositors, NEW terms \in CreateTerms, NEW arbiter \in Arbiters,
             CreateEscrowETH(a, terms, arbiter) \/ CreateEscrowERC20(a, terms, arbiter)
      PROVE  IInv'
  <2>1. arbiter \in Accounts \cup {NoOne} /\ StoreEscrow(a, terms, arbiter)
    BY <1>1 DEF CreateEscrowETH, CreateEscrowERC20, EscrowAssumption
  <2>2. UNCHANGED <<block, nonces, disputed, adminVars, signed, spent>>
    BY <1>1 DEF CreateEscrowETH, CreateEscrowERC20
  <2> QED BY <2>1, <2>2, StoreKeeps, FundSteps
<1>2. ASSUME NEW s \in Signature, Sign(s)
      PROVE  IInv'
  BY <1>2, QuietSteps DEF Sign, TypeOK, RestOK, adminVars
<1>3. ASSUME NEW s \in signed, CreateEscrowWithSignature(s)
      PROVE  IInv'
  <2>1. s.signer \in Depositors /\ s.body \in CreateTerms /\ NoOne \in Accounts \cup {NoOne}
        /\ StoreEscrow(s.signer, s.body, NoOne)
    BY <1>3 DEF CreateEscrowWithSignature, TypeOK, Signature
  <2>2. FundsOK' /\ NeverOverpaid' /\ Ids \subseteq Ids'
    BY <2>1, StoreKeeps
  <2>3. RestOK' /\ ReplaySafe'
    BY <1>3, AcceptKeeps DEF CreateEscrowWithSignature
  <2>4. disputed' \subseteq Ids'
    BY <1>3, <2>2 DEF CreateEscrowWithSignature, TypeOK
  <2> QED BY <2>2, <2>3, <2>4 DEF TypeOK, FundsOK, RestOK
<1>4. ASSUME NEW s \in signed, ReleaseWithSignature(s)
      PROVE  IInv'
  <2>1. FundsOK' /\ NeverOverpaid' /\ Ids' = Ids
    BY <1>4, PayRecipientKeeps DEF ReleaseWithSignature
  <2>2. RestOK' /\ ReplaySafe'
    BY <1>4, AcceptKeeps DEF ReleaseWithSignature
  <2>3. disputed' \subseteq Ids'
    BY <1>4, <2>1 DEF ReleaseWithSignature, TypeOK
  <2> QED BY <2>1, <2>2, <2>3 DEF TypeOK, FundsOK, RestOK
<1>5. ASSUME NEW from \in Accounts, NEW id \in Ids, Release(from, id)
      PROVE  IInv'
  <2>1. InState(id, "Created") /\ PayRecipient(id)
    BY <1>5 DEF Release
  <2>2. UNCHANGED <<block, nonces, disputed, adminVars, signed, spent>>
    BY <1>5 DEF Release
  <2> QED BY <2>1, <2>2, PayRecipientKeeps, FundSteps
<1>6. ASSUME NEW from \in Accounts, NEW id \in Ids, Refund(from, id)
      PROVE  IInv'
  <2>1. Open(id) /\ MoveTo(id, "Refunded") /\ PayOut(id, id.amount, 0)
    BY <1>6 DEF Refund, InState, Open
  <2>2. id.amount \in Nat /\ 0 \in Nat /\ id.amount <= id.amount
    BY AmountNat
  <2>3. UNCHANGED <<block, nonces, disputed, adminVars, signed, spent>>
    BY <1>6 DEF Refund
  <2>4. FundsOK' /\ NeverOverpaid' /\ Ids' = Ids
    BY <2>1, <2>2, SettleKeeps
  <2> QED BY <2>3, <2>4, FundSteps
<1>7. ASSUME NEW from \in Accounts, NEW id \in Ids, Dispute(from, id)
      PROVE  IInv'
  <2>1. escrows' = [escrows EXCEPT ![id].state = "Disputed"] /\ escrows[id].state = "Created"
        /\ UNCHANGED <<block, held, deposited, paidOut, stray, nonces, adminVars, signed, spent>>
        /\ disputed' = disputed \cup {id}
    BY <1>7 DEF Dispute, MoveTo, InState
  <2>2. escrows \in [Ids -> Escrow]
    BY DEF TypeOK
  <2>3. Ids' = Ids /\ escrows' \in [Ids' -> Escrow]
    BY <2>1, <2>2 DEF Ids, Escrow, State
  <2>4. TypeOK'
    BY <2>1, <2>3 DEF TypeOK, adminVars
  <2>5. \A x \in Ids : Open(x)' <=> Open(x)
    BY <2>1, <2>2 DEF Open, Escrow
  <2>6. NeverOverpaid' /\ ReplaySafe'
    BY <2>1, <2>3, <2>5 DEF NeverOverpaid, ReplaySafe
  <2> QED BY <2>4, <2>6
<1>8. ASSUME NEW from \in Accounts, NEW id \in Ids, NEW bps \in BpsChoices,
             ResolveDispute(from, id, bps)
      PROVE  IInv'
  <2>1. Open(id) /\ MoveTo(id, "Released") /\ PayOut(id, id.amount, 0)
    BY <1>8 DEF ResolveDispute, InState, Open
  <2>2. id.amount \in Nat /\ 0 \in Nat /\ id.amount <= id.amount
    BY AmountNat
  <2>3. UNCHANGED <<block, nonces, disputed, adminVars, signed, spent>>
    BY <1>8 DEF ResolveDispute
  <2>4. FundsOK' /\ NeverOverpaid' /\ Ids' = Ids
    BY <2>1, <2>2, SettleKeeps
  <2> QED BY <2>3, <2>4, FundSteps
<1>9. ASSUME NEW from \in Accounts, NEW bps \in BpsChoices, SetProtocolFee(from, bps)
      PROVE  IInv'
  <2>1. protocolFeeBps' \in 0 .. MaxFeeBps
    BY <1>9 DEF SetProtocolFee, EscrowAssumption
  <2> QED BY <1>9, <2>1, QuietSteps DEF SetProtocolFee, TypeOK, RestOK
<1>10. ASSUME NEW from \in Accounts, NEW to \in Accounts \cup {NoOne},
              SetFeeRecipient(from, to) \/ TransferAdmin(from, to)
       PROVE  IInv'
  BY <1>10, QuietSteps DEF SetFeeRecipient, TransferAdmin, TypeOK, RestOK
<1>11. CASE Receive
  <2>1. held' \in [AnyToken -> Nat] /\ stray' \in [AnyToken -> Nat]
    BY <1>11 DEF Receive, TypeOK, AnyToken
  <2>2. FundsOK' /\ NeverOverpaid' /\ Ids' = Ids
    BY <1>11, <2>1 DEF Receive, TypeOK, FundsOK, NeverOverpaid, Ids, Open
  <2> QED BY <1>11, <2>2, FundSteps DEF Receive
<1>12. CASE NextBlock
  BY <1>12, QuietSteps DEF NextBlock, TypeOK, RestOK, adminVars, EscrowAssumption
<1>13. CASE UNCHANGED vars
  BY <1>13, QuietSteps DEF vars, TypeOK, RestOK, adminVars
<1> QED BY <1>1, <1>2, <1>3, <1>4, <1>5, <1>6, <1>7, <1>8, <1>9, <1>10, <1>11, <1>12, <1>13
        DEF Next

\* The invariant holds of every behaviour of the contract.
THEOREM Invariant == Spec => []IInv
<1>1. Init => IInv
  BY InitInv, EscrowAssumption
<1>2. IInv /\ [Next]_vars => IInv'
  BY NextInv, EscrowAssumption
<1> QED BY <1>1, <1>2, PTL DEF Spec

\* The state of the contract is well typed.
THEOREM TypeCorrect == Spec => []TypeOK
<1>1. IInv => TypeOK
  BY DEF IInv
<1> QED BY <1>1, Invariant, PTL

\* Whatever releases, refunds, resolutions and re-creations of an id do, it is
\* never paid more than was paid in under it (release, refund, resolveDispute).
THEOREM Overpayment == Spec => []NeverOverpaid
<1>1. IInv => NeverOverpaid
  BY DEF IInv
<1> QED BY <1>1, Invariant, PTL

\* An accepted signature stays behind its signer's nonce.
THEOREM Replay == Spec => []ReplaySafe
<1>1. IInv => ReplaySafe
  BY DEF IInv
<1> QED BY <1>1, Invariant, PTL

-----------------------------------------------------------------------------
(* Sums of amounts.  A sum is a fold, and what a fold gives is shown by    *)
(* counting: an amount is so many coins, the coins of a set of escrows are *)
(* counted by its cardinality, and a set on which the fold and the count   *)
(* differed would have a smallest subset on which they do.                 *)

\* Escrows whose amounts can be summed.
Summable(S) == IsFiniteSet(S) /\ \A id \in S : id.amount \in Nat

CoinsOf(id) == {id} \X (1 .. id.amount)
Coins(S) == UNION {CoinsOf(id) : id \in S}

\* An amount is that many coins.
LEMMA CoinsOfOne ==
  ASSUME NEW id, id.amount \in Nat
  PROVE  IsFiniteSet(CoinsOf(id)) /\ Cardinality(CoinsOf(id)) = id.amount
<1>1. IsFiniteSet(1 .. id.amount) /\ Cardinality(1 .. id.amount) = id.amount
  BY FS_Interval
<1>2. IsFiniteSet({id}) /\ Cardinality({id}) = 1
  BY FS_Singleton
<1>3. IsFiniteSet(CoinsOf(id)) /\ Cardinality(CoinsOf(id)) = Cardinality({id}) * Cardinality(1 .. id.amount)
  BY <1>1, <1>2, FS_Product DEF CoinsOf
<1> QED BY <1>1, <1>2, <1>3

\* Finitely many escrows have finitely many coins.
LEMMA CoinsFinite == ASSUME NEW S, Summable(S) PROVE IsFiniteSet(Coins(S))
<1> DEFINE piles == {CoinsOf(id) : id \in S}
           f == [id \in S |-> CoinsOf(id)]
<1>1. f \in Surjection(S, piles)
  BY DEF Surjection
<1>2. IsFiniteSet(piles)
  BY <1>1, FS_Surjection DEF Summable
<1>3. \A pile \in piles : IsFiniteSet(pile)
  BY CoinsOfOne DEF Summable
<1> QED BY <1>2, <1>3, FS_UNION DEF Coins

\* The coins of a set are those of one of its escrows and those of the others.
LEMMA CoinsSplit ==
  ASSUME NEW S, Summable(S), NEW x \in S
  PROVE  Cardinality(Coins(S)) = x.amount + Cardinality(Coins(S \ {x}))
<1>1. Summable(S \ {x})
  BY FS_RemoveElement DEF Summable
<1>2. Coins(S) = CoinsOf(x) \cup Coins(S \ {x})
  BY DEF Coins
<1>3. CoinsOf(x) \cap Coins(S \ {x}) = {}
  BY DEF Coins, CoinsOf
<1>4. IsFiniteSet(CoinsOf(x)) /\ Cardinality(CoinsOf(x)) = x.amount
  BY CoinsOfOne DEF Summable
<1>5. IsFiniteSet(Coins(S \ {x}))
  BY <1>1, CoinsFinite
<1>6. Cardinality(CoinsOf(x) \cup Coins(S \ {x}))
        = Cardinality(CoinsOf(x)) + Cardinality(Coins(S \ {x})) - Cardinality({})
  BY <1>3, <1>4, <1>5, FS_Union
<1>7. x.amount \in Nat /\ Cardinality(Coins(S \ {x})) \in Nat
  BY <1>5, FS_CardinalityType DEF Summable
<1> QED BY <1>2, <1>4, <1>6, <1>7, FS_EmptySet

\* The fold of amounts counts their coins.
LEMMA TotalIsCoins ==
  ASSUME NEW S, Summable(S)
  PROVE  Total(S) = Cardinality(Coins(S))
<1> DEFINE Pick(s) == CHOOSE x \in s : TRUE
           Step(g, s) == IF s = {} THEN 0 ELSE Pick(s).amount + g[s \ {Pick(s)}]
           Sums(g) == g = [s \in SUBSET S |-> Step(g, s)]
           count == [s \in SUBSET S |-> Cardinality(Coins(s))]
           iter == CHOOSE g : Sums(g)
<1>1. ASSUME NEW s \in SUBSET S
      PROVE  Summable(s)
  BY FS_Subset DEF Summable
<1>2. Coins({}) = {}
  BY DEF Coins
<1>3. ASSUME NEW s \in SUBSET S
      PROVE  Cardinality(Coins(s)) = Step(count, s)
  <2>1. CASE s = {}
    BY <1>2, <2>1, FS_EmptySet
  <2>2. CASE s # {}
    <3>1. Pick(s) \in s /\ s \ {Pick(s)} \in SUBSET S
      BY <2>2
    <3>2. Cardinality(Coins(s)) = Pick(s).amount + Cardinality(Coins(s \ {Pick(s)}))
      BY <1>1, <3>1, CoinsSplit
    <3> QED BY <2>2, <3>1, <3>2
  <2> QED BY <2>1, <2>2
<1>4. Sums(count)
  BY <1>3
<1>5. Sums(iter)
  BY <1>4
<1>6. Total(S) = iter[S]
  BY DEF Total, MapThenSumSet, MapThenFoldSet
<1>7. \A s \in SUBSET S : iter[s] = count[s]
  <2> DEFINE wrong == {s \in SUBSET S : iter[s] # count[s]}
  <2> SUFFICES ASSUME wrong # {}
               PROVE  FALSE
    OBVIOUS
  <2>1. IsWellFoundedOn(StrictSubsetOrdering(S), SUBSET S)
    BY FS_StrictSubsetOrderingWellFounded, FS_FiniteSubsetsOfFinite DEF Summable
  <2>2. PICK s \in wrong : \A t \in wrong : <<t, s>> \notin StrictSubsetOrdering(S)
    <3> HIDE DEF wrong
    <3>1. wrong \subseteq SUBSET S
      BY DEF wrong
    <3> QED BY <2>1, <3>1, WFMin
  <2>3. CASE s = {}
    BY <1>4, <1>5, <2>3
  <2>4. CASE s # {}
    <3>1. Pick(s) \in s /\ s \ {Pick(s)} \in SUBSET S
      BY <2>4
    <3>2. <<s \ {Pick(s)}, s>> \in StrictSubsetOrdering(S)
      BY <3>1 DEF StrictSubsetOrdering
    <3>3. iter[s \ {Pick(s)}] = count[s \ {Pick(s)}]
      BY <2>2, <3>1, <3>2
    <3>4. iter[s] = Step(iter, s) /\ count[s] = Step(count, s)
      BY <1>4, <1>5
    <3> HIDE DEF iter, count, Pick
    <3> QED BY <2>2, <2>4, <3>3, <3>4
  <2> QED BY <2>3, <2>4
<1> QED BY <1>6, <1>7

\* One escrow more claims its amount more.
LEMMA TotalAdd ==
  ASSUME NEW S, Summable(S), NEW x, x \notin S, x.amount \in Nat
  PROVE  Summable(S \cup {x}) /\ Total(S \cup {x}) = Total(S) + x.amount
<1>1. Summable(S \cup {x})
  BY FS_AddElement DEF Summable
<1>2. (S \cup {x}) \ {x} = S
  OBVIOUS
<1>3. Cardinality(Coins(S \cup {x})) = x.amount + Cardinality(Coins(S))
  BY <1>1, <1>2, CoinsSplit
<1>4. Cardinality(Coins(S)) \in Nat
  BY CoinsFinite, FS_CardinalityType
<1> QED BY <1>1, <1>3, <1>4, TotalIsCoins

\* One escrow less claims its amount less.
LEMMA TotalRemove ==
  ASSUME NEW S, Summable(S), NEW x \in S
  PROVE  Summable(S \ {x}) /\ Total(S) = Total(S \ {x}) + x.amount
<1>1. Summable(S \ {x}) /\ x.amount \in Nat
  BY FS_RemoveElement DEF Summable
<1>2. (S \ {x}) \cup {x} = S
  OBVIOUS
<1> QED BY <1>1, <1>2, TotalAdd

\* A sum of amounts is a natural number.
LEMMA TotalNat == ASSUME NEW S, Summable(S) PROVE Total(S) \in Nat
BY TotalIsCoins, CoinsFinite, FS_CardinalityType

-----------------------------------------------------------------------------
(* What a step does to money, whichever function it is: one of four things. *)

OpenIds == {id \in Ids : Open(id)}

LargestFee(amount) == (amount * MaxFeeBps) \div Denominator

ComesIn(id) ==
  /\ OpenIds' = OpenIds \cup {id}
  /\ held' = [held EXCEPT ![id.token] = @ + id.amount]
  /\ stray' = [stray EXCEPT ![id.token] = @ + (IF id \in OpenIds THEN id.amount ELSE 0)]

GoesOut(id, amount, unsent) ==
  /\ id \in OpenIds /\ amount + unsent = id.amount /\ unsent <= LargestFee(id.amount)
  /\ OpenIds' = OpenIds \ {id}
  /\ held[id.token] >= amount
  /\ held' = [held EXCEPT ![id.token] = @ - amount]
  /\ stray' = [stray EXCEPT ![id.token] = @ + unsent]

IsGiven ==
  /\ OpenIds' = OpenIds
  /\ held' = [held EXCEPT ![Ether] = @ + 1]
  /\ stray' = [stray EXCEPT ![Ether] = @ + 1]

StaysPut == UNCHANGED <<OpenIds, held, stray>>

MoneyMoves ==
  \/ StaysPut
  \/ IsGiven
  \/ \E id \in EscrowId : ComesIn(id)
  \/ \E id \in EscrowId, amount, unsent \in Nat : GoesOut(id, amount, unsent)

\* A creation is paid in, under a new id, a settled one or an open one.
LEMMA StoreMoves ==
  ASSUME EscrowAssumption, TypeOK,
         NEW a \in Depositors, NEW terms \in CreateTerms, NEW arbiter,
         StoreEscrow(a, terms, arbiter)
  PROVE  MoneyMoves
<1> DEFINE id == IdOf(a, terms)
<1>1. id \in EscrowId /\ id.amount = terms.amount /\ id.token = terms.token
  BY DEF TypeOK, IdOf, EscrowId, CreateTerms
<1>2. Ids' = Ids \cup {id} /\ escrows'[id].state = "Created"
  BY DEF StoreEscrow, Updated, Ids
<1>3. \A x \in Ids \ {id} : escrows'[x] = escrows[x]
  BY DEF StoreEscrow, Updated, Ids
<1>4. OpenIds' = OpenIds \cup {id}
  BY <1>2, <1>3 DEF OpenIds, Open
<1>5. ComesIn(id)
  BY <1>1, <1>4 DEF ComesIn, StoreEscrow, OpenIds
<1> QED BY <1>1, <1>5 DEF MoneyMoves

\* A settlement of an open escrow pays it out, but for what is not sent.
LEMMA SettleMoves ==
  ASSUME EscrowAssumption, TypeOK,
         NEW id \in Ids, Open(id), NEW state \in {"Released", "Refunded"}, MoveTo(id, state),
         NEW amount \in Nat, NEW unsent \in Nat, amount + unsent = id.amount,
         unsent <= LargestFee(id.amount), PayOut(id, amount, unsent)
  PROVE  MoneyMoves
<1>1. id \in EscrowId /\ escrows \in [Ids -> Escrow]
  BY DEF TypeOK
<1>2. Ids' = Ids /\ escrows'[id].state = state /\ \A x \in Ids \ {id} : escrows'[x] = escrows[x]
  BY <1>1 DEF MoveTo, Ids, Escrow
<1>3. OpenIds' = OpenIds \ {id} /\ id \in OpenIds
  BY <1>2 DEF OpenIds, Open
<1>4. GoesOut(id, amount, unsent)
  BY <1>3 DEF GoesOut, PayOut
<1> QED BY <1>1, <1>4 DEF MoneyMoves

\* Of two products the one with the larger factor has the larger quotient.
LEMMA DivMonotonic ==
  \A n, d \in Nat, m \in Nat, k \in Nat \ {0} : d <= m => (n * d) \div k <= (n * m) \div k
<1> SUFFICES ASSUME NEW n \in Nat, NEW d \in Nat, NEW m \in Nat, NEW k \in Nat \ {0}, d <= m
             PROVE  (n * d) \div k <= (n * m) \div k
  OBVIOUS
<1>1. n * d <= n * m
  BY SMT
<1>2. n * d \in Nat /\ n * m \in Nat
  BY TimesNat
<1> HIDE <1>2
<1>3. ASSUME NEW x \in Nat, NEW y \in Nat, x <= y
      PROVE  x \div k <= y \div k
  BY <1>3, SMT
<1> QED BY <1>1, <1>2, <1>3

\* A release pays all of the escrow, or all but its fee.
LEMMA PayRecipientMoves ==
  ASSUME EscrowAssumption, TypeOK, NEW id, InState(id, "Created"), PayRecipient(id)
  PROVE  MoneyMoves
<1>1. id \in Ids /\ Open(id) /\ MoveTo(id, "Released")
  BY DEF InState, Open, PayRecipient
<1>2. id.amount \in Nat
  BY <1>1, AmountNat
<1>3. FeeOf(id) \in Nat /\ FeeOf(id) <= LargestFee(id.amount) /\ FeeOf(id) <= id.amount
  <2>1. protocolFeeBps \in Nat /\ MaxFeeBps \in Nat /\ protocolFeeBps <= MaxFeeBps
    BY DEF TypeOK, EscrowAssumption
  <2>2. Denominator \in Nat \ {0}
    BY DEF EscrowAssumption
  <2>3. FeeOf(id) \in Nat
    BY <1>2, <2>1, <2>2, TimesNat, DivNat DEF FeeOf
  <2>4. FeeOf(id) <= LargestFee(id.amount)
    BY <1>2, <2>1, <2>2, DivMonotonic DEF FeeOf, LargestFee
  <2> QED BY <2>3, <2>4 DEF PayRecipient
<1>4. CASE PayOut(id, id.amount, 0)
  <2>1. 0 \in Nat /\ id.amount + 0 = id.amount /\ 0 <= LargestFee(id.amount)
    <3>1. LargestFee(id.amount) \in Nat
      BY <1>2, TimesNat, DivNat DEF LargestFee, EscrowAssumption
    <3> QED BY <1>2, <3>1
  <2> QED BY <1>1, <1>2, <1>4, <2>1, SettleMoves
<1>5. CASE PayOut(id, id.amount - FeeOf(id), FeeOf(id))
  <2>1. id.amount - FeeOf(id) \in Nat /\ (id.amount - FeeOf(id)) + FeeOf(id) = id.amount
    BY <1>2, <1>3
  <2> QED BY <1>1, <1>3, <1>5, <2>1, SettleMoves
<1> QED BY <1>4, <1>5 DEF PayRecipient

\* A refund or a resolution pays all of the escrow.
LEMMA WholeMoves ==
  ASSUME EscrowAssumption, TypeOK, NEW id \in Ids, Open(id),
         NEW state \in {"Released", "Refunded"}, MoveTo(id, state), PayOut(id, id.amount, 0)
  PROVE  MoneyMoves
<1>1. id.amount \in Nat
  BY AmountNat
<1>2. LargestFee(id.amount) \in Nat
  BY <1>1, TimesNat, DivNat DEF LargestFee, EscrowAssumption
<1>3. 0 \in Nat /\ id.amount + 0 = id.amount /\ 0 <= LargestFee(id.amount)
  BY <1>1, <1>2
<1> QED BY <1>1, <1>3, SettleMoves

\* Every step does one of the four things.
LEMMA NextMoves == ASSUME EscrowAssumption, IInv, [Next]_vars PROVE MoneyMoves
<1> USE DEF IInv
<1>1. ASSUME NEW a \in Depositors, NEW terms \in CreateTerms, NEW arbiter \in Arbiters,
             CreateEscrowETH(a, terms, arbiter) \/ CreateEscrowERC20(a, terms, arbiter)
      PROVE  MoneyMoves
  BY <1>1, StoreMoves DEF CreateEscrowETH, CreateEscrowERC20
<1>2. ASSUME UNCHANGED fundVars
      PROVE  MoneyMoves
  BY <1>2 DEF fundVars, MoneyMoves, StaysPut, OpenIds, Ids, Open
<1>3. ASSUME NEW s \in signed, CreateEscrowWithSignature(s)
      PROVE  MoneyMoves
  <2>1. s.signer \in Depositors /\ s.body \in CreateTerms /\ StoreEscrow(s.signer, s.body, NoOne)
    BY <1>3 DEF CreateEscrowWithSignature, TypeOK, Signature
  <2> QED BY <2>1, StoreMoves
<1>4. ASSUME NEW s \in signed, ReleaseWithSignature(s)
      PROVE  MoneyMoves
  BY <1>4, PayRecipientMoves DEF ReleaseWithSignature
<1>5. ASSUME NEW from \in Accounts, NEW id \in Ids, Release(from, id)
      PROVE  MoneyMoves
  BY <1>5, PayRecipientMoves DEF Release
<1>6. ASSUME NEW from \in Accounts, NEW id \in Ids, Refund(from, id)
      PROVE  MoneyMoves
  BY <1>6, WholeMoves DEF Refund, InState, Open
<1>7. ASSUME NEW from \in Accounts, NEW id \in Ids, Dispute(from, id)
      PROVE  MoneyMoves
  <2>1. escrows' = [escrows EXCEPT ![id].state = "Disputed"] /\ escrows[id].state = "Created"
        /\ UNCHANGED <<held, stray>>
    BY <1>7 DEF Dispute, MoveTo, InState
  <2>2. escrows \in [Ids -> Escrow]
    BY DEF TypeOK
  <2>3. Ids' = Ids /\ \A x \in Ids : Open(x)' <=> Open(x)
    BY <2>1, <2>2 DEF Ids, Open, Escrow
  <2>4. OpenIds' = OpenIds
    BY <2>3 DEF OpenIds
  <2> QED BY <2>1, <2>4 DEF MoneyMoves, StaysPut
<1>8. ASSUME NEW from \in Accounts, NEW id \in Ids, NEW bps \in BpsChoices,
             ResolveDispute(from, id, bps)
      PROVE  MoneyMoves
  BY <1>8, WholeMoves DEF ResolveDispute, InState, Open
<1>9. CASE Receive
  BY <1>9 DEF Receive, MoneyMoves, IsGiven, OpenIds, Ids, Open
<1>10. ASSUME NEW s \in Signature, Sign(s)
       PROVE  UNCHANGED fundVars
  BY <1>10 DEF Sign
<1>11. ASSUME NEW from \in Accounts, NEW bps \in BpsChoices, SetProtocolFee(from, bps)
       PROVE  UNCHANGED fundVars
  BY <1>11 DEF SetProtocolFee
<1>12. ASSUME NEW from \in Accounts, NEW to \in Accounts \cup {NoOne},
              SetFeeRecipient(from, to) \/ TransferAdmin(from, to)
       PROVE  UNCHANGED fundVars
  BY <1>12 DEF SetFeeRecipient, TransferAdmin
<1>13. CASE NextBlock \/ UNCHANGED vars
  BY <1>2, <1>13 DEF NextBlock, vars
<1> QED BY <1>1, <1>2, <1>3, <1>4, <1>5, <1>6, <1>7, <1>8, <1>9, <1>10, <1>11, <1>12, <1>13
        DEF Next

-----------------------------------------------------------------------------
(* The funds of the contract *)

\* What is open can be summed, and the funds are what is claimed and what is stray.
Balanced == Summable(OpenIds) /\ Accounted

\* The open escrows of one token.
OpenIn(token) == {id \in OpenIds : id.token = token}

\* Claims is the total of the open escrows of the token.
LEMMA ClaimsAreTotal == \A t : Claims(t) = Total(OpenIn(t))
<1> SUFFICES ASSUME NEW t
             PROVE  Claims(t) = Total(OpenIn(t))
  OBVIOUS
<1>1. {id \in Ids : id.token = t /\ Open(id)} = OpenIn(t)
  BY DEF OpenIn, OpenIds
<1> QED BY <1>1 DEF Claims

\* The same after a step.
LEMMA ClaimsAreTotalNext == \A t : Claims(t)' = Total(OpenIn(t)')
<1> SUFFICES ASSUME NEW CONSTANT t
             PROVE  Claims(t)' = Total(OpenIn(t)')
  OBVIOUS
<1>1. {id \in Ids : id.token = t /\ Open(id)}' = OpenIn(t)'
  BY DEF OpenIn, OpenIds
<1> QED BY <1>1 DEF Claims

\* What is open in one token can be summed as well.
LEMMA OpenInSummable == ASSUME Summable(OpenIds), NEW t PROVE Summable(OpenIn(t))
<1>1. OpenIn(t) \in SUBSET OpenIds
  BY DEF OpenIn
<1> QED BY <1>1, FS_Subset DEF Summable

\* Every movement of money keeps the balance.
LEMMA BalanceKept ==
  ASSUME EscrowAssumption, TypeOK, Balanced, MoneyMoves
  PROVE  Balanced'
<1> DEFINE Account(t) == held[t] = Total(OpenIn(t)) + stray[t]
<1>1. \A t \in AnyToken : held[t] \in Nat /\ stray[t] \in Nat /\ Total(OpenIn(t)) \in Nat /\ Account(t)
  BY ClaimsAreTotal, OpenInSummable, TotalNat DEF Balanced, Accounted, TypeOK
<1>2. SUFFICES Summable(OpenIds') /\ \A t \in AnyToken : held'[t] = Total(OpenIn(t)') + stray'[t]
  BY ClaimsAreTotalNext DEF Balanced, Accounted
<1>3. held \in [AnyToken -> Nat] /\ stray \in [AnyToken -> Nat]
  BY DEF TypeOK
<1>4. \A id \in EscrowId : id.token \in AnyToken /\ id.amount \in Nat
  BY DEF EscrowId, EscrowAssumption
<1>5. CASE StaysPut
  BY <1>1, <1>5 DEF StaysPut, OpenIn, Balanced
<1>6. CASE IsGiven
  <2>1. \A t \in AnyToken : OpenIn(t)' = OpenIn(t)
    BY <1>6 DEF IsGiven, OpenIn
  <2> QED BY <1>1, <1>3, <1>6, <2>1 DEF IsGiven, Balanced
<1>7. ASSUME NEW id \in EscrowId, ComesIn(id)
      PROVE  Summable(OpenIds') /\ \A t \in AnyToken : held'[t] = Total(OpenIn(t)') + stray'[t]
  <2>1. Summable(OpenIds')
    BY <1>4, <1>7, FS_AddElement DEF ComesIn, Balanced, Summable
  <2> SUFFICES ASSUME NEW t \in AnyToken
               PROVE  held'[t] = Total(OpenIn(t)') + stray'[t]
    BY <2>1
  <2>2. CASE t = id.token /\ id \notin OpenIds
    <3>1. OpenIn(t)' = OpenIn(t) \cup {id} /\ id \notin OpenIn(t)
      BY <1>7, <2>2 DEF ComesIn, OpenIn
    <3>2. Total(OpenIn(t)') = Total(OpenIn(t)) + id.amount
      BY <1>4, <3>1, OpenInSummable, TotalAdd DEF Balanced
    <3>3. held'[t] = held[t] + id.amount /\ stray'[t] = stray[t] + 0
      BY <1>3, <1>7, <2>2 DEF ComesIn
    <3> QED BY <1>1, <1>4, <3>2, <3>3
  <2>3. CASE t = id.token /\ id \in OpenIds
    <3>1. OpenIn(t)' = OpenIn(t)
      BY <1>7, <2>3 DEF ComesIn, OpenIn
    <3>2. held'[t] = held[t] + id.amount /\ stray'[t] = stray[t] + id.amount
      BY <1>3, <1>7, <2>3 DEF ComesIn
    <3> QED BY <1>1, <1>4, <3>1, <3>2
  <2>4. CASE t # id.token
    <3>1. OpenIn(t)' = OpenIn(t)
      BY <1>7, <2>4 DEF ComesIn, OpenIn
    <3>2. held'[t] = held[t] /\ stray'[t] = stray[t]
      BY <1>3, <1>7, <2>4 DEF ComesIn
    <3> QED BY <1>1, <3>1, <3>2
  <2> QED BY <2>2, <2>3, <2>4
<1>8. ASSUME NEW id \in EscrowId, NEW amount \in Nat, NEW unsent \in Nat, GoesOut(id, amount, unsent)
      PROVE  Summable(OpenIds') /\ \A t \in AnyToken : held'[t] = Total(OpenIn(t)') + stray'[t]
  <2>1. Summable(OpenIds')
    BY <1>8, TotalRemove DEF GoesOut, Balanced
  <2> SUFFICES ASSUME NEW t \in AnyToken
               PROVE  held'[t] = Total(OpenIn(t)') + stray'[t]
    BY <2>1
  <2>2. CASE t = id.token
    <3>1. OpenIn(t)' = OpenIn(t) \ {id} /\ id \in OpenIn(t)
      BY <1>8, <2>2 DEF GoesOut, OpenIn
    <3>2. Total(OpenIn(t)) = Total(OpenIn(t)') + id.amount /\ Total(OpenIn(t)') \in Nat
      BY <3>1, OpenInSummable, TotalRemove, TotalNat DEF Balanced
    <3>3. held'[t] = held[t] - amount /\ stray'[t] = stray[t] + unsent /\ amount + unsent = id.amount
      BY <1>3, <1>8, <2>2 DEF GoesOut
    <3>4. held[t] \in Nat /\ stray[t] \in Nat /\ held[t] = Total(OpenIn(t)) + stray[t]
      BY <1>1
    <3> HIDE DEF Account
    <3> QED BY <3>2, <3>3, <3>4
  <2>3. CASE t # id.token
    <3>1. OpenIn(t)' = OpenIn(t)
      BY <1>8, <2>3 DEF GoesOut, OpenIn
    <3>2. held'[t] = held[t] /\ stray'[t] = stray[t]
      BY <1>3, <1>8, <2>3 DEF GoesOut
    <3> QED BY <1>1, <3>1, <3>2
  <2> QED BY <2>2, <2>3
<1> QED BY <1>5, <1>6, <1>7, <1>8 DEF MoneyMoves

\* Nothing is owned and nothing is open in the beginning.
LEMMA InitBalanced == ASSUME EscrowAssumption, Init PROVE Balanced
<1>1. OpenIds = {} /\ \A t : OpenIn(t) = {}
  BY DEF Init, OpenIds, OpenIn, Ids
<1>2. Summable({}) /\ Coins({}) = {}
  BY FS_EmptySet DEF Summable, Coins
<1>3. Total({}) = 0
  BY <1>2, TotalIsCoins, FS_EmptySet
<1>4. ASSUME NEW t \in AnyToken
      PROVE  held[t] = Claims(t) + stray[t]
  <2>1. Claims(t) = 0
    BY <1>1, <1>3, ClaimsAreTotal
  <2>2. held[t] = 0 /\ stray[t] = 0
    BY DEF Init
  <2> QED BY <2>1, <2>2
<1> QED BY <1>1, <1>2, <1>4 DEF Balanced, Accounted

\* The balance holds of every behaviour.
THEOREM BalanceInvariant == Spec => []Balanced
<1>1. Init => Balanced
  BY InitBalanced, EscrowAssumption
<1>2. IInv /\ Balanced /\ [Next]_vars => Balanced'
  BY NextMoves, BalanceKept, EscrowAssumption DEF IInv
<1> QED BY <1>1, <1>2, Invariant, PTL DEF Spec

\* Of each token the contract owns what its open escrows claim and what is stray,
\* whatever is created, overwritten, settled, given or kept as a fee.
THEOREM FundsAccounted == Spec => []Accounted
<1>1. Balanced => Accounted
  BY DEF Balanced
<1> QED BY <1>1, BalanceInvariant, PTL

Solvent == \A id \in Ids : Open(id) => held[id.token] >= id.amount

\* An open escrow can always be paid: the transfer of its whole amount never
\* fails for want of funds (_transfer), whatever else was settled before it.
THEOREM EscrowsAreFunded == Spec => []Solvent
<1>1. TypeOK /\ Balanced => Solvent
  <2> SUFFICES ASSUME TypeOK, Balanced, NEW id \in Ids, Open(id)
               PROVE  held[id.token] >= id.amount
    BY DEF Solvent
  <2> DEFINE t == id.token
  <2>1. t \in AnyToken /\ id.amount \in Nat /\ id \in OpenIn(t)
    BY EscrowAssumption DEF TypeOK, EscrowId, EscrowAssumption, OpenIn, OpenIds
  <2>2. Summable(OpenIn(t))
    BY OpenInSummable DEF Balanced
  <2>3. Total(OpenIn(t)) = Total(OpenIn(t) \ {id}) + id.amount /\ Total(OpenIn(t) \ {id}) \in Nat
    BY <2>1, <2>2, TotalRemove, TotalNat
  <2>4. held[t] = Total(OpenIn(t)) + stray[t] /\ stray[t] \in Nat
    BY <2>1, ClaimsAreTotal DEF Balanced, Accounted, TypeOK
  <2> QED BY <2>1, <2>3, <2>4
<1> QED BY <1>1, BalanceInvariant, TypeCorrect, PTL

-----------------------------------------------------------------------------
(* The vault *)

\* The steps of the contract are steps of the vault, or nothing it sees.
LEMMA VaultStep ==
  ASSUME EscrowAssumption, TypeOK, TypeOK', MoneyMoves
  PROVE  [Vault!Next]_(Vault!vaultVars)
<1>1. held \in [AnyToken -> Nat] /\ held' \in [AnyToken -> Nat]
  BY DEF TypeOK
<1>2. CASE StaysPut
  BY <1>2 DEF StaysPut, OpenIds, Vault!vaultVars
<1>3. CASE IsGiven
  <2>1. held'[Ether] >= held[Ether] /\ \A d \in AnyToken \ {Ether} : held'[d] = held[d]
    BY <1>1, <1>3 DEF IsGiven, AnyToken
  <2>2. Vault!Gift(Ether)
    BY <1>1, <1>3, <2>1 DEF IsGiven, OpenIds, Vault!Gift
  <2> QED BY <2>2 DEF Vault!Next, AnyToken
<1>4. ASSUME NEW id \in EscrowId, ComesIn(id)
      PROVE  [Vault!Next]_(Vault!vaultVars)
  <2>1. Vault!PayIn(id)
    BY <1>4 DEF ComesIn, OpenIds, Vault!PayIn
  <2> QED BY <2>1 DEF Vault!Next
<1>5. ASSUME NEW id \in EscrowId, NEW amount \in Nat, NEW unsent \in Nat, GoesOut(id, amount, unsent)
      PROVE  [Vault!Next]_(Vault!vaultVars)
  <2>1. id.amount \in Nat /\ id.token \in AnyToken
    BY DEF EscrowId, EscrowAssumption
  <2>2. LargestFee(id.amount) \in Nat
    BY <2>1, TimesNat, DivNat DEF LargestFee, EscrowAssumption
  <2>3. amount \in id.amount - LargestFee(id.amount) .. id.amount /\ 0 <= amount
        /\ amount <= held[id.token]
    BY <1>1, <1>5, <2>1, <2>2 DEF GoesOut
  <2>4. Vault!LargestFee(id.amount) = LargestFee(id.amount)
    BY DEF Vault!LargestFee, LargestFee
  <2>5. Vault!Settle(id)
    BY <1>5, <2>3, <2>4 DEF GoesOut, OpenIds, Vault!Settle
  <2> QED BY <2>5 DEF Vault!Next
<1> QED BY <1>2, <1>3, <1>4, <1>5 DEF MoneyMoves

\* The contract implements the vault.
THEOREM EscrowImplementsVault == Spec => ImplementsVault
<1>1. Init => Vault!Init
  BY DEF Init, Vault!Init, Ids
<1>2. IInv /\ TypeOK' /\ [Next]_vars => [Vault!Next]_(Vault!vaultVars)
  BY NextMoves, VaultStep, EscrowAssumption DEF IInv
<1> QED BY <1>1, <1>2, Invariant, TypeCorrect, PTL DEF Spec, ImplementsVault, Vault!Spec
=============================================================================
