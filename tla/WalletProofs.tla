----------------------------- MODULE WalletProofs -----------------------------
(***************************************************************************)
(* What MCWallets checks on small instances, for any number of pages,      *)
(* accounts, transactions and requests: escrows are settled once, signed   *)
(* identities are attested, a start of an agent's wallet forgets nothing,  *)
(* its days are bounded, who is named in a payment signs it, and no nonce  *)
(* is signed twice.  SpendGuardProofs has the lemmas about overlapping     *)
(* payments that the bound on a day needs here too.                        *)
(***************************************************************************)
EXTENDS SpendGuardProofs, EscrowClient, AgentIdentityManager, AgentWallet, SolanaX402, EIP712Signer,
        FiniteSetTheorems, TLAPS

-----------------------------------------------------------------------------
(* EscrowClient *)

\* An id that was not given out is nowhere.
NotCreated ==
  \A e \in Escrows \ created :
    settlements[e] = 0 /\ escrowsSaved[e] = NoEscrow /\ \A p \in Pages : escrows[p][e] = NoEscrow

EscrowInv == EscrowTypeOK /\ NotCreated /\ SettledOnce

\* Lemma: at first no page knows an escrow.
LEMMA EscrowInitial == EscrowInit => EscrowInv
<1> SUFFICES ASSUME EscrowInit PROVE EscrowInv
    OBVIOUS
<1>1. EscrowTypeOK
    BY EscrowAssumption DEF EscrowInit, EscrowTypeOK, NoEscrows, Copy
<1>2. NotCreated
    BY DEF EscrowInit, NotCreated, NoEscrows
<1>3. ASSUME NEW e \in Escrows PROVE settlements[e] + Cardinality(OpenPages(e)) <= 1 + secondCopies[e]
    <2>1. OpenPages(e) = {}
        BY DEF OpenPages, IsOpen, EscrowInit, NoEscrows, NoEscrow
    <2> QED
        BY <2>1, FS_EmptySet DEF EscrowInit
<1> QED
    BY <1>1, <1>2, <1>3 DEF EscrowInv, SettledOnce

\* Lemma: the pages are finitely many, and so are those that have an escrow open.
LEMMA OpenPagesFinite ==
  \A e \in Escrows : IsFiniteSet(OpenPages(e)) /\ Cardinality(OpenPages(e)) \in Nat
<1> SUFFICES ASSUME NEW e \in Escrows
             PROVE  IsFiniteSet(OpenPages(e)) /\ Cardinality(OpenPages(e)) \in Nat
    OBVIOUS
<1>1. OpenPages(e) \in SUBSET Pages
    BY DEF OpenPages
<1> QED
    BY <1>1, EscrowAssumption, FS_Subset, FS_CardinalityType

\* Lemma: the invariant survives a step in which no escrow gets open anywhere
\* and none is settled.
LEMMA NothingOpens ==
  ASSUME EscrowInv, UNCHANGED <<settlements, secondCopies>>,
         \A e \in Escrows : OpenPages(e)' \subseteq OpenPages(e)
  PROVE  SettledOnce'
<1> SUFFICES ASSUME NEW e \in Escrows
             PROVE  settlements'[e] + Cardinality(OpenPages(e)') <= 1 + secondCopies'[e]
    BY DEF SettledOnce
<1>1. /\ Cardinality(OpenPages(e)') <= Cardinality(OpenPages(e))
      /\ Cardinality(OpenPages(e)') \in Nat /\ Cardinality(OpenPages(e)) \in Nat
    BY OpenPagesFinite, FS_Subset, FS_CardinalityType
<1>2. settlements[e] \in Nat /\ secondCopies[e] \in Nat
    BY EscrowAssumption DEF EscrowInv, EscrowTypeOK
<1> QED
    BY <1>1, <1>2 DEF EscrowInv, SettledOnce

\* Lemma: a call that changes the state of one escrow on one page.
LEMMA StateChanges ==
  ASSUME EscrowInv, NEW p \in Pages, NEW e \in Escrows, NEW state \in States,
         escrows[p][e] # NoEscrow, Becomes(p, e, state)
  PROVE  /\ escrows' \in [Pages -> Copy] /\ escrowsSaved' \in Copy
         /\ escrows'[p][e].state = state
         /\ \A q \in Pages, f \in Escrows : q # p \/ f # e => escrows'[q][f] = escrows[q][f]
         /\ NotCreated /\ UNCHANGED settlements => NotCreated'
         /\ e \in created
<1>1. escrows[p] \in Copy /\ escrows[p][e] \in EscrowRecord
    BY DEF EscrowInv, EscrowTypeOK, Copy
<1>2. [escrows[p][e] EXCEPT !.state = state] \in EscrowRecord
    BY <1>1 DEF EscrowRecord
<1>3. [escrows[p] EXCEPT ![e].state = state] \in Copy
    BY <1>1, <1>2 DEF Copy
<1>4. escrows' = [escrows EXCEPT ![p] = [escrows[p] EXCEPT ![e].state = state]]
    BY DEF Becomes
<1>5. escrows' \in [Pages -> Copy] /\ escrowsSaved' \in Copy
    BY <1>3, <1>4 DEF Becomes, PersistEscrows, EscrowInv, EscrowTypeOK
<1>6. escrows'[p][e].state = state
    BY <1>1, <1>4 DEF EscrowInv, EscrowTypeOK, Copy, EscrowRecord
<1>7. \A q \in Pages, f \in Escrows : q # p \/ f # e => escrows'[q][f] = escrows[q][f]
    BY <1>1, <1>4 DEF EscrowInv, EscrowTypeOK, Copy
<1>8. e \in created
    BY DEF EscrowInv, NotCreated
<1>9. ASSUME UNCHANGED settlements PROVE NotCreated'
    <2> SUFFICES ASSUME NEW g \in Escrows \ created
                 PROVE  /\ settlements'[g] = 0 /\ escrowsSaved'[g] = NoEscrow
                        /\ \A q \in Pages : escrows'[q][g] = NoEscrow
        BY DEF Becomes, NotCreated, NoEscrow
    <2>1. g # e /\ settlements[g] = 0 /\ escrowsSaved[g] = NoEscrow
        BY <1>8 DEF EscrowInv, NotCreated
    <2>2. \A q \in Pages : escrows'[q][g] = NoEscrow
        BY <1>7, <2>1 DEF EscrowInv, NotCreated
    <2> QED
        BY <1>9, <2>1, <2>2 DEF Becomes, PersistEscrows
<1> QED
    BY <1>5, <1>6, <1>7, <1>8, <1>9

\* Lemma: a release, a refund or a resolution closes the page's copy of what it
\* settles.
LEMMA SettlementCloses ==
  ASSUME EscrowInv, NEW p \in Pages, NEW e \in Escrows, NEW state \in {"released", "refunded", "resolved"},
         escrows[p][e] # NoEscrow, IsOpen(escrows[p][e]), Settles(p, e, state)
  PROVE  EscrowInv'
<1>1. Becomes(p, e, state) /\ state \in States
    BY DEF Settles, States
<1>2. /\ escrows' \in [Pages -> Copy] /\ escrowsSaved' \in Copy
      /\ escrows'[p][e].state = state
      /\ \A q \in Pages, f \in Escrows : q # p \/ f # e => escrows'[q][f] = escrows[q][f]
      /\ e \in created
    BY <1>1, StateChanges
<1>3. settlements \in [Escrows -> Nat] /\ settlements' = [settlements EXCEPT ![e] = @ + 1]
    BY DEF Settles, EscrowInv, EscrowTypeOK
<1>4. EscrowTypeOK'
    BY <1>1, <1>2, <1>3 DEF Becomes, EscrowInv, EscrowTypeOK
<1>5. NotCreated'
    <2> SUFFICES ASSUME NEW g \in Escrows \ created
                 PROVE  /\ settlements'[g] = 0 /\ escrowsSaved'[g] = NoEscrow
                        /\ \A q \in Pages : escrows'[q][g] = NoEscrow
        BY <1>1 DEF Becomes, NotCreated, NoEscrow
    <2>1. g # e /\ settlements[g] = 0 /\ escrowsSaved[g] = NoEscrow
        BY <1>2 DEF EscrowInv, NotCreated
    <2>2. \A q \in Pages : escrows'[q][g] = NoEscrow
        BY <1>2, <2>1 DEF EscrowInv, NotCreated
    <2> QED
        BY <1>1, <1>3, <2>1, <2>2 DEF Becomes, PersistEscrows
<1>6. OpenPages(e)' = OpenPages(e) \ {p}
    BY <1>2 DEF OpenPages, IsOpen
<1>7. \A f \in Escrows \ {e} : OpenPages(f)' = OpenPages(f)
    BY <1>2 DEF OpenPages
<1>8. p \in OpenPages(e)
    BY DEF OpenPages
<1>9. Cardinality(OpenPages(e)') = Cardinality(OpenPages(e)) - 1
    BY <1>6, <1>8, OpenPagesFinite, FS_RemoveElement
<1>10. ASSUME NEW f \in Escrows
       PROVE  settlements'[f] + Cardinality(OpenPages(f)') <= 1 + secondCopies'[f]
    <2>1. /\ settlements[f] + Cardinality(OpenPages(f)) <= 1 + secondCopies[f]
          /\ secondCopies' = secondCopies
          /\ settlements[f] \in Nat /\ secondCopies[f] \in Nat /\ Cardinality(OpenPages(f)) \in Nat
        BY <1>1, EscrowAssumption, OpenPagesFinite DEF Becomes, EscrowInv, EscrowTypeOK, SettledOnce
    <2> QED
        BY <1>3, <1>7, <1>9, <2>1
<1> QED
    BY <1>4, <1>5, <1>10 DEF EscrowInv, SettledOnce

\* Lemma: a new escrow is open where it was made and nowhere else.
LEMMA CreationOpensOne ==
  ASSUME EscrowInv, NEW p \in Pages, NEW e \in Escrows, NEW recipient \in Accounts,
         NEW arbiter \in Accounts \cup {NoOne}, CreateEscrow(p, e, recipient, arbiter)
  PROVE  EscrowInv'
<1> DEFINE new == [payer |-> account[p], recipient |-> recipient, arbiter |-> arbiter,
                   expiresAt |-> time + Duration, state |-> "locked"]
<1>1. new \in EscrowRecord
    <2>1. account[p] \in Accounts
        BY DEF CreateEscrow, EscrowInv, EscrowTypeOK
    <2>2. time + Duration \in 0 .. MaxEscrowTime + Duration
        BY EscrowAssumption DEF EscrowInv, EscrowTypeOK
    <2> QED
        BY <2>1, <2>2 DEF EscrowRecord, States
<1>2. escrows[p] \in Copy
    BY DEF EscrowInv, EscrowTypeOK
<1>3. [escrows[p] EXCEPT ![e] = new] \in Copy
    BY <1>1, <1>2 DEF Copy
<1>4. escrows' = [escrows EXCEPT ![p] = [escrows[p] EXCEPT ![e] = new]]
    BY DEF CreateEscrow
<1>5. escrows' \in [Pages -> Copy] /\ escrowsSaved' \in Copy
    BY <1>3, <1>4 DEF CreateEscrow, PersistEscrows, EscrowInv, EscrowTypeOK
<1>6. /\ escrows'[p][e].state = "locked"
      /\ \A q \in Pages, f \in Escrows : q # p \/ f # e => escrows'[q][f] = escrows[q][f]
    BY <1>2, <1>4 DEF EscrowInv, EscrowTypeOK, Copy
<1>7. EscrowTypeOK'
    BY <1>5 DEF CreateEscrow, EscrowInv, EscrowTypeOK
<1>8. NotCreated'
    <2> SUFFICES ASSUME NEW g \in Escrows \ created, g # e
                 PROVE  /\ settlements'[g] = 0 /\ escrowsSaved'[g] = NoEscrow
                        /\ \A q \in Pages : escrows'[q][g] = NoEscrow
        BY DEF CreateEscrow, NotCreated, NoEscrow
    <2>1. settlements[g] = 0 /\ escrowsSaved[g] = NoEscrow
        BY DEF EscrowInv, NotCreated
    <2>2. \A q \in Pages : escrows'[q][g] = NoEscrow
        BY <1>6 DEF EscrowInv, NotCreated
    <2> QED
        BY <2>1, <2>2 DEF CreateEscrow, PersistEscrows
<1>9. ASSUME NEW f \in Escrows
      PROVE  settlements'[f] + Cardinality(OpenPages(f)') <= 1 + secondCopies'[f]
    <2>1. settlements' = settlements /\ secondCopies' = secondCopies /\ e \notin created
        BY DEF CreateEscrow
    <2>2. CASE f = e
        <3>1. \A q \in Pages : escrows[q][e] = NoEscrow
            BY <2>1 DEF EscrowInv, NotCreated
        <3>2. \A q \in Pages : IsOpen(escrows'[q][e]) <=> q = p
            BY <1>6, <3>1 DEF IsOpen, NoEscrow
        <3>3. OpenPages(f)' = {p}
            BY <2>2, <3>2 DEF OpenPages
        <3>4. settlements[e] = 0 /\ secondCopies[e] \in Nat
            BY <2>1, EscrowAssumption DEF EscrowInv, NotCreated, EscrowTypeOK
        <3>5. Cardinality(OpenPages(f)') = 1
            BY <3>3, FS_Singleton
        <3> QED
            BY <2>1, <2>2, <3>4, <3>5
    <2>3. CASE f # e
        <3>1. OpenPages(f)' = OpenPages(f)
            BY <1>6, <2>3 DEF OpenPages
        <3> QED
            BY <2>1, <3>1 DEF EscrowInv, SettledOnce
    <2> QED
        BY <2>2, <2>3
<1> QED
    BY <1>7, <1>8, <1>9 DEF EscrowInv, SettledOnce

\* Lemma: an open copy that a load adds to others, or to a settlement, is counted.
LEMMA LoadIsCounted ==
  ASSUME EscrowInv, NEW p \in Pages, LoadPage(p)
  PROVE  EscrowInv'
<1>1. \A q \in Pages : escrows'[q] = IF q = p THEN escrowsSaved ELSE escrows[q]
    BY DEF LoadPage, EscrowInv, EscrowTypeOK
<1>2. EscrowTypeOK'
    <2>1. escrows' \in [Pages -> Copy]
        BY DEF LoadPage, EscrowInv, EscrowTypeOK
    <2>2. secondCopies' \in [Escrows -> 0 .. MaxSecondCopies]
        <3>1. \A e \in Escrows : secondCopies'[e] \in Nat
            BY DEF LoadPage, EscrowInv, EscrowTypeOK
        <3>2. \A e \in Escrows : secondCopies'[e] \in 0 .. MaxSecondCopies
            BY <3>1, EscrowAssumption DEF LoadPage
        <3> QED
            BY <3>2 DEF LoadPage
    <2> QED
        BY <2>1, <2>2 DEF LoadPage, EscrowInv, EscrowTypeOK
<1>3. NotCreated'
    BY <1>1 DEF LoadPage, EscrowInv, NotCreated
<1>4. ASSUME NEW e \in Escrows
      PROVE  settlements'[e] + Cardinality(OpenPages(e)') <= 1 + secondCopies'[e]
    <2>1. /\ settlements' = settlements
          /\ secondCopies'[e] = IF SecondCopy(p, e) THEN secondCopies[e] + 1 ELSE secondCopies[e]
          /\ settlements[e] \in Nat /\ secondCopies[e] \in Nat
          /\ settlements[e] + Cardinality(OpenPages(e)) <= 1 + secondCopies[e]
        BY EscrowAssumption DEF LoadPage, EscrowInv, EscrowTypeOK, SettledOnce
    <2>2. IsFiniteSet(OpenPages(e)) /\ Cardinality(OpenPages(e)) \in Nat
        BY OpenPagesFinite
    <2>3. CASE ~IsOpen(escrowsSaved[e])
        <3>1. OpenPages(e)' \subseteq OpenPages(e)
            BY <1>1, <2>3 DEF OpenPages
        <3>2. Cardinality(OpenPages(e)') <= Cardinality(OpenPages(e)) /\ Cardinality(OpenPages(e)') \in Nat
            BY <2>2, <3>1, FS_Subset, FS_CardinalityType
        <3> QED
            BY <2>1, <2>2, <3>2
    <2>4. CASE SecondCopy(p, e)
        <3>1. OpenPages(e)' \subseteq OpenPages(e) \cup {p}
            BY <1>1 DEF OpenPages
        <3>2. /\ IsFiniteSet(OpenPages(e) \cup {p})
              /\ Cardinality(OpenPages(e) \cup {p}) \in {Cardinality(OpenPages(e)), Cardinality(OpenPages(e)) + 1}
            <4> DEFINE S == OpenPages(e)
            <4> HIDE DEF S
            <4>1. IsFiniteSet(S) => /\ IsFiniteSet(S \cup {p})
                                    /\ Cardinality(S \cup {p}) \in {Cardinality(S), Cardinality(S) + 1}
                BY FS_AddElement
            <4> QED
                BY <2>2, <4>1 DEF S
        <3>3. Cardinality(OpenPages(e)') <= Cardinality(OpenPages(e) \cup {p}) /\ Cardinality(OpenPages(e)') \in Nat
            BY <3>1, <3>2, FS_Subset, FS_CardinalityType
        <3> QED
            BY <2>1, <2>2, <2>4, <3>2, <3>3
    <2>5. CASE IsOpen(escrowsSaved[e]) /\ ~SecondCopy(p, e)
        <3>1. settlements[e] = 0 /\ \A q \in Pages \ {p} : ~IsOpen(escrows[q][e])
            BY <2>1, <2>5 DEF SecondCopy
        <3>2. \A q \in Pages : IsOpen(escrows'[q][e]) <=> q = p
            BY <1>1, <2>5, <3>1
        <3>3. OpenPages(e)' = {p}
            BY <3>2 DEF OpenPages
        <3> QED
            BY <2>1, <2>5, <3>1, <3>3, FS_Singleton
    <2> QED
        BY <2>3, <2>4, <2>5
<1> QED
    BY <1>2, <1>3, <1>4 DEF EscrowInv, SettledOnce

\* Lemma: what is due expires, and a page that is cleared has nothing open.
LEMMA ClosingKeeps ==
  ASSUME EscrowInv, NEW p \in Pages, CheckExpiredEscrows(p) \/ ClearEscrows(p)
  PROVE  EscrowInv'
<1>1. /\ escrows' \in [Pages -> Copy] /\ escrowsSaved' \in Copy
      /\ \A q \in Pages \ {p} : escrows'[q] = escrows[q]
      /\ \A e \in Escrows : IsOpen(escrows'[p][e]) => IsOpen(escrows[p][e])
      /\ \A e \in Escrows \ created : escrows'[p][e] = NoEscrow
      /\ escrowsSaved' \in {escrowsSaved, escrows'[p]}
    <2>1. CASE CheckExpiredEscrows(p)
        <3> DEFINE due == {e \in created : escrows[p][e].state = "locked" /\ escrows[p][e].expiresAt < time}
                   new == [e \in Escrows |-> IF e \in due THEN [escrows[p][e] EXCEPT !.state = "expired"] ELSE escrows[p][e]]
        <3>1. escrows' = [escrows EXCEPT ![p] = new]
            BY <2>1 DEF CheckExpiredEscrows
        <3>2. \A e \in due : escrows[p][e] \in EscrowRecord
            BY DEF EscrowInv, EscrowTypeOK, Copy, NoEscrow
        <3>3. \A e \in due : new[e] \in EscrowRecord /\ new[e].state = "expired"
            BY <3>2 DEF EscrowRecord, States, EscrowInv, EscrowTypeOK
        <3>4. \A e \in Escrows \ due : new[e] = escrows[p][e]
            OBVIOUS
        <3>5. \A e \in Escrows : new[e] \in EscrowRecord \cup {NoEscrow}
            BY <3>3 DEF EscrowInv, EscrowTypeOK, Copy
        <3>6. new \in Copy
            BY <3>5 DEF Copy
        <3> HIDE DEF new
        <3>7. escrows' \in [Pages -> Copy] /\ escrows'[p] = new /\ \A q \in Pages \ {p} : escrows'[q] = escrows[q]
            BY <3>1, <3>6 DEF EscrowInv, EscrowTypeOK
        <3>8. escrowsSaved' \in Copy /\ escrowsSaved' \in {escrowsSaved, escrows'[p]}
            BY <2>1, <3>6, <3>7 DEF CheckExpiredEscrows, PersistEscrows, EscrowInv, EscrowTypeOK
        <3>9. \A e \in Escrows : IsOpen(new[e]) => IsOpen(escrows[p][e])
            BY <3>3, <3>4 DEF IsOpen
        <3>10. \A e \in Escrows \ created : new[e] = NoEscrow
            BY <3>4 DEF EscrowInv, NotCreated
        <3> QED
            BY <3>7, <3>8, <3>9, <3>10
    <2>2. CASE ClearEscrows(p)
        <3>1. NoEscrows \in Copy
            BY DEF NoEscrows, Copy
        <3>2. escrows' \in [Pages -> Copy] /\ escrows'[p] = NoEscrows /\ \A q \in Pages \ {p} : escrows'[q] = escrows[q]
            BY <2>2, <3>1 DEF ClearEscrows, EscrowInv, EscrowTypeOK
        <3> QED
            BY <2>2, <3>1, <3>2 DEF ClearEscrows, NoEscrows, NoEscrow, IsOpen
    <2> QED
        BY <2>1, <2>2
<1>2. UNCHANGED <<account, time, created, settlements, secondCopies>>
    BY DEF CheckExpiredEscrows, ClearEscrows
<1>3. EscrowTypeOK'
    BY <1>1, <1>2 DEF EscrowInv, EscrowTypeOK
<1>4. NotCreated'
    <2> SUFFICES ASSUME NEW g \in Escrows \ created
                 PROVE  /\ settlements'[g] = 0 /\ escrowsSaved'[g] = NoEscrow
                        /\ \A q \in Pages : escrows'[q][g] = NoEscrow
        BY <1>2 DEF NotCreated, NoEscrow
    <2>1. settlements[g] = 0 /\ escrowsSaved[g] = NoEscrow /\ \A q \in Pages : escrows[q][g] = NoEscrow
        BY DEF EscrowInv, NotCreated
    <2> QED
        BY <1>1, <1>2, <2>1
<1>5. \A e \in Escrows : OpenPages(e)' \subseteq OpenPages(e)
    BY <1>1 DEF OpenPages
<1>6. SettledOnce'
    BY <1>2, <1>5, NothingOpens
<1> QED
    BY <1>3, <1>4, <1>6 DEF EscrowInv

\* Lemma: every step of a page, and the passing of time, keeps the invariant.
LEMMA EscrowStepInv == EscrowInv /\ [EscrowStep]_escrowVars => EscrowInv'
<1> SUFFICES ASSUME EscrowInv, [EscrowStep]_escrowVars PROVE EscrowInv'
    OBVIOUS
<1>1. ASSUME NEW p \in Pages, NEW a \in Accounts \cup {NoOne}, ConnectPage(p, a) PROVE EscrowInv'
    BY <1>1 DEF ConnectPage, EscrowInv, EscrowTypeOK, NotCreated, SettledOnce, OpenPages
<1>2. ASSUME NEW p \in Pages, NEW e \in Escrows, NEW recipient \in Accounts, NEW arbiter \in Accounts \cup {NoOne},
             CreateEscrow(p, e, recipient, arbiter)
      PROVE  EscrowInv'
    BY <1>2, CreationOpensOne
<1>3. ASSUME NEW p \in Pages, NEW e \in Escrows,
             ReleaseEscrow(p, e) \/ RefundEscrow(p, e) \/ ResolveDispute(p, e)
      PROVE  EscrowInv'
    BY <1>3, SettlementCloses
    DEF ReleaseEscrow, RefundEscrow, ResolveDispute, PayerMay, ArbiterMay, IsOpen
<1>4. ASSUME NEW p \in Pages, NEW e \in Escrows, DisputeEscrow(p, e) PROVE EscrowInv'
    <2>1. /\ escrows[p][e] # NoEscrow /\ IsOpen(escrows[p][e]) /\ "disputed" \in States
          /\ Becomes(p, e, "disputed") /\ UNCHANGED settlements
        BY <1>4 DEF DisputeEscrow, PartyMay, IsOpen, States
    <2>2. /\ escrows' \in [Pages -> Copy] /\ escrowsSaved' \in Copy
          /\ \A q \in Pages, f \in Escrows : q # p \/ f # e => escrows'[q][f] = escrows[q][f]
          /\ NotCreated'
        BY <2>1, StateChanges DEF EscrowInv
    <2>3. \A f \in Escrows : OpenPages(f)' \subseteq OpenPages(f)
        BY <2>1, <2>2 DEF OpenPages
    <2>4. UNCHANGED <<account, time, created, settlements, secondCopies>>
        BY <2>1 DEF Becomes
    <2>5. SettledOnce'
        BY <2>3, <2>4, NothingOpens
    <2> QED
        BY <2>2, <2>4, <2>5 DEF EscrowInv, EscrowTypeOK
<1>5. ASSUME NEW p \in Pages, CheckExpiredEscrows(p) \/ ClearEscrows(p) PROVE EscrowInv'
    BY <1>5, ClosingKeeps
<1>6. ASSUME NEW p \in Pages, LoadPage(p) PROVE EscrowInv'
    BY <1>6, LoadIsCounted
<1>7. CASE TimePasses
    BY <1>7, EscrowAssumption DEF TimePasses, EscrowInv, EscrowTypeOK, NotCreated, SettledOnce, OpenPages
<1>8. CASE UNCHANGED escrowVars
    BY <1>8 DEF escrowVars, EscrowInv, EscrowTypeOK, NotCreated, SettledOnce, OpenPages
<1> QED
    BY <1>1, <1>2, <1>3, <1>4, <1>5, <1>6, <1>7, <1>8 DEF EscrowStep

\* Theorem: an escrow is settled once, and once more at most for each second copy
\* that a load made (SettledOnce), for any number of pages, accounts and escrows.
THEOREM EscrowsSettledOnce == EscrowSpec => []SettledOnce
<1>1. EscrowInv => SettledOnce
    BY DEF EscrowInv
<1> QED
    BY <1>1, EscrowInitial, EscrowStepInv, PTL DEF EscrowSpec

\* Theorem: whatever the client offers an account, it accepts from it
\* (OfferedIsAccepted): nothing that is offered to one who is no party, nothing once an
\* escrow is no longer locked.
THEOREM WhatIsOfferedIsAccepted == EscrowSpec => []OfferedIsAccepted
<1>1. OfferedIsAccepted
    BY DEF OfferedIsAccepted, AvailableActions, PayerMay, PartyMay
<1> QED
    BY <1>1, PTL

-----------------------------------------------------------------------------
(* ChainAdapter *)

\* Lemma: an adapter of one of the four kinds starts well typed.
LEMMA AdapterInitial ==
  ASSUME NEW kinds \in SUBSET {"evm", "keypair", "wallet", "both"}, AdapterInit(kinds)
  PROVE  AdapterTypeOK
BY DEF AdapterInit, AdapterTypeOK

\* Lemma: the steps of connections and transactions keep the adapter's types.
LEMMA AdapterTypes ==
  ASSUME AdapterTypeOK,
         \/ AdapterStep
         \/ \E s \in Sends : Answered(s) \/ \E value \in Values : Submit(s, value)
  PROVE  AdapterTypeOK'
<1>1. Address \in WalletAccounts \cup {OwnAccount, Nobody} /\ Signer \in WalletAccounts \cup {OwnAccount, Nobody}
    BY DEF Address, Signer, AdapterTypeOK
<1>2. CASE ConnectAdapter \/ DisconnectAdapter \/ WalletChanges
    BY <1>2 DEF ConnectAdapter, DisconnectAdapter, WalletChanges, AdapterTypeOK
<1>3. ASSUME NEW s \in Sends, NEW value \in Values, Submit(s, value) PROVE AdapterTypeOK'
    <2>1. Address \in SomeAccount
        BY <1>1, <1>3 DEF Submit, SomeAccount
    <2> QED
        BY <1>3, <2>1 DEF Submit, SendRecord, AdapterTypeOK
<1>4. ASSUME NEW s \in Sends, Answered(s) \/ Rejected(s) PROVE AdapterTypeOK'
    BY <1>4 DEF Answered, Rejected, AdapterTypeOK
<1>5. ASSUME NEW s \in Sends, Blockhash(s) PROVE AdapterTypeOK'
    <2>1. sends[s] \in SendRecord
        BY <1>5 DEF Blockhash, AdapterTypeOK, Ended
    <2>2. Signer # Nobody => Signer \in SomeAccount
        BY <1>1 DEF SomeAccount
    <2> QED
        BY <1>5, <2>1, <2>2 DEF Blockhash, SendRecord, AdapterTypeOK
<1>6. ASSUME NEW s \in Sends, WalletSigns(s) PROVE AdapterTypeOK'
    <2>1. sends[s] \in SendRecord
        BY <1>6 DEF WalletSigns, AdapterTypeOK, Ended
    <2> QED
        BY <1>6, <2>1 DEF WalletSigns, SendRecord, AdapterTypeOK
<1> QED
    BY <1>2, <1>3, <1>4, <1>5, <1>6 DEF AdapterStep

-----------------------------------------------------------------------------
(* AgentWallet *)

\* The last day is not after today, in the page and in localStorage, and nothing
\* is counted on a day after it.
FutureEmpty ==
  /\ lastSpendDay <= CurrentDay
  /\ savedState = Unsaved \/ savedState.day <= CurrentDay
  /\ ~forgotten => \A d \in AgentDays : d > lastSpendDay => counted[d] = 0 /\ outside[d] = 0

AgentInv == AgentTypeOK /\ NothingToForget /\ FutureEmpty /\ AgentSpendCounted

\* Lemma: today is a day, and tomorrow is not before it.
LEMMA CurrentDayIsDay ==
  ASSUME AgentTypeOK
  PROVE  /\ CurrentDay \in AgentDays /\ CurrentDay \in Nat /\ AgentDays \subseteq Nat
         /\ CurrentDay <= (walletTime + 1) \div AgentDay /\ 0 \in AgentDays
<1>1. walletTime \in Nat /\ MaxAgentTime \in Nat /\ walletTime <= MaxAgentTime /\ AgentDay \in Nat \ {0}
    BY AgentWalletAssumption DEF AgentTypeOK
<1>2. /\ walletTime \div AgentDay \in Nat /\ MaxAgentTime \div AgentDay \in Nat
      /\ walletTime \div AgentDay <= MaxAgentTime \div AgentDay
      /\ walletTime \div AgentDay <= (walletTime + 1) \div AgentDay
    BY <1>1
<1> QED
    BY <1>2 DEF CurrentDay, AgentDays

\* Lemma: the first wallet finds nothing saved and has counted nothing.
LEMMA AgentInitial ==
  ASSUME NEW kinds \in SUBSET {"evm", "keypair", "wallet", "both"}, AgentInit(kinds)
  PROVE  AgentInv
<1>1. AdapterTypeOK
    BY AdapterInitial DEF AgentInit
<1>2. 0 \in AgentDays /\ CurrentDay = 0 /\ AgentDays \subseteq Nat
    BY AgentWalletAssumption DEF AgentInit, AgentDays, CurrentDay
<1>3. walletTime \in 0 .. MaxAgentTime /\ loadedAt \in 0 .. walletTime
    BY AgentWalletAssumption DEF AgentInit
<1>4. limits \in Limits /\ sessionEnd \in Nat /\ dailySpent \in Nat /\ lastSpendDay \in AgentDays
    BY <1>2, AgentWalletAssumption DEF AgentInit
<1>5. counted \in [AgentDays -> Nat] /\ outside \in [AgentDays -> Nat]
    BY DEF AgentInit
<1>6. savedState = Unsaved /\ refusedSave = FALSE /\ forgotten = FALSE
    BY DEF AgentInit
<1>7. AgentTypeOK
    BY <1>1, <1>3, <1>4, <1>5, <1>6 DEF AgentTypeOK
<1> QED
    BY <1>2, <1>6, <1>7 DEF AgentInit, AgentInv, NothingToForget, FutureEmpty, AgentSpendCounted

\* Lemma: a save, refused or not, leaves nothing to forget, and saves a day that
\* is not after today.
LEMMA SavedIsMemory ==
  ASSUME AgentInv, PersistState, limits' \in Limits, sessionEnd' \in Nat, dailySpent' \in Nat,
         lastSpendDay' \in AgentDays, lastSpendDay' <= CurrentDay
  PROVE  /\ NothingToForget' /\ refusedSave' \in BOOLEAN
         /\ savedState' \in [limits: Limits, sessionEnd: Nat, spent: Nat, day: AgentDays] \cup {Unsaved}
         /\ savedState' = Unsaved \/ savedState'.day <= CurrentDay
<1>1. CASE SaveRefused
    BY <1>1 DEF SaveRefused, NothingToForget, AgentInv, AgentTypeOK, FutureEmpty, Unsaved
<1>2. CASE savedState' = Memory' /\ refusedSave' = FALSE
    <2>1. savedState' = [limits |-> limits', sessionEnd |-> sessionEnd', spent |-> dailySpent', day |-> lastSpendDay']
        BY <1>2 DEF Memory
    <2>2. NothingToForget'
        BY <1>2 DEF NothingToForget
    <2>3. savedState' \in [limits: Limits, sessionEnd: Nat, spent: Nat, day: AgentDays] /\ savedState'.day = lastSpendDay'
        BY <2>1
    <2> QED
        BY <1>2, <2>2, <2>3
<1> QED
    BY <1>1, <1>2 DEF PersistState

\* Lemma: a counted spend, of the wallet or from outside, keeps the invariant.
LEMMA CountKeeps ==
  ASSUME AgentInv, AdapterTypeOK', NEW value \in Nat, Count(value),
         UNCHANGED <<walletTime, loadedAt, limits, sessionEnd, forgotten>>,
         \/ counted' = [counted EXCEPT ![CurrentDay] = @ + value] /\ UNCHANGED outside
         \/ outside' = [outside EXCEPT ![CurrentDay] = @ + value] /\ UNCHANGED counted
  PROVE  AgentInv'
<1>1. AgentTypeOK /\ FutureEmpty /\ AgentSpendCounted
    BY DEF AgentInv
<1>2. /\ CurrentDay \in AgentDays /\ CurrentDay \in Nat /\ AgentDays \subseteq Nat
    BY <1>1, CurrentDayIsDay
<1>3. /\ SpentToday \in Nat /\ dailySpent' = SpentToday + value /\ lastSpendDay' = CurrentDay
      /\ dailySpent' \in Nat /\ limits' \in Limits /\ sessionEnd' \in Nat
    BY <1>1 DEF SpentToday, AgentTypeOK, Count
<1>4. /\ NothingToForget' /\ refusedSave' \in BOOLEAN
      /\ savedState' \in [limits: Limits, sessionEnd: Nat, spent: Nat, day: AgentDays] \cup {Unsaved}
      /\ savedState' = Unsaved \/ savedState'.day <= CurrentDay
    BY <1>2, <1>3, SavedIsMemory DEF Count
<1>5. CurrentDay' = CurrentDay
    BY DEF CurrentDay
<1>6. counted' \in [AgentDays -> Nat] /\ outside' \in [AgentDays -> Nat]
    BY <1>1, <1>2 DEF AgentTypeOK
<1>7. AgentTypeOK'
    BY <1>1, <1>2, <1>3, <1>4, <1>6 DEF AgentTypeOK
<1>8. ~forgotten => SpentToday = counted[CurrentDay] + outside[CurrentDay]
    BY <1>1, <1>2 DEF FutureEmpty, AgentSpendCounted, SpentToday, NewDay, AgentTypeOK
<1>9. counted'[CurrentDay] + outside'[CurrentDay] = counted[CurrentDay] + outside[CurrentDay] + value
    BY <1>1, <1>2 DEF AgentTypeOK
<1>10. AgentSpendCounted'
    BY <1>3, <1>8, <1>9, <1>1, <1>2 DEF AgentSpendCounted, AgentTypeOK
<1>11. FutureEmpty'
    <2>1. ASSUME ~forgotten, NEW d \in AgentDays, d > CurrentDay PROVE counted'[d] = 0 /\ outside'[d] = 0
        BY <2>1, <1>1, <1>2 DEF FutureEmpty, AgentTypeOK
    <2> QED
        BY <2>1, <1>2, <1>3, <1>4, <1>5 DEF FutureEmpty
<1> QED
    BY <1>4, <1>7, <1>10, <1>11 DEF AgentInv

\* Lemma: a day that begins, or does not, keeps the invariant.
LEMMA DayResetKeeps ==
  ASSUME AgentInv, AdapterTypeOK', CheckDayReset \/ (UNCHANGED <<dailySpent, lastSpendDay>> /\ NotSaved), UNCHANGED OtherVars
  PROVE  AgentInv'
<1>1. AgentTypeOK /\ FutureEmpty /\ AgentSpendCounted
    BY DEF AgentInv
<1>2. /\ CurrentDay \in AgentDays /\ CurrentDay \in Nat /\ AgentDays \subseteq Nat
    BY <1>1, CurrentDayIsDay
<1>3. CurrentDay' = CurrentDay
    BY DEF CurrentDay, OtherVars
<1>4. CASE UNCHANGED <<dailySpent, lastSpendDay>> /\ NotSaved
    BY <1>3, <1>4 DEF NotSaved, OtherVars, AgentInv, AgentTypeOK, NothingToForget, Memory, FutureEmpty, AgentSpendCounted
<1>5. CASE CheckDayReset /\ ~NewDay
    BY <1>1, <1>3, <1>5 DEF CheckDayReset, SpentToday, NewDay, NotSaved, OtherVars, AgentInv, AgentTypeOK, NothingToForget,
       Memory, FutureEmpty, AgentSpendCounted
<1>6. CASE CheckDayReset /\ NewDay
    <2>1. dailySpent' = 0 /\ lastSpendDay' = CurrentDay /\ PersistState
        BY <1>6 DEF CheckDayReset, SpentToday
    <2>2. limits' \in Limits /\ sessionEnd' \in Nat /\ UNCHANGED <<walletTime, loadedAt, forgotten, counted, outside>>
        BY <1>1 DEF OtherVars, AgentTypeOK
    <2>3. /\ NothingToForget' /\ refusedSave' \in BOOLEAN
          /\ savedState' \in [limits: Limits, sessionEnd: Nat, spent: Nat, day: AgentDays] \cup {Unsaved}
          /\ savedState' = Unsaved \/ savedState'.day <= CurrentDay
        BY <1>2, <2>1, <2>2, SavedIsMemory
    <2>4. AgentTypeOK'
        BY <1>1, <1>2, <2>1, <2>2, <2>3 DEF AgentTypeOK
    <2>5. FutureEmpty'
        BY <1>1, <1>2, <1>3, <2>1, <2>2, <2>3 DEF FutureEmpty, AgentTypeOK
    <2>6. AgentSpendCounted'
        BY <1>1, <1>2, <1>6, <2>1, <2>2 DEF FutureEmpty, AgentSpendCounted, AgentTypeOK, NewDay
    <2> QED
        BY <2>3, <2>4, <2>5, <2>6 DEF AgentInv
<1> QED
    BY <1>4, <1>5, <1>6

\* Lemma: so does what the owner changes.
LEMMA OwnerKeeps ==
  ASSUME AgentInv, (\E new \in Limits : UpdateLimits(new)) \/ ProlongSession \/ ClearSavedState
  PROVE  AgentInv'
<1>1. AgentTypeOK /\ FutureEmpty /\ AgentSpendCounted
    BY DEF AgentInv
<1>2. /\ CurrentDay \in AgentDays /\ CurrentDay \in Nat /\ AgentDays \subseteq Nat
    BY <1>1, CurrentDayIsDay
<1>3. CASE ClearSavedState
    BY <1>3, <1>1 DEF ClearSavedState, OtherVars, adapterVars, AgentInv, AgentTypeOK, AdapterTypeOK, NothingToForget, FutureEmpty,
       AgentSpendCounted, CurrentDay
<1>4. CASE (\E new \in Limits : UpdateLimits(new)) \/ ProlongSession
    <2>1. /\ limits' \in Limits /\ sessionEnd' \in Nat /\ PersistState
          /\ UNCHANGED <<adapterVars, walletTime, loadedAt, dailySpent, lastSpendDay, forgotten, counted, outside>>
        BY <1>4, <1>1, AgentWalletAssumption DEF UpdateLimits, ProlongSession, AgentTypeOK
    <2>2. /\ NothingToForget' /\ refusedSave' \in BOOLEAN
          /\ savedState' \in [limits: Limits, sessionEnd: Nat, spent: Nat, day: AgentDays] \cup {Unsaved}
          /\ savedState' = Unsaved \/ savedState'.day <= CurrentDay
        BY <1>1, <2>1, SavedIsMemory DEF AgentTypeOK, FutureEmpty
    <2>3. AgentTypeOK'
        BY <1>1, <2>1, <2>2 DEF AgentTypeOK, AdapterTypeOK, adapterVars
    <2> QED
        BY <1>1, <2>1, <2>2, <2>3 DEF AgentInv, FutureEmpty, AgentSpendCounted, CurrentDay
<1> QED
    BY <1>3, <1>4

\* Lemma: a wallet that is started knows what the last one knew, or has forgotten.
LEMMA StartKeeps ==
  ASSUME AgentInv, NEW load \in BOOLEAN, NewWallet(load)
  PROVE  AgentInv'
<1>1. AgentTypeOK /\ FutureEmpty /\ AgentSpendCounted /\ NothingToForget
    BY DEF AgentInv
<1>2. /\ CurrentDay \in AgentDays /\ CurrentDay \in Nat /\ AgentDays \subseteq Nat /\ CurrentDay' = CurrentDay
    BY <1>1, CurrentDayIsDay DEF CurrentDay, NewWallet
<1>3. AdapterTypeOK' /\ loadedAt' \in 0 .. walletTime
    <2>1. sends' \in [Sends -> SendRecord \cup {Ended("new"), Ended("done")}]
        BY <1>1 DEF NewWallet, AgentTypeOK, AdapterTypeOK
    <2>2. loadedAt' \in 0 .. walletTime
        BY <1>1, AgentWalletAssumption DEF NewWallet, AgentTypeOK
    <2> QED
        BY <1>1, <2>1, <2>2 DEF NewWallet, AgentTypeOK, AdapterTypeOK
<1>4. UNCHANGED <<walletTime, savedState, refusedSave, counted, outside>> /\ forgotten' \in BOOLEAN /\ loadedAt' \in Nat
    BY <1>1, <1>3, AgentWalletAssumption DEF NewWallet, AgentTypeOK
<1>5. ~forgotten' => ~forgotten /\ (Memory = savedState \/ (dailySpent = 0 /\ refusedSave = FALSE))
    <2>1. ~forgotten' => ~forgotten /\ (Memory = savedState \/ ~(dailySpent > 0 \/ refusedSave))
        BY Zenon DEF NewWallet
    <2>2. dailySpent \in Nat /\ refusedSave \in BOOLEAN
        BY <1>1 DEF AgentTypeOK
    <2> QED
        BY <2>1, <2>2
<1>6. CASE savedState = Unsaved
    <2>1. limits' = OwnLimits /\ sessionEnd' = loadedAt' + SessionLength /\ dailySpent' = 0 /\ lastSpendDay' = CurrentDay
        BY <1>6 DEF NewWallet, RestoredLimits, Unsaved
    <2>2. AgentTypeOK'
        <3>1. limits' \in Limits /\ sessionEnd' \in Nat /\ dailySpent' \in Nat /\ lastSpendDay' \in AgentDays
            <4>1. OwnLimits \in Limits /\ SessionLength \in Nat
                BY AgentWalletAssumption
            <4>2. limits' \in Limits /\ dailySpent' \in Nat
                BY <2>1, <4>1
            <4>3. lastSpendDay' \in AgentDays
                BY <1>2, <2>1
            <4>4. loadedAt' \in Nat /\ SessionLength \in Nat
                BY <1>4, <4>1
            <4>5. \A x, y \in Nat : x + y \in Nat
                OBVIOUS
            <4>6. loadedAt' + SessionLength \in Nat
                BY <4>4, <4>5
            <4> QED
                BY <2>1, <4>2, <4>3, <4>6
        <3> QED
            BY <1>1, <1>3, <1>4, <3>1 DEF AgentTypeOK
    <2>3. ~forgotten' => dailySpent = 0
        BY <1>5, <1>6 DEF Memory, Unsaved
    <2>4. FutureEmpty'
        BY <1>1, <1>2, <1>4, <1>5, <1>6, <2>1 DEF FutureEmpty, AgentTypeOK
    <2>5. AgentSpendCounted'
        BY <1>1, <1>2, <1>4, <1>5, <2>1, <2>3 DEF FutureEmpty, AgentSpendCounted, AgentTypeOK
    <2> QED
        BY <1>4, <1>6, <2>2, <2>4, <2>5 DEF AgentInv, NothingToForget
<1>7. CASE savedState # Unsaved
    <2>1. savedState \in [limits: Limits, sessionEnd: Nat, spent: Nat, day: AgentDays]
        BY <1>1, <1>7 DEF AgentTypeOK
    <2>2. limits' = savedState.limits /\ sessionEnd' = savedState.sessionEnd /\ dailySpent' = savedState.spent /\ lastSpendDay' = savedState.day
        BY <1>7 DEF NewWallet, RestoredLimits
    <2>3. savedState = Memory'
        BY <2>1, <2>2 DEF Memory
    <2>4. AgentTypeOK'
        BY <1>1, <1>3, <1>4, <2>1, <2>2 DEF AgentTypeOK
    <2>5. ~forgotten' => dailySpent' = dailySpent /\ lastSpendDay' = lastSpendDay
        BY <1>1, <1>5, <1>7, <2>2 DEF NothingToForget, Memory
    <2>6. FutureEmpty' /\ AgentSpendCounted'
        BY <1>1, <1>2, <1>4, <1>5, <1>7, <2>2, <2>5 DEF FutureEmpty, AgentSpendCounted
    <2> QED
        BY <1>4, <2>3, <2>4, <2>6 DEF AgentInv, NothingToForget
<1> QED
    BY <1>6, <1>7

\* Lemma: every step of the wallet keeps its invariant.
LEMMA AgentStepInv ==
  ASSUME AgentInv, [AgentStep]_agentVars
  PROVE  AgentInv'
<1>1. AgentTypeOK /\ AdapterTypeOK
    BY DEF AgentInv, AgentTypeOK
<1>2. CASE AdapterStep /\ UNCHANGED <<walletTime, loadedAt, limits, sessionEnd, dailySpent, lastSpendDay, savedState, walletHistory>>
    <2>1. AdapterTypeOK'
        BY <1>1, <1>2, AdapterTypes
    <2> QED
        BY <1>2, <2>1 DEF walletHistory, AgentInv, AgentTypeOK, NothingToForget, Memory, FutureEmpty, AgentSpendCounted, CurrentDay
<1>3. ASSUME NEW s \in Sends, SendReturns(s) PROVE AgentInv'
    <2>1. AdapterTypeOK'
        BY <1>1, <1>3, AdapterTypes DEF SendReturns
    <2>2. sends[s].value \in Nat
        <3>1. sends[s] \in SendRecord \cup {Ended("new"), Ended("done")} /\ sends[s].stage = "sending"
            BY <1>1, <1>3 DEF SendReturns, Answered, AdapterTypeOK
        <3>2. sends[s] \in SendRecord
            BY <3>1 DEF Ended
        <3> QED
            BY <3>2, AdapterAssumption DEF SendRecord
    <2> QED
        BY <1>3, <2>1, <2>2, CountKeeps DEF SendReturns
<1>4. ASSUME NEW s \in Sends, NEW to \in Receivers, NEW value \in Values, SendTransaction(s, to, value) PROVE AgentInv'
    <2>1. Submit(s, value) \/ UNCHANGED adapterVars
        BY <1>4 DEF SendTransaction
    <2>2. AdapterTypeOK'
        BY <1>1, <2>1, AdapterTypes DEF AdapterTypeOK, adapterVars
    <2> QED
        BY <1>4, <2>2, DayResetKeeps DEF SendTransaction
<1>5. ASSUME NEW value \in Values, RecordSpend(value) PROVE AgentInv'
    <2>1. AdapterTypeOK'
        BY <1>1, <1>5 DEF RecordSpend, AdapterTypeOK, adapterVars
    <2> QED
        BY <1>5, <2>1, AdapterAssumption, CountKeeps DEF RecordSpend
<1>6. CASE ReadDailySpent
    <2>1. AdapterTypeOK'
        BY <1>1, <1>6 DEF ReadDailySpent, AdapterTypeOK, adapterVars
    <2> QED
        BY <1>6, <2>1, DayResetKeeps DEF ReadDailySpent
<1>7. CASE AgentTick
    <2>1. CurrentDay <= CurrentDay' /\ CurrentDay \in Nat /\ CurrentDay' \in Nat /\ AgentDays \subseteq Nat
        <3>1. walletTime + 1 \in Nat /\ AgentDay \in Nat \ {0} /\ walletTime' = walletTime + 1
            BY <1>1, <1>7, AgentWalletAssumption DEF AgentTypeOK, AgentTick
        <3>2. (walletTime + 1) \div AgentDay \in Nat
            BY <3>1
        <3> QED
            BY <1>1, <3>1, <3>2, CurrentDayIsDay DEF CurrentDay
    <2>2. AgentTypeOK'
        BY <1>1, <1>7, AgentWalletAssumption DEF AgentTick, AgentTypeOK, AdapterTypeOK, adapterVars, walletHistory
    <2>3. savedState = Unsaved \/ savedState.day \in Nat
        BY <1>1, <2>1 DEF AgentTypeOK
    <2> QED
        BY <1>1, <1>7, <2>1, <2>2, <2>3 DEF AgentTick, walletHistory, AgentInv, AgentTypeOK, NothingToForget, Memory, FutureEmpty, AgentSpendCounted
<1>8. CASE (\E new \in Limits : UpdateLimits(new)) \/ ProlongSession \/ ClearSavedState
    BY <1>8, OwnerKeeps
<1>9. ASSUME NEW load \in BOOLEAN, NewWallet(load) PROVE AgentInv'
    BY <1>9, StartKeeps
<1>10. CASE UNCHANGED agentVars
    BY <1>10 DEF agentVars, adapterVars, walletHistory, AgentInv, AgentTypeOK, AdapterTypeOK, NothingToForget, Memory, FutureEmpty,
       AgentSpendCounted, CurrentDay
<1> QED
    BY <1>2, <1>3, <1>4, <1>5, <1>6, <1>7, <1>8, <1>9, <1>10 DEF AgentStep

\* Theorem: a start finds everything the wallet decides by as it was left, unless
\* localStorage refused or was cleared (NothingToForget), for any limits, any
\* number of transactions underway and any adapter.
THEOREM StartsFindEverything ==
  ASSUME NEW kinds \in SUBSET {"evm", "keypair", "wallet", "both"}
  PROVE  AgentSpec(kinds) => []NothingToForget
<1>1. AgentInit(kinds) => AgentInv
    BY AgentInitial
<1>2. AgentInv => NothingToForget
    BY DEF AgentInv
<1> QED
    BY <1>1, <1>2, AgentStepInv, PTL DEF AgentSpec

\* Theorem: as long as no start has forgotten anything, the counter is what was
\* counted on its day (AgentSpendCounted), which the bound on a day rests on.
THEOREM CounterIsTheDay ==
  ASSUME NEW kinds \in SUBSET {"evm", "keypair", "wallet", "both"}
  PROVE  AgentSpec(kinds) => []AgentSpendCounted
<1>1. AgentInit(kinds) => AgentInv
    BY AgentInitial
<1>2. AgentInv => AgentSpendCounted
    BY DEF AgentInv
<1> QED
    BY <1>1, <1>2, AgentStepInv, PTL DEF AgentSpec

\* What is underway, and what each will count.
SendsUnderway == {s \in Sends : Underway(s)}
SendValues == [s \in Sends |-> sends[s].value]

MostADay == OwnLimits.maxPerDay
MostASend == OwnLimits.maxPerTransaction

\* The limits the owner sets differ in whom they refuse.
EqualLimits == \A l \in Limits : l.maxPerDay = MostADay /\ l.maxPerTransaction = MostASend

RoomForSends == HasRoom(counted[CurrentDay], SendsUnderway, SendValues, MostADay, MostASend, MaxUnderway)

BoundInv ==
  /\ AgentInv
  /\ Cardinality(SendsUnderway) <= MaxUnderway
  /\ \A s \in SendsUnderway : sends[s].value <= MostASend /\ sends[s].value <= MostADay
  /\ ~forgotten => RoomForSends
  /\ AgentSpendBounded

\* Lemma: the types the bound needs.
LEMMA BoundTypes ==
  ASSUME AgentInv
  PROVE  /\ MostADay \in Nat /\ MostASend \in Nat /\ MaxUnderway \in Nat \ {0}
         /\ CurrentDay \in AgentDays /\ counted \in [AgentDays -> Nat]
         /\ IsFiniteSet(SendsUnderway) /\ Cardinality(SendsUnderway) \in Nat
         /\ \A s \in SendsUnderway : sends[s] \in SendRecord /\ SendValues[s] = sends[s].value /\ SendValues[s] \in Nat
<1>1. MostADay \in Nat /\ MostASend \in Nat /\ MaxUnderway \in Nat \ {0}
    BY AgentWalletAssumption DEF MostADay, MostASend
<1>2. AgentTypeOK /\ AdapterTypeOK
    BY DEF AgentInv, AgentTypeOK
<1>3. CurrentDay \in AgentDays /\ counted \in [AgentDays -> Nat]
    BY <1>2, CurrentDayIsDay DEF AgentTypeOK
<1>4. SendsUnderway \in SUBSET Sends
    BY DEF SendsUnderway
<1>5. IsFiniteSet(SendsUnderway) /\ Cardinality(SendsUnderway) \in Nat
    BY <1>4, AgentWalletAssumption, FS_Subset, FS_CardinalityType
<1>6. ASSUME NEW s \in SendsUnderway
      PROVE  sends[s] \in SendRecord /\ SendValues[s] = sends[s].value /\ SendValues[s] \in Nat
    <2>1. s \in Sends /\ Underway(s)
        BY DEF SendsUnderway
    <2>2. sends[s] \in SendRecord
        BY <1>2, <2>1 DEF AdapterTypeOK, Underway, Ended
    <2> QED
        BY <2>1, <2>2, AdapterAssumption DEF SendValues, SendRecord
<1> QED
    BY <1>1, <1>3, <1>5, <1>6

\* Lemma: what is underway is charged at most the limit of a transaction.
LEMMA UnderwayCharged ==
  ASSUME BoundInv
  PROVE  Charged(SendsUnderway, SendValues, MostASend) /\ \A s \in SendsUnderway : SendValues[s] <= MostADay
BY BoundTypes DEF BoundInv, Charged

\* Lemma: steps that send nothing and count nothing keep the bound.
LEMMA NothingJoins ==
  ASSUME BoundInv, AgentInv', UNCHANGED <<walletTime, counted>>, forgotten => forgotten',
         SendsUnderway' \subseteq SendsUnderway, \A s \in SendsUnderway' : sends'[s].value = sends[s].value
  PROVE  BoundInv'
<1>1. /\ MostADay \in Nat /\ MostASend \in Nat /\ MaxUnderway \in Nat \ {0}
      /\ CurrentDay \in AgentDays /\ counted[CurrentDay] \in Nat /\ CurrentDay' = CurrentDay
      /\ IsFiniteSet(SendsUnderway) /\ Cardinality(SendsUnderway) \in Nat
    BY BoundTypes DEF BoundInv, CurrentDay
<1> DEFINE T == SendsUnderway'
           new == SendValues'
<1>2. T \in SUBSET SendsUnderway
    OBVIOUS
<1>3. \A s \in T : new[s] = SendValues[s] /\ s \in Sends
    BY DEF SendsUnderway, SendValues
<1>4. Cardinality(T) <= MaxUnderway
    <2> HIDE DEF T
    <2>1. Cardinality(T) <= Cardinality(SendsUnderway) /\ Cardinality(T) \in Nat
        BY <1>1, <1>2, FS_Subset, FS_CardinalityType
    <2> QED
        BY <1>1, <2>1 DEF BoundInv
<1>5. ASSUME ~forgotten' PROVE RoomForSends'
    <2>1. HasRoom(counted[CurrentDay], SendsUnderway, SendValues, MostADay, MostASend, MaxUnderway)
        BY <1>5 DEF BoundInv, RoomForSends
    <2>2. Charged(SendsUnderway, SendValues, MostASend)
        BY UnderwayCharged
    <2>3. RoomForSends' = HasRoom(counted[CurrentDay], T, new, MostADay, MostASend, MaxUnderway)
        BY <1>1 DEF RoomForSends, MostADay, MostASend
    <2> HIDE DEF T, new
    <2>4. HasRoom(counted[CurrentDay], T, SendValues, MostADay, MostASend, MaxUnderway)
        BY <1>1, <1>2, <2>1, <2>2, RoomShrinks
    <2>5. HasRoom(counted[CurrentDay], T, new, MostADay, MostASend, MaxUnderway)
        BY <1>3, <2>4, RoomSame
    <2> QED
        BY <2>3, <2>5
<1>6. \A s \in SendsUnderway' : sends'[s].value <= MostASend /\ sends'[s].value <= MostADay
    BY DEF BoundInv
<1>7. AgentSpendBounded'
    BY DEF BoundInv, AgentSpendBounded
<1> QED
    BY <1>4, <1>5, <1>6, <1>7 DEF BoundInv, MostADay, MostASend

\* Lemma: the counter a check looks at is no less than what the wallet's own
\* transactions added today.
LEMMA CheckSeesCounted ==
  ASSUME AgentInv, ~forgotten
  PROVE  SpentToday \in Nat /\ counted[CurrentDay] <= SpentToday
<1>1. AgentTypeOK /\ FutureEmpty /\ AgentSpendCounted
    BY DEF AgentInv
<1>2. CurrentDay \in AgentDays /\ CurrentDay \in Nat /\ AgentDays \subseteq Nat
    BY <1>1, CurrentDayIsDay
<1>3. SpentToday = counted[CurrentDay] + outside[CurrentDay]
    BY <1>1, <1>2 DEF FutureEmpty, AgentSpendCounted, SpentToday, NewDay, AgentTypeOK
<1> QED
    BY <1>1, <1>2, <1>3 DEF AgentTypeOK

\* Lemma: a transaction that is allowed goes underway.
LEMMA SendKeepsBound ==
  ASSUME BoundInv, AgentInv', EqualLimits, NEW s \in Sends, NEW to \in Receivers, NEW value \in Values,
         SendTransaction(s, to, value), ValidateTransaction(to, value), Submit(s, value)
  PROVE  BoundInv'
<1>1. /\ MostADay \in Nat /\ MostASend \in Nat /\ MaxUnderway \in Nat \ {0}
      /\ CurrentDay \in AgentDays /\ counted[CurrentDay] \in Nat
      /\ IsFiniteSet(SendsUnderway) /\ Cardinality(SendsUnderway) \in Nat
    BY BoundTypes DEF BoundInv
<1>2. AdapterTypeOK /\ limits \in Limits /\ value \in Nat
    BY AdapterAssumption DEF BoundInv, AgentInv, AgentTypeOK
<1>3. UNCHANGED <<walletTime, counted, forgotten>> /\ CurrentDay' = CurrentDay
    BY DEF SendTransaction, OtherVars, CurrentDay
<1>4. s \notin SendsUnderway /\ Cardinality(SendsUnderway) < MaxUnderway
    BY DEF SendTransaction, SendsUnderway, Underway, Ended
<1>5. /\ sends'[s].value = value /\ sends'[s].stage \in {"sending", "building"}
      /\ \A t \in Sends \ {s} : sends'[t] = sends[t]
    BY <1>2 DEF Submit, AdapterTypeOK
<1>6. SendsUnderway' = SendsUnderway \cup {s}
    BY <1>5 DEF SendsUnderway, Underway
<1>7. Cardinality(SendsUnderway \cup {s}) <= MaxUnderway
    <2>1. Cardinality(SendsUnderway \cup {s}) = Cardinality(SendsUnderway) + 1
        BY <1>1, <1>4, FS_AddElement
    <2> QED
        BY <1>1, <1>4, <2>1
<1>8. value <= MostASend /\ SpentToday + value <= MostADay
    BY <1>2 DEF EqualLimits, ValidateTransaction, FirstChecks, WithinDayLimit
<1>9. SpentToday \in Nat
    BY <1>2 DEF SpentToday, BoundInv, AgentInv, AgentTypeOK
<1>10. \A t \in SendsUnderway' : sends'[t].value <= MostASend /\ sends'[t].value <= MostADay
    <2>1. value <= MostADay
        BY <1>1, <1>2, <1>8, <1>9
    <2> QED
        BY <1>4, <1>5, <1>6, <1>8, <2>1 DEF BoundInv, SendsUnderway
<1>11. ASSUME ~forgotten' PROVE RoomForSends'
    <2> DEFINE new == SendValues'
    <2>1. new[s] = value
        BY <1>5 DEF SendValues
    <2>2. counted[CurrentDay] + value <= MostADay
        BY <1>1, <1>2, <1>3, <1>8, <1>11, CheckSeesCounted DEF BoundInv
    <2>3. RoomForSends' = HasRoom(counted[CurrentDay], SendsUnderway \cup {s}, new, MostADay, MostASend, MaxUnderway)
        BY <1>3, <1>6 DEF RoomForSends, MostADay, MostASend
    <2> HIDE DEF new
    <2>4. HasRoom(counted[CurrentDay], SendsUnderway \cup {s}, new, MostADay, MostASend, MaxUnderway)
        BY <1>1, <1>2, <1>4, <2>1, <2>2, RoomJoins
    <2> QED
        BY <2>3, <2>4
<1>12. AgentSpendBounded'
    BY <1>3 DEF BoundInv, AgentSpendBounded
<1> QED
    BY <1>6, <1>7, <1>10, <1>11, <1>12 DEF BoundInv, MostADay, MostASend

\* Lemma: a transaction that returns is counted.
LEMMA ReturnKeepsBound ==
  ASSUME BoundInv, AgentInv', NEW s \in Sends, SendReturns(s)
  PROVE  BoundInv'
<1>1. /\ MostADay \in Nat /\ MostASend \in Nat /\ MaxUnderway \in Nat \ {0}
      /\ CurrentDay \in AgentDays /\ counted \in [AgentDays -> Nat] /\ counted[CurrentDay] \in Nat
      /\ IsFiniteSet(SendsUnderway) /\ Cardinality(SendsUnderway) \in Nat
      /\ \A t \in SendsUnderway : SendValues[t] = sends[t].value /\ SendValues[t] \in Nat
    BY BoundTypes DEF BoundInv
<1>2. AdapterTypeOK
    BY DEF BoundInv, AgentInv, AgentTypeOK
<1>3. UNCHANGED <<walletTime, forgotten>> /\ CurrentDay' = CurrentDay
    BY DEF SendReturns, CurrentDay
<1>4. s \in SendsUnderway
    BY DEF SendReturns, Answered, SendsUnderway, Underway
<1>5. /\ sends'[s].stage = "done"
      /\ \A t \in Sends \ {s} : sends'[t] = sends[t]
    BY <1>2 DEF SendReturns, Answered, AdapterTypeOK, Ended
<1>6. SendsUnderway' = SendsUnderway \ {s}
    BY <1>5 DEF SendsUnderway, Underway
<1>7. Cardinality(SendsUnderway \ {s}) <= MaxUnderway
    <2>1. Cardinality(SendsUnderway \ {s}) = Cardinality(SendsUnderway) - 1
        BY <1>1, <1>4, FS_RemoveElement
    <2> QED
        BY <1>1, <2>1 DEF BoundInv
<1>8. counted' = [counted EXCEPT ![CurrentDay] = @ + SendValues[s]]
    BY <1>1, <1>4 DEF SendReturns
<1>9. \A t \in SendsUnderway' : sends'[t].value <= MostASend /\ sends'[t].value <= MostADay
    BY <1>5, <1>6 DEF BoundInv, SendsUnderway
<1>10. Charged(SendsUnderway \ {s}, SendValues, MostASend) /\ Charged(SendsUnderway, SendValues, MostASend)
    <2>1. IsFiniteSet(SendsUnderway \ {s})
        BY <1>1, FS_RemoveElement
    <2> QED
        BY <2>1, UnderwayCharged DEF Charged
<1>11. ASSUME ~forgotten'
       PROVE  HasRoom(counted[CurrentDay] + SendValues[s], SendsUnderway \ {s}, SendValues, MostADay, MostASend, MaxUnderway)
    <2>1. HasRoom(counted[CurrentDay], SendsUnderway, SendValues, MostADay, MostASend, MaxUnderway)
        BY <1>3, <1>11 DEF BoundInv, RoomForSends
    <2> QED
        BY <1>1, <1>4, <1>10, <2>1, RoomCounted
<1>12. ASSUME ~forgotten' PROVE RoomForSends'
    <2> DEFINE new == SendValues'
    <2>1. \A t \in SendsUnderway \ {s} : SendValues[t] = new[t]
        BY <1>5 DEF SendValues, SendsUnderway
    <2>2. RoomForSends' = HasRoom(counted[CurrentDay] + SendValues[s], SendsUnderway \ {s}, new, MostADay, MostASend, MaxUnderway)
        BY <1>1, <1>3, <1>6, <1>8 DEF RoomForSends, MostADay, MostASend
    <2> HIDE DEF new
    <2>3. HasRoom(counted[CurrentDay] + SendValues[s], SendsUnderway \ {s}, new, MostADay, MostASend, MaxUnderway)
        BY <1>11, <1>12, <2>1, RoomSame
    <2> QED
        BY <2>2, <2>3
<1>13. AgentSpendBounded'
    <2>1. ASSUME ~forgotten' PROVE counted[CurrentDay] + SendValues[s] <= MostADay + (MaxUnderway - 1) * MostASend
        <3>1. counted[CurrentDay] + SendValues[s] \in Nat
            BY <1>1, <1>4
        <3> QED
            BY <1>1, <1>10, <1>11, <2>1, <3>1, RoomBounds
    <2>2. ASSUME ~forgotten', NEW d \in AgentDays
          PROVE  counted'[d] <= MostADay + (MaxUnderway - 1) * MostASend
        BY <1>1, <1>3, <1>8, <2>1, <2>2 DEF BoundInv, AgentSpendBounded, MostADay, MostASend
    <2> QED
        BY <2>2 DEF AgentSpendBounded, MostADay, MostASend
<1> QED
    BY <1>6, <1>7, <1>9, <1>12, <1>13 DEF BoundInv, MostADay, MostASend

\* Lemma: on a day that begins, all that was allowed before has room.
LEMMA DayKeepsBound ==
  ASSUME BoundInv, AgentInv', AgentTick
  PROVE  BoundInv'
<1>1. /\ MostADay \in Nat /\ MostASend \in Nat /\ MaxUnderway \in Nat \ {0}
      /\ Cardinality(SendsUnderway) <= MaxUnderway
    BY BoundTypes DEF BoundInv
<1>2. UNCHANGED <<sends, counted, forgotten, lastSpendDay>>
    BY DEF AgentTick, adapterVars, walletHistory
<1>3. SendsUnderway' = SendsUnderway /\ SendValues' = SendValues
    BY <1>2 DEF SendsUnderway, SendValues, Underway
<1>4. CurrentDay \in Nat /\ CurrentDay' \in AgentDays /\ CurrentDay' \in Nat /\ CurrentDay <= CurrentDay'
    <2>1. AgentTypeOK /\ walletTime' = walletTime + 1
        BY DEF BoundInv, AgentInv, AgentTick
    <2>2. walletTime + 1 \in Nat /\ MaxAgentTime \in Nat /\ walletTime + 1 <= MaxAgentTime /\ AgentDay \in Nat \ {0}
        BY <2>1, AgentWalletAssumption DEF AgentTick, AgentTypeOK
    <2>3. (walletTime + 1) \div AgentDay \in AgentDays
        BY <2>2, DayOf DEF AgentDays
    <2> QED
        BY <2>1, <2>3, CurrentDayIsDay DEF CurrentDay
<1>5. ASSUME ~forgotten' PROVE RoomForSends'
    <2>1. CASE CurrentDay' = CurrentDay
        BY <1>2, <1>3, <1>5, <2>1 DEF BoundInv, RoomForSends, MostADay, MostASend
    <2>2. CASE CurrentDay' # CurrentDay
        <3>1. lastSpendDay \in Nat /\ lastSpendDay <= CurrentDay
            BY CurrentDayIsDay DEF BoundInv, AgentInv, AgentTypeOK, FutureEmpty
        <3>2. counted[CurrentDay'] = 0
            BY <1>2, <1>4, <1>5, <2>2, <3>1 DEF BoundInv, AgentInv, FutureEmpty
        <3>3. HasRoom(0, SendsUnderway, SendValues, MostADay, MostASend, MaxUnderway)
            BY <1>1, UnderwayCharged, RoomNewDay
        <3> QED
            BY <1>2, <1>3, <3>2, <3>3 DEF RoomForSends, MostADay, MostASend
    <2> QED
        BY <2>1, <2>2
<1> QED
    BY <1>1, <1>2, <1>3, <1>5 DEF BoundInv, AgentSpendBounded, MostADay, MostASend

\* Lemma: every step keeps the bound.
LEMMA AgentStepBound ==
  ASSUME EqualLimits, BoundInv, [AgentStep]_agentVars
  PROVE  BoundInv'
<1>1. AgentInv' /\ AdapterTypeOK
    BY AgentStepInv DEF BoundInv, AgentInv, AgentTypeOK
<1>2. ASSUME UNCHANGED <<sends, walletTime, counted, forgotten>> PROVE BoundInv'
    <2>1. SendsUnderway' = SendsUnderway
        BY <1>2 DEF SendsUnderway, Underway
    <2> QED
        BY <1>1, <1>2, <2>1, NothingJoins
<1>3. CASE AdapterStep /\ UNCHANGED <<walletTime, loadedAt, limits, sessionEnd, dailySpent, lastSpendDay, savedState, walletHistory>>
    <2>1. UNCHANGED <<walletTime, counted, forgotten>>
        BY <1>3 DEF walletHistory
    <2>2. CASE ConnectAdapter \/ DisconnectAdapter \/ WalletChanges
        BY <1>2, <2>1, <2>2 DEF ConnectAdapter, DisconnectAdapter, WalletChanges
    <2>3. ASSUME NEW s \in Sends, Blockhash(s) \/ WalletSigns(s) \/ Rejected(s) PROVE BoundInv'
        <3>1. /\ Underway(s)
              /\ \A t \in Sends \ {s} : sends'[t] = sends[t]
              /\ sends'[s].stage = "done" \/ sends'[s].value = sends[s].value
            <4>1. CASE Rejected(s)
                BY <1>1, <4>1 DEF Rejected, Underway, AdapterTypeOK, Ended
            <4>2. CASE Blockhash(s) \/ WalletSigns(s)
                <5>1. sends[s] \in SendRecord /\ Underway(s)
                    BY <1>1, <4>2 DEF Blockhash, WalletSigns, Underway, AdapterTypeOK, Ended
                <5>2. \A t \in Sends \ {s} : sends'[t] = sends[t]
                    BY <1>1, <4>2 DEF Blockhash, WalletSigns, AdapterTypeOK
                <5>3. sends'[s].stage = "done" \/ sends'[s].value = sends[s].value
                    <6>1. sends \in [Sends -> SendRecord \cup {Ended("new"), Ended("done")}] /\ Ended("done").stage = "done"
                        BY <1>1 DEF AdapterTypeOK, Ended
                    <6>2. PICK payer \in SomeAccount \cup {Nobody}, stage \in {"signing", "sending"} :
                            \/ sends'[s] = Ended("done")
                            \/ sends'[s] = [sends[s] EXCEPT !.payer = payer, !.stage = stage]
                            \/ sends'[s] = [sends[s] EXCEPT !.stage = stage]
                        <7>1. Signer \in SomeAccount \cup {Nobody}
                            BY <1>1 DEF Signer, SomeAccount, AdapterTypeOK
                        <7>2. CASE Blockhash(s)
                            BY <6>1, <7>1, <7>2 DEF Blockhash
                        <7>3. CASE WalletSigns(s)
                            BY <6>1, <7>1, <7>3 DEF WalletSigns
                        <7> QED
                            BY <4>2, <7>2, <7>3
                    <6> QED
                        BY <5>1, <6>1, <6>2 DEF SendRecord
                <5> QED
                    BY <5>1, <5>2, <5>3
            <4> QED
                BY <2>3, <4>1, <4>2
        <3>2. /\ SendsUnderway' \subseteq SendsUnderway
              /\ \A t \in SendsUnderway' : sends'[t].value = sends[t].value
            BY <3>1 DEF SendsUnderway, Underway
        <3> QED
            BY <1>1, <2>1, <3>2, NothingJoins
    <2> QED
        BY <1>3, <2>2, <2>3 DEF AdapterStep
<1>4. ASSUME NEW s \in Sends, NEW to \in Receivers, NEW value \in Values, SendTransaction(s, to, value) PROVE BoundInv'
    <2>1. CASE ValidateTransaction(to, value) /\ Address # Nobody
        <3>1. Submit(s, value)
            BY <1>4, <2>1, Zenon DEF SendTransaction
        <3> QED
            BY <1>1, <1>4, <2>1, <3>1, SendKeepsBound
    <2>2. CASE ~(ValidateTransaction(to, value) /\ Address # Nobody)
        <3>1. UNCHANGED adapterVars
            BY <1>4, <2>2 DEF SendTransaction
        <3> QED
            BY <1>2, <1>4, <3>1 DEF SendTransaction, OtherVars, adapterVars
    <2> QED
        BY <2>1, <2>2
<1>5. ASSUME NEW s \in Sends, SendReturns(s) PROVE BoundInv'
    BY <1>1, <1>5, ReturnKeepsBound
<1>6. CASE AgentTick
    BY <1>1, <1>6, DayKeepsBound
<1>7. ASSUME NEW load \in BOOLEAN, NewWallet(load) PROVE BoundInv'
    <2>1. UNCHANGED <<walletTime, counted>> /\ (forgotten => forgotten')
        BY <1>7 DEF NewWallet
    <2>2. SendsUnderway' = {}
        BY <1>7 DEF NewWallet, SendsUnderway, Underway, Ended
    <2> QED
        BY <1>1, <2>1, <2>2, NothingJoins
<1>8. CASE (\E value \in Values : RecordSpend(value)) \/ ReadDailySpent
    BY <1>2, <1>8 DEF RecordSpend, ReadDailySpent, OtherVars, adapterVars
<1>9. CASE (\E new \in Limits : UpdateLimits(new)) \/ ProlongSession \/ ClearSavedState
    BY <1>2, <1>9 DEF UpdateLimits, ProlongSession, ClearSavedState, OtherVars, adapterVars
<1>10. CASE UNCHANGED agentVars
    BY <1>2, <1>10 DEF agentVars, adapterVars, walletHistory
<1> QED
    BY <1>3, <1>4, <1>5, <1>6, <1>7, <1>8, <1>9, <1>10 DEF AgentStep

\* Lemma: the first wallet has nothing underway.
LEMMA BoundInitial ==
  ASSUME NEW kinds \in SUBSET {"evm", "keypair", "wallet", "both"}, AgentInit(kinds)
  PROVE  BoundInv
<1>1. AgentInv /\ MostADay \in Nat /\ MostASend \in Nat /\ MaxUnderway \in Nat \ {0} /\ CurrentDay \in AgentDays
    BY AgentInitial, BoundTypes
<1>2. SendsUnderway = {} /\ \A d \in AgentDays : counted[d] = 0
    BY DEF AgentInit, AdapterInit, SendsUnderway, Underway, Ended
<1>3. Cardinality({}) = 0 /\ Charged({}, SendValues, MostASend)
    BY FS_EmptySet DEF Charged
<1>4. HasRoom(0, {}, SendValues, MostADay, MostASend, MaxUnderway)
    BY <1>1, <1>3, RoomNewDay
<1>5. RoomForSends /\ AgentSpendBounded
    BY <1>1, <1>2, <1>4 DEF RoomForSends, AgentSpendBounded, HasRoom, MostADay, MostASend
<1> QED
    BY <1>1, <1>2, <1>3, <1>5 DEF BoundInv

\* Theorem: unless a start has forgotten something, the wallet's own transactions exceed
\* the limit of a day by less than one transaction for each other that can be underway
\* (AgentSpendBounded), for limits that differ only in whom they refuse: whatever is
\* recorded from outside, restarted or rejected meanwhile.
THEOREM DayIsBoundedOnAdapters ==
  ASSUME EqualLimits, NEW kinds \in SUBSET {"evm", "keypair", "wallet", "both"}
  PROVE  AgentSpec(kinds) => []AgentSpendBounded
<1>1. AgentInit(kinds) => BoundInv
    BY BoundInitial
<1>2. BoundInv /\ [AgentStep]_agentVars => BoundInv'
    BY AgentStepBound
<1>3. BoundInv => AgentSpendBounded
    BY DEF BoundInv
<1> QED
    BY <1>1, <1>2, <1>3, PTL DEF AgentSpec

-----------------------------------------------------------------------------
(* AgentIdentity and AgentIdentityManager *)

\* A signature is of the controller of what it is over, or will be if the wallet is still
\* where the document was adopted when its user signs.
SignatureInv(signature, address) ==
  signature # NotSigned /\ ~signature.stub /\ signature.ours =>
    IF signature.signer = NoAddress THEN signature.over.controller = address
    ELSE signature.signer = signature.over.controller

\* A document is of the account it was adopted for, and is saved under it.
IdentityInv(address, signer) ==
  /\ IdentityTypeOK
  /\ SavedUnderController
  /\ unswitched /\ document # NoDocument => document.controller = address
  /\ SignatureInv(signing, address)
  /\ AcceptedIsAttested
  /\ signer # NoAddress => signer = address

\* Lemma: what is not a document, and what is not a signature, are none.
LEMMA NothingIsNone ==
  /\ NoDocument \notin Document
  /\ NotSigned \notin Signature
BY DEF NoDocument, Document, NotSigned, Signature

\* Lemma: an operation for the account or the signer at hand keeps the invariant,
\* as long as the signer, if any, is the account.
LEMMA OperationKeeps ==
  ASSUME NEW address \in Signers, NEW signer \in Signers, NEW stub \in BOOLEAN,
         IdentityInv(address, signer), UNCHANGED connectedAddress, hasCallback' \in BOOLEAN,
         \/ InitializeIdentity(address) \/ Update(address) \/ SignIdentity(stub) \/ WalletSignsIdentity(signer)
         \/ SignatureArrives \/ SignatureRefused \/ ClearIdentity \/ NewManager(address)
  PROVE  /\ IdentityTypeOK' /\ SavedUnderController'
         /\ unswitched' /\ document' # NoDocument => document'.controller = address
         /\ SignatureInv(signing', address)
         /\ AcceptedIsAttested'
<1> USE DEF IdentityInv
<1>1. CASE InitializeIdentity(address)
    <2>1. NewDocument(address) \in Document /\ NewDocument(address).controller = address /\ 0 \in 0 .. MaxVersion
        BY <1>1, IdentityAssumption DEF InitializeIdentity, NewDocument, Document, Signers
    <2>2. CASE BelongsTo(address)
        BY <1>1, <2>2 DEF InitializeIdentity, BelongsTo, IdentityTypeOK, SavedUnderController, AcceptedIsAttested, VerifyIdentity, MatchesDID
    <2>3. CASE ~BelongsTo(address)
        BY <1>1, <2>1, <2>3 DEF InitializeIdentity, PersistIdentity, SaveKey, IdentityTypeOK, SavedUnderController, AcceptedIsAttested,
           VerifyIdentity, MatchesDID
    <2> QED
        BY <2>2, <2>3
<1>2. CASE Update(address)
    <2>1. document \in Document /\ document' = [document EXCEPT !.version = @ + 1] /\ document.version < MaxVersion
        BY <1>2 DEF Update, IdentityTypeOK
    <2>2. document' \in Document /\ document'.controller = document.controller
        BY <2>1, IdentityAssumption DEF Document
    <2> QED
        BY <1>2, <2>1, <2>2, NothingIsNone DEF Update, PersistIdentity, SaveKey, IdentityTypeOK, SavedUnderController, AcceptedIsAttested,
           VerifyIdentity, MatchesDID
<1>3. CASE SignIdentity(stub)
    <2> DEFINE asked == [over |-> document, signer |-> NoAddress, ours |-> unswitched, stub |-> stub]
    <2>1. document \in Document /\ unswitched \in BOOLEAN /\ signing' = asked
          /\ signed' = NotSigned /\ UNCHANGED <<document, documents, unswitched>>
        BY <1>3 DEF SignIdentity, IdentityTypeOK
    <2>2. asked \in Signature /\ SignatureInv(asked, address)
        BY <1>3, <2>1 DEF Signature, Signers, SignatureInv, SignIdentity
    <2> HIDE DEF asked
    <2> QED
        BY <2>1, <2>2 DEF IdentityTypeOK, SavedUnderController, AcceptedIsAttested, VerifyIdentity
<1>4. CASE WalletSignsIdentity(signer)
    <2> DEFINE given == [signing EXCEPT !.signer = signer]
    <2>1. signing \in Signature /\ signing.signer = NoAddress /\ signer # NoAddress /\ signing' = given
          /\ signed' = NotSigned /\ UNCHANGED <<document, documents, unswitched>>
        BY <1>4 DEF WalletSignsIdentity, Unsigned, IdentityTypeOK
    <2>2. given \in Signature /\ given.over = signing.over /\ given.ours = signing.ours /\ given.stub = signing.stub
          /\ given.signer = signer
        BY <2>1 DEF Signature
    <2>3. signing # NotSigned
        BY <1>4 DEF WalletSignsIdentity, Unsigned
    <2> HIDE DEF given
    <2>4. SignatureInv(given, address)
        BY <2>1, <2>2, <2>3 DEF SignatureInv
    <2> QED
        BY <2>1, <2>2, <2>4 DEF IdentityTypeOK, SavedUnderController, AcceptedIsAttested, VerifyIdentity
<1>5. CASE SignatureArrives \/ SignatureRefused
    <2>1. signing \in Signature /\ signing # NotSigned
        BY <1>5 DEF SignatureArrives, SignatureRefused, Unsigned, IdentityTypeOK
    <2>2. /\ UNCHANGED <<document, documents, unswitched>> /\ signing' = NotSigned
          /\ \/ signed' = NotSigned
             \/ /\ document # NoDocument /\ ~Unsigned
                /\ signed' = [over |-> signing.over, signer |-> signing.signer, ours |-> signing.ours,
                              stub |-> signing.stub, document |-> document]
        BY <1>5 DEF SignatureArrives, SignatureRefused
    <2>3. AcceptedIsAttested'
        BY <2>1, <2>2 DEF AcceptedIsAttested, VerifyIdentity, Unsigned, SignatureInv
    <2>4. IdentityTypeOK'
        BY <2>1, <2>2 DEF IdentityTypeOK, Signature
    <2> QED
        BY <2>2, <2>3, <2>4 DEF SavedUnderController, SignatureInv
<1>6. CASE ClearIdentity
    <2>1. document \in Document
        BY <1>6 DEF ClearIdentity, IdentityTypeOK
    <2> QED
        BY <1>6, <2>1 DEF ClearIdentity, Document, IdentityTypeOK, SavedUnderController, AcceptedIsAttested, VerifyIdentity, MatchesDID
<1>7. CASE NewManager(address)
    BY <1>7 DEF NewManager, IdentityTypeOK, SavedUnderController, AcceptedIsAttested, VerifyIdentity, MatchesDID, SignatureInv, Signers
<1> QED
    BY <1>1, <1>2, <1>3, <1>4, <1>5, <1>6, <1>7

\* Lemma: nothing is adopted, saved or signed at first.
LEMMA IdentityInitial ==
  ASSUME NEW address, NEW signer, IdentityInit, signer # NoAddress => signer = address
  PROVE  IdentityInv(address, signer)
BY DEF IdentityInit, IdentityInv, IdentityTypeOK, SavedUnderController, AcceptedIsAttested, VerifyIdentity, MatchesDID, SignatureInv, Signers

\* Lemma: when the account changes, a document is no longer of the account it was
\* adopted for, and a signature not yet given will not be either.
LEMMA ChangeKeeps ==
  ASSUME NEW address, NEW signer, NEW next, NEW same \in BOOLEAN, same => next = address,
         IdentityInv(address, signer), AccountChanges(same),
         connectedAddress' \in Signers, hasCallback' \in BOOLEAN
  PROVE  /\ IdentityTypeOK' /\ SavedUnderController'
         /\ unswitched' /\ document' # NoDocument => document'.controller = next
         /\ SignatureInv(signing', next)
         /\ AcceptedIsAttested'
<1>1. /\ IdentityTypeOK /\ SavedUnderController /\ SignatureInv(signing, address)
      /\ unswitched /\ document # NoDocument => document.controller = address
      /\ unswitched' = (unswitched /\ same) /\ signed' = NotSigned /\ UNCHANGED <<document, documents>>
    BY DEF IdentityInv, AccountChanges
<1>2. signing' \in Signature \cup {NotSigned} /\ SignatureInv(signing', next)
    <2>1. CASE Unsigned
        <3> DEFINE asked == [signing EXCEPT !.ours = @ /\ same]
        <3>1. signing \in Signature /\ signing # NotSigned /\ ~signing.stub /\ signing.signer = NoAddress
            BY <1>1, <2>1 DEF Unsigned, IdentityTypeOK
        <3>2. /\ asked \in Signature /\ asked.over = signing.over /\ asked.signer = NoAddress /\ asked.stub = signing.stub
              /\ asked.ours = (signing.ours /\ same)
            BY <3>1 DEF Signature
        <3>3. signing' = asked
            BY <2>1 DEF AccountChanges
        <3> HIDE DEF asked
        <3>4. SignatureInv(asked, next)
            BY <1>1, <3>1, <3>2 DEF SignatureInv
        <3> QED
            BY <3>2, <3>3, <3>4
    <2>2. CASE ~Unsigned
        <3>1. signing' = signing
            BY <2>2 DEF AccountChanges
        <3> QED
            BY <1>1, <2>2, <3>1 DEF SignatureInv, Unsigned, IdentityTypeOK
    <2> QED
        BY <2>1, <2>2
<1>3. IdentityTypeOK'
    BY <1>1, <1>2 DEF IdentityTypeOK
<1> QED
    BY <1>1, <1>2, <1>3 DEF SavedUnderController, AcceptedIsAttested, VerifyIdentity

\* Lemma: with a MonmouthWallet, whose account signs, every step keeps it.
LEMMA IdentityStepInv ==
  ASSUME IdentityInv(connectedAddress, connectedAddress), [IdentityStep]_<<identityWallet, identityVars>>
  PROVE  IdentityInv(connectedAddress, connectedAddress)'
<1>1. connectedAddress \in Signers /\ hasCallback \in BOOLEAN /\ (~hasCallback) \in BOOLEAN
    BY DEF IdentityInv, IdentityTypeOK
<1>2. CASE ConnectIdentityWallet
    <2>1. connectedAddress' \in Signers /\ hasCallback' \in BOOLEAN /\ AccountChanges(FALSE)
        BY <1>1, <1>2 DEF ConnectIdentityWallet
    <2> QED
        BY <2>1, ChangeKeeps DEF IdentityInv
<1>3. CASE SetSignTypedData
    BY <1>1, <1>3 DEF SetSignTypedData, IdentityInv, IdentityTypeOK, SavedUnderController, AcceptedIsAttested, VerifyIdentity, SignatureInv
<1>4. CASE NewPage
    <2>1. NewManager(connectedAddress) /\ UNCHANGED connectedAddress /\ hasCallback' \in BOOLEAN
        BY <1>4 DEF NewPage
    <2> QED
        BY <1>1, <2>1, OperationKeeps DEF IdentityInv
<1>5. CASE /\ UNCHANGED identityWallet
           /\ \/ InitializeIdentity(connectedAddress) \/ Update(connectedAddress)
              \/ SignIdentity(~hasCallback) \/ WalletSignsIdentity(connectedAddress)
              \/ SignatureArrives \/ SignatureRefused \/ ClearIdentity
    <2>1. UNCHANGED connectedAddress /\ hasCallback' \in BOOLEAN
        BY <1>1, <1>5 DEF identityWallet
    <2> QED
        BY <1>1, <1>5, <2>1, OperationKeeps DEF IdentityInv
<1>6. CASE UNCHANGED <<identityWallet, identityVars>>
    BY <1>6 DEF identityWallet, identityVars, IdentityInv, IdentityTypeOK, SavedUnderController, AcceptedIsAttested, VerifyIdentity,
       MatchesDID, SignatureInv
<1> QED
    BY <1>2, <1>3, <1>4, <1>5, <1>6 DEF IdentityStep

\* Theorem: a signed identity that verifyIdentity accepts and a wallet signed was signed
\* by its controller, if the account was not switched between the document's adoption and
\* the signing nor the document changed while the signature was awaited
\* (AcceptedIsAttested).
THEOREM IdentitiesAttested == IdentitySpec => []AcceptedIsAttested
<1>1. IdentityInit => IdentityInv(connectedAddress, connectedAddress)
    BY IdentityInitial
<1>2. IdentityInv(connectedAddress, connectedAddress) => AcceptedIsAttested
    BY DEF IdentityInv
<1> QED
    BY <1>1, <1>2, IdentityStepInv, PTL DEF IdentitySpec

\* With a chain adapter: whom it asks to sign is whose address it gives, although
\* a SolanaAdapter chooses the two apart.
ManagerInv == AdapterTypeOK /\ IdentityInv(Address, Signer) /\ connectedAddress = NoAddress

\* Lemma: the account of an adapter can be nobody, and who signs is the account.
LEMMA SignerIsAddress ==
  ASSUME AdapterTypeOK
  PROVE  /\ Address \in Signers /\ Signer \in Signers
         /\ Signer # NoAddress => Signer = Address
BY ManagerAssumption DEF AdapterTypeOK, Address, Signer, HasWallet, Signers

\* Lemma: with a chain adapter, every step keeps it.
LEMMA ManagerStepInv ==
  ASSUME ManagerInv, [ManagerStep /\ UNCHANGED identityWallet]_<<identityWallet, managerVars>>
  PROVE  ManagerInv'
<1>1. AdapterTypeOK'
    <2>1. CASE AdapterStep
        BY <2>1, AdapterTypes DEF ManagerInv
    <2>2. CASE UNCHANGED adapterVars
        BY <2>2 DEF ManagerInv, adapterVars, AdapterTypeOK
    <2> QED
        BY <2>1, <2>2 DEF ManagerStep, managerVars
<1>2. UNCHANGED connectedAddress /\ hasCallback' \in BOOLEAN /\ connectedAddress' \in Signers
    BY DEF identityWallet, ManagerInv, IdentityInv, IdentityTypeOK
<1>3. Signer' # NoAddress => Signer' = Address'
    BY <1>1, ManagerAssumption DEF AdapterTypeOK, Address, Signer, HasWallet
<1>4. CASE AdapterStep /\ AccountChanges(Address' = Address)
    <2>1. /\ IdentityTypeOK' /\ SavedUnderController'
          /\ unswitched' /\ document' # NoDocument => document'.controller = Address'
          /\ SignatureInv(signing', Address')
          /\ AcceptedIsAttested'
        BY <1>2, <1>4, ChangeKeeps DEF ManagerInv
    <2> QED
        BY <1>1, <1>2, <1>3, <2>1 DEF ManagerInv, IdentityInv
<1>5. CASE /\ UNCHANGED adapterVars
           /\ \/ InitializeWithAdapter \/ UpdateDocument \/ SignWithAdapter \/ NewIdentityManager
              \/ WalletSignsIdentity(Signer) \/ SignatureArrives \/ SignatureRefused \/ ClearIdentity
    <2>1. Address' = Address /\ Signer' = Signer
        BY <1>5 DEF adapterVars, Address, Signer, HasWallet
    <2>2. /\ Address \in Signers /\ Signer \in Signers
          /\ IdentityInv(Address, Signer)
        BY SignerIsAddress DEF ManagerInv
    <2>3. CASE NewManager(Nobody)
        BY <1>1, <1>2, <1>3, <2>1, <2>2, <2>3, ManagerAssumption DEF NewManager, ManagerInv, IdentityInv, IdentityTypeOK,
           SavedUnderController, AcceptedIsAttested, VerifyIdentity, MatchesDID, SignatureInv
    <2>4. CASE \/ InitializeIdentity(Address) \/ Update(Address) \/ SignIdentity(FALSE) \/ WalletSignsIdentity(Signer)
               \/ SignatureArrives \/ SignatureRefused \/ ClearIdentity \/ NewManager(Address)
        <3>1. /\ IdentityTypeOK' /\ SavedUnderController'
              /\ unswitched' /\ document' # NoDocument => document'.controller = Address
              /\ SignatureInv(signing', Address)
              /\ AcceptedIsAttested'
            BY <1>2, <2>2, <2>4, OperationKeeps
        <3> QED
            BY <1>1, <1>2, <1>3, <2>1, <3>1 DEF ManagerInv, IdentityInv
    <2> QED
        BY <1>5, <2>3, <2>4 DEF InitializeWithAdapter, UpdateDocument, SignWithAdapter, NewIdentityManager
<1>6. CASE UNCHANGED <<identityWallet, managerVars>>
    BY <1>1, <1>3, <1>6 DEF identityWallet, managerVars, adapterVars, identityVars, Address, Signer, HasWallet, ManagerInv, IdentityInv,
       IdentityTypeOK, SavedUnderController, AcceptedIsAttested, VerifyIdentity, MatchesDID, SignatureInv
<1> QED
    BY <1>4, <1>5, <1>6 DEF ManagerStep

\* Theorem: the same with a chain adapter, whose signer and address are chosen apart and
\* whose external wallet may be switched until it signs (AcceptedIsAttested), with a
\* keypair, a wallet, or both.
THEOREM AdapterIdentitiesAttested ==
  ASSUME NEW kinds \in SUBSET {"evm", "keypair", "wallet", "both"}
  PROVE  ManagerSpec(kinds) => []AcceptedIsAttested
<1>1. AdapterInit(kinds) /\ IdentityInit => ManagerInv
    BY AdapterInitial, SignerIsAddress, IdentityInitial DEF ManagerInv, IdentityInit
<1>2. ManagerInv => AcceptedIsAttested
    BY DEF ManagerInv, IdentityInv
<1> QED
    BY <1>1, <1>2, ManagerStepInv, PTL DEF ManagerSpec

-----------------------------------------------------------------------------
(* SolanaX402 *)

\* The payer is who signed, or the account the wallet that is asked is still at.
Names(request) ==
  request \in Waiting /\ ~request.switched =>
    /\ request.stage = "signing" => request.payer = IF request.signer = Nobody THEN wallet ELSE request.signer
    /\ request.stage \in {"repeating", "transferring"} => request.payer = request.signer

X402Inv == X402TypeOK /\ \A r \in X402Requests : Names(requests[r])

\* Lemma: what is over is not waiting.
LEMMA OverIsNotWaiting == \A stage : Over(stage) \notin Waiting
BY DEF Over, Waiting

\* Lemma: a request that waits in a new way keeps the invariant, if it names the
\* account that signed or is asked to.
LEMMA MoveKeeps ==
  ASSUME X402Inv, NEW r \in X402Requests, Unmoved, NEW next \in Waiting \cup {Over("new"), Over("done")},
         requests' = [requests EXCEPT ![r] = next], Names(next)
  PROVE  X402Inv'
<1>1. X402TypeOK'
    BY DEF X402Inv, X402TypeOK, AdapterTypeOK, adapterVars, Unmoved
<1>2. ASSUME NEW q \in X402Requests PROVE Names(requests[q])'
    <2>1. wallet' = wallet /\ Names(requests[q])
        BY DEF X402Inv, Unmoved, adapterVars
    <2>2. requests'[q] = next \/ requests'[q] = requests[q]
        BY DEF X402Inv, X402TypeOK
    <2> QED
        BY <2>1, <2>2 DEF Names
<1> QED
    BY <1>1, <1>2 DEF X402Inv

\* Lemma: signPayment names the account of the wallet it asks, or of the keypair it
\* signs with.
LEMMA SignKeeps ==
  ASSUME X402Inv, NEW r \in X402Requests, NEW request \in Waiting, Unmoved, SignPayment(r, request)
  PROVE  X402Inv'
<1>1. CASE Finish(r)
    <2>1. Over("done") \in Waiting \cup {Over("new"), Over("done")} /\ Names(Over("done"))
        BY OverIsNotWaiting DEF Names
    <2> QED
        BY <1>1, <2>1, MoveKeeps DEF Finish
<1>2. CASE PayerAddress # Nobody /\ ~Finish(r)
    <2> DEFINE by == IF WalletConnected THEN Nobody ELSE OwnAccount
               next == [request EXCEPT !.stage = "signing", !.payer = PayerAddress, !.signer = by]
    <2>1. PayerAddress \in SomeAccount \cup {Nobody} /\ by \in SomeAccount \cup {Nobody}
        BY DEF PayerAddress, Address, SomeAccount, X402Inv, X402TypeOK, AdapterTypeOK
    <2>2. PayerAddress = IF by = Nobody THEN wallet ELSE by
        BY <1>2, AdapterAssumption DEF PayerAddress, Address, WalletConnected, SomeAccount
    <2>3. next \in Waiting /\ next.stage = "signing" /\ next.payer = PayerAddress /\ next.signer = by
        BY <2>1 DEF Waiting
    <2>4. requests' = [requests EXCEPT ![r] = next]
        BY <1>2 DEF PayerOf, SignPayment
    <2> HIDE DEF next, by
    <2>5. Names(next)
        BY <2>2, <2>3 DEF Names
    <2> QED
        BY <2>3, <2>4, <2>5, MoveKeeps
<1> QED
    BY <1>1, <1>2 DEF SignPayment

\* Lemma: every step of the client keeps the invariant.
LEMMA X402StepInv ==
  ASSUME X402Inv, [X402Step]_x402Vars
  PROVE  X402Inv'
<1>1. PayerAddress \in SomeAccount \cup {Nobody} /\ wallet \in SomeAccount \cup {Nobody} /\ X402TypeOK
    BY DEF PayerAddress, Address, SomeAccount, X402Inv, X402TypeOK, AdapterTypeOK
<1>2. ASSUME NEW r \in X402Requests, Unmoved, Finish(r) PROVE X402Inv'
    <2>1. Over("done") \in Waiting \cup {Over("new"), Over("done")} /\ Names(Over("done"))
        BY OverIsNotWaiting DEF Names
    <2> QED
        BY <1>2, <2>1, MoveKeeps DEF Finish
<1>3. ASSUME NEW r \in X402Requests, Unmoved, NEW next \in Waiting,
             requests' = [requests EXCEPT ![r] = next],
             next.stage \in {"fetching", "approving", "preparing", "countersigning"}
      PROVE  X402Inv'
    <2>1. Names(next)
        BY <1>3 DEF Names
    <2> QED
        BY <1>3, <2>1, MoveKeeps
<1>4. ASSUME NEW r \in X402Requests, NEW asked \in Asked, FetchPaid(r, asked) \/ CreateTransaction(r, asked) PROVE X402Inv'
    <2> DEFINE fetching == [stage |-> "fetching", asked |-> asked, header |-> PayerAddress,
                            payer |-> Nobody, signer |-> Nobody, approved |-> FALSE, switched |-> FALSE]
               preparing == [stage |-> "preparing", asked |-> asked, header |-> Nobody,
                             payer |-> PayerAddress, signer |-> Nobody, approved |-> TRUE, switched |-> FALSE]
    <2>1. fetching \in Waiting /\ fetching.stage = "fetching" /\ preparing \in Waiting /\ preparing.stage = "preparing"
        BY <1>1 DEF Waiting
    <2>2. Unmoved /\ (requests' = [requests EXCEPT ![r] = fetching] \/ requests' = [requests EXCEPT ![r] = preparing])
        BY <1>4 DEF FetchPaid, CreateTransaction
    <2> HIDE DEF fetching, preparing
    <2> QED
        BY <1>3, <2>1, <2>2
<1>5. ASSUME NEW r \in X402Requests,
             AnswerIs402(r) \/ PaymentApproved(r) \/ PaymentSigned(r) \/ SendPayment(r) \/ TransactionSigned(r)
      PROVE  X402Inv'
    <2>1. requests[r] \in Waiting /\ Unmoved
        BY <1>1, <1>5 DEF AnswerIs402, PaymentApproved, PaymentSigned, SendPayment, TransactionSigned, X402TypeOK, Over
    <2>2. Names(requests[r])
        BY DEF X402Inv
    <2>3. CASE AnswerIs402(r)
        <3>1. CASE requests' = [requests EXCEPT ![r].stage = "approving"]
            <4>1. [requests[r] EXCEPT !.stage = "approving"] \in Waiting /\ [requests[r] EXCEPT !.stage = "approving"].stage = "approving"
                BY <2>1 DEF Waiting
            <4>2. requests' = [requests EXCEPT ![r] = [requests[r] EXCEPT !.stage = "approving"]]
                BY <1>1, <3>1 DEF X402TypeOK
            <4> QED
                BY <1>3, <2>1, <4>1, <4>2
        <3>2. CASE SignPayment(r, requests[r])
            BY <2>1, <3>2, SignKeeps
        <3> QED
            BY <1>2, <2>1, <2>3, <3>1, <3>2 DEF AnswerIs402
    <2>4. CASE PaymentApproved(r)
        <3>1. [requests[r] EXCEPT !.approved = TRUE] \in Waiting
            BY <2>1 DEF Waiting
        <3> QED
            BY <1>2, <2>1, <2>4, <3>1, SignKeeps DEF PaymentApproved
    <2>5. CASE PaymentSigned(r)
        <3> DEFINE by == IF AsksWallet(requests[r]) THEN wallet ELSE requests[r].signer
                   next == [requests[r] EXCEPT !.stage = "repeating", !.signer = by]
        <3>1. by \in SomeAccount \cup {Nobody}
            BY <1>1, <2>1 DEF Waiting
        <3>2. /\ next \in Waiting /\ next.stage = "repeating" /\ next.payer = requests[r].payer
              /\ next.signer = by /\ next.switched = requests[r].switched
            BY <2>1, <3>1 DEF Waiting
        <3>3. ~requests[r].switched => requests[r].payer = by
            BY <2>1, <2>2, <2>5 DEF PaymentSigned, Names, AsksWallet
        <3>4. requests' = [requests EXCEPT ![r] = next]
            BY <1>1, <2>5 DEF PaymentSigned, X402TypeOK
        <3> HIDE DEF next, by
        <3>5. Names(next)
            BY <3>2, <3>3 DEF Names
        <3> QED
            BY <2>1, <3>2, <3>4, <3>5, MoveKeeps
    <2>6. ASSUME NEW by \in SomeAccount \cup {Nobody}, requests[r].payer = by,
                 requests' = [requests EXCEPT ![r].stage = "transferring", ![r].signer = by]
          PROVE  X402Inv'
        <3> DEFINE next == [requests[r] EXCEPT !.stage = "transferring", !.signer = by]
        <3>1. next \in Waiting /\ next.stage = "transferring" /\ next.payer = by /\ next.signer = by
            BY <2>1, <2>6 DEF Waiting
        <3>2. requests' = [requests EXCEPT ![r] = next]
            BY <1>1, <2>6 DEF X402TypeOK
        <3> HIDE DEF next
        <3>3. Names(next)
            BY <3>1 DEF Names
        <3> QED
            BY <2>1, <3>1, <3>2, <3>3, MoveKeeps
    <2>7. CASE SendPayment(r)
        <3>1. CASE requests' = [requests EXCEPT ![r].stage = "countersigning"]
            <4>1. [requests[r] EXCEPT !.stage = "countersigning"] \in Waiting /\ [requests[r] EXCEPT !.stage = "countersigning"].stage = "countersigning"
                BY <2>1 DEF Waiting
            <4>2. requests' = [requests EXCEPT ![r] = [requests[r] EXCEPT !.stage = "countersigning"]]
                BY <1>1, <3>1 DEF X402TypeOK
            <4> QED
                BY <1>3, <2>1, <4>1, <4>2
        <3> QED
            BY <1>2, <2>1, <2>6, <2>7, <3>1 DEF SendPayment, SomeAccount
    <2>8. CASE TransactionSigned(r)
        BY <1>1, <1>2, <2>1, <2>6, <2>8 DEF TransactionSigned
    <2> QED
        BY <1>5, <2>3, <2>4, <2>5, <2>7, <2>8
<1>6. ASSUME NEW r \in X402Requests, RequestEnds(r) PROVE X402Inv'
    BY <1>2, <1>6 DEF RequestEnds
<1>7. CASE X402Tick
    BY <1>1, <1>7, X402Assumption DEF X402Tick, X402Inv, X402TypeOK, AdapterTypeOK, adapterVars, Names
<1>8. CASE WalletMoves
    <2>1. AdapterTypeOK' /\ UNCHANGED <<config, x402Time>>
        BY <1>1, <1>8, AdapterTypes DEF WalletMoves, X402TypeOK
    <2>2. ASSUME NEW r \in X402Requests
          PROVE  requests'[r] \in Waiting \cup {Over("new"), Over("done")} /\ Names(requests[r])'
        <3>1. requests[r] \in Waiting \cup {Over("new"), Over("done")} /\ Names(requests[r])
            BY <1>1 DEF X402TypeOK, X402Inv
        <3>2. CASE AsksWallet(requests[r]) /\ wallet' # wallet
            <4>1. requests'[r] = [requests[r] EXCEPT !.switched = TRUE] /\ requests[r] \in Waiting
                BY <1>8, <3>2 DEF WalletMoves, AsksWallet
            <4>2. requests'[r] \in Waiting /\ requests'[r].switched
                BY <4>1 DEF Waiting
            <4> QED
                BY <4>2 DEF Names
        <3>3. CASE ~(AsksWallet(requests[r]) /\ wallet' # wallet)
            <4>1. requests'[r] = requests[r]
                BY <1>8, <3>3 DEF WalletMoves
            <4> QED
                BY <3>1, <3>3, <4>1 DEF Names, AsksWallet
        <3> QED
            BY <3>2, <3>3
    <2>3. requests' = [r \in X402Requests |-> requests'[r]]
        BY <1>8 DEF WalletMoves
    <2>4. X402TypeOK'
        BY <1>1, <2>1, <2>2, <2>3 DEF X402TypeOK
    <2> QED
        BY <2>2, <2>4 DEF X402Inv
<1>9. CASE UNCHANGED x402Vars
    BY <1>1, <1>9 DEF x402Vars, adapterVars, X402Inv, X402TypeOK, AdapterTypeOK, Names
<1> QED
    BY <1>4, <1>5, <1>6, <1>7, <1>8, <1>9 DEF X402Step

\* Theorem: a payment that leaves the client names the account that signed it
\* (PayerSigns), whatever its user does with the external wallet between the awaits of
\* the client, unless the wallet is switched while it is asked to sign.
THEOREM PayersSign ==
  ASSUME NEW kinds \in SUBSET {"evm", "keypair", "wallet", "both"}, NEW configs \in SUBSET Configs
  PROVE  X402Spec(kinds, configs) => []PayerSigns
<1>1. X402Init(kinds, configs) => X402Inv
    <2>1. ASSUME X402Init(kinds, configs) PROVE AdapterTypeOK
        BY <2>1, AdapterInitial DEF X402Init
    <2> QED
        BY <2>1, OverIsNotWaiting, X402Assumption DEF X402Init, X402Inv, X402TypeOK, Names
<1>2. X402Inv => PayerSigns
    BY DEF X402Inv, Names, PayerSigns, Handed
<1> QED
    BY <1>1, <1>2, X402StepInv, PTL DEF X402Spec

-----------------------------------------------------------------------------
(* EIP712Signer *)

\* A call that took a nonce and was not refused.
Took(s) == signings[s] \in Signing /\ signings[s].message.kind \in Numbered

SameKey(s, t) ==
  signings[s].load = signings[t].load /\ signings[s].by = signings[t].by /\ signings[s].by # NoKey

\* What was signed since the page was loaded has a nonce that was counted.
NoncesCounted ==
  \A s \in Signings :
    Took(s) /\ signings[s].load = reloads /\ signings[s].by # NoKey =>
      signings[s].message.nonce <= counters[signings[s].by]

NoncesTakenOnce ==
  \A s, t \in Signings :
    s # t /\ Took(s) /\ Took(t) /\ SameKey(s, t) =>
      signings[s].message.nonce # signings[t].message.nonce

LoadsPassed == \A s \in Signings : signings[s] \in Signing => signings[s].load <= reloads

SignerInv == SignerTypeOK /\ LoadsPassed /\ NoncesCounted /\ NoncesTakenOnce

\* Lemma: what has not been tried, or was refused, has signed nothing.
LEMMA NothingSigned == Untried \notin Signing /\ Refused \notin Signing
BY DEF Untried, Refused, Signing

\* Lemma: at first nothing is signed.
LEMMA SignerInitial == SignerInit => SignerInv
<1> SUFFICES ASSUME SignerInit PROVE SignerInv
    OBVIOUS
<1>1. SignerTypeOK
    BY SignerAssumption DEF SignerInit, SignerTypeOK, NoneCounted
<1>2. \A s \in Signings : signings[s] \notin Signing
    BY NothingSigned DEF SignerInit
<1> QED
    BY <1>1, <1>2 DEF SignerInv, LoadsPassed, NoncesCounted, NoncesTakenOnce, Took

\* Lemma: a call that takes the next nonce of its account, or signs a payment, makes
\* no second message with that nonce.
LEMMA AskKeeps ==
  ASSUME SignerInv, NEW s \in Signings, NEW message \in SignedMessage, AskWallet(s, message),
         \/ TakeNonce /\ message.nonce = NextNonce
         \/ UNCHANGED counters /\ message.kind = "payment"
  PROVE  SignerInv'
<1> DEFINE call == [stage |-> "waiting", message |-> message,
                    by |-> IF hasSigner THEN signAccount ELSE NoKey,
                    signer |-> signAccount, load |-> reloads]
<1>1. SignerTypeOK /\ signAccount \in KeyAccounts /\ reloads \in 0 .. MaxReloads
    BY DEF SignerInv, SignerTypeOK
<1>2. /\ call \in Signing /\ call.load = reloads /\ call.message = message
      /\ call.by # NoKey => call.by = signAccount
    BY <1>1 DEF Signing
<1>3. signings' = [signings EXCEPT ![s] = call] /\ UNCHANGED <<signAccount, hasSigner, usedNonces, signTime, reloads>>
    BY DEF AskWallet
<1> HIDE DEF call
<1>4. signings'[s] = call /\ \A t \in Signings \ {s} : signings'[t] = signings[t]
    BY <1>1, <1>3 DEF SignerTypeOK
<1>5. /\ counters' \in [KeyAccounts -> Nat]
      /\ \A a \in KeyAccounts : counters[a] \in Nat /\ counters'[a] \in Nat /\ counters'[a] >= counters[a]
      /\ message.kind \in Numbered => /\ message.nonce = counters[signAccount] + 1
                                      /\ counters'[signAccount] = message.nonce
    BY <1>1 DEF SignerTypeOK, TakeNonce, NextNonce, Numbered
<1>6. SignerTypeOK'
    BY <1>1, <1>2, <1>3, <1>5 DEF SignerTypeOK
<1>7. LoadsPassed'
    BY <1>1, <1>2, <1>3, <1>4 DEF SignerInv, LoadsPassed
<1>8. \A t \in Signings : signings[t] \in Signing => /\ signings[t].by \in KeyAccounts \cup {NoKey}
                                                    /\ signings[t].message.nonce \in Nat
    BY DEF Signing, SignedMessage
<1>9. NoncesCounted'
    <2> SUFFICES ASSUME NEW t \in Signings, Took(t)', signings'[t].load = reloads', signings'[t].by # NoKey
                 PROVE  signings'[t].message.nonce <= counters'[signings'[t].by]
        BY DEF NoncesCounted
    <2>1. CASE t = s
        BY <1>1, <1>2, <1>4, <1>5, <2>1 DEF Took
    <2>2. CASE t # s
        BY <1>3, <1>4, <1>5, <1>8, <2>2 DEF Took, SignerInv, NoncesCounted
    <2> QED
        BY <2>1, <2>2
<1>10. ASSUME NEW t \in Signings \ {s}, Took(t), call.message.kind \in Numbered,
              signings[t].load = reloads, signings[t].by = signAccount
       PROVE  signings[t].message.nonce # message.nonce
    BY <1>1, <1>2, <1>5, <1>8, <1>10, SignerAssumption DEF SignerInv, NoncesCounted
<1>11. NoncesTakenOnce'
    <2> SUFFICES ASSUME NEW t \in Signings, NEW u \in Signings, t # u, Took(t)', Took(u)', SameKey(t, u)'
                 PROVE  signings'[t].message.nonce # signings'[u].message.nonce
        BY DEF NoncesTakenOnce
    <2>1. CASE t # s /\ u # s
        BY <1>4, <2>1 DEF Took, SameKey, SignerInv, NoncesTakenOnce
    <2>2. CASE t = s
        BY <1>2, <1>4, <1>10, <2>2 DEF Took, SameKey
    <2>3. CASE u = s
        BY <1>2, <1>4, <1>10, <2>3 DEF Took, SameKey
    <2> QED
        BY <2>1, <2>2, <2>3
<1> QED
    BY <1>6, <1>7, <1>9, <1>11 DEF SignerInv

\* Lemma: a call that returns keeps its message, its key and its load; one that is
\* refused is gone.
LEMMA AnswerKeeps ==
  ASSUME SignerInv, NEW s \in Signings, SignReturns(s) \/ SignFails(s)
  PROVE  SignerInv'
<1>1. SignerTypeOK /\ signings[s] \in Signing
    BY DEF SignerInv, SignReturns, SignFails, AwaitsWallet
<1>2. UNCHANGED <<counters, reloads>>
    BY DEF SignReturns, SignFails
<1>3. /\ \A t \in Signings \ {s} : signings'[t] = signings[t]
      /\ \/ signings'[s] = Refused
         \/ /\ signings'[s] \in Signing
            /\ signings'[s].message = signings[s].message
            /\ signings'[s].by = signings[s].by /\ signings'[s].load = signings[s].load
      /\ signings' \in [Signings -> Signing \cup {Untried, Refused}]
    <2>1. CASE SignFails(s)
        BY <1>1, <2>1 DEF SignFails, SignerTypeOK
    <2>2. CASE SignReturns(s)
        <3> DEFINE back == [signings[s] EXCEPT !.stage = "signed", !.signer = signAccount]
        <3>1. /\ back \in Signing /\ back.message = signings[s].message
              /\ back.by = signings[s].by /\ back.load = signings[s].load
            BY <1>1 DEF Signing, SignerTypeOK
        <3>2. signings' = [signings EXCEPT ![s] = back]
            BY <2>2 DEF SignReturns
        <3> HIDE DEF back
        <3> QED
            BY <1>1, <3>1, <3>2 DEF SignerTypeOK
    <2> QED
        BY <2>1, <2>2
<1>4. SignerTypeOK'
    <2>1. usedNonces' \subseteq KeyAccounts \X Nat
        BY <1>1 DEF SignReturns, SignFails, SignerTypeOK, Signing, SignedMessage
    <2> QED
        BY <1>1, <1>2, <1>3, <2>1 DEF SignReturns, SignFails, SignerTypeOK
<1>5. \A t \in Signings : signings'[t] \in Signing =>
        /\ signings[t] \in Signing /\ signings'[t].message = signings[t].message
        /\ signings'[t].by = signings[t].by /\ signings'[t].load = signings[t].load
    BY <1>1, <1>3, NothingSigned
<1>6. LoadsPassed' /\ NoncesCounted' /\ NoncesTakenOnce'
    BY <1>2, <1>5 DEF SignerInv, LoadsPassed, NoncesCounted, NoncesTakenOnce, Took, SameKey
<1> QED
    BY <1>4, <1>6 DEF SignerInv

\* Lemma: every step of the signer keeps the invariant.
LEMMA SignerStepInv == SignerInv /\ [SignerStep]_signerVars => SignerInv'
<1> SUFFICES ASSUME SignerInv, [SignerStep]_signerVars PROVE SignerInv'
    OBVIOUS
<1>1. SignerTypeOK /\ NextNonce \in Nat /\ signTime \in Nat
    BY SignerAssumption DEF SignerInv, SignerTypeOK, NextNonce
<1>2. ASSUME NEW s \in Signings, NEW a \in KeyAccounts, NEW seconds \in Validities, SignTypedIdentity(s, a, seconds)
      PROVE  SignerInv'
    <2> DEFINE message == [kind |-> "identity", nonce |-> NextNonce, controller |-> a,
                           expiry |-> signTime + ValidFor(seconds)]
    <2>1. message \in SignedMessage /\ message.nonce = NextNonce
        BY <1>1, SignerAssumption DEF SignedMessage, Kinds, ValidFor
    <2>2. TakeNonce /\ AskWallet(s, message)
        BY <1>2 DEF SignTypedIdentity
    <2> HIDE DEF message
    <2> QED
        BY <2>1, <2>2, AskKeeps
<1>3. ASSUME NEW s \in Signings, NEW kind \in {"escrow create", "escrow action"}, SignTypedEscrow(s, kind)
      PROVE  SignerInv'
    <2> DEFINE message == [kind |-> kind, nonce |-> NextNonce, controller |-> NoKey, expiry |-> 0]
    <2>1. message \in SignedMessage /\ message.nonce = NextNonce
        BY <1>1 DEF SignedMessage, Kinds
    <2>2. TakeNonce /\ AskWallet(s, message)
        BY <1>3 DEF SignTypedEscrow
    <2> HIDE DEF message
    <2> QED
        BY <2>1, <2>2, AskKeeps
<1>4. ASSUME NEW s \in Signings, NEW expiry \in 0 .. MaxSignTime, SignTypedPayment(s, PaymentNonce, expiry)
      PROVE  SignerInv'
    <2> DEFINE message == [kind |-> "payment", nonce |-> PaymentNonce, controller |-> NoKey, expiry |-> expiry]
    <2>1. message \in SignedMessage /\ message.kind = "payment"
        BY SignerAssumption DEF SignedMessage, Kinds, PaymentNonce
    <2>2. UNCHANGED counters /\ AskWallet(s, message)
        BY <1>4 DEF SignTypedPayment
    <2> HIDE DEF message
    <2> QED
        BY <2>1, <2>2, AskKeeps
<1>5. CASE ReloadSigner
    <2>1. SignerTypeOK'
        BY <1>1, <1>5, SignerAssumption DEF ReloadSigner, SignerTypeOK, NoneCounted
    <2>2. \A s \in Signings : signings[s] \in Signing =>
            signings[s].load \in Nat /\ signings[s].load <= reloads /\ reloads \in Nat /\ reloads' = reloads + 1
        BY <1>1, <1>5, SignerAssumption DEF ReloadSigner, SignerInv, LoadsPassed, Signing, SignerTypeOK
    <2>3. signings' = signings
        BY <1>5 DEF ReloadSigner
    <2> QED
        BY <2>1, <2>2, <2>3 DEF SignerInv, LoadsPassed, NoncesCounted, NoncesTakenOnce, Took, SameKey
<1>6. CASE SetSigner \/ SecondPasses \/ (\E a \in KeyAccounts : SetAccount(a)) \/ UNCHANGED signerVars
    <2>1. UNCHANGED <<counters, signings, reloads>>
        BY <1>6 DEF SetSigner, SecondPasses, SetAccount, signerVars
    <2>2. SignerTypeOK'
        <3>1. signAccount' \in KeyAccounts /\ hasSigner' \in BOOLEAN
            BY <1>1, <1>6 DEF SetSigner, SecondPasses, SetAccount, signerVars, SignerTypeOK
        <3>2. usedNonces' = usedNonces
            BY <1>6 DEF SetSigner, SecondPasses, SetAccount, signerVars
        <3>3. signTime' \in 0 .. MaxSignTime
            BY <1>1, <1>6, SignerAssumption DEF SetSigner, SecondPasses, SetAccount, signerVars, SignerTypeOK
        <3> QED
            BY <1>1, <2>1, <3>1, <3>2, <3>3 DEF SignerTypeOK
    <2> QED
        BY <2>1, <2>2 DEF SignerInv, LoadsPassed, NoncesCounted, NoncesTakenOnce, Took, SameKey
<1> QED
    BY <1>2, <1>3, <1>4, <1>5, <1>6, AnswerKeeps DEF SignerStep

\* Theorem: between two reloads no account signs two messages with one nonce
\* (NoncesDiffer), however many calls wait at a time and whatever account is set while
\* they do.
THEOREM NoncesAreTakenOnce == SignerSpec => []NoncesDiffer
<1>1. SignerInv => NoncesDiffer
    BY DEF SignerInv, NoncesTakenOnce, NoncesDiffer, IsSigned, Took, SameKey
<1> QED
    BY <1>1, SignerInitial, SignerStepInv, PTL DEF SignerSpec

\* Theorem: of a payment that still runs, the signer's own check, verification.ts and
\* the contract think alike (PaymentChecksAgree), although each reads the expiry in its
\* own way.
THEOREM PaymentsCheckedAlike == SignerSpec => []PaymentChecksAgree
<1>1. ASSUME SignerInv PROVE PaymentChecksAgree
    <2> SUFFICES ASSUME NEW s \in Signings, IsSigned(s, {"payment"}), signings[s].message.expiry > 0
                 PROVE  /\ VerifyOwnPayment(signings[s]) <=> VerifyPaymentSignature(signings[s], signings[s].signer)
                        /\ VerifyOwnPayment(signings[s]) => VerifyPaymentOnChain(signings[s])
        BY DEF PaymentChecksAgree
    <2>1. /\ signings[s].message.kind = "payment" /\ signings[s].message.expiry \in Nat
          /\ signings[s].signer # NoKey /\ signTime \in Nat
        BY <1>1, SignerAssumption DEF IsSigned, Signing, SignedMessage, SignerInv, SignerTypeOK
    <2>2. HasExpired(signings[s]) <=> ~(signTime <= signings[s].message.expiry)
        BY <2>1 DEF HasExpired, ExpiresAt
    <2> QED
        BY <2>1, <2>2 DEF VerifyOwnPayment, VerifyPaymentSignature, VerifyPaymentOnChain, RecoverSigner
<1> QED
    BY <1>1, SignerInitial, SignerStepInv, PTL DEF SignerSpec
=============================================================================
