----------------------------- MODULE EscrowVault -----------------------------
(***************************************************************************)
(* What an escrow contract promises about money, whoever calls what: funds *)
(* come in under an escrow, which is open from then on, or as a gift; they *)
(* leave when an open escrow is settled, which ends it, and then it is its *)
(* amount that leaves, but for the largest fee at most.  Roles, disputes   *)
(* and signatures are not seen.                                            *)
(***************************************************************************)
EXTENDS Integers

CONSTANTS
  EscrowIds,      \* records with a token and an amount
  Currencies,
  MaxFeeBps,
  Denominator     \* basis points in the whole

VARIABLES
  open,           \* escrows that are still to be settled
  funds           \* currency -> what the contract owns

vaultVars == <<open, funds>>

Init ==
  /\ open = {}
  /\ funds = [c \in Currencies |-> 0]

\* An escrow is paid in; paid in again, it is still one escrow.
PayIn(id) ==
  /\ funds' = [funds EXCEPT ![id.token] = @ + id.amount]
  /\ open' = open \cup {id}

LargestFee(amount) == (amount * MaxFeeBps) \div Denominator

Settle(id) ==
  /\ \E paid \in id.amount - LargestFee(id.amount) .. id.amount :
       /\ 0 <= paid /\ paid <= funds[id.token]
       /\ funds' = [funds EXCEPT ![id.token] = @ - paid]
  /\ id \in open
  /\ open' = open \ {id}

Gift(c) ==
  /\ funds'[c] >= funds[c]
  /\ \A d \in Currencies \ {c} : funds'[d] = funds[d]
  /\ funds' \in [Currencies -> Nat]
  /\ UNCHANGED open

Next ==
  \/ \E c \in Currencies : Gift(c)
  \/ \E id \in EscrowIds : PayIn(id) \/ Settle(id)

Spec == Init /\ [][Next]_vaultVars
=============================================================================
