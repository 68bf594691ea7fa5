---------------------------- MODULE MCSpendGuard ----------------------------
\* Limits of 2 a transaction and 3 a day; what servers ask for is 2 or 1.
EXTENDS SpendGuard, TLC

Limits(refused) == [maxPerTransaction |-> 2, maxPerDay |-> 3, refused |-> refused]
Open == Limits({})
Closed == Limits(Recipients)
OnePolicy == {Open}
TwoPolicies == {Open, Closed}

Asks(amount, native) ==
  {[to |-> to, amount |-> amount, native |-> native, expiry |-> 1] : to \in Recipients}
NativeAsks == Asks(2, TRUE)
NativeAndTokenAsks == Asks(1, TRUE) \cup Asks(2, FALSE)
TokenAsks == Asks(2, FALSE)

Symmetry == Permutations(Payments)
=============================================================================
