------------------------------ MODULE MCStores ------------------------------
\* The stores of the SDK share nothing; a behaviour exercises one of them.
EXTENDS ActivityDatabase, TokenRegistry, SolanaTokenRegistry, TLC

CONSTANTS USDC, MEME, x1, x2, x3, url1, url2

\* All activities are one agent's, of one millisecond and of different types.
OneAgent == [a \in Activities |-> "agent"]
OneTime == [a \in Activities |-> 1]
OwnKind == [a \in Activities |-> a]

T(symbol, address) == [symbol |-> symbol, address |-> address]
M(symbol, mint) == [symbol |-> symbol, mint |-> mint]

BuiltIn == {T(USDC, x1)}
ListAt == url1 :> {T(USDC, x2)} @@ url2 :> {T(MEME, x3)}
UsersTokens == {T(USDC, x2), T(USDC, x3)}

SolBuiltIn == {M(USDC, x1)}
JupiterList == {M(MEME, x2)}
\* A mint calls itself what it likes.
SelfNamed == [m \in Mints |-> IF m = x3 THEN USDC ELSE MEME]
UsersMints == {M(USDC, x2), M(USDC, x3)}

VARIABLE store
vars == <<dbVars, registryVars, solanaVars, store>>

Init ==
  /\ DbInit /\ RegistryInit /\ SolanaInit
  /\ store \in {"database", "tokens", "solana"}
  /\ store # "database" => saved = {}

Next ==
  /\ UNCHANGED store
  /\ \/ store = "database" /\ DatabaseStep /\ UNCHANGED <<registryVars, solanaVars>>
     \/ store = "tokens" /\ RegistryStep /\ UNCHANGED <<dbVars, solanaVars>>
     \/ store = "solana" /\ SolanaStep /\ UNCHANGED <<dbVars, registryVars>>

Spec == Init /\ [][Next]_vars

TypeOK == DbTypeOK /\ RegistryTypeOK /\ SolanaTypeOK

Symmetry == Permutations(Activities) \cup Permutations(Tabs)
=============================================================================
