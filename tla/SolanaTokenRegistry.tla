------------------------- MODULE SolanaTokenRegistry -------------------------
(***************************************************************************)
(* SolanaTokenRegistry: tokens by symbol and by mint, from the built-in    *)
(* list, the Jupiter list, the chain and the user, all in the same maps,   *)
(* and their copy in localStorage.                                         *)
(*                                                                         *)
(* A lookup awaits the chain twice and then writes both maps, whatever     *)
(* they hold by then.                                                      *)
(***************************************************************************)
EXTENDS Naturals

CONSTANTS
  SolSymbols,
  Mints,
  SolCommon,      \* COMMON_TOKENS of the cluster
  Jupiter,        \* the list
  ChainSymbol,    \* the symbol in a mint's metadata, or UNKNOWN
  SolUserTokens,  \* what the user may add
  SolTTL,         \* config.cacheTTL
  MaxSolClock     \* bound on the clock

Listing == [symbol: SolSymbols, mint: Mints]

ASSUME SolanaAssumption ==
  /\ SolCommon \subseteq Listing /\ Jupiter \subseteq Listing /\ SolUserTokens \subseteq Listing
  /\ ChainSymbol \in [Mints -> SolSymbols]
  /\ SolTTL \in Nat /\ MaxSolClock \in Nat

VARIABLES
  bySymbol,     \* tokens: symbol -> token
  byMint,       \* tokensByMint: mint -> token
  solSaved,     \* the cached tokens, all saved at one time
  loading,      \* the list is being fetched
  lookups,      \* mints that are being fetched
  solClock,
  \* History, read by no action:
  jupiter,      \* the list has been loaded by this instance
  touched       \* mints the user has added or looked up on the chain

solanaVars == <<bySymbol, byMint, solSaved, loading, lookups, solClock, jupiter, touched>>

SolToken == [symbol: SolSymbols, mint: Mints, verified: BOOLEAN]
NoToken == [verified |-> FALSE]

SolanaTypeOK ==
  /\ bySymbol \in [SolSymbols -> SolToken \cup {NoToken}]
  /\ byMint \in [Mints -> SolToken \cup {NoToken}]
  /\ solSaved \in [tokens: SUBSET SolToken, at: 0 .. MaxSolClock]
  /\ loading \in BOOLEAN /\ jupiter \in BOOLEAN
  /\ lookups \subseteq Mints /\ touched \subseteq Mints
  /\ solClock \in 0 .. MaxSolClock

Verified(set) == {[symbol |-> t.symbol, mint |-> t.mint, verified |-> TRUE] : t \in set}

\* A set of tokens is put under its symbols and its mints.  Two symbols can share
\* a mint in what was saved; the later one stays, the user's or another.
UnderSymbol(set, old) ==
  [s \in SolSymbols |-> IF \E t \in set : t.symbol = s THEN CHOOSE t \in set : t.symbol = s ELSE old[s]]

UnderMint(set, old, userLast) ==
  LET Under(m) == {t \in set : t.mint = m}
      later == {t \in set : t.verified # userLast}
  IN [m \in Mints |-> IF Under(m) = {} THEN old[m]
                      ELSE IF Under(m) \cap later # {} THEN CHOOSE t \in Under(m) \cap later : TRUE
                      ELSE CHOOSE t \in Under(m) : TRUE]

CommonBySymbol == UnderSymbol(Verified(SolCommon), [s \in SolSymbols |-> NoToken])
CommonByMint == UnderMint(Verified(SolCommon), [m \in Mints |-> NoToken], FALSE)

SolanaInit ==
  /\ bySymbol = CommonBySymbol /\ byMint = CommonByMint
  /\ solSaved = [tokens |-> {}, at |-> 0]
  /\ loading = FALSE /\ lookups = {} /\ solClock = 0
  /\ jupiter = FALSE /\ touched = {}

\* saveToCache: all tokens, each with the time of now; localStorage may refuse.
SaveToCache ==
  \/ solSaved' = [tokens |-> {bySymbol'[s] : s \in SolSymbols} \ {NoToken}, at |-> solClock]
  \/ UNCHANGED solSaved

\* cacheToken, addCustomToken.
Put(token) ==
  /\ bySymbol' = [bySymbol EXCEPT ![token.symbol] = token]
  /\ byMint' = [byMint EXCEPT ![token.mint] = token]
  /\ SaveToCache

-----------------------------------------------------------------------------
\* initialize: the list is asked for ...
Initialize ==
  /\ loading' = TRUE
  /\ UNCHANGED <<bySymbol, byMint, solSaved, lookups, solClock, jupiter, touched>>

\* ... and its tokens replace those with their symbols or mints.
JupiterArrives ==
  /\ loading /\ loading' = FALSE
  /\ bySymbol' = UnderSymbol(Verified(Jupiter), bySymbol)
  /\ byMint' = UnderMint(Verified(Jupiter), byMint, FALSE)
  /\ jupiter' = TRUE
  /\ UNCHANGED <<solSaved, lookups, solClock, touched>>

JupiterFails ==
  /\ loading /\ loading' = FALSE
  /\ UNCHANGED <<bySymbol, byMint, solSaved, lookups, solClock, jupiter, touched>>

\* getTokenByMint of a mint that is not there.
LookupMint(m) ==
  /\ byMint[m] = NoToken
  /\ lookups' = lookups \cup {m}
  /\ touched' = touched \cup {m}
  /\ UNCHANGED <<bySymbol, byMint, solSaved, loading, solClock, jupiter>>

\* Mutant: what is on the chain is taken for genuine.
GenuineToken(m) == [symbol |-> ChainSymbol[m], mint |-> m, verified |-> TRUE]

OnChainToken(m) == [symbol |-> ChainSymbol[m], mint |-> m, verified |-> FALSE]

\* getMintInfo has both its answers: cacheToken.
MintAnswered(m) ==
  /\ m \in lookups
  /\ lookups' = lookups \ {m}
  /\ Put(OnChainToken(m))
  /\ UNCHANGED <<loading, solClock, jupiter, touched>>

MintFails(m) ==
  /\ m \in lookups
  /\ lookups' = lookups \ {m}
  /\ UNCHANGED <<bySymbol, byMint, solSaved, loading, solClock, jupiter, touched>>

AddUserToken(t) ==
  /\ Put([symbol |-> t.symbol, mint |-> t.mint, verified |-> FALSE])
  /\ touched' = touched \cup {t.mint}
  /\ UNCHANGED <<loading, lookups, solClock, jupiter>>

\* Mutant: also a verified token can be removed.
AnyToken(s) == bySymbol[s] # NoToken

Removable(s) == bySymbol[s] # NoToken /\ ~bySymbol[s].verified

RemoveUserToken(s) ==
  /\ Removable(s)
  /\ bySymbol' = [bySymbol EXCEPT ![s] = NoToken]
  /\ byMint' = [byMint EXCEPT ![bySymbol[s].mint] = NoToken]
  /\ SaveToCache
  /\ UNCHANGED <<loading, lookups, solClock, jupiter, touched>>

ClearSolanaCache ==
  /\ solSaved' = [tokens |-> {}, at |-> 0]
  /\ bySymbol' = CommonBySymbol /\ byMint' = CommonByMint
  /\ jupiter' = FALSE
  /\ UNCHANGED <<loading, lookups, solClock, touched>>

\* The page is loaded again: loadCommonTokens, and loadFromCache over it.
NewSolanaRegistry ==
  LET live == IF solSaved.at + SolTTL > solClock THEN solSaved.tokens ELSE {} IN
  /\ bySymbol' = UnderSymbol(live, CommonBySymbol)
  /\ \E userLast \in BOOLEAN : byMint' = UnderMint(live, CommonByMint, userLast)
  /\ loading' = FALSE /\ lookups' = {} /\ jupiter' = FALSE
  /\ UNCHANGED <<solSaved, solClock, touched>>

SolClockTicks ==
  /\ solClock < MaxSolClock /\ solClock' = solClock + 1
  /\ UNCHANGED <<bySymbol, byMint, solSaved, loading, lookups, jupiter, touched>>

SolanaStep ==
  \/ Initialize \/ JupiterArrives \/ JupiterFails
  \/ \E m \in Mints : LookupMint(m) \/ MintAnswered(m) \/ MintFails(m)
  \/ \E t \in SolUserTokens : AddUserToken(t)
  \/ \E s \in SolSymbols : RemoveUserToken(s)
  \/ ClearSolanaCache \/ NewSolanaRegistry \/ SolClockTicks

SolanaSpec == SolanaInit /\ [][SolanaStep]_solanaVars

-----------------------------------------------------------------------------
(* Properties *)

Shown == {bySymbol[s] : s \in SolSymbols} \cup {byMint[m] : m \in Mints}
Genuine == Verified(SolCommon \cup Jupiter)

\* A token that is shown as verified is one of the built-in list or of the
\* Jupiter list, with the symbol and the mint it has there: whatever the chain
\* says a mint is called, and whatever is cached, replaced and loaded again.
VerifiedIsGenuine == {t \in Shown : t.verified} \subseteq Genuine

\* A mint of the lists is shown as verified, unless the user has added it or it
\* has been looked up on the chain: a lookup that began before the list came
\* replaces it, for good if it is cached.
ListedStaysVerified ==
  \A t \in Genuine : t.mint \notin touched /\ ([symbol |-> t.symbol, mint |-> t.mint] \in SolCommon \/ jupiter)
                       => byMint[t.mint].verified
=============================================================================
