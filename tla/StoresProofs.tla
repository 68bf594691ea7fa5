---------------------------- MODULE StoresProofs ----------------------------
(***************************************************************************)
(* Proofs about the stores of the wallet SDK: TokenRegistry,               *)
(* SolanaTokenRegistry and ActivityDatabase with its migration, for any    *)
(* tokens, lists, tabs and activities, and for any bound.                  *)
(***************************************************************************)
EXTENDS ActivityDatabase, TokenRegistry, SolanaTokenRegistry, FiniteSetTheorems, TLAPS

-----------------------------------------------------------------------------
(* TokenRegistry *)

\* What is in the index is of a list that was processed, if it is verified, and
\* otherwise the user's; all that was listed is in it as verified, but what the
\* user has added too.  What is custom, here or in localStorage, was added.
IndexedInv ==
  /\ \A a \in Addresses : index[a].verified => a \in AddressesOf(CommonTokens) \cup listed
  /\ \A a \in Addresses :
       a \in AddressesOf(CommonTokens) \cup listed => index[a].verified \/ a \in added
  /\ \A a \in Addresses : index[a] = NoEntry \/ index[a].verified \/ a \in added
AddedInv == \A s \in Symbols : {custom[s], customSaved[s]} \subseteq added \cup {None}

RegistryInv == RegistryTypeOK /\ IndexedInv /\ AddedInv

\* A processed list changes the entries of its tokens only, and these are verified.
LEMMA ListsAddresses == \A set \in SUBSET Token : AddressesOf(set) \subseteq Addresses
BY DEF AddressesOf, Token

LEMMA IndexedIn ==
  ASSUME NEW set \in SUBSET Token, NEW old, NEW a \in Addresses, a \in AddressesOf(set)
  PROVE  /\ Indexed(set, old)[a] \in [symbol: Symbols, verified: BOOLEAN]
         /\ Indexed(set, old)[a].verified
<1>1. (CHOOSE t \in set : t.address = a) \in set
  BY DEF AddressesOf
<1>2. QED
  BY <1>1 DEF Indexed, Token

LEMMA IndexedOut ==
  ASSUME NEW set, NEW old, NEW a \in Addresses, a \notin AddressesOf(set)
  PROVE  Indexed(set, old)[a] = old[a]
BY DEF Indexed

LEMMA CommonShape ==
  ASSUME NEW a \in Addresses
  PROVE  /\ Common[a] \in [symbol: Symbols, verified: BOOLEAN] \cup {NoEntry}
         /\ Common[a].verified <=> a \in AddressesOf(CommonTokens)
         /\ a \notin AddressesOf(CommonTokens) => Common[a] = NoEntry
<1> DEFINE nothing == [b \in Addresses |-> NoEntry]
<1>1. CommonTokens \in SUBSET Token /\ Common = Indexed(CommonTokens, nothing)
  BY RegistryAssumption DEF Common
<1>2. nothing[a] = NoEntry /\ ~NoEntry.verified
  BY DEF NoEntry
<1> HIDE DEF nothing
<1>3. CASE a \in AddressesOf(CommonTokens)
  <2>1. /\ Indexed(CommonTokens, nothing)[a] \in [symbol: Symbols, verified: BOOLEAN]
        /\ Indexed(CommonTokens, nothing)[a].verified
    BY <1>1, <1>3, IndexedIn
  <2>2. QED
    BY <1>1, <1>3, <2>1
<1>4. CASE a \notin AddressesOf(CommonTokens)
  <2>1. Indexed(CommonTokens, nothing)[a] = nothing[a]
    BY <1>4, IndexedOut
  <2>2. QED
    BY <1>1, <1>2, <1>4, <2>1
<1>5. QED
  BY <1>3, <1>4

LEMMA RegistryInitInv == RegistryInit => RegistryInv
<1> SUFFICES ASSUME RegistryInit
             PROVE  RegistryInv
  OBVIOUS
<1>1. index \in [Addresses -> [symbol: Symbols, verified: BOOLEAN] \cup {NoEntry}]
  BY CommonShape DEF RegistryInit, Common, Indexed
<1>2. RegistryTypeOK
  BY <1>1, RegistryAssumption DEF RegistryInit, RegistryTypeOK, Uncached, Clock, NoCustom
<1>3. IndexedInv
  BY CommonShape DEF RegistryInit, IndexedInv
<1>4. AddedInv
  BY DEF RegistryInit, AddedInv, NoCustom
<1>5. QED
  BY <1>2, <1>3, <1>4 DEF RegistryInv

\* A list that is processed, cached or just arrived.
LEMMA ProcessInv ==
  ASSUME RegistryInv, NEW url \in Urls, Process(url), UNCHANGED <<custom, customSaved, added>>
  PROVE  /\ index' \in [Addresses -> [symbol: Symbols, verified: BOOLEAN] \cup {NoEntry}]
         /\ listed' \subseteq Addresses
         /\ IndexedInv' /\ AddedInv'
<1> USE DEF RegistryInv, Process
<1> DEFINE set == List[url]
<1>1. set \in SUBSET Token
  BY RegistryAssumption
<1>2. index' = Indexed(set, index) /\ listed' = listed \cup AddressesOf(set)
  OBVIOUS
<1> HIDE DEF set
<1>3. ASSUME NEW a \in Addresses
      PROVE  /\ a \in AddressesOf(set) => /\ index'[a] \in [symbol: Symbols, verified: BOOLEAN]
                                          /\ index'[a].verified
             /\ a \notin AddressesOf(set) => index'[a] = index[a]
  <2>1. CASE a \in AddressesOf(set)
    BY <1>1, <1>2, <2>1, IndexedIn
  <2>2. CASE a \notin AddressesOf(set)
    BY <1>2, <2>2, IndexedOut
  <2>3. QED
    BY <2>1, <2>2
<1>4. AddressesOf(set) \subseteq Addresses /\ index' = [a \in Addresses |-> index'[a]]
  BY <1>1, <1>2, ListsAddresses DEF Indexed
<1>5. index' \in [Addresses -> [symbol: Symbols, verified: BOOLEAN] \cup {NoEntry}]
  <2>1. ASSUME NEW a \in Addresses
        PROVE  index'[a] \in [symbol: Symbols, verified: BOOLEAN] \cup {NoEntry}
    BY <1>3 DEF RegistryTypeOK
  <2>2. QED
    BY <1>4, <2>1
<1>6. IndexedInv'
  <2>1. ASSUME NEW a \in Addresses, a \in AddressesOf(set)
        PROVE  index'[a].verified /\ a \in listed'
    BY <1>2, <1>3, <2>1
  <2>2. ASSUME NEW a \in Addresses, a \notin AddressesOf(set)
        PROVE  index'[a] = index[a] /\ (a \in listed' <=> a \in listed)
    BY <1>2, <1>3, <2>2
  <2>3. QED
    BY <2>1, <2>2 DEF IndexedInv
<1>7. AddedInv'
  BY DEF AddedInv
<1>8. QED
  BY <1>2, <1>4, <1>5, <1>6, <1>7 DEF RegistryTypeOK

LEMMA CacheListType ==
  ASSUME RegistryInv, NEW url \in Urls, CacheList(url)
  PROVE  lists' \in [Urls -> Clock \cup {Uncached}]
BY DEF RegistryInv, RegistryTypeOK, CacheList

\* A new instance has the built-in list and what the user had added in localStorage.
LEMMA NewRegistryInv ==
  ASSUME RegistryInv, NewRegistry
  PROVE  RegistryInv'
<1> USE DEF RegistryInv, NewRegistry
<1> DEFINE Mine(a) == \E s \in Symbols : customSaved[s] = a
<1>1. ASSUME NEW a \in Addresses, Mine(a)
      PROVE  /\ index'[a] \in [symbol: Symbols, verified: {FALSE}] /\ ~index'[a].verified
             /\ a \in added
  <2>1. index'[a] = CustomEntry(CHOOSE s \in Symbols : customSaved[s] = a)
    BY <1>1 DEF WithCustom
  <2>2. a \in added
    BY <1>1, RegistryAssumption DEF AddedInv
  <2>3. (CHOOSE s \in Symbols : customSaved[s] = a) \in Symbols
    BY <1>1
  <2>4. QED
    BY <2>1, <2>2, <2>3 DEF CustomEntry
<1>2. ASSUME NEW a \in Addresses, ~Mine(a)
      PROVE  index'[a] = Common[a]
  BY <1>2 DEF WithCustom
<1>3. index' \in [Addresses -> [symbol: Symbols, verified: BOOLEAN] \cup {NoEntry}]
  <2>1. ASSUME NEW a \in Addresses
        PROVE  index'[a] \in [symbol: Symbols, verified: BOOLEAN] \cup {NoEntry}
    BY <1>1, <1>2, CommonShape
  <2>2. QED
    BY <2>1 DEF WithCustom
<1>4. RegistryTypeOK'
  BY <1>3 DEF RegistryTypeOK
<1>5. IndexedInv'
  <2>1. ASSUME NEW a \in Addresses, Mine(a)
        PROVE  ~index'[a].verified /\ a \in added'
    BY <1>1, <2>1
  <2>2. ASSUME NEW a \in Addresses, ~Mine(a)
        PROVE  /\ index'[a].verified <=> a \in AddressesOf(CommonTokens)
               /\ a \notin AddressesOf(CommonTokens) => index'[a] = NoEntry
    BY <1>2, <2>2, CommonShape
  <2>3. listed' = {}
    OBVIOUS
  <2>4. QED
    BY <2>1, <2>2, <2>3 DEF IndexedInv
<1>6. AddedInv'
  BY DEF AddedInv
<1>7. QED
  BY <1>4, <1>5, <1>6

LEMMA RegistryStepInv == RegistryInv /\ [RegistryStep]_registryVars => RegistryInv'
<1> SUFFICES ASSUME RegistryInv, [RegistryStep]_registryVars
             PROVE  RegistryInv'
  OBVIOUS
<1> USE DEF RegistryInv
<1>1. ASSUME NEW url \in Urls, LoadList(url)
      PROVE  RegistryInv'
  <2>1. CASE Fresh(lists[url])
    <3>1. Process(url) /\ UNCHANGED <<custom, customSaved, lists, found, fetching, clock, added>>
      BY <1>1, <2>1 DEF LoadList
    <3>2. RegistryTypeOK'
      BY <3>1, ProcessInv DEF RegistryTypeOK
    <3>3. QED
      BY <3>1, <3>2, ProcessInv
  <2>2. CASE ~Fresh(lists[url])
    <3>1. fetching' = fetching \cup {url} /\ UNCHANGED <<index, listed, custom, customSaved, lists, found, clock, added>>
      BY <1>1, <2>2 DEF LoadList
    <3>2. QED
      BY <3>1 DEF RegistryTypeOK, IndexedInv, AddedInv
  <2>3. QED
    BY <2>1, <2>2
<1>2. ASSUME NEW url \in Urls, ListArrives(url)
      PROVE  RegistryInv'
  <2>1. RegistryTypeOK'
    BY <1>2, ProcessInv, CacheListType DEF ListArrives, RegistryTypeOK
  <2>2. QED
    BY <1>2, <2>1, ProcessInv DEF ListArrives
<1>3. ASSUME NEW it \in Urls \cup Addresses, FetchFails(it)
      PROVE  RegistryInv'
  BY <1>3 DEF FetchFails, RegistryTypeOK, IndexedInv, AddedInv
<1>4. ASSUME NEW a \in Addresses, Lookup(a)
      PROVE  RegistryInv'
  BY <1>4 DEF Lookup, RegistryTypeOK, IndexedInv, AddedInv
<1>5. ASSUME NEW a \in Addresses, LookupAnswered(a)
      PROVE  RegistryInv'
  BY <1>5 DEF LookupAnswered, RegistryTypeOK, IndexedInv, AddedInv
<1>6. ASSUME NEW t \in UserTokens, AddCustomToken(t)
      PROVE  RegistryInv'
  <2>1. t.symbol \in Symbols /\ t.address \in Addresses
    BY RegistryAssumption DEF Token
  <2>2. CustomEntry(t.symbol) \in [symbol: Symbols, verified: BOOLEAN] /\ ~CustomEntry(t.symbol).verified
    BY <2>1 DEF CustomEntry
  <2>3. RegistryTypeOK'
    BY <1>6, <2>1, <2>2 DEF AddCustomToken, SaveCustom, RegistryTypeOK
  <2>4. IndexedInv'
    BY <1>6, <2>1, <2>2 DEF AddCustomToken, RegistryTypeOK, IndexedInv
  <2>5. AddedInv'
    BY <1>6, <2>1 DEF AddCustomToken, SaveCustom, RegistryTypeOK, AddedInv
  <2>6. QED
    BY <2>3, <2>4, <2>5
<1>7. ASSUME NEW s \in Symbols, RemoveCustomToken(s)
      PROVE  RegistryInv'
  <2>1. custom[s] \in Addresses /\ custom[s] \in added /\ ~NoEntry.verified
    BY <1>7 DEF RemoveCustomToken, RegistryTypeOK, AddedInv, NoEntry
  <2>2. RegistryTypeOK'
    BY <1>7, <2>1 DEF RemoveCustomToken, SaveCustom, RegistryTypeOK
  <2>3. IndexedInv'
    BY <1>7, <2>1 DEF RemoveCustomToken, RegistryTypeOK, IndexedInv
  <2>4. AddedInv'
    BY <1>7 DEF RemoveCustomToken, SaveCustom, RegistryTypeOK, AddedInv
  <2>5. QED
    BY <2>2, <2>3, <2>4
<1>8. CASE ClearCache
  BY <1>8 DEF ClearCache, NoCustom, RegistryTypeOK, IndexedInv, AddedInv
<1>9. CASE CleanExpiredCache
  BY <1>9 DEF CleanExpiredCache, RegistryTypeOK, IndexedInv, AddedInv
<1>10. CASE NewRegistry
  BY <1>10, NewRegistryInv
<1>11. CASE ClockTicks
  BY <1>11, RegistryAssumption DEF ClockTicks, RegistryTypeOK, Clock, IndexedInv, AddedInv
<1>12. CASE UNCHANGED registryVars
  BY <1>12 DEF registryVars, RegistryTypeOK, IndexedInv, AddedInv
<1>13. QED
  BY <1>1, <1>2, <1>3, <1>4, <1>5, <1>6, <1>7, <1>8, <1>9, <1>10, <1>11, <1>12 DEF RegistryStep

LEMMA SafetyIsDue ==
  ASSUME RegistryInv
  PROVE  TrustIsListed
<1> USE DEF RegistryInv, IndexedInv, Safety
<1>1. ASSUME NEW a \in Addresses, Safety(a) \in {"verified", "trusted"}
      PROVE  a \in Vouched
  BY <1>1 DEF Vouched
<1>2. ASSUME NEW a \in Addresses, a \in Vouched, a \notin added
      PROVE  Safety(a) \in {"verified", "trusted"}
  BY <1>2 DEF Vouched
<1>3. ASSUME NEW a \in Addresses, Safety(a) = "known"
      PROVE  a \in added
  BY <1>3
<1>4. Vouched \subseteq Addresses
  BY RegistryAssumption DEF Vouched, AddressesOf, Token, RegistryTypeOK
<1>5. QED
  BY <1>1, <1>2, <1>3, <1>4 DEF TrustIsListed, Trusted

\* The variables keep their types.
THEOREM RegistryTyped == RegistrySpec => []RegistryTypeOK
<1>1. RegistryInv => RegistryTypeOK
  BY DEF RegistryInv
<1>2. QED
  BY RegistryInitInv, RegistryStepInv, <1>1, PTL DEF RegistrySpec

\* checkTokenSafety trusts what is built in or listed, and that only.
THEOREM TrustedIsListed == RegistrySpec => []TrustIsListed
<1>1. RegistryInv => TrustIsListed
  BY SafetyIsDue
<1>2. QED
  BY RegistryInitInv, RegistryStepInv, <1>1, PTL DEF RegistrySpec

-----------------------------------------------------------------------------
(* SolanaTokenRegistry *)

\* A verified token is of the lists; another one is of a mint that the user has
\* added or looked up.
Legit(t) == t \in SolToken /\ (t.verified => t \in Genuine)
Due(t) == t.verified \/ t.mint \in touched

\* What is under the symbols can be removed with its mint, what is under the mints
\* only matters if it is verified.
SymbolsOK(map) ==
  /\ map \in [SolSymbols -> SolToken \cup {NoToken}]
  /\ \A s \in SolSymbols : map[s] = NoToken \/ (Legit(map[s]) /\ Due(map[s]))
MintsOK(map) ==
  /\ map \in [Mints -> SolToken \cup {NoToken}]
  /\ \A m \in Mints : map[m] = NoToken \/ Legit(map[m])
TokensOK(set) == \A t \in set : Legit(t) /\ Due(t)

SolanaInv ==
  /\ SolanaTypeOK
  /\ SymbolsOK(bySymbol) /\ MintsOK(byMint) /\ TokensOK(solSaved.tokens)
  /\ lookups \subseteq touched
  /\ ListedStaysVerified

LEMMA VerifiedTokens ==
  ASSUME NEW set \in SUBSET Listing
  PROVE  \A t \in Verified(set) :
           /\ t \in SolToken /\ t.verified
           /\ [symbol |-> t.symbol, mint |-> t.mint] \in set
<1> SUFFICES ASSUME NEW l \in set
             PROVE  LET t == [symbol |-> l.symbol, mint |-> l.mint, verified |-> TRUE]
                    IN  /\ t \in SolToken /\ t.verified
                        /\ [symbol |-> t.symbol, mint |-> t.mint] \in set
  BY DEF Verified
<1>1. l \in Listing
  OBVIOUS
<1>2. l = [symbol |-> l.symbol, mint |-> l.mint] /\ l.symbol \in SolSymbols /\ l.mint \in Mints
  BY <1>1 DEF Listing
<1>3. QED
  BY <1>2 DEF SolToken

LEMMA Lists ==
  /\ Genuine = Verified(SolCommon) \cup Verified(Jupiter)
  /\ \A t \in Verified(SolCommon) \cup Verified(Jupiter) : Legit(t) /\ t.verified
<1>1. Genuine = Verified(SolCommon) \cup Verified(Jupiter)
  BY DEF Genuine, Verified
<1>2. \A t \in Verified(SolCommon) \cup Verified(Jupiter) : t \in SolToken /\ t.verified
  BY SolanaAssumption, VerifiedTokens
<1>3. QED
  BY <1>1, <1>2 DEF Legit

\* What is under a symbol was there or is of the set.
LEMMA UnderSymbolFrom ==
  ASSUME NEW set, NEW old, NEW s \in SolSymbols
  PROVE  UnderSymbol(set, old)[s] = old[s] \/ UnderSymbol(set, old)[s] \in set
<1>1. CASE \E t \in set : t.symbol = s
  BY <1>1 DEF UnderSymbol
<1>2. CASE ~ \E t \in set : t.symbol = s
  BY <1>2 DEF UnderSymbol
<1>3. QED
  BY <1>1, <1>2

\* What is under a mint is of the set, if the set has any of the mint.
LEMMA UnderMintFrom ==
  ASSUME NEW set, NEW old, NEW userLast, NEW m \in Mints
  PROVE  \/ /\ UnderMint(set, old, userLast)[m] = old[m]
            /\ \A t \in set : t.mint # m
         \/ /\ UnderMint(set, old, userLast)[m] \in set
            /\ UnderMint(set, old, userLast)[m].mint = m
<1> DEFINE Under == {t \in set : t.mint = m}
           later == {t \in set : t.verified # userLast}
<1>1. UnderMint(set, old, userLast)[m] =
        IF Under = {} THEN old[m]
        ELSE IF Under \cap later # {} THEN CHOOSE t \in Under \cap later : TRUE
        ELSE CHOOSE t \in Under : TRUE
  BY DEF UnderMint
<1>2. CASE Under = {}
  BY <1>1, <1>2
<1>3. CASE Under # {}
  <2>1. UnderMint(set, old, userLast)[m] \in Under
    <3> HIDE DEF Under, later
    <3> QED
      BY <1>1, <1>3
  <2>2. QED
    BY <2>1
<1>4. QED
  BY <1>2, <1>3

LEMMA SymbolsStayOK ==
  ASSUME NEW set, TokensOK(set), NEW old, SymbolsOK(old)
  PROVE  SymbolsOK(UnderSymbol(set, old))
<1> DEFINE new == UnderSymbol(set, old)
<1>1. new = [s \in SolSymbols |-> new[s]]
  BY DEF UnderSymbol
<1>2. ASSUME NEW s \in SolSymbols
      PROVE  new[s] \in SolToken \cup {NoToken} /\ (new[s] = NoToken \/ (Legit(new[s]) /\ Due(new[s])))
  <2>1. new[s] = old[s] \/ new[s] \in set
    BY UnderSymbolFrom
  <2> HIDE DEF new
  <2>2. CASE new[s] = old[s]
    BY <2>2 DEF SymbolsOK
  <2>3. CASE new[s] \in set
    BY <2>3 DEF TokensOK, Legit
  <2>4. QED
    BY <2>1, <2>2, <2>3
<1> HIDE DEF new
<1>3. QED
  BY <1>1, <1>2 DEF SymbolsOK, new

LEMMA MintsStayOK ==
  ASSUME NEW set, \A t \in set : Legit(t), NEW old, MintsOK(old), NEW userLast
  PROVE  MintsOK(UnderMint(set, old, userLast))
<1> DEFINE new == UnderMint(set, old, userLast)
<1>1. new = [m \in Mints |-> new[m]]
  BY DEF UnderMint
<1>2. ASSUME NEW m \in Mints
      PROVE  new[m] \in SolToken \cup {NoToken} /\ (new[m] = NoToken \/ Legit(new[m]))
  <2>1. new[m] = old[m] \/ new[m] \in set
    BY UnderMintFrom
  <2> HIDE DEF new
  <2>2. CASE new[m] = old[m]
    BY <2>2 DEF MintsOK
  <2>3. CASE new[m] \in set
    BY <2>3 DEF Legit
  <2>4. QED
    BY <2>1, <2>2, <2>3
<1> HIDE DEF new
<1>3. QED
  BY <1>1, <1>2 DEF MintsOK, new

\* Nothing shown as verified is anything else but genuine.
LEMMA ShownIsGenuine ==
  ASSUME SolanaInv
  PROVE  VerifiedIsGenuine
<1>1. ~NoToken.verified
  BY DEF NoToken
<1>2. ASSUME NEW t \in Shown, t.verified
      PROVE  t \in Genuine
  <2>1. t = NoToken \/ Legit(t)
    BY DEF Shown, SolanaInv, SymbolsOK, MintsOK
  <2>2. QED
    BY <1>1, <1>2, <2>1 DEF Legit
<1>3. QED
  BY <1>2 DEF VerifiedIsGenuine

\* The built-in tokens alone, as a new instance and a cleared cache have them.
LEMMA CommonMaps ==
  /\ SymbolsOK(CommonBySymbol) /\ MintsOK(CommonByMint)
  /\ \A t \in Verified(SolCommon) : CommonByMint[t.mint].verified
<1> DEFINE common == Verified(SolCommon)
           noSymbols == [s \in SolSymbols |-> NoToken]
           noMints == [m \in Mints |-> NoToken]
<1>1. TokensOK(common) /\ \A t \in common : Legit(t)
  BY Lists DEF TokensOK, Due
<1>2. SymbolsOK(noSymbols) /\ MintsOK(noMints)
  BY DEF SymbolsOK, MintsOK
<1>3. CommonBySymbol = UnderSymbol(common, noSymbols) /\ CommonByMint = UnderMint(common, noMints, FALSE)
  BY DEF CommonBySymbol, CommonByMint
<1> HIDE DEF common, noSymbols, noMints
<1>4. SymbolsOK(CommonBySymbol) /\ MintsOK(CommonByMint)
  BY <1>1, <1>2, <1>3, SymbolsStayOK, MintsStayOK
<1>5. ASSUME NEW t \in common
      PROVE  CommonByMint[t.mint].verified
  <2>1. t.mint \in Mints
    BY <1>1 DEF Legit, SolToken
  <2>2. CommonByMint[t.mint] \in common
    BY <1>3, <2>1, UnderMintFrom
  <2>3. QED
    BY <2>2, Lists DEF common
<1>6. QED
  BY <1>4, <1>5 DEF common

LEMMA SolanaInitInv == SolanaInit => SolanaInv
<1> SUFFICES ASSUME SolanaInit
             PROVE  SolanaInv
  OBVIOUS
<1>1. SymbolsOK(bySymbol) /\ MintsOK(byMint) /\ TokensOK(solSaved.tokens)
  BY CommonMaps DEF SolanaInit, TokensOK
<1>2. SolanaTypeOK
  <2>1. solSaved \in [tokens: SUBSET SolToken, at: 0 .. MaxSolClock] /\ solClock \in 0 .. MaxSolClock
    BY SolanaAssumption DEF SolanaInit
  <2>2. QED
    BY <1>1, <2>1 DEF SolanaInit, SolanaTypeOK, SymbolsOK, MintsOK
<1>3. ListedStaysVerified
  BY CommonMaps DEF SolanaInit, ListedStaysVerified, Genuine, Verified
<1>4. QED
  BY <1>1, <1>2, <1>3 DEF SolanaInv, SolanaInit

\* What is saved is what is under the symbols.
LEMMA SavesSymbols ==
  ASSUME SolanaInv, SaveToCache, SymbolsOK(bySymbol)', touched \subseteq touched',
         UNCHANGED solClock
  PROVE  TokensOK(solSaved.tokens)' /\ solSaved' \in [tokens: SUBSET SolToken, at: 0 .. MaxSolClock]
<1> USE DEF SolanaInv
<1>1. CASE solSaved' = [tokens |-> {bySymbol'[s] : s \in SolSymbols} \ {NoToken}, at |-> solClock]
  <2> DEFINE toks == {bySymbol'[s] : s \in SolSymbols} \ {NoToken}
  <2>1. \A t \in toks : Legit(t) /\ (t.verified \/ t.mint \in touched')
    <3> SUFFICES ASSUME NEW s \in SolSymbols, bySymbol'[s] # NoToken
                 PROVE  Legit(bySymbol'[s]) /\ (bySymbol'[s].verified \/ bySymbol'[s].mint \in touched')
      OBVIOUS
    <3>1. QED
      BY DEF SymbolsOK, Legit, Due, Genuine
  <2>2. toks \subseteq SolToken
    BY <2>1 DEF Legit
  <2>3. solSaved'.tokens = toks
    BY <1>1
  <2>4. QED
    BY <1>1, <2>1, <2>2, <2>3 DEF TokensOK, SolanaTypeOK, Legit, Due, Genuine
<1>2. CASE UNCHANGED solSaved
  BY <1>2 DEF TokensOK, SolanaTypeOK, Due, Legit, Genuine
<1>3. QED
  BY <1>1, <1>2 DEF SaveToCache

\* One token is put under its symbol and its mint: it is not verified, and its mint
\* is touched.
LEMMA PutInv ==
  ASSUME SolanaInv, NEW t \in SolToken, ~t.verified, t.mint \in touched',
         Put(t), touched \subseteq touched', touched' \subseteq Mints,
         UNCHANGED <<solClock, jupiter>>
  PROVE  /\ SymbolsOK(bySymbol)' /\ MintsOK(byMint)' /\ TokensOK(solSaved.tokens)'
         /\ solSaved' \in [tokens: SUBSET SolToken, at: 0 .. MaxSolClock]
         /\ ListedStaysVerified'
<1> USE DEF SolanaInv
<1>1. t.symbol \in SolSymbols /\ t.mint \in Mints
  BY DEF SolToken
<1>2. SymbolsOK(bySymbol)'
  BY <1>1 DEF Put, SymbolsOK, Legit, Due, Genuine
<1>3. MintsOK(byMint)'
  BY <1>1 DEF Put, MintsOK, Legit, Genuine
<1>4. ListedStaysVerified'
  <2> SUFFICES ASSUME NEW l \in Genuine, l.mint \notin touched',
                      [symbol |-> l.symbol, mint |-> l.mint] \in SolCommon \/ jupiter
               PROVE  byMint'[l.mint].verified
    BY DEF ListedStaysVerified, Genuine
  <2>1. byMint[l.mint].verified /\ l.mint # t.mint
    BY DEF ListedStaysVerified
  <2>2. l.mint \in Mints
    BY Lists DEF Legit, SolToken
  <2>3. byMint'[l.mint] = byMint[l.mint]
    BY <1>1, <2>1, <2>2 DEF Put, MintsOK
  <2>4. QED
    BY <2>1, <2>3
<1>5. QED
  BY <1>2, <1>3, <1>4, SavesSymbols DEF Put

\* The list takes the place of what had its symbols or its mints.
LEMMA JupiterInv ==
  ASSUME SolanaInv, JupiterArrives
  PROVE  SolanaInv'
<1> USE DEF SolanaInv, JupiterArrives
<1> DEFINE set == Verified(Jupiter)
<1>1. TokensOK(set) /\ \A t \in set : Legit(t) /\ t.verified
  BY Lists DEF TokensOK, Due
<1>2. bySymbol' = UnderSymbol(set, bySymbol) /\ byMint' = UnderMint(set, byMint, FALSE)
  OBVIOUS
<1> HIDE DEF set
<1>3. SymbolsOK(bySymbol') /\ MintsOK(byMint')
  BY <1>1, <1>2, SymbolsStayOK, MintsStayOK
<1>4. SymbolsOK(bySymbol)' /\ MintsOK(byMint)' /\ TokensOK(solSaved.tokens)'
  BY <1>3 DEF SymbolsOK, MintsOK, TokensOK, Legit, Due, Genuine
<1>5. SolanaTypeOK'
  BY <1>3 DEF SolanaTypeOK, SymbolsOK, MintsOK
<1>6. ListedStaysVerified'
  <2> SUFFICES ASSUME NEW l \in Genuine, l.mint \notin touched
               PROVE  byMint'[l.mint].verified
    BY DEF ListedStaysVerified, Genuine
  <2>1. l.mint \in Mints
    BY Lists DEF Legit, SolToken
  <2>2. l \in set \/ [symbol |-> l.symbol, mint |-> l.mint] \in SolCommon
    BY Lists, SolanaAssumption, VerifiedTokens DEF set
  <2>3. CASE byMint'[l.mint] \in set
    BY <1>1, <2>3
  <2>4. CASE byMint'[l.mint] = byMint[l.mint] /\ \A t \in set : t.mint # l.mint
    BY <2>2, <2>4 DEF ListedStaysVerified
  <2>5. \/ UnderMint(set, byMint, FALSE)[l.mint] = byMint[l.mint] /\ \A t \in set : t.mint # l.mint
        \/ UnderMint(set, byMint, FALSE)[l.mint] \in set
    BY <2>1, UnderMintFrom
  <2>6. QED
    BY <1>2, <2>3, <2>4, <2>5
<1>7. QED
  BY <1>4, <1>5, <1>6

\* A new instance: the built-in tokens, and what is saved over them.
LEMMA NewSolanaInv ==
  ASSUME SolanaInv, NewSolanaRegistry
  PROVE  SolanaInv'
<1> USE DEF SolanaInv
<1> DEFINE live == IF solSaved.at + SolTTL > solClock THEN solSaved.tokens ELSE {}
<1>1. TokensOK(live) /\ \A t \in live : Legit(t) /\ Due(t)
  BY DEF TokensOK
<1>2. PICK userLast \in BOOLEAN :
        bySymbol' = UnderSymbol(live, CommonBySymbol) /\ byMint' = UnderMint(live, CommonByMint, userLast)
  BY DEF NewSolanaRegistry
<1> HIDE DEF live
<1>3. SymbolsOK(bySymbol') /\ MintsOK(byMint')
  BY <1>1, <1>2, CommonMaps, SymbolsStayOK, MintsStayOK
<1>4. UNCHANGED <<solSaved, solClock, touched>> /\ ~loading' /\ lookups' = {} /\ ~jupiter' /\ loading' \in BOOLEAN /\ jupiter' \in BOOLEAN
  BY DEF NewSolanaRegistry
<1>5. SymbolsOK(bySymbol)' /\ MintsOK(byMint)' /\ TokensOK(solSaved.tokens)'
  BY <1>3, <1>4 DEF SymbolsOK, MintsOK, TokensOK, Legit, Due, Genuine
<1>6. SolanaTypeOK'
  BY <1>3, <1>4 DEF SolanaTypeOK, SymbolsOK, MintsOK
<1>7. ListedStaysVerified'
  <2> SUFFICES ASSUME NEW l \in Genuine, l.mint \notin touched,
                      [symbol |-> l.symbol, mint |-> l.mint] \in SolCommon
               PROVE  byMint'[l.mint].verified
    BY <1>4 DEF ListedStaysVerified, Genuine
  <2>1. l.mint \in Mints
    BY Lists DEF Legit, SolToken
  <2>2. CommonByMint[l.mint].verified
    <3> DEFINE t == [symbol |-> l.symbol, mint |-> l.mint, verified |-> TRUE]
    <3>1. t \in Verified(SolCommon) /\ t.mint = l.mint
      <4>1. \A k \in SolCommon : [symbol |-> k.symbol, mint |-> k.mint, verified |-> TRUE] \in Verified(SolCommon)
        BY DEF Verified
      <4>2. QED
        BY <4>1
    <3>2. QED
      BY <3>1, CommonMaps
  <2>3. CASE byMint'[l.mint] = CommonByMint[l.mint]
    BY <2>2, <2>3
  <2>4. CASE byMint'[l.mint] \in live /\ byMint'[l.mint].mint = l.mint
    BY <1>1, <2>4 DEF Due
  <2>5. QED
    BY <1>2, <2>1, <2>3, <2>4, UnderMintFrom
<1>8. QED
  BY <1>4, <1>5, <1>6, <1>7

\* Steps that leave the maps and what is saved alone.
LEMMA SolanaOtherInv ==
  ASSUME SolanaInv, UNCHANGED <<bySymbol, byMint, solSaved, jupiter>>,
         touched \subseteq touched', touched' \subseteq Mints, lookups' \subseteq touched',
         loading' \in BOOLEAN, solClock' \in 0 .. MaxSolClock
  PROVE  SolanaInv'
<1> USE DEF SolanaInv
<1>1. SolanaTypeOK'
  BY DEF SolanaTypeOK
<1>2. SymbolsOK(bySymbol)' /\ MintsOK(byMint)' /\ TokensOK(solSaved.tokens)'
  BY DEF SymbolsOK, MintsOK, TokensOK, Legit, Due, Genuine
<1>3. ListedStaysVerified'
  BY DEF ListedStaysVerified, Genuine
<1>4. QED
  BY <1>1, <1>2, <1>3

LEMMA SolanaStepInv == SolanaInv /\ [SolanaStep]_solanaVars => SolanaInv'
<1> SUFFICES ASSUME SolanaInv, [SolanaStep]_solanaVars
             PROVE  SolanaInv'
  OBVIOUS
<1>0. /\ SolanaTypeOK /\ SymbolsOK(bySymbol) /\ MintsOK(byMint) /\ TokensOK(solSaved.tokens)
      /\ lookups \subseteq touched /\ ListedStaysVerified
  BY DEF SolanaInv
<1>1. CASE Initialize \/ JupiterFails
  BY <1>0, <1>1, SolanaOtherInv DEF Initialize, JupiterFails, SolanaTypeOK
<1>2. CASE JupiterArrives
  BY <1>2, JupiterInv
<1>3. ASSUME NEW m \in Mints, LookupMint(m) \/ MintFails(m)
      PROVE  SolanaInv'
  BY <1>0, <1>3, SolanaOtherInv DEF LookupMint, MintFails, SolanaTypeOK
<1>4. ASSUME NEW m \in Mints, MintAnswered(m)
      PROVE  SolanaInv'
  <2>1. /\ OnChainToken(m) \in SolToken /\ ~OnChainToken(m).verified
        /\ OnChainToken(m).mint = m
    BY SolanaAssumption DEF OnChainToken, SolToken
  <2>2. UNCHANGED <<loading, solClock, jupiter, touched>> /\ m \in touched /\ Put(OnChainToken(m)) /\ lookups' = lookups \ {m}
    BY <1>0, <1>4 DEF MintAnswered
  <2>3. /\ SymbolsOK(bySymbol)' /\ MintsOK(byMint)' /\ TokensOK(solSaved.tokens)'
        /\ solSaved' \in [tokens: SUBSET SolToken, at: 0 .. MaxSolClock] /\ ListedStaysVerified'
    BY <1>0, <2>1, <2>2, PutInv DEF SolanaTypeOK
  <2>4. SolanaTypeOK'
    BY <1>0, <2>2, <2>3 DEF SolanaTypeOK, SymbolsOK, MintsOK
  <2>5. QED
    BY <1>0, <2>2, <2>3, <2>4 DEF SolanaInv
<1>5. ASSUME NEW t \in SolUserTokens, AddUserToken(t)
      PROVE  SolanaInv'
  <2> DEFINE new == [symbol |-> t.symbol, mint |-> t.mint, verified |-> FALSE]
  <2>1. new \in SolToken /\ ~new.verified /\ new.mint = t.mint /\ t.mint \in Mints
    BY SolanaAssumption DEF Listing, SolToken
  <2>2. UNCHANGED <<loading, solClock, jupiter, lookups>> /\ Put(new) /\ touched' = touched \cup {t.mint}
    BY <1>5 DEF AddUserToken
  <2> HIDE DEF new
  <2>3. /\ SymbolsOK(bySymbol)' /\ MintsOK(byMint)' /\ TokensOK(solSaved.tokens)'
        /\ solSaved' \in [tokens: SUBSET SolToken, at: 0 .. MaxSolClock] /\ ListedStaysVerified'
    BY <1>0, <2>1, <2>2, PutInv DEF SolanaTypeOK
  <2>4. SolanaTypeOK'
    BY <1>0, <2>1, <2>2, <2>3 DEF SolanaTypeOK, SymbolsOK, MintsOK
  <2>5. QED
    BY <1>0, <2>2, <2>3, <2>4 DEF SolanaInv
<1>6. ASSUME NEW s \in SolSymbols, RemoveUserToken(s)
      PROVE  SolanaInv'
  <2> DEFINE gone == bySymbol[s].mint
  <2>1. gone \in Mints /\ gone \in touched
    BY <1>0, <1>6 DEF RemoveUserToken, Removable, SymbolsOK, Legit, Due, SolToken
  <2>2. /\ bySymbol' = [bySymbol EXCEPT ![s] = NoToken] /\ byMint' = [byMint EXCEPT ![gone] = NoToken]
        /\ SaveToCache /\ UNCHANGED <<loading, lookups, solClock, jupiter, touched>>
    BY <1>6 DEF RemoveUserToken
  <2> HIDE DEF gone
  <2>3. SymbolsOK(bySymbol)'
    BY <1>0, <2>2 DEF SymbolsOK, Legit, Due, Genuine
  <2>4. MintsOK(byMint)'
    BY <1>0, <2>1, <2>2 DEF MintsOK, Legit, Genuine
  <2>5. /\ TokensOK(solSaved.tokens)' /\ solSaved' \in [tokens: SUBSET SolToken, at: 0 .. MaxSolClock]
    BY <2>2, <2>3, SavesSymbols
  <2>6. SolanaTypeOK'
    BY <1>0, <2>2, <2>3, <2>4, <2>5 DEF SolanaTypeOK, SymbolsOK, MintsOK
  <2>7. ListedStaysVerified'
    <3> SUFFICES ASSUME NEW l \in Genuine, l.mint \notin touched,
                        [symbol |-> l.symbol, mint |-> l.mint] \in SolCommon \/ jupiter
                 PROVE  byMint'[l.mint].verified
      BY <2>2 DEF ListedStaysVerified, Genuine
    <3>1. l.mint \in Mints /\ l.mint # gone
      BY <2>1, Lists DEF Legit, SolToken
    <3>2. QED
      BY <1>0, <2>2, <3>1 DEF ListedStaysVerified, MintsOK
  <2>8. QED
    BY <1>0, <2>2, <2>3, <2>4, <2>5, <2>6, <2>7 DEF SolanaInv
<1>7. CASE ClearSolanaCache
  <2>1. /\ solSaved' = [tokens |-> {}, at |-> 0] /\ bySymbol' = CommonBySymbol /\ byMint' = CommonByMint
        /\ jupiter' = FALSE /\ UNCHANGED <<loading, lookups, solClock, touched>>
    BY <1>7 DEF ClearSolanaCache
  <2>2. SymbolsOK(bySymbol)' /\ MintsOK(byMint)'
    BY <2>1, CommonMaps DEF SymbolsOK, MintsOK, Legit, Due, Genuine
  <2>3. TokensOK(solSaved.tokens)' /\ solSaved' \in [tokens: SUBSET SolToken, at: 0 .. MaxSolClock]
    BY <2>1, SolanaAssumption DEF TokensOK
  <2>4. SolanaTypeOK'
    BY <1>0, <2>1, <2>2, <2>3 DEF SolanaTypeOK, SymbolsOK, MintsOK
  <2>5. ListedStaysVerified'
    <3> SUFFICES ASSUME NEW l \in Genuine, [symbol |-> l.symbol, mint |-> l.mint] \in SolCommon
                 PROVE  CommonByMint[l.mint].verified
      BY <2>1 DEF ListedStaysVerified, Genuine
    <3> DEFINE t == [symbol |-> l.symbol, mint |-> l.mint, verified |-> TRUE]
    <3>1. \A k \in SolCommon : [symbol |-> k.symbol, mint |-> k.mint, verified |-> TRUE] \in Verified(SolCommon)
      BY DEF Verified
    <3>2. t \in Verified(SolCommon) /\ t.mint = l.mint
      BY <3>1
    <3>3. QED
      BY <3>2, CommonMaps
  <2>6. QED
    BY <1>0, <2>1, <2>2, <2>3, <2>4, <2>5 DEF SolanaInv
<1>8. CASE NewSolanaRegistry
  BY <1>8, NewSolanaInv
<1>9. CASE SolClockTicks
  BY <1>0, <1>9, SolanaAssumption, SolanaOtherInv DEF SolClockTicks, SolanaTypeOK
<1>10. CASE UNCHANGED solanaVars
  BY <1>0, <1>10, SolanaOtherInv DEF solanaVars, SolanaTypeOK
<1>11. QED
  BY <1>1, <1>2, <1>3, <1>4, <1>5, <1>6, <1>7, <1>8, <1>9, <1>10 DEF SolanaStep

\* The variables keep their types.
THEOREM SolanaTyped == SolanaSpec => []SolanaTypeOK
<1>1. SolanaInv => SolanaTypeOK
  BY DEF SolanaInv
<1>2. QED
  BY SolanaInitInv, SolanaStepInv, <1>1, PTL DEF SolanaSpec

\* What is shown as verified is of the lists, with its symbol and mint there.
THEOREM ShownAsVerifiedIsGenuine == SolanaSpec => []VerifiedIsGenuine
<1>1. SolanaInv => VerifiedIsGenuine
  BY ShownIsGenuine
<1>2. QED
  BY SolanaInitInv, SolanaStepInv, <1>1, PTL DEF SolanaSpec

\* A listed mint that nobody added or looked up is shown as verified.
THEOREM UntouchedStaysVerified == SolanaSpec => []ListedStaysVerified
<1>1. SolanaInv => ListedStaysVerified
  BY DEF SolanaInv
<1>2. QED
  BY SolanaInitInv, SolanaStepInv, <1>1, PTL DEF SolanaSpec

-----------------------------------------------------------------------------
(* ActivityDatabase *)

\* No key is given twice, and what a tab works on are keys that were given.
KeysInv ==
  /\ \A r \in db : r.id <= lastKey
  /\ \A r, s \in db : r.id = s.id => r = s
  /\ \A t \in Tabs : tab[t] \in Working => \A i \in tab[t].ids : i <= lastKey

\* What says it is synced, wherever it is, was sent, and so was what a tab is about
\* to mark.
SentAll(entries) == \A e \in entries : e.status = "synced" => e.what \in sent
SentInv ==
  /\ SentAll(db) /\ SentAll(saved) /\ SentAll(backup) /\ SentAll(mem)
  /\ \A t \in Tabs : tab[t] \in Migrating => SentAll(tab[t].entries)
  /\ \A t \in Tabs : tab[t] \in Working /\ tab[t].stage = "marking" =>
                       \A r \in db : r.id \in tab[t].ids => r.what \in sent

MarkedInv == DbTypeOK /\ KeysInv /\ SentInv

LEMMA EntriesFinite == \A entries \in SUBSET Entry : IsFiniteSet(entries) /\ Cardinality(entries) \in Nat
<1>1. IsFiniteSet(Entry)
  <2>1. IsFiniteSet(Statuses)
    <3>1. IsFiniteSet({}) /\ IsFiniteSet({} \cup {"pending"})
      BY FS_EmptySet, FS_AddElement
    <3>2. IsFiniteSet(({} \cup {"pending"}) \cup {"synced"})
      BY <3>1, FS_AddElement
    <3>3. IsFiniteSet((({} \cup {"pending"}) \cup {"synced"}) \cup {"conflict"})
      BY <3>2, FS_AddElement
    <3>4. Statuses = (({} \cup {"pending"}) \cup {"synced"}) \cup {"conflict"}
      BY DEF Statuses
    <3>5. QED
      BY <3>3, <3>4
  <2>2. IsFiniteSet(Activities \X Statuses)
    BY <2>1, DatabaseAssumption, FS_Product
  <2> DEFINE f == [p \in Activities \X Statuses |-> [what |-> p[1], status |-> p[2]]]
  <2>3. f \in Surjection(Activities \X Statuses, Entry)
    <3>1. ASSUME NEW e \in Entry
          PROVE  \E p \in Activities \X Statuses : f[p] = e
      <4>1. e.what \in Activities /\ e.status \in Statuses /\ e = [what |-> e.what, status |-> e.status]
        BY DEF Entry
      <4>2. f[<<e.what, e.status>>] = e /\ <<e.what, e.status>> \in Activities \X Statuses
        BY <4>1
      <4>3. QED
        BY <4>2
    <3>2. f \in [Activities \X Statuses -> Entry]
      BY DEF Entry
    <3> HIDE DEF f
    <3>3. QED
      BY <3>1, <3>2 DEF Surjection
  <2>4. QED
    BY <2>2, <2>3, FS_Surjection
<1>2. QED
  BY <1>1, FS_Subset, FS_CardinalityType

\* What add and bulkAdd do.
LEMMA AddsShape ==
  ASSUME DbTypeOK, NEW entries \in SUBSET Entry, Adds(entries)
  PROVE  /\ db' \in SUBSET Record
         /\ lastKey' \in 0 .. MaxKey /\ lastKey <= lastKey'
         /\ db \subseteq db'
         /\ What(db') = What(db) \cup What(entries)
         /\ \A r \in db' :
              r \in db \/ (/\ r.id > lastKey /\ r.id <= lastKey'
                           /\ \E e \in entries : r.what = e.what /\ r.status = e.status)
         /\ \A r, s \in db' : r.id = s.id => r = s \/ r \in db \/ s \in db
<1> DEFINE n == Cardinality(entries)
<1>0. n \in Nat /\ lastKey \in 0 .. MaxKey /\ MaxKey \in Nat /\ db \in SUBSET Record
  BY EntriesFinite, DatabaseAssumption DEF DbTypeOK
<1>1. lastKey + n <= MaxKey /\ lastKey' = lastKey + n
  BY DEF Adds
<1>2. PICK key \in [entries -> lastKey + 1 .. lastKey + n] :
        /\ \A e, f \in entries : e # f => key[e] # key[f]
        /\ db' = db \cup {ToRecord(e, key[e]) : e \in entries}
  BY DEF Adds
<1> HIDE DEF n
<1>3. ASSUME NEW e \in entries
      PROVE  /\ ToRecord(e, key[e]) \in Record
             /\ ToRecord(e, key[e]).id = key[e]
             /\ ToRecord(e, key[e]).id > lastKey /\ ToRecord(e, key[e]).id <= lastKey'
             /\ ToRecord(e, key[e]).what = e.what /\ ToRecord(e, key[e]).status = e.status
  <2>1. key[e] \in lastKey + 1 .. lastKey + n /\ e.what \in Activities /\ e.status \in Statuses
    BY <1>2 DEF Entry
  <2>2. key[e] \in 1 .. MaxKey /\ key[e] > lastKey /\ key[e] <= lastKey'
    BY <1>0, <1>1, <2>1
  <2>3. QED
    BY <2>1, <2>2 DEF ToRecord, Record
<1>4. \A e, f \in entries : key[e] = key[f] => ToRecord(e, key[e]) = ToRecord(f, key[f])
  BY <1>2
<1>5. db' \in SUBSET Record /\ db \subseteq db'
  BY <1>0, <1>2, <1>3
<1>6. lastKey' \in 0 .. MaxKey /\ lastKey <= lastKey'
  BY <1>0, <1>1
<1>7. What(db') = What(db) \cup What(entries)
  BY <1>2, <1>3 DEF What
<1>8. \A r \in db' :
        r \in db \/ (/\ r.id > lastKey /\ r.id <= lastKey'
                     /\ \E e \in entries : r.what = e.what /\ r.status = e.status)
  BY <1>2, <1>3
<1>9. \A r, s \in db' : r.id = s.id => r = s \/ r \in db \/ s \in db
  BY <1>2, <1>3, <1>4
<1>10. QED
  BY <1>5, <1>6, <1>7, <1>8, <1>9

\* What update and markSynced do.
LEMMA StatusShape ==
  ASSUME DbTypeOK, NEW ids, NEW status \in Statuses
  PROVE  /\ WithDbStatus(ids, status) \in SUBSET Record
         /\ What(WithDbStatus(ids, status)) = What(db)
         /\ \A r \in WithDbStatus(ids, status) : \E q \in db :
              /\ r.id = q.id /\ r.what = q.what
              /\ IF q.id \in ids THEN r = ToRecord([q EXCEPT !.status = status], q.id) /\ r.status = status
                                 ELSE r = q
<1> DEFINE New(q) == IF q.id \in ids THEN ToRecord([q EXCEPT !.status = status], q.id) ELSE q
<1>1. ASSUME NEW q \in db
      PROVE  /\ New(q) \in Record
             /\ New(q).id = q.id /\ New(q).what = q.what
             /\ q.id \in ids => New(q).status = status
  <2>1. q.id \in 1 .. MaxKey /\ q.what \in Activities /\ q \in Record
    BY DEF DbTypeOK, Record
  <2>2. [q EXCEPT !.status = status].what = q.what /\ [q EXCEPT !.status = status].status = status
    BY <2>1 DEF Record
  <2>3. QED
    BY <2>1, <2>2 DEF ToRecord, Record
<1>2. WithDbStatus(ids, status) = {New(q) : q \in db}
  BY DEF WithDbStatus
<1>3. WithDbStatus(ids, status) \in SUBSET Record
  BY <1>1, <1>2
<1>4. What(WithDbStatus(ids, status)) = What(db)
  <2> HIDE DEF New
  <2>1. QED
    BY <1>1, <1>2 DEF What
<1>5. ASSUME NEW r \in WithDbStatus(ids, status)
      PROVE  \E q \in db :
              /\ r.id = q.id /\ r.what = q.what
              /\ IF q.id \in ids THEN r = ToRecord([q EXCEPT !.status = status], q.id) /\ r.status = status
                                 ELSE r = q
  <2>1. PICK q \in db : r = New(q)
    BY <1>2
  <2>2. QED
    BY <1>1, <2>1
<1>6. QED
  BY <1>3, <1>4, <1>5

\* Where a tab is shows what it holds.
LEMMA TabShape ==
  ASSUME DbTypeOK, NEW t \in Tabs
  PROVE  /\ tab[t] \in Migrating <=> tab[t].stage \in {"inserting", "inserted"}
         /\ tab[t] \in Working <=> tab[t].stage \in {"marking", "pruning"}
         /\ tab[t] \in Migrating => tab[t].entries \in SUBSET Entry
         /\ tab[t] \in Working => tab[t].ids \in SUBSET (1 .. MaxKey)
         /\ ~(tab[t] \in Migrating /\ tab[t] \in Working)
BY DEF DbTypeOK, Closed, Ready, Migrating, Working

\* Stages without contents.
LEMMA IdleShape ==
  /\ Closed.stage = "closed" /\ Ready.stage = "ready"
  /\ \A x \in {Closed, Ready} : x \notin Migrating /\ x \notin Working
BY DEF Closed, Ready, Migrating, Working

LEMMA WhatMonotone ==
  /\ \A a, b : a \subseteq b => What(a) \subseteq What(b)
  /\ \A a, b : What(a \cup b) = What(a) \cup What(b)
  /\ \A a \in SUBSET Entry : What(a) \subseteq Activities
  /\ \A a \in SUBSET Record : What(a) \subseteq Activities
  /\ What({}) = {}
BY DEF What, Entry, Record

LEMMA DbInitInv == DbInit => MarkedInv
<1> SUFFICES ASSUME DbInit
             PROVE  MarkedInv
  OBVIOUS
<1>1. PICK old \in SUBSET Activities : \E done \in {{}, old} :
        /\ saved = {[what |-> a, status |-> IF a \in done THEN "synced" ELSE "pending"] : a \in old}
        /\ sent = done
  BY DEF DbInit
<1>2. saved \in SUBSET Entry /\ sent \in SUBSET Activities /\ SentAll(saved)
  BY <1>1 DEF Entry, Statuses, SentAll
<1>3. DbTypeOK
  <2>1. /\ db = {} /\ lastKey = 0 /\ backup = {} /\ migrated = FALSE /\ mem = saved
        /\ tab = [t \in Tabs |-> Closed]
        /\ entrusted = {} /\ deleted = {} /\ repeats = 0 /\ overlapped = FALSE
    BY DEF DbInit
  <2>2. lastKey \in 0 .. MaxKey /\ repeats \in 0 .. MaxRepeats
    BY <2>1, DatabaseAssumption
  <2>3. QED
    BY <1>2, <2>1, <2>2 DEF DbTypeOK
<1>4. KeysInv
  BY IdleShape DEF DbInit, KeysInv
<1>5. SentInv
  BY <1>2, IdleShape DEF DbInit, SentInv, SentAll
<1>6. QED
  BY <1>3, <1>4, <1>5 DEF MarkedInv

LEMMA OnceMore == DbTypeOK /\ Repeated(1) => repeats' \in 0 .. MaxRepeats
BY DatabaseAssumption DEF DbTypeOK, Repeated

-----------------------------------------------------------------------------
\* Each step keeps the types.
LEMMA LegacyTyped ==
  ASSUME DbTypeOK, LegacyStep
  PROVE  DbTypeOK'
<1> USE DEF SavesLegacy, history
<1>1. ASSUME NEW a \in Activities, LegacyLog(a)
      PROVE  DbTypeOK'
  <2>1. [what |-> a, status |-> "pending"] \in Entry
    BY DEF Entry, Statuses
  <2>2. QED
    BY <1>1, <2>1 DEF LegacyLog, DbTypeOK
<1>2. ASSUME NEW gone \in SUBSET mem, LegacyDelete(gone)
      PROVE  DbTypeOK'
  <2>1. What(gone) \subseteq Activities
    BY WhatMonotone DEF DbTypeOK
  <2>2. QED
    BY <1>2, <2>1 DEF LegacyDelete, DbTypeOK
<1>3. CASE LegacyLoad \/ DeleteBackup
  BY <1>3 DEF LegacyLoad, DeleteBackup, DbTypeOK
<1>4. CASE RollbackMigration \/ ClearMigrationStatus
  <2>1. repeats' \in 0 .. MaxRepeats
    BY <1>4, OnceMore DEF RollbackMigration, ClearMigrationStatus
  <2>2. QED
    BY <1>4, <2>1 DEF RollbackMigration, ClearMigrationStatus, DbTypeOK
<1>5. QED
  BY <1>1, <1>2, <1>3, <1>4 DEF LegacyStep

LEMMA BeginTyped ==
  ASSUME DbTypeOK, NEW t \in Tabs, NEW force \in BOOLEAN, Begin(t, force)
  PROVE  DbTypeOK'
<1>1. CASE saved = {}
  BY <1>1 DEF Begin, DbTypeOK
<1>2. CASE saved # {}
  <2>1. [stage |-> "inserting", entries |-> saved] \in Migrating /\ What(saved) \subseteq Activities
    BY WhatMonotone DEF DbTypeOK, Migrating
  <2>2. repeats' \in 0 .. MaxRepeats
    BY <1>2, DatabaseAssumption DEF Begin, Repeated, DbTypeOK
  <2>3. QED
    BY <1>2, <2>1, <2>2 DEF Begin, DbTypeOK
<1>3. QED
  BY <1>1, <1>2

LEMMA MigrationTyped ==
  ASSUME DbTypeOK, NEW t \in Tabs, MigrationStep(t)
  PROVE  DbTypeOK'
<1> USE DEF history
<1>1. CASE Open(t) \/ ForceMigration(t)
  BY <1>1, BeginTyped DEF Open, ForceMigration
<1>2. CASE BackupRefused(t) \/ (\E autoMigrate \in BOOLEAN : OpenMigrated(t, autoMigrate)) \/ InsertFails(t)
  BY <1>2 DEF BackupRefused, OpenMigrated, InsertFails, AfterFailure, DbTypeOK
<1>3. CASE Inserted(t)
  <2>1. tab[t].entries \in SUBSET Entry /\ [tab[t] EXCEPT !.stage = "inserted"] \in Migrating
    BY <1>3 DEF Inserted, Migrating
  <2>2. tab' = [tab EXCEPT ![t] = [tab[t] EXCEPT !.stage = "inserted"]]
    BY <1>3 DEF Inserted
  <2>3. db' \in SUBSET Record /\ lastKey' \in 0 .. MaxKey
    BY <1>3, <2>1, AddsShape DEF Inserted
  <2>4. QED
    BY <1>3, <2>1, <2>2, <2>3 DEF Inserted, DbTypeOK
<1>4. CASE FinishMigration(t)
  <2>1. repeats' \in 0 .. MaxRepeats
    BY <1>4, OnceMore DEF FinishMigration, DbTypeOK
  <2>2. saved' \in SUBSET Entry /\ migrated' \in BOOLEAN
    BY <1>4 DEF FinishMigration, DbTypeOK
  <2>3. QED
    BY <1>4, <2>1, <2>2 DEF FinishMigration, DbTypeOK
<1>5. CASE CloseTab(t)
  <2>1. repeats' \in 0 .. MaxRepeats
    BY <1>5, OnceMore DEF CloseTab, DbTypeOK
  <2>2. QED
    BY <1>5, <2>1 DEF CloseTab, DbTypeOK
<1>6. QED
  BY <1>1, <1>2, <1>3, <1>4, <1>5 DEF MigrationStep

LEMMA RemovesTyped ==
  ASSUME DbTypeOK, NEW gone \in SUBSET db, Removes(gone), tab' \in [Tabs -> {Closed, Ready} \cup Migrating \cup Working]
  PROVE  DbTypeOK'
<1>1. What(gone) \subseteq Activities
  BY WhatMonotone DEF DbTypeOK
<1>2. QED
  BY <1>1 DEF Removes, DbTypeOK

LEMMA AsyncTyped ==
  ASSUME DbTypeOK, NEW t \in Tabs, AsyncStep(t)
  PROVE  DbTypeOK'
<1> USE DEF history
<1>1. ASSUME NEW a \in Activities, LogAsync(t, a)
      PROVE  DbTypeOK'
  <2>1. {[what |-> a, status |-> "pending"]} \in SUBSET Entry
    BY DEF Entry, Statuses
  <2>2. db' \in SUBSET Record /\ lastKey' \in 0 .. MaxKey
    BY <1>1, <2>1, AddsShape DEF LogAsync
  <2>3. QED
    BY <1>1, <2>2 DEF LogAsync, DbTypeOK
<1>2. ASSUME NEW gone \in SUBSET db, Removes(gone), UNCHANGED tab
      PROVE  DbTypeOK'
  BY <1>2, RemovesTyped DEF DbTypeOK
<1>3. ASSUME NEW r \in db, NEW s \in AppStatuses, UpdateSyncStatusAsync(t, r, s)
      PROVE  DbTypeOK'
  <2>1. s \in Statuses
    BY DatabaseAssumption DEF Statuses
  <2>2. db' \in SUBSET Record
    BY <1>3, <2>1, StatusShape DEF UpdateSyncStatusAsync
  <2>3. QED
    BY <1>3, <2>2 DEF UpdateSyncStatusAsync, DbTypeOK
<1>4. CASE GetPendingSyncAsync(t)
  <2>1. What(GetPendingSync) \subseteq Activities
    BY WhatMonotone DEF DbTypeOK, GetPendingSync
  <2>2. [stage |-> "marking", ids |-> {r.id : r \in GetPendingSync}] \in Working
    BY DEF DbTypeOK, GetPendingSync, Record, Working
  <2>3. QED
    BY <1>4, <2>1, <2>2 DEF GetPendingSyncAsync, DbTypeOK
<1>5. CASE MarkSyncedAsync(t)
  <2>1. db' \in SUBSET Record
    BY <1>5, StatusShape DEF MarkSyncedAsync, Statuses
  <2>2. QED
    BY <1>5, <2>1 DEF MarkSyncedAsync, DbTypeOK
<1>6. ASSUME NEW cutoff, ReadSyncedOlderThan(t, cutoff)
      PROVE  DbTypeOK'
  <2> DEFINE old == {r \in GetByTimeRange(0, cutoff - 1) : r.status = "synced"}
  <2>1. [stage |-> "pruning", ids |-> {r.id : r \in old}] \in Working
    BY DEF DbTypeOK, GetByTimeRange, Record, Working
  <2>2. tab' = [tab EXCEPT ![t] = [stage |-> "pruning", ids |-> {r.id : r \in old}]]
    BY <1>6, Zenon DEF ReadSyncedOlderThan
  <2> HIDE DEF old
  <2>3. QED
    BY <1>6, <2>1, <2>2 DEF ReadSyncedOlderThan, DbTypeOK
<1>7. CASE DeleteSyncedOlderThan(t)
  BY <1>7, RemovesTyped DEF DeleteSyncedOlderThan, DbTypeOK
<1>8. CASE ClearAsync(t)
  <2>1. What(db) \subseteq Activities
    BY WhatMonotone DEF DbTypeOK
  <2>2. QED
    BY <1>8, <2>1 DEF ClearAsync, KeyAfterClear, DbTypeOK
<1>9. CASE ImportAsync(t)
  <2>1. Imported \in SUBSET Entry /\ Cardinality(Imported) \in Nat
    BY EntriesFinite DEF Imported, DbTypeOK
  <2>2. db' \in SUBSET Record /\ lastKey' \in 0 .. MaxKey
    BY <1>9, <2>1, AddsShape DEF ImportAsync
  <2>3. repeats' \in 0 .. MaxRepeats
    BY <1>9, <2>1, DatabaseAssumption DEF ImportAsync, Repeated, DbTypeOK
  <2>4. QED
    BY <1>9, <2>2, <2>3 DEF ImportAsync, DbTypeOK
<1>10. ASSUME NEW r \in db, DeleteAsync(t, r)
       PROVE  DbTypeOK'
  BY <1>2, <1>10 DEF DeleteAsync
<1>11. ASSUME NEW a \in Activities, ClearAgentAsync(t, Agent[a]) \/ DeleteOlderThanAsync(t, At[a] + 1)
       PROVE  DbTypeOK'
  BY <1>2, <1>11 DEF ClearAgentAsync, DeleteOlderThanAsync, GetByAgent, GetByTimeRange
<1>12. QED
  BY <1>1, <1>3, <1>4, <1>5, <1>6, <1>7, <1>8, <1>9, <1>10, <1>11 DEF AsyncStep

LEMMA DbStepTyped == DbTypeOK /\ [DatabaseStep]_dbVars => DbTypeOK'
<1>1. ASSUME DbTypeOK, UNCHANGED dbVars
      PROVE  DbTypeOK'
  BY <1>1 DEF dbVars, DbTypeOK
<1>2. QED
  BY <1>1, LegacyTyped, MigrationTyped, AsyncTyped DEF DatabaseStep

-----------------------------------------------------------------------------
\* What a step may do to a record, for what is marked to have been sent: keep it
\* with its key, mark it if it was sent, or add it under a new key.
OldRecord(r, q) ==
  r.id = q.id /\ r.what = q.what /\ (r.status = q.status \/ (r.status = "synced" => r.what \in sent'))
NewRecord(r) == r.id > lastKey /\ r.id <= lastKey' /\ (r.status = "synced" => r.what \in sent')

\* And to a tab: leave it, make it idle, or give it entries or keys that will do.
MayHold(u) ==
  \/ tab'[u] = tab[u]
  \/ tab'[u] \notin Migrating \cup Working
  \/ /\ tab'[u] \in Migrating
     /\ \A e \in tab'[u].entries : e.status = "synced" => e.what \in sent'
  \/ /\ tab'[u] \in Working
     /\ \A i \in tab'[u].ids : i <= lastKey'
     /\ tab'[u].stage = "marking" => \A r \in db' : r.id \in tab'[u].ids => r.what \in sent'

LEMMA MarkedStep ==
  ASSUME MarkedInv, DbTypeOK',
         sent \subseteq sent', lastKey <= lastKey',
         \A r \in db' : (\E q \in db : OldRecord(r, q)) \/ NewRecord(r),
         \A r, s \in db' : r.id = s.id => r = s,
         SentAll(saved)', SentAll(backup)', SentAll(mem)',
         \A u \in Tabs : MayHold(u)
  PROVE  MarkedInv'
<1>0. DbTypeOK /\ KeysInv /\ SentInv
  BY DEF MarkedInv
<1>1. lastKey \in Nat /\ lastKey' \in Nat /\ \A r \in db \cup db' : r.id \in Nat
  BY <1>0, DatabaseAssumption DEF DbTypeOK, Record
<1>2. \A r \in db' : r.id <= lastKey'
  BY <1>0, <1>1 DEF KeysInv, OldRecord, NewRecord
<1>3. ASSUME NEW u \in Tabs, tab'[u] \in Working
      PROVE  \A i \in tab'[u].ids : i <= lastKey'
  <2>1. CASE tab'[u] = tab[u]
    <3>1. tab[u].ids \subseteq Nat /\ \A i \in tab[u].ids : i <= lastKey
      BY <1>0, <1>3, <2>1, TabShape, DatabaseAssumption DEF KeysInv
    <3>2. QED
      BY <1>1, <2>1, <3>1
  <2>2. CASE tab'[u] # tab[u]
    <3>1. ~(tab'[u] \in Migrating)
      BY <1>3 DEF Migrating, Working
    <3>2. QED
      BY <1>3, <2>2, <3>1 DEF MayHold
  <2>3. QED
    BY <2>1, <2>2
<1>4. KeysInv'
  BY <1>2, <1>3 DEF KeysInv
<1>5. SentAll(db)'
  BY <1>0 DEF SentInv, SentAll, OldRecord, NewRecord
<1>6. ASSUME NEW u \in Tabs, tab'[u] \in Migrating
      PROVE  SentAll(tab[u].entries)'
  BY <1>0, <1>6 DEF MayHold, SentInv, SentAll, Migrating, Working
<1>7. ASSUME NEW u \in Tabs, tab'[u] \in Working, tab'[u].stage = "marking", NEW r \in db', r.id \in tab'[u].ids
      PROVE  r.what \in sent'
  <2>1. CASE tab'[u] = tab[u]
    <3>1. r.id <= lastKey
      BY <1>0, <1>7, <2>1 DEF KeysInv
    <3>2. ~NewRecord(r)
      BY <1>1, <3>1 DEF NewRecord
    <3>3. QED
      BY <1>0, <1>7, <2>1, <3>2 DEF SentInv, OldRecord
  <2>2. CASE tab'[u] # tab[u]
    <3>1. ~(tab'[u] \in Migrating)
      BY <1>7 DEF Migrating, Working
    <3>2. QED
      BY <1>7, <2>2, <3>1 DEF MayHold
  <2>3. QED
    BY <2>1, <2>2
<1>8. SentInv'
  BY <1>5, <1>6, <1>7 DEF SentInv
<1>9. QED
  BY <1>4, <1>8 DEF MarkedInv

\* Steps that leave the table and what was sent.
LEMMA MarkedFrame ==
  ASSUME MarkedInv, DbTypeOK', UNCHANGED <<db, lastKey, sent>>,
         SentAll(saved)', SentAll(backup)', SentAll(mem)',
         \A u \in Tabs : MayHold(u)
  PROVE  MarkedInv'
<1>1. lastKey <= lastKey'
  BY DatabaseAssumption DEF MarkedInv, DbTypeOK
<1>2. \A r \in db' : \E q \in db : OldRecord(r, q)
  BY DEF OldRecord
<1>3. \A r, s \in db' : r.id = s.id => r = s
  BY DEF MarkedInv, KeysInv
<1>4. QED
  BY <1>1, <1>2, <1>3, MarkedStep

\* Entries that were sent, if they say so, are added.
LEMMA MarkedAdds ==
  ASSUME MarkedInv, DbTypeOK', NEW entries \in SUBSET Entry, SentAll(entries), Adds(entries),
         UNCHANGED <<saved, backup, mem, sent>>,
         \A u \in Tabs : tab'[u] = tab[u] \/ (tab[u] \in Migrating /\ tab'[u] = [tab[u] EXCEPT !.stage = "inserted"])
  PROVE  MarkedInv'
<1>0. DbTypeOK /\ KeysInv /\ SentInv
  BY DEF MarkedInv
<1>1. /\ lastKey <= lastKey'
      /\ \A r \in db' :
              r \in db \/ (/\ r.id > lastKey /\ r.id <= lastKey'
                           /\ \E e \in entries : r.what = e.what /\ r.status = e.status)
      /\ \A r, s \in db' : r.id = s.id => r = s \/ r \in db \/ s \in db
  BY <1>0, AddsShape
<1>2. \A r \in db' : (\E q \in db : OldRecord(r, q)) \/ NewRecord(r)
  BY <1>1 DEF OldRecord, NewRecord, SentAll
<1>3. ASSUME NEW r \in db', NEW s \in db', r.id = s.id
      PROVE  r = s
  <2>1. lastKey \in Nat /\ r.id \in Nat /\ s.id \in Nat
    BY <1>0, DatabaseAssumption DEF DbTypeOK, Record
  <2>2. CASE r \in db /\ s \in db
    BY <1>0, <1>3, <2>2 DEF KeysInv
  <2>3. CASE r \notin db /\ s \notin db
    BY <1>1, <1>3, <2>3
  <2>4. CASE r \in db /\ s \notin db
    BY <1>0, <1>1, <1>3, <2>1, <2>4 DEF KeysInv
  <2>5. CASE r \notin db /\ s \in db
    BY <1>0, <1>1, <1>3, <2>1, <2>5 DEF KeysInv
  <2>6. QED
    BY <2>2, <2>3, <2>4, <2>5
<1>4. ASSUME NEW u \in Tabs, tab[u] \in Migrating, tab'[u] = [tab[u] EXCEPT !.stage = "inserted"]
      PROVE  tab'[u] \in Migrating /\ \A e \in tab'[u].entries : e.status = "synced" => e.what \in sent'
  BY <1>0, <1>4 DEF SentInv, SentAll, Migrating
<1>5. \A u \in Tabs : MayHold(u)
  BY <1>4 DEF MayHold
<1>6. SentAll(saved)' /\ SentAll(backup)' /\ SentAll(mem)'
  BY <1>0 DEF SentInv, SentAll
<1>7. QED
  BY <1>1, <1>2, <1>3, <1>5, <1>6, MarkedStep

\* Records are marked, or given a status by the application.
LEMMA MarkedStatus ==
  ASSUME MarkedInv, DbTypeOK', NEW ids, NEW status \in Statuses, db' = WithDbStatus(ids, status),
         status = "synced" => \A r \in db : r.id \in ids => r.what \in sent,
         UNCHANGED <<lastKey, saved, backup, mem, sent>>,
         \A u \in Tabs : tab'[u] = tab[u] \/ tab'[u] = Ready
  PROVE  MarkedInv'
<1>0. DbTypeOK /\ KeysInv /\ SentInv
  BY DEF MarkedInv
<1>1. \A r \in db' : \E q \in db :
        /\ r.id = q.id /\ r.what = q.what
        /\ IF q.id \in ids THEN r = ToRecord([q EXCEPT !.status = status], q.id) /\ r.status = status
                           ELSE r = q
  BY <1>0, StatusShape
<1>2. \A r \in db' : \E q \in db : OldRecord(r, q)
  BY <1>1 DEF OldRecord
<1>3. ASSUME NEW r \in db', NEW s \in db', r.id = s.id
      PROVE  r = s
  <2>1. PICK q \in db :
          r.id = q.id /\ IF q.id \in ids THEN r = ToRecord([q EXCEPT !.status = status], q.id) ELSE r = q
    BY <1>1
  <2>2. PICK p \in db :
          s.id = p.id /\ IF p.id \in ids THEN s = ToRecord([p EXCEPT !.status = status], p.id) ELSE s = p
    BY <1>1
  <2>3. q = p
    BY <1>0, <1>3, <2>1, <2>2 DEF KeysInv
  <2>4. QED
    BY <2>1, <2>2, <2>3
<1>4. lastKey <= lastKey'
  BY <1>0, DatabaseAssumption DEF DbTypeOK
<1>5. \A u \in Tabs : MayHold(u)
  BY IdleShape DEF MayHold
<1>6. SentAll(saved)' /\ SentAll(backup)' /\ SentAll(mem)'
  BY <1>0 DEF SentInv, SentAll
<1>7. QED
  BY <1>2, <1>3, <1>4, <1>5, <1>6, MarkedStep

\* Records are removed.
LEMMA MarkedRemoves ==
  ASSUME MarkedInv, DbTypeOK', db' \subseteq db, UNCHANGED <<lastKey, saved, backup, mem, sent>>,
         \A u \in Tabs : tab'[u] = tab[u] \/ tab'[u] = Ready
  PROVE  MarkedInv'
<1>0. DbTypeOK /\ KeysInv /\ SentInv
  BY DEF MarkedInv
<1>1. \A r \in db' : \E q \in db : OldRecord(r, q)
  BY DEF OldRecord
<1>2. \A r, s \in db' : r.id = s.id => r = s
  BY <1>0 DEF KeysInv
<1>3. lastKey <= lastKey'
  BY <1>0, DatabaseAssumption DEF DbTypeOK
<1>4. \A u \in Tabs : MayHold(u)
  BY IdleShape DEF MayHold
<1>5. SentAll(saved)' /\ SentAll(backup)' /\ SentAll(mem)'
  BY <1>0 DEF SentInv, SentAll
<1>6. QED
  BY <1>1, <1>2, <1>3, <1>4, <1>5, MarkedStep

LEMMA LegacyMarked ==
  ASSUME MarkedInv, LegacyStep
  PROVE  MarkedInv'
<1>0. DbTypeOK /\ KeysInv /\ SentInv /\ DbTypeOK'
  BY LegacyTyped DEF MarkedInv
<1>1. UNCHANGED <<db, lastKey, sent, tab>>
  BY DEF LegacyStep, LegacyLog, LegacyDelete, LegacyLoad, RollbackMigration, ClearMigrationStatus,
     DeleteBackup, history
<1>2. SentAll(saved)' /\ SentAll(backup)' /\ SentAll(mem)'
  <2> USE DEF SentInv, SentAll, SavesLegacy
  <2>1. ASSUME NEW a \in Activities, LegacyLog(a)
        PROVE  SentAll(saved)' /\ SentAll(backup)' /\ SentAll(mem)'
    BY <1>0, <1>1, <2>1 DEF LegacyLog
  <2>2. ASSUME NEW gone \in SUBSET mem, LegacyDelete(gone)
        PROVE  SentAll(saved)' /\ SentAll(backup)' /\ SentAll(mem)'
    BY <1>0, <1>1, <2>2 DEF LegacyDelete
  <2>3. CASE LegacyLoad \/ RollbackMigration \/ ClearMigrationStatus \/ DeleteBackup
    BY <1>0, <1>1, <2>3 DEF LegacyLoad, RollbackMigration, ClearMigrationStatus, DeleteBackup
  <2>4. QED
    BY <2>1, <2>2, <2>3 DEF LegacyStep
<1>3. \A u \in Tabs : MayHold(u)
  BY <1>1 DEF MayHold
<1>4. QED
  BY <1>0, <1>1, <1>2, <1>3, MarkedFrame

LEMMA MigrationMarked ==
  ASSUME MarkedInv, NEW t \in Tabs, MigrationStep(t)
  PROVE  MarkedInv'
<1>0. /\ DbTypeOK /\ KeysInv /\ SentInv /\ DbTypeOK'
      /\ SentAll(saved) /\ SentAll(backup) /\ SentAll(mem)
      /\ tab \in [Tabs -> {Closed, Ready} \cup Migrating \cup Working]
  BY MigrationTyped DEF MarkedInv, SentInv, DbTypeOK
<1>1. ASSUME NEW force \in BOOLEAN, Begin(t, force)
      PROVE  MarkedInv'
  <2>1. UNCHANGED <<db, lastKey, saved, mem, sent>>
    BY <1>1 DEF Begin
  <2>2. SentAll(saved)' /\ SentAll(mem)' /\ SentAll(backup)'
    BY <1>0, <1>1, <2>1 DEF Begin, SentAll
  <2>3. ASSUME NEW u \in Tabs
        PROVE  MayHold(u)
    <3>1. CASE saved = {}
      BY <1>0, <1>1, <3>1, IdleShape DEF Begin, MayHold
    <3>2. CASE saved # {}
      <4> DEFINE new == [stage |-> "inserting", entries |-> saved]
      <4>1. new \in Migrating /\ new.entries = saved
        BY <1>0 DEF DbTypeOK, Migrating
      <4>2. tab' = [tab EXCEPT ![t] = new]
        BY <1>1, <3>2 DEF Begin
      <4> HIDE DEF new
      <4>3. QED
        BY <1>0, <2>1, <4>1, <4>2 DEF MayHold, SentAll
    <3>3. QED
      BY <3>1, <3>2
  <2>4. QED
    BY <1>0, <2>1, <2>2, <2>3, MarkedFrame
<1>2. ASSUME UNCHANGED <<db, lastKey, backup, mem, sent>>, saved' \in {saved, {}},
             tab' \in {[tab EXCEPT ![t] = Ready], [tab EXCEPT ![t] = Closed]}
      PROVE  MarkedInv'
  <2>1. SentAll(saved)' /\ SentAll(backup)' /\ SentAll(mem)'
    BY <1>0, <1>2 DEF SentAll
  <2>2. \A u \in Tabs : MayHold(u)
    BY <1>0, <1>2, IdleShape DEF MayHold
  <2>3. QED
    BY <1>0, <1>2, <2>1, <2>2, MarkedFrame
<1>3. CASE Inserted(t)
  <2>1. tab[t] \in Migrating /\ tab[t].entries \in SUBSET Entry /\ SentAll(tab[t].entries)
    BY <1>0, <1>3 DEF Inserted, Migrating, SentInv
  <2>2. tab' = [tab EXCEPT ![t] = [tab[t] EXCEPT !.stage = "inserted"]]
    BY <1>3 DEF Inserted
  <2>3. QED
    BY <1>0, <1>3, <2>1, <2>2, MarkedAdds DEF Inserted, history
<1>4. QED
  BY <1>1, <1>2, <1>3 DEF MigrationStep, Open, ForceMigration, BackupRefused, OpenMigrated,
     InsertFails, AfterFailure, FinishMigration, CloseTab, history

LEMMA AsyncMarked ==
  ASSUME MarkedInv, NEW t \in Tabs, AsyncStep(t)
  PROVE  MarkedInv'
<1>0. /\ DbTypeOK /\ KeysInv /\ SentInv /\ DbTypeOK'
      /\ tab \in [Tabs -> {Closed, Ready} \cup Migrating \cup Working]
  BY AsyncTyped DEF MarkedInv, DbTypeOK
<1> USE DEF history
<1>1. ASSUME NEW a \in Activities, LogAsync(t, a)
      PROVE  MarkedInv'
  <2>1. {[what |-> a, status |-> "pending"]} \in SUBSET Entry /\ SentAll({[what |-> a, status |-> "pending"]})
    BY DEF Entry, Statuses, SentAll
  <2>2. QED
    BY <1>0, <1>1, <2>1, MarkedAdds DEF LogAsync
<1>2. ASSUME db' \subseteq db, UNCHANGED <<lastKey, saved, backup, mem, sent>>,
             tab' = tab \/ tab' = [tab EXCEPT ![t] = Ready]
      PROVE  MarkedInv'
  BY <1>0, <1>2, MarkedRemoves
<1>3. ASSUME NEW r \in db, NEW s \in AppStatuses, UpdateSyncStatusAsync(t, r, s)
      PROVE  MarkedInv'
  <2>1. s \in Statuses /\ s # "synced"
    BY DatabaseAssumption DEF Statuses
  <2>2. QED
    BY <1>0, <1>3, <2>1, MarkedStatus DEF UpdateSyncStatusAsync
<1>4. CASE GetPendingSyncAsync(t)
  <2> DEFINE keys == {r.id : r \in GetPendingSync}
  <2>1. /\ UNCHANGED <<db, lastKey, saved, backup, mem>> /\ sent' = sent \cup What(GetPendingSync)
        /\ tab' = [tab EXCEPT ![t] = [stage |-> "marking", ids |-> keys]]
    BY <1>4 DEF GetPendingSyncAsync
  <2>2. [stage |-> "marking", ids |-> keys] \in Working
    BY <1>0 DEF DbTypeOK, GetPendingSync, Record, Working
  <2>3. \A i \in keys : i <= lastKey
    BY <1>0 DEF KeysInv, GetPendingSync
  <2>4. ASSUME NEW r \in db, r.id \in keys
        PROVE  r.what \in sent'
    <3>1. PICK q \in GetPendingSync : q.id = r.id
      BY <2>4
    <3>2. q = r
      BY <1>0, <3>1 DEF GetPendingSync, KeysInv
    <3>3. QED
      BY <2>1, <3>1, <3>2 DEF What
  <2> HIDE DEF keys
  <2>5. \A u \in Tabs : MayHold(u)
    BY <1>0, <2>1, <2>2, <2>3, <2>4 DEF MayHold
  <2>6. SentAll(saved)' /\ SentAll(backup)' /\ SentAll(mem)'
    BY <1>0, <2>1 DEF SentInv, SentAll
  <2>7. /\ \A r \in db' : \E q \in db : OldRecord(r, q)
        /\ \A r, s \in db' : r.id = s.id => r = s
        /\ lastKey <= lastKey'
    BY <1>0, <2>1, DatabaseAssumption DEF OldRecord, KeysInv, DbTypeOK
  <2>8. QED
    BY <1>0, <2>1, <2>5, <2>6, <2>7, MarkedStep
<1>5. CASE MarkSyncedAsync(t)
  <2>1. \A r \in db : r.id \in tab[t].ids => r.what \in sent
    BY <1>0, <1>5 DEF MarkSyncedAsync, SentInv
  <2>2. "synced" \in Statuses
    BY DEF Statuses
  <2>3. QED
    BY <1>0, <1>5, <2>1, <2>2, MarkedStatus DEF MarkSyncedAsync
<1>6. ASSUME NEW cutoff, ReadSyncedOlderThan(t, cutoff)
      PROVE  MarkedInv'
  <2> DEFINE old == {r \in GetByTimeRange(0, cutoff - 1) : r.status = "synced"}
             keys == {r.id : r \in old}
  <2>1. [stage |-> "pruning", ids |-> keys] \in Working /\ \A i \in keys : i <= lastKey
    BY <1>0 DEF DbTypeOK, KeysInv, GetByTimeRange, Record, Working
  <2>2. tab' = [tab EXCEPT ![t] = [stage |-> "pruning", ids |-> keys]]
    BY <1>6, Zenon DEF ReadSyncedOlderThan
  <2>3. UNCHANGED <<db, lastKey, saved, backup, mem, sent>>
    BY <1>6 DEF ReadSyncedOlderThan
  <2> HIDE DEF keys
  <2>4. \A u \in Tabs : MayHold(u)
    BY <1>0, <2>1, <2>2, <2>3 DEF MayHold
  <2>5. SentAll(saved)' /\ SentAll(backup)' /\ SentAll(mem)'
    BY <1>0, <2>3 DEF SentInv, SentAll
  <2>6. QED
    BY <1>0, <2>3, <2>4, <2>5, MarkedFrame
<1>7. CASE DeleteSyncedOlderThan(t)
  BY <1>2, <1>7 DEF DeleteSyncedOlderThan, Removes
<1>8. CASE ClearAsync(t)
  BY <1>2, <1>8 DEF ClearAsync, KeyAfterClear
<1>9. CASE ImportAsync(t)
  <2>1. Imported \in SUBSET Entry /\ SentAll(Imported)
    BY <1>0 DEF Imported, DbTypeOK, SentInv, SentAll
  <2>2. QED
    BY <1>0, <1>9, <2>1, MarkedAdds DEF ImportAsync
<1>10. ASSUME NEW gone \in SUBSET db, Removes(gone), UNCHANGED tab
       PROVE  MarkedInv'
  BY <1>2, <1>10 DEF Removes
<1>11. ASSUME NEW r \in db, DeleteAsync(t, r)
       PROVE  MarkedInv'
  BY <1>10, <1>11 DEF DeleteAsync
<1>12. ASSUME NEW a \in Activities, ClearAgentAsync(t, Agent[a]) \/ DeleteOlderThanAsync(t, At[a] + 1)
       PROVE  MarkedInv'
  BY <1>10, <1>12 DEF ClearAgentAsync, DeleteOlderThanAsync, GetByAgent, GetByTimeRange
<1>13. QED
  BY <1>1, <1>3, <1>4, <1>5, <1>6, <1>7, <1>8, <1>9, <1>11, <1>12 DEF AsyncStep

LEMMA DbMarked == MarkedInv /\ [DatabaseStep]_dbVars => MarkedInv'
<1>1. ASSUME MarkedInv, UNCHANGED dbVars
      PROVE  MarkedInv'
  <2>1. db' \subseteq db /\ UNCHANGED <<lastKey, saved, backup, mem, sent, tab>>
    BY <1>1 DEF dbVars
  <2>2. DbTypeOK'
    BY <1>1 DEF MarkedInv, dbVars, DbTypeOK
  <2>3. QED
    BY <1>1, <2>1, <2>2, MarkedRemoves
<1>2. QED
  BY <1>1, LegacyMarked, MigrationMarked, AsyncMarked DEF DatabaseStep

\* The variables keep their types.
THEOREM DatabaseTyped == DatabaseSpec => []DbTypeOK
<1>1. MarkedInv => DbTypeOK
  BY DEF MarkedInv
<1>2. QED
  BY DbInitInv, DbMarked, <1>1, PTL DEF DatabaseSpec

\* What is marked as synced was given to the service.
THEOREM SyncedWasSent == DatabaseSpec => []MarkedWasSent
<1>1. MarkedInv => MarkedWasSent
  BY DEF MarkedInv, SentInv, SentAll, MarkedWasSent
<1>2. QED
  BY DbInitInv, DbMarked, <1>1, PTL DEF DatabaseSpec

-----------------------------------------------------------------------------
\* What migrations have found and the application has not deleted is in the
\* database or in localStorage.  It is there, too, in the memory that localStorage
\* is written from and in the backup it is rolled back to; and once it is
\* inserted, localStorage is not needed any more.
Owed == entrusted \ deleted
Inserting(t) == IF tab[t].stage = "inserting" THEN What(tab[t].entries) ELSE {}

KeptInv ==
  /\ What(backup) \subseteq entrusted
  /\ What(saved) \subseteq What(mem) \cup entrusted
  /\ ~overlapped =>
       /\ Owed \subseteq What(db) \cup What(saved)
       /\ Owed \subseteq What(db) \cup What(mem)
       /\ backup # {} => Owed \subseteq What(db) \cup What(backup)
       /\ \A t \in Running : Owed \subseteq What(db) \cup Inserting(t)
       /\ \A t, u \in Running : t = u

DatabaseInv == MarkedInv /\ KeptInv

LEMMA KeptInit == DbInit => KeptInv
BY IdleShape, WhatMonotone DEF DbInit, KeptInv, Owed, Running

\* Steps that move things between the places only: nothing that is owed leaves the
\* database, and no migration begins or is inserted.
LEMMA KeptFrame ==
  ASSUME KeptInv, DbTypeOK,
         What(db) \subseteq What(db') \cup deleted', deleted \subseteq deleted',
         UNCHANGED <<saved, backup, mem, entrusted, overlapped>>,
         \A t \in Tabs : tab'[t] = tab[t] \/ tab'[t] \notin Migrating
  PROVE  KeptInv'
<1>1. Running' \subseteq Running /\ \A t \in Running' : tab'[t] = tab[t]
  BY DEF Running
<1>2. \A t \in Running' : Inserting(t)' = Inserting(t)
  BY <1>1 DEF Inserting
<1>3. Owed' \subseteq Owed /\ \A x \in Owed' : x \in What(db) => x \in What(db')
  BY DEF Owed
<1>4. QED
  BY <1>1, <1>2, <1>3 DEF KeptInv

LEMMA KeptLegacy ==
  ASSUME DatabaseInv, LegacyStep
  PROVE  KeptInv'
<1>0. DbTypeOK /\ KeptInv
  BY DEF DatabaseInv, MarkedInv
<1>1. UNCHANGED <<db, tab, entrusted, overlapped>>
  BY DEF LegacyStep, LegacyLog, LegacyDelete, LegacyLoad, RollbackMigration, ClearMigrationStatus,
     DeleteBackup, history
<1>2. Running' = Running /\ \A t \in Running : Inserting(t)' = Inserting(t)
  BY <1>1 DEF Running, Inserting
<1>3. ASSUME NEW a \in Activities, LegacyLog(a)
      PROVE  KeptInv'
  <2> DEFINE e == [what |-> a, status |-> "pending"]
  <2>1. mem' = mem \cup {e} /\ saved' = mem' /\ UNCHANGED <<backup, deleted>>
    BY <1>3 DEF LegacyLog, SavesLegacy, history
  <2> HIDE DEF e
  <2>2. What(mem) \subseteq What(mem') /\ What(saved') = What(mem')
    BY <2>1, WhatMonotone
  <2>3. QED
    BY <1>0, <1>1, <1>2, <2>1, <2>2 DEF KeptInv, Owed
<1>4. ASSUME NEW gone \in SUBSET mem, LegacyDelete(gone)
      PROVE  KeptInv'
  <2>1. mem' = mem \ gone /\ saved' = mem' /\ deleted' = deleted \cup What(gone) /\ UNCHANGED backup
    BY <1>4 DEF LegacyDelete, SavesLegacy
  <2>2. What(mem) = What(mem') \cup What(gone) /\ What(saved') = What(mem')
    BY <2>1, WhatMonotone DEF What
  <2>3. QED
    BY <1>0, <1>1, <1>2, <2>1, <2>2 DEF KeptInv, Owed
<1>5. CASE LegacyLoad
  BY <1>0, <1>1, <1>2, <1>5 DEF LegacyLoad, KeptInv, Owed, history
<1>6. CASE RollbackMigration
  BY <1>0, <1>1, <1>2, <1>6 DEF RollbackMigration, KeptInv, Owed
<1>7. CASE ClearMigrationStatus
  BY <1>0, <1>1, <1>2, <1>7 DEF ClearMigrationStatus, KeptInv, Owed
<1>8. CASE DeleteBackup
  BY <1>0, <1>1, <1>2, <1>8, WhatMonotone DEF DeleteBackup, KeptInv, Owed, history
<1>9. QED
  BY <1>3, <1>4, <1>5, <1>6, <1>7, <1>8 DEF LegacyStep

\* A migration that finds something is the only one, or is noted as another.
LEMMA KeptBegin ==
  ASSUME DatabaseInv, NEW t \in Tabs, NEW force \in BOOLEAN, tab[t] \notin Migrating, Begin(t, force)
  PROVE  KeptInv'
<1>0. DbTypeOK /\ KeptInv /\ tab \in [Tabs -> {Closed, Ready} \cup Migrating \cup Working]
  BY DEF DatabaseInv, MarkedInv, DbTypeOK
<1>1. UNCHANGED <<db, saved, mem, deleted>>
  BY DEF Begin
<1>2. CASE saved = {}
  BY <1>0, <1>1, <1>2, IdleShape, KeptFrame DEF Begin
<1>3. CASE saved # {}
  <2> DEFINE new == [stage |-> "inserting", entries |-> saved]
  <2>1. /\ backup' = saved /\ tab' = [tab EXCEPT ![t] = new]
        /\ entrusted' = entrusted \cup What(saved)
        /\ overlapped' = (overlapped \/ Running # {})
    BY <1>3 DEF Begin
  <2>2. new \in Migrating /\ new.stage = "inserting" /\ new.entries = saved
    BY <1>0 DEF DbTypeOK, Migrating
  <2> HIDE DEF new
  <2>3. tab'[t] = new /\ Inserting(t)' = What(saved)
    BY <1>0, <2>1, <2>2 DEF Inserting
  <2>4. ASSUME ~overlapped'
        PROVE  Running' = {t} /\ ~overlapped
    BY <1>0, <2>1, <2>2, <2>4 DEF Running
  <2>5. What(saved) \subseteq What(mem) \cup entrusted
    BY <1>0 DEF KeptInv
  <2>6. ASSUME ~overlapped'
        PROVE  /\ Owed' \subseteq What(db) \cup What(saved)
               /\ Owed' \subseteq What(db) \cup What(mem)
    BY <1>0, <1>1, <2>1, <2>4, <2>5, <2>6 DEF KeptInv, Owed
  <2>7. QED
    BY <1>0, <1>1, <2>1, <2>3, <2>4, <2>5, <2>6 DEF KeptInv
<1>4. QED
  BY <1>2, <1>3

LEMMA KeptMigration ==
  ASSUME DatabaseInv, NEW t \in Tabs, MigrationStep(t)
  PROVE  KeptInv'
<1>0. DbTypeOK /\ KeptInv /\ tab \in [Tabs -> {Closed, Ready} \cup Migrating \cup Working]
  BY DEF DatabaseInv, MarkedInv, DbTypeOK
<1>1. CASE Open(t) \/ ForceMigration(t)
  BY <1>1, IdleShape, KeptBegin DEF Open, ForceMigration
<1>2. CASE BackupRefused(t) \/ (\E autoMigrate \in BOOLEAN : OpenMigrated(t, autoMigrate))
            \/ InsertFails(t) \/ CloseTab(t)
  BY <1>0, <1>2, IdleShape, KeptFrame DEF BackupRefused, OpenMigrated, InsertFails, AfterFailure, CloseTab, history
<1>3. CASE Inserted(t)
  <2>1. /\ tab[t] \in Migrating /\ tab[t].stage = "inserting" /\ tab[t].entries \in SUBSET Entry
        /\ UNCHANGED <<saved, backup, mem, entrusted, deleted, overlapped>>
    BY <1>3 DEF Inserted, Migrating, history
  <2>2. tab' = [tab EXCEPT ![t] = [tab[t] EXCEPT !.stage = "inserted"]]
    BY <1>3 DEF Inserted
  <2>3. What(db') = What(db) \cup What(tab[t].entries)
    BY <1>0, <1>3, <2>1, AddsShape DEF Inserted
  <2>4. tab'[t] \in Migrating /\ tab'[t].stage = "inserted"
    BY <1>0, <2>1, <2>2 DEF Migrating
  <2>5. Running' = Running /\ t \in Running
    BY <1>0, <2>1, <2>2, <2>4 DEF Running
  <2>6. Inserting(t)' = {} /\ Inserting(t) = What(tab[t].entries)
    BY <2>1, <2>4 DEF Inserting
  <2>7. ASSUME ~overlapped
        PROVE  Running = {t} /\ Owed' \subseteq What(db')
    BY <1>0, <2>1, <2>3, <2>5, <2>6, <2>7 DEF KeptInv, Owed
  <2>8. QED
    BY <1>0, <2>1, <2>3, <2>5, <2>7 DEF KeptInv, Owed
<1>4. CASE FinishMigration(t)
  <2>1. /\ tab[t] \in Migrating /\ tab[t].stage = "inserted" /\ saved' \in {saved, {}}
        /\ tab' = [tab EXCEPT ![t] = Ready]
        /\ UNCHANGED <<db, backup, mem, entrusted, deleted, overlapped>>
    BY <1>4 DEF FinishMigration
  <2>2. t \in Running /\ Inserting(t) = {}
    BY <2>1 DEF Running, Inserting
  <2>3. ~overlapped => Owed \subseteq What(db)
    BY <1>0, <2>2 DEF KeptInv
  <2>4. Running' \subseteq Running /\ \A u \in Running' : Inserting(u)' = Inserting(u)
    BY <1>0, <2>1, IdleShape DEF Running, Inserting
  <2>5. What(saved') \subseteq What(saved)
    BY <2>1, WhatMonotone
  <2>6. QED
    BY <1>0, <2>1, <2>3, <2>4, <2>5 DEF KeptInv, Owed
<1>5. QED
  BY <1>1, <1>2, <1>3, <1>4 DEF MigrationStep

LEMMA KeptAsync ==
  ASSUME DatabaseInv, NEW t \in Tabs, AsyncStep(t)
  PROVE  KeptInv'
<1>0. DbTypeOK /\ KeptInv /\ tab \in [Tabs -> {Closed, Ready} \cup Migrating \cup Working]
  BY DEF DatabaseInv, MarkedInv, DbTypeOK
<1> USE DEF history
<1>1. ASSUME NEW entries \in SUBSET Entry, Adds(entries),
             UNCHANGED <<saved, backup, mem, tab, entrusted, deleted, overlapped>>
      PROVE  KeptInv'
  BY <1>0, <1>1, AddsShape, KeptFrame
<1>2. ASSUME NEW gone \in SUBSET db, db' = db \ gone, deleted' = deleted \cup What(gone),
             UNCHANGED <<saved, backup, mem, entrusted, overlapped>>,
             tab' = tab \/ tab' = [tab EXCEPT ![t] = Ready]
      PROVE  KeptInv'
  <2>1. What(db) \subseteq What(db') \cup deleted' /\ deleted \subseteq deleted'
    BY <1>2 DEF What
  <2>2. QED
    BY <1>0, <1>2, <2>1, IdleShape, KeptFrame
<1>3. ASSUME What(db') = What(db), UNCHANGED <<saved, backup, mem, entrusted, deleted, overlapped>>,
             \A u \in Tabs : tab'[u] = tab[u] \/ tab'[u] \notin Migrating
      PROVE  KeptInv'
  BY <1>0, <1>3, KeptFrame
<1>4. ASSUME NEW a \in Activities, LogAsync(t, a)
      PROVE  KeptInv'
  <2>1. {[what |-> a, status |-> "pending"]} \in SUBSET Entry
    BY DEF Entry, Statuses
  <2>2. QED
    BY <1>1, <1>4, <2>1 DEF LogAsync
<1>5. CASE ImportAsync(t)
  <2>1. Imported \in SUBSET Entry
    BY <1>0 DEF Imported, DbTypeOK
  <2>2. QED
    BY <1>1, <1>5, <2>1 DEF ImportAsync
<1>6. ASSUME NEW r \in db, NEW s \in AppStatuses, UpdateSyncStatusAsync(t, r, s)
      PROVE  KeptInv'
  <2>1. s \in Statuses
    BY DatabaseAssumption DEF Statuses
  <2>2. QED
    BY <1>0, <1>3, <1>6, <2>1, StatusShape DEF UpdateSyncStatusAsync
<1>7. CASE MarkSyncedAsync(t)
  <2>1. "synced" \in Statuses
    BY DEF Statuses
  <2>2. QED
    BY <1>0, <1>3, <1>7, <2>1, StatusShape, IdleShape DEF MarkSyncedAsync
<1>8. CASE GetPendingSyncAsync(t) \/ \E cutoff : ReadSyncedOlderThan(t, cutoff)
  <2>1. tab'[t] \notin Migrating /\ \A u \in Tabs \ {t} : tab'[u] = tab[u]
    <3>1. \E stage \in {"marking", "pruning"} : \E ids : tab' = [tab EXCEPT ![t] = [stage |-> stage, ids |-> ids]]
      BY <1>8, Zenon DEF GetPendingSyncAsync, ReadSyncedOlderThan
    <3>2. QED
      BY <1>0, <3>1 DEF Migrating
  <2>2. UNCHANGED <<db, saved, backup, mem, entrusted, deleted, overlapped>>
    BY <1>8 DEF GetPendingSyncAsync, ReadSyncedOlderThan
  <2>3. QED
    BY <1>3, <2>1, <2>2
<1>9. CASE DeleteSyncedOlderThan(t)
  BY <1>2, <1>9 DEF DeleteSyncedOlderThan, Removes
<1>10. CASE ClearAsync(t)
  <2>1. db' = db \ db /\ deleted' = deleted \cup What(db)
    BY <1>10 DEF ClearAsync
  <2>2. QED
    BY <1>2, <1>10, <2>1 DEF ClearAsync
<1>11. ASSUME NEW gone \in SUBSET db, Removes(gone), UNCHANGED tab
       PROVE  KeptInv'
  BY <1>2, <1>11 DEF Removes
<1>12. ASSUME NEW r \in db, DeleteAsync(t, r)
       PROVE  KeptInv'
  BY <1>11, <1>12 DEF DeleteAsync
<1>13. ASSUME NEW a \in Activities, ClearAgentAsync(t, Agent[a]) \/ DeleteOlderThanAsync(t, At[a] + 1)
       PROVE  KeptInv'
  BY <1>11, <1>13 DEF ClearAgentAsync, DeleteOlderThanAsync, GetByAgent, GetByTimeRange
<1>14. QED
  BY <1>4, <1>5, <1>6, <1>7, <1>8, <1>9, <1>10, <1>12, <1>13 DEF AsyncStep

LEMMA DatabaseStepInv == DatabaseInv /\ [DatabaseStep]_dbVars => DatabaseInv'
<1> SUFFICES ASSUME DatabaseInv, [DatabaseStep]_dbVars
             PROVE  KeptInv'
  BY DbMarked DEF DatabaseInv
<1>1. CASE UNCHANGED dbVars
  BY <1>1, KeptFrame DEF dbVars, DatabaseInv, MarkedInv
<1>2. QED
  BY <1>1, KeptLegacy, KeptMigration, KeptAsync DEF DatabaseStep

\* What a migration has found stays in the database or in localStorage.
THEOREM MigratedStays == DatabaseSpec => []MigratedIsKept
<1>1. DatabaseInv => MigratedIsKept
  BY DEF DatabaseInv, KeptInv, Owed, MigratedIsKept
<1>2. DbInit => DatabaseInv
  BY DbInitInv, KeptInit DEF DatabaseInv
<1>3. QED
  BY <1>1, <1>2, DatabaseStepInv, PTL DEF DatabaseSpec
-----------------------------------------------------------------------------
\* An activity has copies in the database; each tab about to insert it will add
\* one, and if no tab has it and localStorage or the memory behind it does, with no
\* flag set, a migration to come will.  Together they are one, but for what repeats.
Copies(a) == {r \in db : r.what = a}
Holders(a) == {t \in Running : a \in What(tab[t].entries)}
Inserters(a) == {t \in Holders(a) : tab[t].stage = "inserting"}
Waits(a) == ~migrated /\ a \in What(saved) \cup What(mem) /\ Holders(a) = {}

Load(a) == Cardinality(Copies(a)) + Cardinality(Inserters(a)) + (IF Waits(a) THEN 1 ELSE 0)

\* No list has two entries of an activity, and what a tab has it has from localStorage.
Once(entries) == \A e, f \in entries : e.what = f.what => e = f
OnceInv ==
  /\ Once(saved) /\ Once(backup) /\ Once(mem)
  /\ What(backup) \subseteq entrusted
  /\ \A t \in Running : Once(tab[t].entries) /\ What(tab[t].entries) \subseteq entrusted

LoadInv == \A a \in Activities : Load(a) <= 1 + repeats

CopiesInv == DatabaseInv /\ OnceInv /\ LoadInv

\* Records have keys of their own, so the table is finite, now and after a step.
LEMMA DbFinite ==
  ASSUME DbTypeOK, KeysInv, NEW set \in SUBSET db
  PROVE  IsFiniteSet(set) /\ Cardinality(set) \in Nat
<1> DEFINE key == [r \in set |-> r.id]
<1>1. key \in Injection(set, 1 .. MaxKey)
  BY DEF DbTypeOK, KeysInv, Record, Injection, IsInjective
<1>2. IsFiniteSet(1 .. MaxKey)
  BY FS_Interval, DatabaseAssumption
<1> HIDE DEF key
<1>3. QED
  BY <1>1, <1>2, FS_Injection, FS_CardinalityType

LEMMA DbFiniteNext == ASSUME DbTypeOK', KeysInv' PROVE IsFiniteSet(db')
<1> DEFINE key == [r \in db' |-> r.id]
<1>1. key \in Injection(db', 1 .. MaxKey)
  BY DEF DbTypeOK, KeysInv, Record, Injection, IsInjective
<1>2. IsFiniteSet(1 .. MaxKey)
  BY FS_Interval, DatabaseAssumption
<1> HIDE DEF key
<1>3. QED
  BY <1>1, <1>2, FS_Injection

LEMMA TabsFinite == \A set \in SUBSET Tabs : IsFiniteSet(set) /\ Cardinality(set) \in Nat
BY DatabaseAssumption, FS_Subset, FS_CardinalityType

\* The three numbers.
LEMMA LoadTyped ==
  ASSUME DbTypeOK, KeysInv, NEW a \in Activities
  PROVE  /\ Cardinality(Copies(a)) \in Nat /\ IsFiniteSet(Copies(a))
         /\ Cardinality(Inserters(a)) \in Nat /\ IsFiniteSet(Inserters(a))
<1>1. Copies(a) \subseteq db /\ Inserters(a) \subseteq Tabs
  BY DEF Copies, Inserters, Holders, Running
<1>2. QED
  BY <1>1, DbFinite, TabsFinite

\* The arithmetic of a step.
LEMMA Balance ==
  ASSUME NEW x \in Int, NEW y \in Int, NEW z \in Int, NEW xx \in Int, NEW yy \in Int, NEW zz \in Int,
         NEW c \in Int, NEW i \in Int, NEW w \in Int, NEW r \in Int, NEW rr \in Int,
         x + y + z <= 1 + r, xx <= x + c, yy <= y + i, zz <= z + w, r + c + i + w <= rr
  PROVE  xx + yy + zz <= 1 + rr
OBVIOUS

\* A step that adds a copy, an inserter or somebody who waits takes another of
\* them away or counts as a repetition.
LEMMA LoadStep ==
  ASSUME DbTypeOK, KeysInv, DbTypeOK', KeysInv', NEW a \in Activities, Load(a) <= 1 + repeats,
         NEW c \in Int, NEW i \in Int, NEW w \in Int,
         Cardinality(Copies(a))' <= Cardinality(Copies(a)) + c,
         Cardinality(Inserters(a))' <= Cardinality(Inserters(a)) + i,
         (IF Waits(a)' THEN 1 ELSE 0) <= (IF Waits(a) THEN 1 ELSE 0) + w,
         repeats + c + i + w <= repeats'
  PROVE  Load(a)' <= 1 + repeats'
<1>1. Cardinality(Copies(a)) \in Nat /\ Cardinality(Inserters(a)) \in Nat
  BY LoadTyped
<1>2. Cardinality(Copies(a)') \in Nat /\ Cardinality(Inserters(a)') \in Nat
  <2>1. Copies(a)' \subseteq db' /\ Inserters(a)' \subseteq Tabs
    BY DEF Copies, Inserters, Holders, Running
  <2>2. IsFiniteSet(db')
    BY DbFiniteNext
  <2>3. QED
    BY <2>1, <2>2, TabsFinite, FS_Subset, FS_CardinalityType
<1>3. repeats \in Nat /\ repeats' \in Nat
  BY DatabaseAssumption DEF DbTypeOK
<1> DEFINE x == Cardinality(Copies(a))
           y == Cardinality(Inserters(a))
           z == IF Waits(a) THEN 1 ELSE 0
           xx == Cardinality(Copies(a)')
           yy == Cardinality(Inserters(a)')
           zz == IF Waits(a)' THEN 1 ELSE 0
<1>4. x \in Nat /\ y \in Nat /\ z \in Nat /\ xx \in Nat /\ yy \in Nat /\ zz \in Nat
  BY <1>1, <1>2
<1>5. xx <= x + c /\ yy <= y + i /\ zz <= z + w
  OBVIOUS
<1>6. x + y + z <= 1 + repeats
  BY DEF Load
<1>7. (Load(a)' <= 1 + repeats') <=> (xx + yy + zz <= 1 + repeats')
  BY DEF Load
<1> HIDE DEF x, y, z, xx, yy, zz
<1>8. repeats + c + i + w <= repeats'
  OBVIOUS
<1>9. xx + yy + zz <= 1 + repeats'
  <2>1. /\ x \in Int /\ y \in Int /\ z \in Int /\ xx \in Int /\ yy \in Int /\ zz \in Int
        /\ repeats \in Int /\ repeats' \in Int
    BY <1>3, <1>4
  <2>2. QED
    BY <1>5, <1>6, <1>8, <2>1, Balance, Zenon
<1>10. QED
  BY <1>7, <1>9

\* Adding gives one copy more of an activity that is among the entries.
LEMMA CopiesAdded ==
  ASSUME DbTypeOK, KeysInv, NEW entries \in SUBSET Entry, Once(entries), Adds(entries), NEW a \in Activities
  PROVE  /\ a \notin What(entries) => Copies(a)' \subseteq Copies(a)
         /\ Cardinality(Copies(a))' <= Cardinality(Copies(a)) + 1
<1>1. PICK key \in [entries -> lastKey + 1 .. lastKey + Cardinality(entries)] :
        db' = db \cup {ToRecord(e, key[e]) : e \in entries}
  BY DEF Adds
<1>2. \A e \in entries : ToRecord(e, key[e]).what = e.what
  BY DEF ToRecord
<1>3. a \notin What(entries) => Copies(a)' \subseteq Copies(a)
  BY <1>1, <1>2 DEF Copies, What
<1>4. IsFiniteSet(Copies(a)) /\ Cardinality(Copies(a)) \in Nat
  BY LoadTyped
<1>5. CASE a \in What(entries)
  <2>1. PICK e \in entries : e.what = a
    BY <1>5 DEF What
  <2>2. PICK new : Copies(a)' \subseteq Copies(a) \cup {new}
    <3>1. Copies(a)' \subseteq Copies(a) \cup {ToRecord(e, key[e])}
      BY <1>1, <1>2, <2>1 DEF Copies, Once
    <3>2. QED
      BY <3>1
  <2>3. /\ IsFiniteSet(Copies(a) \cup {new})
        /\ Cardinality(Copies(a) \cup {new}) <= Cardinality(Copies(a)) + 1
        /\ Cardinality(Copies(a) \cup {new}) \in Nat
    <3>1. /\ IsFiniteSet(Copies(a) \cup {new})
          /\ Cardinality(Copies(a) \cup {new}) = IF new \in Copies(a) THEN Cardinality(Copies(a))
                                                 ELSE Cardinality(Copies(a)) + 1
      BY <1>4, FS_AddElement
    <3>2. QED
      BY <1>4, <3>1
  <2>4. /\ Cardinality(Copies(a)') <= Cardinality(Copies(a) \cup {new})
        /\ Cardinality(Copies(a)') \in Nat
    BY <2>2, <2>3, FS_Subset, FS_CardinalityType
  <2>5. QED
    BY <1>3, <1>4, <2>3, <2>4
<1>6. CASE a \notin What(entries)
  <2>1. Cardinality(Copies(a)') <= Cardinality(Copies(a)) /\ Cardinality(Copies(a)') \in Nat
    BY <1>3, <1>4, <1>6, FS_Subset, FS_CardinalityType
  <2>2. QED
    BY <1>3, <1>4, <2>1
<1>7. QED
  BY <1>5, <1>6

\* A change of status gives none.
LEMMA CopiesStatus ==
  ASSUME DbTypeOK, KeysInv, NEW ids, NEW status \in Statuses, db' = WithDbStatus(ids, status), NEW a \in Activities
  PROVE  Cardinality(Copies(a))' <= Cardinality(Copies(a))
<1> DEFINE New(q) == IF q.id \in ids THEN ToRecord([q EXCEPT !.status = status], q.id) ELSE q
           new == [q \in Copies(a) |-> New(q)]
<1>1. ASSUME NEW q \in db
      PROVE  New(q).what = q.what
  <2>1. [q EXCEPT !.status = status].what = q.what
    BY DEF DbTypeOK, Record
  <2>2. QED
    BY <2>1 DEF ToRecord
<1>2. db' = {New(q) : q \in db}
  BY DEF WithDbStatus
<1>3. new \in Surjection(Copies(a), Copies(a)')
  <2> HIDE DEF New
  <2>1. new \in [Copies(a) -> Copies(a)']
    BY <1>1, <1>2 DEF Copies
  <2>2. \A r \in Copies(a)' : \E q \in Copies(a) : new[q] = r
    BY <1>1, <1>2 DEF Copies
  <2> HIDE DEF new
  <2>3. QED
    BY <2>1, <2>2 DEF Surjection
<1> HIDE DEF new
<1>4. IsFiniteSet(Copies(a))
  BY LoadTyped
<1>5. Cardinality(Copies(a)') <= Cardinality(Copies(a))
  BY <1>3, <1>4, FS_Surjection
<1>6. QED
  BY <1>5

\* The kinds of step.  No copy and no inserter more, and nobody waits who did not,
\* or that is a repetition;
LEMMA LoadKept ==
  ASSUME DbTypeOK, KeysInv, LoadInv, DbTypeOK', KeysInv', NEW a \in Activities,
         Cardinality(Copies(a))' <= Cardinality(Copies(a)),
         Inserters(a)' \subseteq Inserters(a),
         \/ (Waits(a)' => Waits(a)) /\ repeats <= repeats'
         \/ repeats' = repeats + 1
  PROVE  Load(a)' <= 1 + repeats'
<1>1. /\ Cardinality(Copies(a)) \in Nat /\ Cardinality(Inserters(a)) \in Nat /\ IsFiniteSet(Inserters(a))
      /\ repeats \in Nat /\ repeats' \in Nat
  BY LoadTyped, DatabaseAssumption DEF DbTypeOK
<1>2. Cardinality(Inserters(a)') <= Cardinality(Inserters(a)) /\ Cardinality(Inserters(a)') \in Nat
  BY <1>1, FS_Subset, FS_CardinalityType
<1>3. Cardinality(Copies(a))' <= Cardinality(Copies(a)) + 0
  BY <1>1
<1>4. Cardinality(Inserters(a))' <= Cardinality(Inserters(a)) + 0
  BY <1>1, <1>2
<1>5. Load(a) <= 1 + repeats /\ 0 \in Int /\ 1 \in Int
  BY DEF LoadInv
<1>6. CASE (Waits(a)' => Waits(a)) /\ repeats <= repeats'
  <2>1. (IF Waits(a)' THEN 1 ELSE 0) <= (IF Waits(a) THEN 1 ELSE 0) + 0
    BY <1>6
  <2>2. repeats + 0 + 0 + 0 <= repeats'
    BY <1>1, <1>6
  <2>3. QED
    BY <1>3, <1>4, <1>5, <2>1, <2>2, LoadStep, Zenon
<1>7. CASE repeats' = repeats + 1
  <2>1. (IF Waits(a)' THEN 1 ELSE 0) <= (IF Waits(a) THEN 1 ELSE 0) + 1
    OBVIOUS
  <2>2. repeats + 0 + 0 + 1 <= repeats'
    BY <1>1, <1>7
  <2>3. QED
    BY <1>3, <1>4, <1>5, <2>1, <2>2, LoadStep, Zenon
<1>8. QED
  BY <1>6, <1>7

\* a copy more, as a repetition;
LEMMA LoadRepeated ==
  ASSUME DbTypeOK, KeysInv, LoadInv, DbTypeOK', KeysInv', NEW a \in Activities,
         Cardinality(Copies(a))' <= Cardinality(Copies(a)) + 1,
         Inserters(a)' = Inserters(a), Waits(a)' => Waits(a),
         repeats + 1 <= repeats'
  PROVE  Load(a)' <= 1 + repeats'
<1>1. /\ Cardinality(Inserters(a)) \in Nat /\ repeats \in Nat /\ repeats' \in Nat
  BY LoadTyped, DatabaseAssumption DEF DbTypeOK
<1>2. Cardinality(Inserters(a)') = Cardinality(Inserters(a))
  OBVIOUS
<1>3. Cardinality(Inserters(a))' <= Cardinality(Inserters(a)) + 0
  BY <1>1, <1>2
<1>4. (IF Waits(a)' THEN 1 ELSE 0) <= (IF Waits(a) THEN 1 ELSE 0) + 0
  OBVIOUS
<1>5. Load(a) <= 1 + repeats /\ 0 \in Int /\ 1 \in Int
  BY DEF LoadInv
<1>6. repeats + 1 + 0 + 0 <= repeats'
  BY <1>1
<1>7. QED
  BY <1>3, <1>4, <1>5, <1>6, LoadStep, Zenon

\* an inserter more, in the place of who waited or as a repetition;
LEMMA LoadTaken ==
  ASSUME DbTypeOK, KeysInv, LoadInv, DbTypeOK', KeysInv', NEW a \in Activities, NEW t,
         UNCHANGED db, Inserters(a)' \subseteq Inserters(a) \cup {t},
         \/ Waits(a) /\ ~Waits(a)' /\ repeats' = repeats
         \/ (Waits(a)' => Waits(a)) /\ repeats' = repeats + 1
  PROVE  Load(a)' <= 1 + repeats'
<1>1. /\ Cardinality(Copies(a)) \in Nat /\ Cardinality(Inserters(a)) \in Nat /\ IsFiniteSet(Inserters(a))
      /\ repeats \in Nat /\ repeats' \in Nat
  BY LoadTyped, DatabaseAssumption DEF DbTypeOK
<1>2. /\ IsFiniteSet(Inserters(a) \cup {t})
      /\ Cardinality(Inserters(a) \cup {t}) <= Cardinality(Inserters(a)) + 1
      /\ Cardinality(Inserters(a) \cup {t}) \in Nat
  BY <1>1, FS_AddElement
<1>3. Cardinality(Inserters(a)') <= Cardinality(Inserters(a) \cup {t}) /\ Cardinality(Inserters(a)') \in Nat
  BY <1>2, FS_Subset, FS_CardinalityType
<1>4. Cardinality(Inserters(a))' <= Cardinality(Inserters(a)) + 1
  BY <1>1, <1>2, <1>3
<1>5. Copies(a)' = Copies(a)
  BY DEF Copies
<1>6. Cardinality(Copies(a))' <= Cardinality(Copies(a)) + 0
  BY <1>1, <1>5
<1>7. Load(a) <= 1 + repeats /\ 0 \in Int /\ 1 \in Int /\ -1 \in Int
  BY DEF LoadInv
<1>8. CASE Waits(a) /\ ~Waits(a)' /\ repeats' = repeats
  <2>1. (IF Waits(a)' THEN 1 ELSE 0) <= (IF Waits(a) THEN 1 ELSE 0) + (-1)
    BY <1>8
  <2>2. repeats + 0 + 1 + (-1) <= repeats'
    BY <1>1, <1>8
  <2>3. QED
    BY <1>4, <1>6, <1>7, <2>1, <2>2, LoadStep, Zenon
<1>9. CASE (Waits(a)' => Waits(a)) /\ repeats' = repeats + 1
  <2>1. (IF Waits(a)' THEN 1 ELSE 0) <= (IF Waits(a) THEN 1 ELSE 0) + 0
    BY <1>9
  <2>2. repeats + 0 + 1 + 0 <= repeats'
    BY <1>1, <1>9
  <2>3. QED
    BY <1>4, <1>6, <1>7, <2>1, <2>2, LoadStep, Zenon
<1>10. QED
  BY <1>8, <1>9

\* an inserter less, for a copy more or for one who waits.
LEMMA LoadSpent ==
  ASSUME DbTypeOK, KeysInv, LoadInv, DbTypeOK', KeysInv', NEW a \in Activities, NEW t,
         t \in Inserters(a), Inserters(a)' \subseteq Inserters(a) \ {t}, repeats' = repeats,
         \/ Cardinality(Copies(a))' <= Cardinality(Copies(a)) + 1 /\ (Waits(a)' => Waits(a))
         \/ Cardinality(Copies(a))' <= Cardinality(Copies(a))
  PROVE  Load(a)' <= 1 + repeats'
<1>1. /\ Cardinality(Copies(a)) \in Nat /\ Cardinality(Inserters(a)) \in Nat /\ IsFiniteSet(Inserters(a))
      /\ repeats \in Nat /\ repeats' \in Nat
  BY LoadTyped, DatabaseAssumption DEF DbTypeOK
<1>2. /\ IsFiniteSet(Inserters(a) \ {t})
      /\ Cardinality(Inserters(a) \ {t}) = Cardinality(Inserters(a)) - 1
      /\ Cardinality(Inserters(a) \ {t}) \in Nat
  BY <1>1, FS_RemoveElement, FS_CardinalityType
<1>3. Cardinality(Inserters(a)') <= Cardinality(Inserters(a) \ {t}) /\ Cardinality(Inserters(a)') \in Nat
  BY <1>2, FS_Subset, FS_CardinalityType
<1>4. Cardinality(Inserters(a))' <= Cardinality(Inserters(a)) + (-1)
  BY <1>1, <1>2, <1>3
<1>5. Load(a) <= 1 + repeats /\ 0 \in Int /\ 1 \in Int /\ -1 \in Int
  BY DEF LoadInv
<1>6. CASE Cardinality(Copies(a))' <= Cardinality(Copies(a)) + 1 /\ (Waits(a)' => Waits(a))
  <2>1. (IF Waits(a)' THEN 1 ELSE 0) <= (IF Waits(a) THEN 1 ELSE 0) + 0
    BY <1>6
  <2>2. repeats + 1 + (-1) + 0 <= repeats'
    BY <1>1
  <2>3. Cardinality(Copies(a))' <= Cardinality(Copies(a)) + 1
    BY <1>6
  <2>4. QED
    BY <1>4, <1>5, <2>1, <2>2, <2>3, LoadStep, Zenon
<1>7. CASE Cardinality(Copies(a))' <= Cardinality(Copies(a))
  <2>1. (IF Waits(a)' THEN 1 ELSE 0) <= (IF Waits(a) THEN 1 ELSE 0) + 1
    OBVIOUS
  <2>2. repeats + 0 + (-1) + 1 <= repeats'
    BY <1>1
  <2>3. Cardinality(Copies(a))' <= Cardinality(Copies(a)) + 0
    BY <1>1, <1>7
  <2>4. QED
    BY <1>4, <1>5, <2>1, <2>2, <2>3, LoadStep, Zenon
<1>8. QED
  BY <1>6, <1>7

-----------------------------------------------------------------------------
\* Tabs that neither begin nor end a migration.
LEMMA SameHolders ==
  ASSUME \A u \in Tabs : tab'[u] = tab[u] \/ (tab[u] \notin Migrating /\ tab'[u] \notin Migrating),
         NEW a \in Activities
  PROVE  /\ Running' = Running /\ \A u \in Running : tab'[u] = tab[u]
         /\ Holders(a)' = Holders(a) /\ Inserters(a)' = Inserters(a)
<1>1. Running' = Running /\ \A u \in Running : tab'[u] = tab[u]
  BY DEF Running
<1>2. Holders(a)' = Holders(a)
  BY <1>1 DEF Holders
<1>3. \A u \in Holders(a) : tab'[u] = tab[u]
  BY <1>1 DEF Holders
<1>4. QED
  BY <1>1, <1>2, <1>3 DEF Inserters

LEMMA SameCopies == UNCHANGED db => \A a \in Activities : Copies(a)' = Copies(a)
BY DEF Copies

LEMMA OnceFrame ==
  ASSUME OnceInv, UNCHANGED <<saved, backup, mem, entrusted>>,
         \A u \in Tabs : tab'[u] = tab[u] \/ tab'[u] \notin Migrating
  PROVE  OnceInv'
<1>1. Running' \subseteq Running /\ \A u \in Running' : tab'[u] = tab[u]
  BY DEF Running
<1>2. QED
  BY <1>1 DEF OnceInv, Once

LEMMA CopiesInit == DbInit => OnceInv /\ LoadInv
<1> SUFFICES ASSUME DbInit
             PROVE  OnceInv /\ LoadInv
  OBVIOUS
<1>1. db = {} /\ backup = {} /\ mem = saved /\ tab = [t \in Tabs |-> Closed] /\ repeats = 0 /\ entrusted = {}
  BY DEF DbInit
<1>2. Running = {}
  BY <1>1, IdleShape DEF Running
<1>3. PICK old \in SUBSET Activities : \E done \in {{}, old} :
        saved = {[what |-> a, status |-> IF a \in done THEN "synced" ELSE "pending"] : a \in old}
  BY DEF DbInit
<1>4. Once(saved)
  BY <1>3 DEF Once
<1>5. OnceInv
  BY <1>1, <1>2, <1>4, WhatMonotone DEF OnceInv, Once
<1>6. ASSUME NEW a \in Activities
      PROVE  Load(a) <= 1 + repeats
  <2>1. Copies(a) = {} /\ Inserters(a) = {}
    BY <1>1, <1>2 DEF Copies, Inserters, Holders
  <2>2. QED
    BY <1>1, <2>1, FS_EmptySet DEF Load
<1>7. QED
  BY <1>5, <1>6 DEF LoadInv

LEMMA CopiesLegacy ==
  ASSUME CopiesInv, LegacyStep
  PROVE  OnceInv' /\ LoadInv'
<1>0. /\ DbTypeOK /\ KeysInv /\ DbTypeOK' /\ KeysInv' /\ OnceInv /\ LoadInv
      /\ repeats \in Nat /\ repeats' \in Nat
  BY LegacyMarked, DatabaseAssumption DEF CopiesInv, DatabaseInv, MarkedInv, DbTypeOK
<1>1. UNCHANGED <<db, tab, entrusted>>
  BY DEF LegacyStep, LegacyLog, LegacyDelete, LegacyLoad, RollbackMigration, ClearMigrationStatus,
     DeleteBackup, history
<1>2. /\ Running' = Running /\ \A u \in Running : tab'[u] = tab[u]
      /\ \A a \in Activities : Holders(a)' = Holders(a) /\ Inserters(a)' = Inserters(a) /\ Copies(a)' = Copies(a)
  <2>1. \A u \in Tabs : tab'[u] = tab[u]
    BY <1>1
  <2>2. Running' = Running /\ \A u \in Running : tab'[u] = tab[u]
    BY <1>1 DEF Running
  <2>3. ASSUME NEW a \in Activities
        PROVE  Holders(a)' = Holders(a) /\ Inserters(a)' = Inserters(a) /\ Copies(a)' = Copies(a)
    BY <1>1, <2>1, SameHolders, SameCopies
  <2>4. QED
    BY <2>2, <2>3
<1>3. ASSUME Once(saved)', Once(backup)', Once(mem)', What(backup') \subseteq entrusted
      PROVE  OnceInv'
  <2>1. \A u \in Running' : Once(tab[u].entries)' /\ What(tab'[u].entries) \subseteq entrusted'
    BY <1>0, <1>1, <1>2 DEF OnceInv, Once
  <2>2. QED
    BY <1>1, <1>3, <2>1 DEF OnceInv
<1>4. ASSUME NEW a \in Activities, ((Waits(a)' => Waits(a)) /\ repeats <= repeats') \/ repeats' = repeats + 1
      PROVE  Load(a)' <= 1 + repeats'
  <2>1. Cardinality(Copies(a))' <= Cardinality(Copies(a)) /\ Inserters(a)' \subseteq Inserters(a)
    BY <1>0, <1>2, LoadTyped
  <2>2. QED
    BY <1>0, <1>4, <2>1, LoadKept
<1>5. ASSUME NEW b \in Activities, LegacyLog(b)
      PROVE  OnceInv' /\ LoadInv'
  <2> DEFINE e == [what |-> b, status |-> "pending"]
  <2>1. /\ mem' = mem \cup {e} /\ saved' = mem' /\ UNCHANGED <<backup, migrated, repeats>>
        /\ b \notin Known
    BY <1>5 DEF LegacyLog, SavesLegacy, history
  <2>2. e.what = b /\ What(mem') = What(mem) \cup {b}
    <3>1. e.what = b
      OBVIOUS
    <3> HIDE DEF e
    <3>2. What({e}) = {b}
      BY <3>1 DEF What
    <3>3. What(mem \cup {e}) = What(mem) \cup What({e})
      BY WhatMonotone
    <3>4. QED
      BY <2>1, <3>1, <3>2, <3>3
  <2> HIDE DEF e
  <2>3. Once(mem)'
    BY <1>0, <2>1, <2>2 DEF OnceInv, Once, Known, What
  <2>4. Once(saved)' /\ Once(backup)'
    BY <1>0, <2>1, <2>3 DEF OnceInv, Once
  <2>5. OnceInv'
    BY <1>0, <1>3, <2>1, <2>3, <2>4 DEF OnceInv
  <2>6. ASSUME NEW a \in Activities
        PROVE  Load(a)' <= 1 + repeats'
    <3>1. CASE a = b
      <4>1. Copies(a) = {} /\ Holders(a) = {}
        BY <1>0, <2>1, <3>1 DEF Copies, Holders, Known, What, OnceInv
      <4>2. Inserters(a)' = {} /\ Copies(a)' = {}
        BY <1>2, <4>1 DEF Inserters
      <4>3. Cardinality(Copies(a)') = 0 /\ Cardinality(Inserters(a)') = 0
        BY <4>2, FS_EmptySet
      <4>4. Load(a)' = 0 + 0 + (IF Waits(a)' THEN 1 ELSE 0)
        BY <4>3 DEF Load
      <4>5. 0 <= 1 + repeats' /\ 1 <= 1 + repeats'
        <5>1. \A n \in Nat : 0 <= 1 + n /\ 1 <= 1 + n
          OBVIOUS
        <5>2. QED
          BY <1>0, <5>1, Zenon
      <4>6. Load(a)' = 0 \/ Load(a)' = 1
        BY <4>4
      <4>7. QED
        BY <4>5, <4>6, Zenon
    <3>2. CASE a # b
      <4>1. Waits(a)' => Waits(a)
        BY <1>2, <2>1, <2>2, <3>2 DEF Waits
      <4>2. QED
        BY <1>0, <1>4, <2>1, <4>1
    <3>3. QED
      BY <3>1, <3>2
  <2>7. QED
    BY <2>5, <2>6 DEF LoadInv
<1>6. ASSUME mem' \subseteq mem \/ mem' = saved, saved' \in {saved, mem'}, backup' \in {backup, {}},
             UNCHANGED <<migrated, repeats>>
      PROVE  OnceInv' /\ LoadInv'
  <2>1. What(mem') \cup What(saved') \subseteq What(mem) \cup What(saved)
    BY <1>6, WhatMonotone
  <2>2. Once(saved)' /\ Once(mem)' /\ Once(backup)' /\ What(backup') \subseteq entrusted
    BY <1>0, <1>6, WhatMonotone DEF OnceInv, Once
  <2>3. ASSUME NEW a \in Activities
        PROVE  Load(a)' <= 1 + repeats'
    <3>1. Waits(a)' => Waits(a)
      BY <1>2, <1>6, <2>1 DEF Waits
    <3>2. QED
      BY <1>0, <1>4, <1>6, <3>1
  <2>4. QED
    BY <1>3, <2>2, <2>3 DEF LoadInv
<1>7. CASE LegacyLoad \/ DeleteBackup \/ \E gone \in SUBSET mem : LegacyDelete(gone)
  BY <1>6, <1>7 DEF LegacyLoad, DeleteBackup, LegacyDelete, SavesLegacy, history
<1>8. CASE RollbackMigration \/ ClearMigrationStatus
  <2>1. repeats' = repeats + 1 /\ UNCHANGED <<backup, mem>> /\ saved' \in {saved, backup}
    BY <1>8 DEF RollbackMigration, ClearMigrationStatus, Repeated
  <2>2. OnceInv'
    BY <1>0, <1>3, <2>1 DEF OnceInv, Once
  <2>3. QED
    BY <1>4, <2>1, <2>2 DEF LoadInv
<1>9. QED
  BY <1>5, <1>7, <1>8 DEF LegacyStep

\* A migration takes what it finds in localStorage.
LEMMA CopiesBegin ==
  ASSUME CopiesInv, DbTypeOK', KeysInv', NEW t \in Tabs, NEW force \in BOOLEAN, tab[t] \notin Migrating,
         Begin(t, force)
  PROVE  OnceInv' /\ LoadInv'
<1>0. /\ DbTypeOK /\ KeysInv /\ OnceInv /\ LoadInv
      /\ tab \in [Tabs -> {Closed, Ready} \cup Migrating \cup Working]
      /\ repeats \in Nat /\ repeats' \in Nat
  BY DatabaseAssumption DEF CopiesInv, DatabaseInv, MarkedInv, DbTypeOK
<1>1. UNCHANGED <<db, saved, mem>>
  BY DEF Begin
<1>2. CASE saved = {}
  <2>1. /\ tab' = [tab EXCEPT ![t] = Ready] /\ migrated' = TRUE /\ UNCHANGED <<backup, entrusted, repeats>>
    BY <1>2 DEF Begin
  <2>2. \A u \in Tabs : tab'[u] = tab[u] \/ (tab[u] \notin Migrating /\ tab'[u] \notin Migrating)
    BY <1>0, <2>1, IdleShape
  <2>3. OnceInv'
    BY <1>0, <1>1, <2>1, <2>2, OnceFrame
  <2>4. ASSUME NEW a \in Activities
        PROVE  Load(a)' <= 1 + repeats'
    <3>1. Inserters(a)' \subseteq Inserters(a) /\ Cardinality(Copies(a))' <= Cardinality(Copies(a))
      BY <1>0, <1>1, <2>2, SameHolders, SameCopies, LoadTyped
    <3>2. (Waits(a)' => Waits(a)) /\ repeats <= repeats'
      BY <1>0, <2>1 DEF Waits
    <3>3. QED
      BY <1>0, <3>1, <3>2, LoadKept
  <2>5. QED
    BY <2>3, <2>4 DEF LoadInv
<1>3. CASE saved # {}
  <2> DEFINE new == [stage |-> "inserting", entries |-> saved]
  <2>1. /\ backup' = saved /\ tab' = [tab EXCEPT ![t] = new]
        /\ entrusted' = entrusted \cup What(saved) /\ UNCHANGED migrated
        /\ IF Running # {} \/ (force /\ migrated) THEN repeats' = repeats + 1 ELSE repeats' = repeats
    BY <1>3 DEF Begin, Repeated
  <2>2. new \in Migrating /\ new.stage = "inserting" /\ new.entries = saved
    BY <1>0 DEF DbTypeOK, Migrating
  <2>3. force \/ ~migrated
    BY DEF Begin, MayMigrate
  <2> HIDE DEF new
  <2>4. tab'[t] = new /\ \A u \in Tabs \ {t} : tab'[u] = tab[u]
    BY <1>0, <2>1
  <2>5. Running' = Running \cup {t} /\ t \notin Running
    BY <2>2, <2>4 DEF Running
  <2>6. \A u \in Running' : Once(tab'[u].entries) /\ What(tab'[u].entries) \subseteq entrusted'
    BY <1>0, <2>1, <2>2, <2>4, <2>5 DEF OnceInv
  <2>7. OnceInv'
    <3>1. Once(saved)' /\ Once(backup)' /\ Once(mem)' /\ What(backup') \subseteq entrusted'
      BY <1>0, <1>1, <2>1 DEF OnceInv, Once
    <3>2. QED
      BY <2>6, <3>1 DEF OnceInv, Once
  <2>8. ASSUME NEW a \in Activities
        PROVE  Load(a)' <= 1 + repeats'
    <3>1. CASE a \in What(saved)
      <4>1. Holders(a)' = Holders(a) \cup {t}
        BY <2>2, <2>4, <2>5, <3>1 DEF Holders, Running
      <4>2. Inserters(a)' = Inserters(a) \cup {t}
        BY <2>2, <2>4, <2>5, <4>1 DEF Holders, Inserters, Running
      <4>3. ~Waits(a)'
        BY <4>1 DEF Waits
      <4>4. CASE Running = {} /\ ~migrated
        <5>1. Waits(a) /\ repeats' = repeats
          BY <2>1, <3>1, <4>4 DEF Waits, Holders
        <5>2. QED
          BY <1>0, <1>1, <4>2, <4>3, <5>1, LoadTaken
      <4>5. CASE Running # {} \/ migrated
        <5>1. repeats' = repeats + 1
          BY <2>1, <2>3, <4>5
        <5>2. QED
          BY <1>0, <1>1, <4>2, <4>3, <5>1, LoadTaken
      <4>6. QED
        BY <4>4, <4>5
    <3>2. CASE a \notin What(saved)
      <4>1. Holders(a)' = Holders(a) /\ Inserters(a)' = Inserters(a)
        <5>1. Holders(a)' = Holders(a)
          BY <2>2, <2>4, <2>5, <3>2 DEF Holders, Running
        <5>2. \A u \in Holders(a) : tab'[u] = tab[u]
          BY <2>4, <2>5 DEF Holders, Running
        <5>3. QED
          BY <5>1, <5>2 DEF Inserters
      <4>2. Cardinality(Copies(a))' <= Cardinality(Copies(a))
        BY <1>0, <1>1, SameCopies, LoadTyped
      <4>3. (Waits(a)' => Waits(a)) /\ repeats <= repeats'
        BY <1>0, <1>1, <2>1, <4>1 DEF Waits
      <4>4. QED
        BY <1>0, <4>1, <4>2, <4>3, LoadKept
    <3>3. QED
      BY <3>1, <3>2
  <2>9. QED
    BY <2>7, <2>8 DEF LoadInv
<1>4. QED
  BY <1>2, <1>3

LEMMA CopiesMigration ==
  ASSUME CopiesInv, NEW t \in Tabs, MigrationStep(t)
  PROVE  OnceInv' /\ LoadInv'
<1>0. /\ DbTypeOK /\ KeysInv /\ OnceInv /\ LoadInv /\ DbTypeOK' /\ KeysInv'
      /\ tab \in [Tabs -> {Closed, Ready} \cup Migrating \cup Working]
      /\ repeats \in Nat /\ repeats' \in Nat
  BY MigrationMarked, DatabaseAssumption DEF CopiesInv, DatabaseInv, MarkedInv, DbTypeOK
<1>1. CASE Open(t) \/ ForceMigration(t)
  BY <1>0, <1>1, IdleShape, CopiesBegin DEF Open, ForceMigration
<1>2. ASSUME tab[t] \notin Migrating, tab' \in {[tab EXCEPT ![t] = Ready], [tab EXCEPT ![t] = Closed]},
             UNCHANGED <<db, saved, backup, migrated, mem, entrusted, repeats>>
      PROVE  OnceInv' /\ LoadInv'
  <2>1. \A u \in Tabs : tab'[u] = tab[u] \/ (tab[u] \notin Migrating /\ tab'[u] \notin Migrating)
    BY <1>0, <1>2, IdleShape
  <2>2. OnceInv'
    BY <1>0, <1>2, <2>1, OnceFrame
  <2>3. ASSUME NEW a \in Activities
        PROVE  Load(a)' <= 1 + repeats'
    <3>1. Holders(a)' = Holders(a) /\ Inserters(a)' = Inserters(a)
      BY <2>1, SameHolders
    <3>2. Cardinality(Copies(a))' <= Cardinality(Copies(a))
      BY <1>0, <1>2, SameCopies, LoadTyped
    <3>3. (Waits(a)' => Waits(a)) /\ repeats <= repeats'
      BY <1>0, <1>2, <3>1 DEF Waits
    <3>4. QED
      BY <1>0, <3>1, <3>2, <3>3, LoadKept
  <2>4. QED
    BY <2>2, <2>3 DEF LoadInv
<1>3. ASSUME tab[t] \in Migrating, tab' \in {[tab EXCEPT ![t] = Ready], [tab EXCEPT ![t] = Closed]},
             saved' \in {saved, {}}, UNCHANGED <<db, backup, mem, entrusted>>,
             \/ UNCHANGED <<saved, migrated>> /\ (IF tab[t].stage = "inserting" THEN repeats' = repeats
                                                                                ELSE repeats' = repeats + 1)
             \/ migrated' /\ UNCHANGED repeats
      PROVE  OnceInv' /\ LoadInv'
  <2>1. /\ tab'[t] \notin Migrating
        /\ \A u \in Tabs \ {t} : tab'[u] = tab[u]
    BY <1>0, <1>3, IdleShape
  <2>2. Running' = Running \ {t} /\ t \in Running /\ \A u \in Running' : tab'[u] = tab[u]
    BY <1>3, <2>1 DEF Running
  <2>3. OnceInv'
    BY <1>0, <1>3, <2>2, WhatMonotone DEF OnceInv, Once
  <2>4. ASSUME NEW a \in Activities
        PROVE  Load(a)' <= 1 + repeats'
    <3>1. Holders(a)' = Holders(a) \ {t}
      BY <2>2 DEF Holders
    <3>2. Inserters(a)' = Inserters(a) \ {t}
      BY <2>2, <3>1 DEF Holders, Inserters
    <3>3. Cardinality(Copies(a))' <= Cardinality(Copies(a))
      BY <1>0, <1>3, SameCopies, LoadTyped
    <3>4. CASE migrated' /\ UNCHANGED repeats
      <4>1. (Waits(a)' => Waits(a)) /\ repeats <= repeats'
        BY <1>0, <3>4 DEF Waits
      <4>2. QED
        BY <1>0, <3>2, <3>3, <4>1, LoadKept
    <3>5. CASE repeats' = repeats + 1
      BY <1>0, <3>2, <3>3, <3>5, LoadKept
    <3>6. CASE UNCHANGED <<saved, migrated, repeats>> /\ tab[t].stage = "inserting"
      <4>1. CASE t \in Holders(a)
        <5>1. t \in Inserters(a)
          BY <3>6, <4>1 DEF Inserters
        <5>2. QED
          BY <1>0, <3>2, <3>3, <3>6, <5>1, LoadSpent
      <4>2. CASE t \notin Holders(a)
        <5>1. (Waits(a)' => Waits(a)) /\ repeats <= repeats'
          BY <1>0, <1>3, <3>1, <3>6, <4>2 DEF Waits
        <5>2. QED
          BY <1>0, <3>2, <3>3, <5>1, LoadKept
      <4>3. QED
        BY <4>1, <4>2
    <3>7. QED
      BY <1>3, <3>4, <3>5, <3>6
  <2>5. QED
    BY <2>3, <2>4 DEF LoadInv
<1>4. CASE Inserted(t)
  <2>1. /\ tab[t] \in Migrating /\ tab[t].stage = "inserting" /\ tab[t].entries \in SUBSET Entry
        /\ tab' = [tab EXCEPT ![t] = [tab[t] EXCEPT !.stage = "inserted"]]
        /\ Adds(tab[t].entries)
        /\ UNCHANGED <<saved, backup, migrated, mem, entrusted, repeats>>
    BY <1>4 DEF Inserted, Migrating, history
  <2>2. /\ tab'[t] \in Migrating /\ tab'[t].stage = "inserted" /\ tab'[t].entries = tab[t].entries
        /\ \A u \in Tabs \ {t} : tab'[u] = tab[u]
    BY <1>0, <2>1 DEF Migrating
  <2>3. Running' = Running /\ t \in Running /\ \A u \in Running : tab'[u].entries = tab[u].entries
    BY <2>1, <2>2 DEF Running
  <2>4. OnceInv'
    BY <1>0, <2>1, <2>3 DEF OnceInv, Once
  <2>5. ASSUME NEW a \in Activities
        PROVE  Load(a)' <= 1 + repeats'
    <3>1. Holders(a)' = Holders(a)
      BY <2>3 DEF Holders
    <3>2. Inserters(a)' = Inserters(a) \ {t}
      <4>1. t \notin Inserters(a)' /\ \A u \in Holders(a) \ {t} : tab'[u] = tab[u]
        BY <2>2 DEF Inserters, Holders, Running
      <4>2. QED
        BY <3>1, <4>1 DEF Inserters
    <3>3. (Waits(a)' => Waits(a)) /\ repeats <= repeats' /\ repeats' = repeats
      BY <1>0, <2>1, <3>1 DEF Waits
    <3>4. Once(tab[t].entries)
      BY <1>0, <2>3 DEF OnceInv
    <3>5. /\ a \notin What(tab[t].entries) => Copies(a)' \subseteq Copies(a)
          /\ Cardinality(Copies(a))' <= Cardinality(Copies(a)) + 1
      BY <1>0, <2>1, <3>4, CopiesAdded
    <3>6. CASE a \in What(tab[t].entries)
      <4>1. t \in Inserters(a)
        BY <2>1, <2>3, <3>6 DEF Inserters, Holders
      <4>2. QED
        BY <1>0, <3>2, <3>3, <3>5, <4>1, LoadSpent
    <3>7. CASE a \notin What(tab[t].entries)
      <4>1. Cardinality(Copies(a)') <= Cardinality(Copies(a))
        BY <1>0, <3>5, <3>7, LoadTyped, FS_Subset
      <4>2. QED
        BY <1>0, <3>2, <3>3, <4>1, LoadKept
    <3>8. QED
      BY <3>6, <3>7
  <2>6. QED
    BY <2>4, <2>5 DEF LoadInv
<1>5. CASE BackupRefused(t) \/ \E autoMigrate \in BOOLEAN : OpenMigrated(t, autoMigrate)
  BY <1>2, <1>5, IdleShape DEF BackupRefused, OpenMigrated, history
<1>6. CASE InsertFails(t)
  BY <1>3, <1>6 DEF InsertFails, AfterFailure, history
<1>7. CASE FinishMigration(t)
  BY <1>3, <1>7 DEF FinishMigration, Repeated
<1>8. CASE CloseTab(t)
  <2>1. CASE tab[t] \in Migrating
    <3>1. tab[t].stage = "inserting" \/ tab[t].stage = "inserted"
      BY <2>1 DEF Migrating
    <3>2. QED
      BY <1>3, <1>8, <2>1, <3>1 DEF CloseTab, Repeated
  <2>2. CASE tab[t] \notin Migrating
    <3>1. tab[t].stage # "inserted"
      BY <1>0, <2>2, TabShape
    <3>2. QED
      BY <1>2, <1>8, <2>2, <3>1 DEF CloseTab
  <2>3. QED
    BY <2>1, <2>2
<1>9. QED
  BY <1>1, <1>4, <1>5, <1>6, <1>7, <1>8 DEF MigrationStep

\* Steps of a tab that is not migrating, and that add nothing.
LEMMA CopiesFrame ==
  ASSUME CopiesInv, DbTypeOK', KeysInv',
         \A a \in Activities : Cardinality(Copies(a))' <= Cardinality(Copies(a)),
         UNCHANGED <<saved, backup, migrated, mem, entrusted, repeats>>,
         \A u \in Tabs : tab'[u] = tab[u] \/ (tab[u] \notin Migrating /\ tab'[u] \notin Migrating)
  PROVE  OnceInv' /\ LoadInv'
<1>0. DbTypeOK /\ KeysInv /\ OnceInv /\ LoadInv /\ repeats \in Nat
  BY DatabaseAssumption DEF CopiesInv, DatabaseInv, MarkedInv, DbTypeOK
<1>1. OnceInv'
  BY <1>0, OnceFrame
<1>2. ASSUME NEW a \in Activities
      PROVE  Load(a)' <= 1 + repeats'
  <2>1. Holders(a)' = Holders(a) /\ Inserters(a)' = Inserters(a)
    BY SameHolders
  <2>2. (Waits(a)' => Waits(a)) /\ repeats <= repeats'
    BY <1>0, <2>1 DEF Waits
  <2>3. QED
    BY <1>0, <2>1, <2>2, LoadKept
<1>3. QED
  BY <1>1, <1>2 DEF LoadInv

LEMMA CopiesAsync ==
  ASSUME CopiesInv, NEW t \in Tabs, AsyncStep(t)
  PROVE  OnceInv' /\ LoadInv'
<1>0. /\ DbTypeOK /\ KeysInv /\ OnceInv /\ LoadInv /\ DbTypeOK' /\ KeysInv'
      /\ tab \in [Tabs -> {Closed, Ready} \cup Migrating \cup Working]
      /\ repeats \in Nat /\ repeats' \in Nat
  BY AsyncMarked, DatabaseAssumption DEF CopiesInv, DatabaseInv, MarkedInv, DbTypeOK
<1> USE DEF history
<1>1. ASSUME NEW a \in Activities, LogAsync(t, a)
      PROVE  OnceInv' /\ LoadInv'
  <2> DEFINE entries == {[what |-> a, status |-> "pending"]}
  <2>1. /\ a \notin Known /\ Adds(entries)
        /\ UNCHANGED <<saved, backup, migrated, mem, tab, entrusted, repeats>>
    BY <1>1 DEF LogAsync
  <2>2. entries \in SUBSET Entry /\ Once(entries) /\ \A b : b \in What(entries) => b = a
    BY DEF Entry, Statuses, Once, What
  <2> HIDE DEF entries
  <2>3. OnceInv'
    BY <1>0, <2>1, OnceFrame
  <2>4. ASSUME NEW b \in Activities
        PROVE  Load(b)' <= 1 + repeats'
    <3>1. \A u \in Tabs : tab'[u] = tab[u]
      BY <2>1
    <3>2. Holders(b)' = Holders(b) /\ Inserters(b)' = Inserters(b)
      BY <3>1, SameHolders
    <3>3. /\ b \notin What(entries) => Copies(b)' \subseteq Copies(b)
          /\ Cardinality(Copies(b))' <= Cardinality(Copies(b)) + 1
      BY <1>0, <2>1, <2>2, CopiesAdded
    <3>4. CASE b = a
      <4>1. Copies(b) = {} /\ Inserters(b) = {} /\ ~Waits(b)'
        BY <1>0, <2>1, <3>4 DEF Copies, Holders, Inserters, Known, What, OnceInv, Waits
      <4>2. Cardinality(Copies(b)) = 0 /\ Cardinality(Inserters(b)') = 0
        BY <3>2, <4>1, FS_EmptySet
      <4>3. Cardinality(Copies(b)') \in Nat
        <5>1. IsFiniteSet(Copies(b)')
          <6>1. Copies(b)' \subseteq db'
            BY DEF Copies
          <6>2. QED
            BY <1>0, <6>1, DbFiniteNext, FS_Subset
        <5>2. QED
          BY <5>1, FS_CardinalityType
      <4>4. Load(b)' = Cardinality(Copies(b)') + 0 + 0
        BY <4>1, <4>2 DEF Load
      <4>5. \A n \in Nat, r \in Nat : n <= 0 + 1 => n + 0 + 0 <= 1 + r
        OBVIOUS
      <4>6. Cardinality(Copies(b)') <= 0 + 1
        BY <3>3, <4>2
      <4>7. QED
        BY <1>0, <4>3, <4>4, <4>5, <4>6, Zenon
    <3>5. CASE b # a
      <4>1. Cardinality(Copies(b)') <= Cardinality(Copies(b))
        BY <1>0, <2>2, <3>3, <3>5, LoadTyped, FS_Subset
      <4>2. (Waits(b)' => Waits(b)) /\ repeats <= repeats'
        BY <1>0, <2>1, <3>2 DEF Waits
      <4>3. QED
        BY <1>0, <3>2, <4>1, <4>2, LoadKept
    <3>6. QED
      BY <3>4, <3>5
  <2>5. QED
    BY <2>3, <2>4 DEF LoadInv
<1>2. ASSUME db' \subseteq db, UNCHANGED <<saved, backup, migrated, mem, entrusted, repeats>>,
             \A u \in Tabs : tab'[u] = tab[u] \/ (tab[u] \notin Migrating /\ tab'[u] \notin Migrating)
      PROVE  OnceInv' /\ LoadInv'
  <2>1. ASSUME NEW a \in Activities
        PROVE  Cardinality(Copies(a))' <= Cardinality(Copies(a))
    <3>1. Copies(a)' \subseteq Copies(a)
      BY <1>2 DEF Copies
    <3>2. Cardinality(Copies(a)') <= Cardinality(Copies(a))
      BY <1>0, <3>1, LoadTyped, FS_Subset
    <3>3. QED
      BY <3>2
  <2>2. QED
    BY <1>0, <1>2, <2>1, CopiesFrame
<1>3. ASSUME NEW ids, NEW status \in Statuses, db' = WithDbStatus(ids, status),
             UNCHANGED <<saved, backup, migrated, mem, entrusted, repeats>>,
             \A u \in Tabs : tab'[u] = tab[u] \/ (tab[u] \notin Migrating /\ tab'[u] \notin Migrating)
      PROVE  OnceInv' /\ LoadInv'
  <2>1. \A a \in Activities : Cardinality(Copies(a))' <= Cardinality(Copies(a))
    BY <1>0, <1>3, CopiesStatus
  <2>2. QED
    BY <1>0, <1>3, <2>1, CopiesFrame
<1>4. CASE ImportAsync(t)
  <2>1. /\ Adds(Imported) /\ repeats' = repeats + Cardinality(Imported)
        /\ UNCHANGED <<saved, backup, migrated, mem, tab, entrusted>>
    BY <1>4 DEF ImportAsync, Repeated
  <2>2. Imported \in SUBSET Entry /\ Once(Imported)
    BY <1>0 DEF Imported, DbTypeOK, OnceInv, Once
  <2>3. OnceInv'
    BY <1>0, <2>1, OnceFrame
  <2>4. IsFiniteSet(Imported) /\ Cardinality(Imported) \in Nat
    BY <2>2, EntriesFinite
  <2>5. ASSUME NEW a \in Activities
        PROVE  Load(a)' <= 1 + repeats'
    <3>1. \A u \in Tabs : tab'[u] = tab[u]
      BY <2>1
    <3>2. Holders(a)' = Holders(a) /\ Inserters(a)' = Inserters(a)
      BY <3>1, SameHolders
    <3>3. Waits(a)' => Waits(a)
      BY <2>1, <3>2 DEF Waits
    <3>4. /\ a \notin What(Imported) => Copies(a)' \subseteq Copies(a)
          /\ Cardinality(Copies(a))' <= Cardinality(Copies(a)) + 1
      BY <1>0, <2>1, <2>2, CopiesAdded
    <3>5. Imported # {}
      BY <1>4 DEF ImportAsync
    <3>6. Cardinality(Imported) # 0
      BY <2>4, <3>5, FS_EmptySet
    <3>7. repeats + 1 <= repeats'
      BY <1>0, <2>1, <2>4, <3>6
    <3>8. QED
      BY <1>0, <3>2, <3>3, <3>4, <3>7, LoadRepeated
  <2>6. QED
    BY <2>3, <2>5 DEF LoadInv
<1>5. ASSUME NEW r \in db, NEW s \in AppStatuses, UpdateSyncStatusAsync(t, r, s)
      PROVE  OnceInv' /\ LoadInv'
  <2>1. s \in Statuses
    BY DatabaseAssumption DEF Statuses
  <2>2. QED
    BY <1>3, <1>5, <2>1 DEF UpdateSyncStatusAsync
<1>6. CASE MarkSyncedAsync(t)
  <2>1. "synced" \in Statuses /\ tab[t] \notin Migrating
    BY <1>0, <1>6, TabShape DEF Statuses, MarkSyncedAsync
  <2>2. \A u \in Tabs : tab'[u] = tab[u] \/ (tab[u] \notin Migrating /\ tab'[u] \notin Migrating)
    BY <1>0, <1>6, <2>1, IdleShape DEF MarkSyncedAsync
  <2>3. QED
    BY <1>3, <1>6, <2>1, <2>2 DEF MarkSyncedAsync
<1>7. CASE GetPendingSyncAsync(t) \/ \E cutoff : ReadSyncedOlderThan(t, cutoff)
  <2>1. /\ tab'[t] \notin Migrating /\ \A u \in Tabs \ {t} : tab'[u] = tab[u]
        /\ tab[t] = Ready
    <3>1. /\ \E stage \in {"marking", "pruning"} : \E ids : tab' = [tab EXCEPT ![t] = [stage |-> stage, ids |-> ids]]
          /\ tab[t] = Ready
      BY <1>7, Zenon DEF GetPendingSyncAsync, ReadSyncedOlderThan
    <3>2. QED
      BY <1>0, <3>1 DEF Migrating
  <2>2. UNCHANGED <<db, saved, backup, migrated, mem, entrusted, repeats>>
    BY <1>7 DEF GetPendingSyncAsync, ReadSyncedOlderThan
  <2>3. QED
    BY <1>2, <2>1, <2>2, IdleShape
<1>8. CASE DeleteSyncedOlderThan(t)
  <2>1. tab[t] \notin Migrating
    BY <1>0, <1>8, TabShape DEF DeleteSyncedOlderThan
  <2>2. \A u \in Tabs : tab'[u] = tab[u] \/ (tab[u] \notin Migrating /\ tab'[u] \notin Migrating)
    BY <1>0, <1>8, <2>1, IdleShape DEF DeleteSyncedOlderThan
  <2>3. QED
    BY <1>2, <1>8, <2>2 DEF DeleteSyncedOlderThan, Removes
<1>9. CASE ClearAsync(t)
  BY <1>2, <1>9 DEF ClearAsync
<1>10. ASSUME NEW gone \in SUBSET db, Removes(gone), UNCHANGED tab
       PROVE  OnceInv' /\ LoadInv'
  BY <1>2, <1>10 DEF Removes
<1>11. ASSUME NEW r \in db, DeleteAsync(t, r)
       PROVE  OnceInv' /\ LoadInv'
  BY <1>10, <1>11 DEF DeleteAsync
<1>12. ASSUME NEW a \in Activities, ClearAgentAsync(t, Agent[a]) \/ DeleteOlderThanAsync(t, At[a] + 1)
       PROVE  OnceInv' /\ LoadInv'
  BY <1>10, <1>12 DEF ClearAgentAsync, DeleteOlderThanAsync, GetByAgent, GetByTimeRange
<1>13. QED
  BY <1>1, <1>4, <1>5, <1>6, <1>7, <1>8, <1>9, <1>11, <1>12 DEF AsyncStep

LEMMA CopiesStep == CopiesInv /\ [DatabaseStep]_dbVars => CopiesInv'
<1> SUFFICES ASSUME CopiesInv, [DatabaseStep]_dbVars
             PROVE  OnceInv' /\ LoadInv'
  BY DatabaseStepInv DEF CopiesInv
<1>1. CASE UNCHANGED dbVars
  <2>1. UNCHANGED <<db, saved, backup, migrated, mem, entrusted, repeats, tab, lastKey>>
    BY <1>1 DEF dbVars
  <2>2. DbTypeOK' /\ KeysInv'
    BY DatabaseStepInv DEF CopiesInv, DatabaseInv, MarkedInv
  <2>3. \A a \in Activities : Cardinality(Copies(a))' <= Cardinality(Copies(a))
    BY <2>1, SameCopies, LoadTyped DEF CopiesInv, DatabaseInv, MarkedInv
  <2>4. QED
    BY <2>1, <2>2, <2>3, CopiesFrame
<1>2. QED
  BY <1>1, CopiesLegacy, CopiesMigration, CopiesAsync DEF DatabaseStep

\* An activity is in the database once, and once more for each event that may
\* repeat a migration of it.
THEOREM CopiesAreCounted == DatabaseSpec => []CopiesBounded
<1>1. CopiesInv => CopiesBounded
  <2> SUFFICES ASSUME CopiesInv, NEW a \in Activities
               PROVE  Cardinality(Copies(a)) <= 1 + repeats
    BY DEF CopiesBounded, Copies
  <2>1. /\ Cardinality(Copies(a)) \in Nat /\ Cardinality(Inserters(a)) \in Nat /\ repeats \in Nat
    BY LoadTyped, DatabaseAssumption DEF CopiesInv, DatabaseInv, MarkedInv, DbTypeOK
  <2>2. Cardinality(Copies(a)) + Cardinality(Inserters(a)) + (IF Waits(a) THEN 1 ELSE 0) <= 1 + repeats
    BY DEF CopiesInv, LoadInv, Load
  <2>3. QED
    BY <2>1, <2>2
<1>2. DbInit => CopiesInv
  BY DbInitInv, KeptInit, CopiesInit DEF CopiesInv, DatabaseInv
<1>3. QED
  BY <1>1, <1>2, CopiesStep, PTL DEF DatabaseSpec
=============================================================================
