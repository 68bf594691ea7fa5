---------------------------- MODULE TokenRegistry ----------------------------
(***************************************************************************)
(* TokenRegistry: what it knows of tokens by symbol and by address, from   *)
(* the built-in list, lists it loads and the user's own additions, and     *)
(* what it says of the safety of an address.                               *)
(*                                                                         *)
(* A load and a lookup await the network; everything else may happen until *)
(* they are answered.  One chain, so a token has one address; names,       *)
(* decimals, tags and the matching of searches are left out.               *)
(***************************************************************************)
EXTENDS Integers, FiniteSets

CONSTANTS
  Symbols,        \* without the empty one
  Addresses,
  CommonTokens,   \* COMMON_TOKENS
  Urls, List,     \* what the list at a URL says
  Blocked,        \* BLOCKED_TOKENS
  UserTokens,     \* what the user may add
  TTL,            \* of what is cached
  MaxLists,       \* MAX_CACHED_LISTS
  MaxClock        \* bound on the clock

Token == [symbol: Symbols, address: Addresses]
None == "none"

ASSUME RegistryAssumption ==
  /\ None \notin Addresses
  /\ CommonTokens \subseteq Token /\ UserTokens \subseteq Token
  /\ List \in [Urls -> SUBSET Token]
  /\ TTL \in Nat /\ MaxClock \in Nat /\ MaxLists \in Nat \ {0}

VARIABLES
  index,        \* tokensByAddress: address -> symbol and verified
  custom,       \* customTokens: symbol -> address
  customSaved,  \* the same in localStorage
  lists,        \* cached lists: URL -> time; and their tokens, which are List
  found,        \* cached answers of the chain: address -> time
  fetching,     \* lists and addresses that are being fetched
  clock,
  \* History, read by no action:
  listed,       \* addresses of the lists this instance has processed
  added         \* addresses the user has ever added

registryVars == <<index, custom, customSaved, lists, found, fetching, clock, listed, added>>

NoEntry == [symbol |-> None, verified |-> FALSE]
NoCustom == [s \in Symbols |-> None]
Uncached == -1
Clock == 0 .. MaxClock

RegistryTypeOK ==
  /\ index \in [Addresses -> [symbol: Symbols, verified: BOOLEAN] \cup {NoEntry}]
  /\ custom \in [Symbols -> Addresses \cup {None}] /\ customSaved \in [Symbols -> Addresses \cup {None}]
  /\ lists \in [Urls -> Clock \cup {Uncached}] /\ found \in [Addresses -> Clock \cup {Uncached}]
  /\ fetching \subseteq Urls \cup Addresses
  /\ clock \in Clock
  /\ listed \subseteq Addresses /\ added \subseteq Addresses

AddressesOf(set) == {t.address : t \in set}

\* processTokenList: a token that is there by its symbol is merged with the new one.
Indexed(set, old) ==
  [a \in Addresses |->
     IF a \in AddressesOf(set) THEN [symbol |-> (CHOOSE t \in set : t.address = a).symbol, verified |-> TRUE]
     ELSE old[a]]

Common == Indexed(CommonTokens, [a \in Addresses |-> NoEntry])

\* Mutant: a token keeps the flag it is added with.
AsGiven(s) == [symbol |-> s, verified |-> TRUE]

CustomEntry(s) == [symbol |-> s, verified |-> FALSE]

WithCustom(saved) ==
  [a \in Addresses |-> IF \E s \in Symbols : saved[s] = a
                       THEN CustomEntry(CHOOSE s \in Symbols : saved[s] = a) ELSE Common[a]]

RegistryInit ==
  /\ index = Common
  /\ custom = NoCustom /\ customSaved = NoCustom
  /\ lists = [u \in Urls |-> Uncached] /\ found = [a \in Addresses |-> Uncached]
  /\ fetching = {} /\ clock = 0
  /\ listed = {} /\ added = {}

-----------------------------------------------------------------------------
(* Lists *)

Fresh(time) == time # Uncached /\ time + TTL > clock

Process(url) ==
  /\ index' = Indexed(List[url], index)
  /\ listed' = listed \cup AddressesOf(List[url])

\* loadList, up to its await unless the list is cached.
LoadList(url) ==
  /\ IF Fresh(lists[url]) THEN Process(url) /\ UNCHANGED fetching
     ELSE fetching' = fetching \cup {url} /\ UNCHANGED <<index, listed>>
  /\ UNCHANGED <<custom, customSaved, lists, found, clock, added>>

Cached == {u \in Urls : lists[u] # Uncached}

\* cacheList: the oldest list gives way; localStorage may refuse.
CacheList(url) ==
  LET others == Cached \ {url}
      oldest == {u \in others : \A v \in others : lists[u] <= lists[v]}
      kept == [lists EXCEPT ![url] = clock]
  IN \/ UNCHANGED lists
     \/ Cardinality(others) < MaxLists /\ lists' = kept
     \/ Cardinality(others) >= MaxLists /\ \E u \in oldest : lists' = [kept EXCEPT ![u] = Uncached]

ListArrives(url) ==
  /\ url \in fetching
  /\ Process(url)
  /\ CacheList(url)
  /\ fetching' = fetching \ {url}
  /\ UNCHANGED <<custom, customSaved, found, clock, added>>

\* The list, or the chain, does not answer, or not well.
FetchFails(it) ==
  /\ it \in fetching
  /\ fetching' = fetching \ {it}
  /\ UNCHANGED <<index, custom, customSaved, lists, found, clock, listed, added>>

-----------------------------------------------------------------------------
(* Addresses *)

\* getTokenByAddress of one that is neither indexed nor the user's.
Lookup(a) ==
  /\ index[a] = NoEntry /\ \A s \in Symbols : custom[s] # a
  /\ fetching' = fetching \cup {a}
  /\ UNCHANGED <<index, custom, customSaved, lists, found, clock, listed, added>>

\* What the chain answers is cached; nothing reads it there.
LookupAnswered(a) ==
  /\ a \in fetching
  /\ found' = [found EXCEPT ![a] = clock]
  /\ fetching' = fetching \ {a}
  /\ UNCHANGED <<index, custom, customSaved, lists, clock, listed, added>>

SaveCustom == customSaved' = custom' \/ UNCHANGED customSaved

AddCustomToken(t) ==
  /\ custom' = [custom EXCEPT ![t.symbol] = t.address]
  /\ index' = [index EXCEPT ![t.address] = CustomEntry(t.symbol)]
  /\ added' = added \cup {t.address}
  /\ SaveCustom
  /\ UNCHANGED <<lists, found, fetching, clock, listed>>

RemoveCustomToken(s) ==
  /\ custom[s] # None
  /\ custom' = [custom EXCEPT ![s] = None]
  /\ index' = [index EXCEPT ![custom[s]] = NoEntry]
  /\ SaveCustom
  /\ UNCHANGED <<lists, found, fetching, clock, listed, added>>

-----------------------------------------------------------------------------
(* The cache *)

\* The index keeps what was the user's.
ClearCache ==
  /\ custom' = NoCustom /\ customSaved' = NoCustom
  /\ lists' = [u \in Urls |-> Uncached] /\ found' = [a \in Addresses |-> Uncached]
  /\ UNCHANGED <<index, fetching, clock, listed, added>>

CleanExpiredCache ==
  /\ lists' = [u \in Urls |-> IF Fresh(lists[u]) THEN lists[u] ELSE Uncached]
  /\ found' = [a \in Addresses |-> IF Fresh(found[a]) THEN found[a] ELSE Uncached]
  /\ UNCHANGED <<index, custom, customSaved, fetching, clock, listed, added>>

\* The page is loaded again: loadCommonTokens and loadFromCache.
NewRegistry ==
  /\ index' = WithCustom(customSaved)
  /\ custom' = customSaved
  /\ fetching' = {} /\ listed' = {}
  /\ UNCHANGED <<customSaved, lists, found, clock, added>>

ClockTicks ==
  /\ clock < MaxClock /\ clock' = clock + 1
  /\ UNCHANGED <<index, custom, customSaved, lists, found, fetching, listed, added>>

RegistryStep ==
  \/ \E url \in Urls : LoadList(url) \/ ListArrives(url)
  \/ \E it \in Urls \cup Addresses : FetchFails(it)
  \/ \E a \in Addresses : Lookup(a) \/ LookupAnswered(a)
  \/ \E t \in UserTokens : AddCustomToken(t)
  \/ \E s \in Symbols : RemoveCustomToken(s)
  \/ ClearCache \/ CleanExpiredCache \/ NewRegistry \/ ClockTicks

RegistrySpec == RegistryInit /\ [][RegistryStep]_registryVars

-----------------------------------------------------------------------------
(* Properties *)

\* checkTokenSafety.
Safety(a) ==
  CASE a \in Blocked -> "blocked"
    [] a \notin Blocked /\ a \in AddressesOf(CommonTokens) -> "verified"
    [] a \notin Blocked \cup AddressesOf(CommonTokens) /\ index[a].verified -> "trusted"
    [] OTHER -> IF index[a] # NoEntry /\ custom[index[a].symbol] # None THEN "known" ELSE "unknown"

Trusted == {a \in Addresses : Safety(a) \in {"verified", "trusted"}}
Vouched == (AddressesOf(CommonTokens) \cup listed) \ Blocked

\* What checkTokenSafety trusts is built in or on a list that was processed, and
\* all of that is trusted but what the user has added too; what it knows, the
\* user has added.  Over lists that arrive late, cached lists, tokens that are
\* replaced and removed, cleared caches and reloads.
TrustIsListed ==
  /\ Trusted \subseteq Vouched
  /\ Vouched \ added \subseteq Trusted
  /\ \A a \in Addresses : Safety(a) = "known" => a \in added
=============================================================================
