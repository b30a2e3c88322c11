---------------------------- MODULE MangleRuntime ----------------------------
(***************************************************************************)
(* internal/engine: the Datalog runtime shared by all goroutines of an     *)
(* engine.  Queries copy the base store under the read lock, evaluate      *)
(* unlocked and publish the evaluated store in the derived-fact (IDB)      *)
(* cache; LoadFacts and AddPolicy work under the write lock; a reload      *)
(* reads the shared state in two separate critical sections, evaluates     *)
(* unlocked and swaps in a third.  Each critical section is one step.      *)
(*                                                                         *)
(* A rule unit is an element of Units and a ground atom one of Facts.      *)
(* Parsing, cleaning, the std.dl merge and the declaration of external     *)
(* predicates decide only whether a source yields a unit or an error; an   *)
(* AddPolicy that fails there changes nothing and is no step.              *)
(***************************************************************************)
EXTENDS Naturals, FiniteSets

CONSTANTS
    Units,              \* parsed rule units
    Facts,              \* ground atoms
    Eval(_, _),         \* the store that evaluating units over facts ends with
    Idb(_),             \* the atoms whose predicate is IDB in these units
    Queriers,           \* goroutines in ExecuteQuery / QueryWithSolutions
    Reloaders,          \* goroutines in ReloadFromSource
    RequestFacts,       \* the request-scoped fact sets a query may carry
    FactBatches,        \* the fact sets a LoadFacts call may carry
    LoadPaths,          \* the <<units, facts>> a directory given to Load holds
    MalformedBatches,   \* may a LoadFacts batch hold an unparsable string?
    MaxCacheEntries,    \* maxIDBCacheEntries
    MaxVersion          \* bound on programVersion + baseVersion

\* External: what the evaluator of mangle-go does, as the runtime relies on it.
\* It only adds atoms, those it adds are of IDB predicates, and without rules
\* there is nothing to add.
ASSUME EvalAssumption ==
    /\ \A U \in SUBSET Units, X \in SUBSET Facts :
          /\ Eval(U, X) \in SUBSET Facts
          /\ X \subseteq Eval(U, X)
          /\ Eval(U, X) \ X \subseteq Idb(U)
    /\ \A X \in SUBSET Facts : Eval({}, X) = X
    /\ Idb({}) = {}

ASSUME RuntimeAssumption ==
    /\ RequestFacts \subseteq SUBSET Facts
    /\ FactBatches \subseteq SUBSET Facts
    /\ LoadPaths \subseteq (SUBSET Units) \X (SUBSET Facts)
    /\ MalformedBatches \in BOOLEAN
    /\ MaxCacheEntries \in Nat \ {0}
    /\ MaxVersion \in Nat

VARIABLES
    ready,             \* r.ready
    units,             \* r.ruleUnits
    persistent,        \* r.persistentUnits
    base,              \* r.baseFactStore
    explicit,          \* r.explicitFactStore
    programVersion,    \* r.programVersion
    baseVersion,       \* r.baseVersion
    cache,             \* r.idbCache: its entries
    cacheNil,          \* is r.idbCache the nil map?
    muHeld,            \* did a goroutine die holding idbCacheMu?
    query,             \* locals of each querier
    reload             \* locals of each reloader

program == <<ready, units, persistent>>
stores == <<base, explicit>>
versions == <<programVersion, baseVersion>>
idb == <<cache, cacheNil, muHeld>>
vars == <<ready, units, persistent, base, explicit, programVersion,
          baseVersion, cache, cacheNil, muHeld, query, reload>>

Keys == [prog : Nat, base : Nat, req : SUBSET Facts]
Entries == [key : Keys, store : SUBSET Facts]
QueryRecord == [pc : {"idle", "eval", "done", "panic"}, key : Keys, units : SUBSET Units,
                store : SUBSET Facts, want : SUBSET Facts]
ReloadRecord == [pc : {"idle", "analyzed", "copied"}, units : SUBSET Units,
                 merged : SUBSET Facts, explicit : SUBSET Facts]

IdleQuery == [pc |-> "idle", key |-> [prog |-> 0, base |-> 0, req |-> {}],
              units |-> {}, store |-> {}, want |-> {}]
IdleReload == [pc |-> "idle", units |-> {}, merged |-> {}, explicit |-> {}]

Init ==
    /\ ready = FALSE
    /\ units = {}
    /\ persistent = {}
    /\ base = {}
    /\ explicit = {}
    /\ programVersion = 0
    /\ baseVersion = 0
    /\ cache = {}
    /\ cacheNil = TRUE
    /\ muHeld = FALSE
    /\ query = [q \in Queriers |-> IdleQuery]
    /\ reload = [r \in Reloaders |-> IdleReload]

Budget == programVersion + baseVersion < MaxVersion

\* invalidateIDBCacheLocked; it waits for ever once idbCacheMu is lost.
InvalidateIDBCache ==
    /\ ~muHeld
    /\ cache' = {}
    /\ cacheNil' = TRUE
    /\ UNCHANGED muHeld

\* An in-place evaluation that may be cut short by cancellation, its deadline
\* or the created-facts limit: the atoms added so far stay in the store.
EvalInPlace(U, X) == {S \in SUBSET Eval(U, X) : X \subseteq S}
-----------------------------------------------------------------------------
\* LoadFacts with atoms that all parse.
LoadFacts(X) ==
    /\ Budget
    /\ explicit' = explicit \union X
    /\ IF ready
       THEN /\ baseVersion' = baseVersion + 1
            /\ InvalidateIDBCache
            /\ base' \in EvalInPlace(units, base \union X)
       ELSE /\ base' = base \union X
            /\ UNCHANGED <<baseVersion, idb>>
    /\ UNCHANGED <<program, programVersion, query, reload>>

\* LoadFacts whose batch goes on, after the atoms of X, with a string that
\* does not parse: the early return keeps X and skips all the rest.
LoadFactsMalformed(X) ==
    /\ MalformedBatches
    /\ base' = base \union X
    /\ explicit' = explicit \union X
    /\ UNCHANGED <<program, versions, idb, query, reload>>

\* AddPolicy and AddPersistentPolicy.  The new program stays even if the
\* evaluation at the end fails.
AddPolicy(u, asBuiltin) ==
    /\ Budget
    /\ units' = units \union {u}
    /\ persistent' = IF asBuiltin THEN persistent \union {u} ELSE persistent
    /\ ready' = TRUE
    /\ programVersion' = programVersion + 1
    /\ InvalidateIDBCache
    /\ base' \in EvalInPlace(units', base)
    /\ UNCHANGED <<explicit, baseVersion, query, reload>>

\* Load of a directory: everything is built from local variables, so only the
\* swap is a step.  baseVersion does not move.
Load(U, X) ==
    /\ Budget
    /\ units' = U
    /\ base' = Eval(U, X)
    /\ explicit' = X
    /\ ready' = TRUE
    /\ programVersion' = programVersion + 1
    /\ InvalidateIDBCache
    /\ UNCHANGED <<persistent, baseVersion, query, reload>>
-----------------------------------------------------------------------------
\* ReloadFromSource, first critical section: the builtins are copied; then
\* the new main unit u is parsed and the whole program analyzed.
ReloadStart(r, u) ==
    /\ reload[r].pc = "idle"
    /\ Budget
    /\ reload' = [reload EXCEPT ![r] =
                    [pc |-> "analyzed", units |-> {u} \union persistent,
                     merged |-> {}, explicit |-> {}]]
    /\ UNCHANGED <<program, stores, versions, idb, query>>

\* Mutant: the derivations of the old rules are not dropped.
filterBaseFactsKeepAll(store, oldIDB, loaded) == store

\* Facts of a predicate that was IDB survive only if loaded explicitly.
filterBaseFacts(store, oldIDB, loaded) == (store \ oldIDB) \union (store \intersect loaded)

\* Second critical section: copy the explicit facts, filter the base facts.
ReloadCopy(r) ==
    /\ reload[r].pc = "analyzed"
    /\ reload' = [reload EXCEPT ![r] =
                    [pc |-> "copied", units |-> reload[r].units,
                     merged |-> filterBaseFacts(base, Idb(units), explicit),
                     explicit |-> explicit]]
    /\ UNCHANGED <<program, stores, versions, idb, query>>

\* The evaluation has succeeded on the private copy; third critical section.
ReloadSwap(r) ==
    /\ reload[r].pc = "copied"
    /\ reload' = [reload EXCEPT ![r] = IdleReload]
    /\ units' = reload[r].units
    /\ base' = Eval(reload[r].units, reload[r].merged)
    /\ explicit' = reload[r].explicit
    /\ ready' = TRUE
    /\ programVersion' = programVersion + 1
    /\ baseVersion' = baseVersion + 1
    /\ InvalidateIDBCache
    /\ UNCHANGED <<persistent, query>>

\* Analysis, stratification or evaluation of the new program fails.
ReloadFail(r) ==
    /\ reload[r].pc # "idle"
    /\ reload' = [reload EXCEPT ![r] = IdleReload]
    /\ UNCHANGED <<program, stores, versions, idb, query>>
-----------------------------------------------------------------------------
\* evaluatedWorkingStore up to RUnlock.  A hit returns the cached store; a
\* miss takes copies and remembers the key.  want is a history variable: what
\* the program in force derives from the facts loaded and the request's own.
QueryBegin(q, F) ==
    LET key == [prog |-> programVersion, base |-> baseVersion, req |-> F]
        hits == {e \in cache : e.key = key}
    IN  /\ query[q].pc = "idle"
        /\ ready
        /\ ~muHeld
        /\ cacheNil' = FALSE
        /\ \/ \E e \in hits :
                query' = [query EXCEPT ![q] =
                            [pc |-> "done", key |-> key, units |-> units, store |-> e.store,
                             want |-> Eval(units, explicit \union F)]]
           \/ /\ hits = {}
              /\ query' = [query EXCEPT ![q] =
                            [pc |-> "eval", key |-> key, units |-> units,
                             store |-> base \union F,
                             want |-> Eval(units, explicit \union F)]]
        /\ UNCHANGED <<program, stores, versions, cache, muHeld, reload>>

\* Mutant: the entry is filed under the versions in force when it is stored.
PublishLateKey(key, store) ==
    LET late == [prog |-> programVersion, base |-> baseVersion, req |-> key.req]
    IN  cache' = (IF Cardinality(cache) >= MaxCacheEntries THEN {} ELSE {e \in cache : e.key # late})
                   \union {[key |-> late, store |-> store]}

\* The cache write, with its eviction of everything.
Publish(key, store) ==
    cache' = (IF Cardinality(cache) >= MaxCacheEntries THEN {} ELSE {e \in cache : e.key # key})
               \union {[key |-> key, store |-> store]}

\* The unlocked evaluation succeeds and the store is published.  If the cache
\* was invalidated meanwhile the map is nil and the write panics, with
\* idbCacheMu locked and no deferred unlock.
QueryFinish(q) ==
    LET store == Eval(query[q].units, query[q].store)
    IN  /\ query[q].pc = "eval"
        /\ ~muHeld
        /\ IF cacheNil
           THEN /\ muHeld' = TRUE
                /\ query' = [query EXCEPT ![q].pc = "panic"]
                /\ UNCHANGED cache
           ELSE /\ Publish(query[q].key, store)
                /\ query' = [query EXCEPT ![q].pc = "done", ![q].store = store]
                /\ UNCHANGED muHeld
        /\ UNCHANGED <<program, stores, versions, cacheNil, reload>>

\* The evaluation is cancelled or fails: an error, no store.
QueryFail(q) ==
    /\ query[q].pc = "eval"
    /\ query' = [query EXCEPT ![q] = IdleQuery]
    /\ UNCHANGED <<program, stores, versions, idb, reload>>

QueryReturn(q) ==
    /\ query[q].pc = "done"
    /\ query' = [query EXCEPT ![q] = IdleQuery]
    /\ UNCHANGED <<program, stores, versions, idb, reload>>
-----------------------------------------------------------------------------
Next ==
    \/ \E X \in FactBatches : LoadFacts(X) \/ LoadFactsMalformed(X)
    \/ \E u \in Units, asBuiltin \in BOOLEAN : AddPolicy(u, asBuiltin)
    \/ \E p \in LoadPaths : Load(p[1], p[2])
    \/ \E r \in Reloaders :
        \/ \E u \in Units : ReloadStart(r, u)
        \/ ReloadCopy(r)
        \/ ReloadSwap(r)
        \/ ReloadFail(r)
    \/ \E q \in Queriers :
        \/ \E F \in RequestFacts : QueryBegin(q, F)
        \/ QueryFinish(q)
        \/ QueryFail(q)
        \/ QueryReturn(q)

Spec == Init /\ [][Next]_vars
-----------------------------------------------------------------------------
TypeOK ==
    /\ ready \in BOOLEAN
    /\ units \in SUBSET Units
    /\ persistent \in SUBSET Units
    /\ base \in SUBSET Facts
    /\ explicit \in SUBSET Facts
    /\ programVersion \in Nat
    /\ baseVersion \in Nat
    /\ cache \subseteq Entries
    /\ cacheNil \in BOOLEAN
    /\ muHeld \in BOOLEAN
    /\ query \in [Queriers -> QueryRecord]
    /\ reload \in [Reloaders -> ReloadRecord]

\* The base store holds every explicitly loaded fact and nothing that the
\* program in force does not derive from them: no derivation of replaced rules
\* outlives a reload ("stale derivations never leak into the new policy"),
\* also after evaluations that were cut short.
BaseSound ==
    /\ explicit \subseteq base
    /\ base \subseteq Eval(units, explicit)

\* What filterBaseFacts keeps for the new program is exactly the explicit
\* facts (the claim of the comment at lines 679-682).
FilterExact ==
    \A r \in Reloaders : reload[r].pc = "copied" => reload[r].merged = reload[r].explicit

\* A query answers, from the cache or not, what the program in force when it
\* began derives from the facts explicitly loaded by then and its own: one
\* policy, never a mix, and no stale cache entry.
QueryExact == \A q \in Queriers : query[q].pc = "done" => query[q].store = query[q].want

\* A query that overlaps a reload or a load gets an answer or an error: it
\* never panics ("query during reload must always find a halt fact").
NoPanic == \A q \in Queriers : query[q].pc # "panic"
=============================================================================
