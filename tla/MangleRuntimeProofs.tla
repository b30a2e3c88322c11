------------------------- MODULE MangleRuntimeProofs -------------------------
(***************************************************************************)
(* Proofs about MangleRuntime, for any monotone evaluator, any number of   *)
(* queriers and reloaders and any bounds.                                  *)
(***************************************************************************)
EXTENDS MonotoneRuntime, TLAPS

\* Evaluation yields a store that contains the facts it started from.
LEMMA EvalType ==
    ASSUME NEW U \in SUBSET Units, NEW X \in SUBSET Facts
    PROVE  Eval(U, X) \in SUBSET Facts /\ X \subseteq Eval(U, X)
BY EvalAssumption

\* B holds the facts X and nothing that U does not derive from them.
Sound(U, X, B) == X \subseteq B /\ B \subseteq Eval(U, X)

SameEval(U, X, Y) == Eval(U, X) = Eval(U, Y)

\* Facts already derivable add nothing to an evaluation: evaluating the base
\* store is as good as evaluating the explicit facts.
LEMMA EvalAbsorbs ==
    ASSUME NEW U \in SUBSET Units, NEW X \in SUBSET Facts, NEW B \in SUBSET Facts,
           NEW F \in SUBSET Facts, Sound(U, X, B)
    PROVE  SameEval(U, B \union F, X \union F)
<1> USE DEF Sound, SameEval
<1> DEFINE E == Eval(U, X \union F)
<1>1. X \union F \in SUBSET Facts /\ B \union F \in SUBSET Facts
  OBVIOUS
<1>2. E \in SUBSET Facts /\ X \union F \subseteq E
  BY <1>1, EvalAssumption
<1>3. Eval(U, X) \subseteq E
  BY <1>1, MonotoneAssumption
<1>4. B \union F \subseteq E
  BY <1>2, <1>3
<1>5. Eval(U, B \union F) \subseteq Eval(U, E)
  BY <1>1, <1>2, <1>4, MonotoneAssumption
<1>6. Eval(U, E) = E
  BY <1>1, MonotoneAssumption
<1>7. E \subseteq Eval(U, B \union F)
  BY <1>1, MonotoneAssumption
<1> QED
  BY <1>5, <1>6, <1>7

\* The type invariant is inductive.
LEMMA TypeStep == TypeOK /\ [Next]_vars => TypeOK'
<1> SUFFICES ASSUME TypeOK, [Next]_vars PROVE TypeOK'
  OBVIOUS
<1>0. /\ query \in [Queriers -> QueryRecord]
      /\ reload \in [Reloaders -> ReloadRecord]
  BY DEF TypeOK
<1>a. /\ units \in SUBSET Units
      /\ base \in SUBSET Facts
      /\ explicit \in SUBSET Facts
  BY DEF TypeOK
<1>1. ASSUME NEW X \in FactBatches, LoadFacts(X) PROVE TypeOK'
  <2>1. X \in SUBSET Facts
    BY RuntimeAssumption
  <2>2. base \union X \in SUBSET Facts /\ explicit \union X \in SUBSET Facts
    BY <2>1 DEF TypeOK
  <2>3. Eval(units, base \union X) \in SUBSET Facts
    BY <1>a, <2>2, EvalType
  <2>4. base' \in SUBSET Facts
    BY <1>1, <2>2, <2>3 DEF LoadFacts, EvalInPlace
  <2> QED
    <3>1. CASE ready
      BY <1>1, <2>2, <2>4, <3>1 DEF TypeOK, LoadFacts, InvalidateIDBCache, program
    <3>2. CASE ~ready
      BY <1>1, <2>2, <2>4, <3>2 DEF TypeOK, LoadFacts, program, idb
    <3> QED
      BY <3>1, <3>2
<1>2. ASSUME NEW X \in FactBatches, LoadFactsMalformed(X) PROVE TypeOK'
  BY <1>2, RuntimeAssumption DEF TypeOK, LoadFactsMalformed, program, versions, idb
<1>3. ASSUME NEW u \in Units, NEW asBuiltin \in BOOLEAN, AddPolicy(u, asBuiltin) PROVE TypeOK'
  <2>1. units' \in SUBSET Units /\ persistent' \in SUBSET Units
    BY <1>3 DEF TypeOK, AddPolicy
  <2>2. base' \in SUBSET Facts
    BY <1>3, <2>1, EvalAssumption DEF TypeOK, AddPolicy, EvalInPlace
  <2> QED
    BY <1>3, <2>1, <2>2 DEF TypeOK, AddPolicy, InvalidateIDBCache
<1>4. ASSUME NEW p \in LoadPaths, Load(p[1], p[2]) PROVE TypeOK'
  <2>1. p[1] \in SUBSET Units /\ p[2] \in SUBSET Facts
    BY RuntimeAssumption
  <2>2. base' \in SUBSET Facts
    BY <1>4, <2>1, EvalAssumption DEF Load
  <2> QED
    BY <1>4, <2>1, <2>2 DEF TypeOK, Load, InvalidateIDBCache
<1>5. ASSUME NEW r \in Reloaders, NEW u \in Units, ReloadStart(r, u) PROVE TypeOK'
  <2>1. {u} \union persistent \in SUBSET Units
    BY DEF TypeOK
  <2>2. reload' \in [Reloaders -> ReloadRecord]
    BY <1>0, <1>5, <2>1 DEF ReloadStart, ReloadRecord
  <2> QED
    BY <1>5, <2>2 DEF TypeOK, ReloadStart, program, stores, versions, idb
<1>6. ASSUME NEW r \in Reloaders, ReloadCopy(r) PROVE TypeOK'
  <2>1. filterBaseFacts(base, Idb(units), explicit) \in SUBSET Facts
    BY DEF TypeOK, filterBaseFacts
  <2>2. reload' \in [Reloaders -> ReloadRecord]
    BY <1>0, <1>6, <2>1 DEF TypeOK, ReloadCopy, ReloadRecord
  <2> QED
    BY <1>6, <2>2 DEF TypeOK, ReloadCopy, program, stores, versions, idb
<1>7. ASSUME NEW r \in Reloaders, ReloadSwap(r) PROVE TypeOK'
  <2>1. /\ reload[r].units \in SUBSET Units
        /\ reload[r].merged \in SUBSET Facts
        /\ reload[r].explicit \in SUBSET Facts
    BY <1>0 DEF ReloadRecord
  <2>2. base' \in SUBSET Facts
    <3>1. Eval(reload[r].units, reload[r].merged) \in SUBSET Facts
      BY <2>1, EvalType
    <3> QED
      BY <1>7, <3>1 DEF ReloadSwap
  <2>3. reload' \in [Reloaders -> ReloadRecord]
    BY <1>0, <1>7 DEF ReloadSwap, IdleReload, ReloadRecord
  <2> QED
    BY <1>7, <2>1, <2>2, <2>3 DEF TypeOK, ReloadSwap, InvalidateIDBCache
<1>8. ASSUME NEW r \in Reloaders, ReloadFail(r) PROVE TypeOK'
  <2>1. reload' \in [Reloaders -> ReloadRecord]
    BY <1>0, <1>8 DEF ReloadFail, IdleReload, ReloadRecord
  <2> QED
    BY <1>8, <2>1 DEF TypeOK, ReloadFail, program, stores, versions, idb
<1>9. ASSUME NEW q \in Queriers, NEW F \in RequestFacts, QueryBegin(q, F) PROVE TypeOK'
  <2> DEFINE key == [prog |-> programVersion, base |-> baseVersion, req |-> F]
             want == Eval(units, explicit \union F)
  <2>0. F \in SUBSET Facts
    BY RuntimeAssumption
  <2>1. key \in Keys
    BY <2>0 DEF TypeOK, Keys
  <2>2. explicit \union F \in SUBSET Facts /\ base \union F \in SUBSET Facts
    BY <2>0 DEF TypeOK
  <2>3. want \in SUBSET Facts
    BY <1>a, <2>2, EvalType
  <2>4. \A e \in cache : e.store \in SUBSET Facts
    BY DEF TypeOK, Entries
  <2> HIDE DEF key, want
  <2>5. query' \in [Queriers -> QueryRecord]
    <3>1. ASSUME NEW S \in SUBSET Facts, NEW p \in {"eval", "done"}
          PROVE  [pc |-> p, key |-> key, units |-> units, store |-> S, want |-> want]
                    \in QueryRecord
      BY <2>1, <2>3 DEF TypeOK, QueryRecord
    <3>2. \E S \in SUBSET Facts, p \in {"eval", "done"} :
             query' = [query EXCEPT ![q] = [pc |-> p, key |-> key, units |-> units,
                                            store |-> S, want |-> want]]
      BY <1>9, <2>2, <2>4 DEF QueryBegin, key, want
    <3> QED
      BY <1>0, <3>1, <3>2
  <2>6. cacheNil' \in BOOLEAN
    BY <1>9 DEF QueryBegin
  <2>7. UNCHANGED <<program, stores, versions, cache, muHeld, reload>>
    BY <1>9 DEF QueryBegin
  <2> QED
    BY <2>5, <2>6, <2>7 DEF TypeOK, program, stores, versions
<1>10. ASSUME NEW q \in Queriers, QueryFinish(q) PROVE TypeOK'
  <2> DEFINE store == Eval(query[q].units, query[q].store)
  <2>1. /\ query[q].units \in SUBSET Units
        /\ query[q].store \in SUBSET Facts
        /\ query[q].key \in Keys
    BY <1>0 DEF QueryRecord
  <2>2. store \in SUBSET Facts
    BY <2>1, EvalType
  <2>3. [key |-> query[q].key, store |-> store] \in Entries
    BY <2>1, <2>2 DEF Entries
  <2>4. cache' \subseteq Entries
    BY <1>10, <2>3 DEF TypeOK, QueryFinish, Publish
  <2>5. query' \in [Queriers -> QueryRecord]
    BY <1>0, <1>10, <2>2 DEF QueryFinish, QueryRecord
  <2>6. muHeld' \in BOOLEAN /\ UNCHANGED <<program, stores, versions, cacheNil, reload>>
    BY <1>10 DEF TypeOK, QueryFinish
  <2> QED
    BY <2>4, <2>5, <2>6 DEF TypeOK, program, stores, versions
<1>11. ASSUME NEW q \in Queriers, QueryFail(q) \/ QueryReturn(q) PROVE TypeOK'
  <2>1. IdleQuery \in QueryRecord
    BY DEF IdleQuery, Keys, QueryRecord
  <2>2. query' \in [Queriers -> QueryRecord]
    BY <1>0, <1>11, <2>1 DEF QueryFail, QueryReturn
  <2> QED
    BY <1>11, <2>2 DEF TypeOK, QueryFail, QueryReturn,
                       program, stores, versions, idb
<1>12. CASE UNCHANGED vars
  BY <1>12 DEF TypeOK, vars
<1> QED
  BY <1>1, <1>2, <1>3, <1>4, <1>5, <1>6, <1>7, <1>8, <1>9, <1>10, <1>11, <1>12 DEF Next

\* The initial state is well typed.
LEMMA TypeInit == Init => TypeOK
<1> SUFFICES ASSUME Init PROVE TypeOK
  OBVIOUS
<1>1. IdleQuery \in QueryRecord /\ IdleReload \in ReloadRecord
  BY DEF IdleQuery, IdleReload, QueryRecord, ReloadRecord, Keys
<1>2. query \in [Queriers -> QueryRecord] /\ reload \in [Reloaders -> ReloadRecord]
  BY <1>1 DEF Init
<1>3. cache \subseteq Entries
  BY DEF Init
<1> QED
  BY <1>2, <1>3 DEF Init, TypeOK

\* Every reachable state is well typed, with stores and versions in range.
THEOREM TypeCorrect == Spec => []TypeOK
BY TypeInit, TypeStep, PTL DEF Spec
-----------------------------------------------------------------------------
\* Loading more facts, or adding rules, keeps the base store between the
\* explicit facts and what the program derives from them.
LEMMA InPlaceSound ==
    ASSUME NEW U \in SUBSET Units, NEW V \in SUBSET Units, U \subseteq V,
           NEW X \in SUBSET Facts, NEW B \in SUBSET Facts, NEW F \in SUBSET Facts,
           Sound(U, X, B), NEW S \in EvalInPlace(V, B \union F)
    PROVE  Sound(V, X \union F, S)
<1>1. Eval(U, X) \subseteq Eval(V, X)
  BY MonotoneAssumption
<1>2. SameEval(V, B \union F, X \union F)
  <2>1. Sound(V, X, B)
    BY <1>1 DEF Sound
  <2> QED
    BY <2>1, EvalAbsorbs
<1>3. B \union F \subseteq S /\ S \subseteq Eval(V, B \union F)
  BY DEF EvalInPlace
<1> QED
  BY <1>2, <1>3 DEF Sound, SameEval

\* What filterBaseFacts keeps of a sound base store is the explicit facts.
LEMMA FilterKeepsExplicit ==
    ASSUME TypeOK, BaseSound
    PROVE  filterBaseFacts(base, Idb(units), explicit) = explicit
<1>1. Eval(units, explicit) \ explicit \subseteq Idb(units)
  BY EvalAssumption DEF TypeOK
<1> QED
  BY <1>1 DEF BaseSound, filterBaseFacts

BaseInv == BaseSound /\ FilterExact

\* BaseInv is preserved: FilterExact is what makes the swap of a reload sound.
LEMMA BaseStep == TypeOK /\ BaseInv /\ [Next]_vars => BaseInv'
<1> SUFFICES ASSUME TypeOK, BaseInv, [Next]_vars PROVE BaseInv'
  OBVIOUS
<1>a. /\ units \in SUBSET Units
      /\ base \in SUBSET Facts
      /\ explicit \in SUBSET Facts
      /\ Sound(units, explicit, base)
  BY DEF TypeOK, BaseInv, BaseSound, Sound
<1>b. ASSUME UNCHANGED reload PROVE FilterExact'
  BY <1>b DEF BaseInv, FilterExact
<1>c. ASSUME UNCHANGED <<units, base, explicit>> PROVE BaseSound'
  BY <1>c DEF BaseInv, BaseSound
<1>d. ASSUME NEW X \in SUBSET Facts, explicit' = explicit \union X, base' = base \union X,
             UNCHANGED units
      PROVE  BaseSound'
  <2>1. explicit \union X \in SUBSET Facts /\ base \union X \in SUBSET Facts
    BY <1>a
  <2>2. base \union X \in EvalInPlace(units, base \union X)
    BY <1>a, <2>1, EvalType DEF EvalInPlace
  <2>3. Sound(units, explicit \union X, base \union X)
    BY <1>a, <2>2, InPlaceSound
  <2> QED
    BY <1>d, <2>3 DEF BaseSound, Sound
<1>1. ASSUME NEW X \in FactBatches, LoadFacts(X) PROVE BaseInv'
  <2>1. X \in SUBSET Facts
    BY RuntimeAssumption
  <2>2. CASE ready
    <3>1. base' \in EvalInPlace(units, base \union X)
      BY <1>1, <2>2 DEF LoadFacts
    <3>2. Sound(units, explicit \union X, base')
      BY <1>a, <2>1, <3>1, InPlaceSound
    <3> QED
      BY <1>1, <1>b, <3>2 DEF LoadFacts, BaseInv, BaseSound, Sound, program
  <2>3. CASE ~ready
    BY <1>1, <1>b, <1>d, <2>1, <2>3 DEF LoadFacts, BaseInv, program
  <2> QED
    BY <2>2, <2>3
<1>2. ASSUME NEW X \in FactBatches, LoadFactsMalformed(X) PROVE BaseInv'
  <2>1. X \in SUBSET Facts
    BY RuntimeAssumption
  <2> QED
    BY <1>2, <1>b, <1>d, <2>1 DEF LoadFactsMalformed, BaseInv, program
<1>3. ASSUME NEW u \in Units, NEW asBuiltin \in BOOLEAN, AddPolicy(u, asBuiltin) PROVE BaseInv'
  <2>1. units' \in SUBSET Units /\ units \subseteq units'
    BY <1>3, <1>a DEF AddPolicy
  <2>2. base' \in EvalInPlace(units', base \union {})
    BY <1>3 DEF AddPolicy
  <2>3. Sound(units', explicit \union {}, base')
    BY <1>a, <2>1, <2>2, InPlaceSound
  <2>4. Sound(units', explicit, base')
    <3>1. explicit \union {} = explicit
      OBVIOUS
    <3> QED
      BY <2>3, <3>1
  <2> QED
    BY <1>3, <1>b, <2>4 DEF AddPolicy, BaseInv, BaseSound, Sound
<1>4. ASSUME NEW p \in LoadPaths, Load(p[1], p[2]) PROVE BaseInv'
  <2>1. p[1] \in SUBSET Units /\ p[2] \in SUBSET Facts
    BY RuntimeAssumption
  <2> QED
    BY <1>4, <1>b, <2>1, EvalType DEF Load, BaseInv, BaseSound
<1>5. ASSUME NEW r \in Reloaders, NEW u \in Units, ReloadStart(r, u) PROVE BaseInv'
  <2>1. FilterExact'
    BY <1>5 DEF TypeOK, BaseInv, FilterExact, ReloadStart
  <2> QED
    BY <1>5, <1>c, <2>1 DEF ReloadStart, BaseInv, program, stores
<1>6. ASSUME NEW r \in Reloaders, ReloadCopy(r) PROVE BaseInv'
  <2>1. filterBaseFacts(base, Idb(units), explicit) = explicit
    BY FilterKeepsExplicit DEF BaseInv
  <2>2. FilterExact'
    BY <1>6, <2>1 DEF TypeOK, BaseInv, FilterExact, ReloadCopy
  <2> QED
    BY <1>6, <1>c, <2>2 DEF ReloadCopy, BaseInv, program, stores
<1>7. ASSUME NEW r \in Reloaders, ReloadSwap(r) PROVE BaseInv'
  <2>1. /\ reload[r].merged = reload[r].explicit
        /\ reload[r].units \in SUBSET Units
        /\ reload[r].explicit \in SUBSET Facts
    BY <1>7 DEF TypeOK, ReloadRecord, BaseInv, FilterExact, ReloadSwap
  <2>2. BaseSound'
    BY <1>7, <2>1, EvalType DEF ReloadSwap, BaseSound
  <2>3. FilterExact'
    BY <1>7 DEF TypeOK, BaseInv, FilterExact, ReloadSwap, IdleReload
  <2> QED
    BY <2>2, <2>3 DEF BaseInv
<1>8. ASSUME NEW r \in Reloaders, ReloadFail(r) PROVE BaseInv'
  <2>1. FilterExact'
    BY <1>8 DEF TypeOK, BaseInv, FilterExact, ReloadFail, IdleReload
  <2> QED
    BY <1>8, <1>c, <2>1 DEF ReloadFail, BaseInv, program, stores
<1>9. ASSUME UNCHANGED <<program, stores, reload>> PROVE BaseInv'
  BY <1>9, <1>b, <1>c DEF BaseInv, program, stores
<1>10. CASE \E q \in Queriers :
              \/ \E F \in RequestFacts : QueryBegin(q, F)
              \/ QueryFinish(q) \/ QueryFail(q) \/ QueryReturn(q)
  BY <1>10, <1>9 DEF QueryBegin, QueryFinish, QueryFail, QueryReturn
<1>11. CASE UNCHANGED vars
  BY <1>11, <1>9 DEF vars, program, stores
<1> QED
  BY <1>1, <1>2, <1>3, <1>4, <1>5, <1>6, <1>7, <1>8, <1>10, <1>11 DEF Next

\* A new runtime has an empty base store.
LEMMA BaseInit == Init => BaseInv
BY EvalAssumption DEF Init, BaseInv, BaseSound, FilterExact, IdleReload

\* No derivation of replaced rules ever stays in the base store, and no
\* explicit fact is missing from it, whatever fails or interleaves.
THEOREM BaseStoreSound == Spec => []BaseSound
BY TypeInit, TypeStep, BaseInit, BaseStep, PTL DEF Spec, BaseInv

\* A reload evaluates the new program over exactly the explicit facts.
THEOREM ReloadFiltersExactly == Spec => []FilterExact
BY TypeInit, TypeStep, BaseInit, BaseStep, PTL DEF Spec, BaseInv
-----------------------------------------------------------------------------
Current(k) == k.prog = programVersion /\ k.base = baseVersion
NotAhead(k) == k.prog <= programVersion /\ k.base <= baseVersion
Answer(F) == Eval(units, explicit \union F)

\* A cache entry is never ahead of the versions, and one that a query of now
\* would hit holds the answer of now.
CacheExact == \A e \in cache : NotAhead(e.key) /\ (Current(e.key) => e.store = Answer(e.key.req))

\* A query under evaluation will compute the answer of when it began; that is
\* still the answer of now unless its key has gone out of date.
InFlightExact ==
    \A q \in Queriers : query[q].pc = "eval" =>
        /\ Eval(query[q].units, query[q].store) = query[q].want
        /\ NotAhead(query[q].key)
        /\ Current(query[q].key) => query[q].want = Answer(query[q].key.req)

\* Nothing is cached or under evaluation before the first program.
NothingBeforeReady == ~ready => cache = {} /\ \A q \in Queriers : query[q].pc # "eval"

QueryInv == CacheExact /\ InFlightExact /\ NothingBeforeReady /\ QueryExact

\* A write that counts a version and drops the cache preserves QueryInv: every
\* key in flight goes out of date.
LEMMA WriterPreserves ==
    ASSUME TypeOK, QueryInv, UNCHANGED query, InvalidateIDBCache, ready' = TRUE,
           \/ programVersion' = programVersion + 1 /\ baseVersion' = baseVersion
           \/ programVersion' = programVersion /\ baseVersion' = baseVersion + 1
           \/ programVersion' = programVersion + 1 /\ baseVersion' = baseVersion + 1
    PROVE  QueryInv'
<1>1. CacheExact' /\ NothingBeforeReady'
  BY DEF CacheExact, NothingBeforeReady, InvalidateIDBCache
<1>2. QueryExact'
  BY DEF QueryInv, QueryExact
<1>3. ASSUME NEW k \in Keys, NotAhead(k)
      PROVE  /\ k.prog <= programVersion' /\ k.base <= baseVersion'
             /\ ~(k.prog = programVersion' /\ k.base = baseVersion')
  BY <1>3 DEF TypeOK, Keys, NotAhead
<1>4. ASSUME NEW q \in Queriers, query[q].pc = "eval"
      PROVE  /\ query[q].key \in Keys /\ NotAhead(query[q].key)
             /\ Eval(query[q].units, query[q].store) = query[q].want
  BY <1>4 DEF TypeOK, QueryRecord, QueryInv, InFlightExact
<1>5. InFlightExact'
  BY <1>3, <1>4 DEF InFlightExact, NotAhead, Current
<1> QED
  BY <1>1, <1>2, <1>5 DEF QueryInv

\* Steps that leave the program, the facts and the cache alone.
LEMMA ReaderPreserves ==
    ASSUME QueryInv, UNCHANGED <<program, stores, versions, cache>>,
           NEW q \in Queriers, query \in [Queriers -> QueryRecord],
           query' = query \/ query' = [query EXCEPT ![q] = IdleQuery]
    PROVE  QueryInv'
BY DEF QueryInv, CacheExact, InFlightExact, NothingBeforeReady, QueryExact, NotAhead,
       Current, Answer, IdleQuery, program, stores, versions

\* QueryInv is preserved when no batch of facts is malformed.
LEMMA QueryStep ==
    ASSUME ~MalformedBatches
    PROVE  TypeOK /\ BaseInv /\ QueryInv /\ [Next]_vars => QueryInv'
<1> SUFFICES ASSUME TypeOK, BaseInv, QueryInv, [Next]_vars PROVE QueryInv'
  OBVIOUS
<1>a. /\ query \in [Queriers -> QueryRecord]
      /\ units \in SUBSET Units
      /\ base \in SUBSET Facts
      /\ explicit \in SUBSET Facts
      /\ Sound(units, explicit, base)
  BY DEF TypeOK, BaseInv, BaseSound, Sound
<1>1. ASSUME NEW X \in FactBatches, LoadFacts(X) PROVE QueryInv'
  <2>1. CASE ready
    BY <1>1, <2>1, WriterPreserves DEF LoadFacts, program
  <2>2. CASE ~ready
    BY <1>1, <2>2 DEF LoadFacts, QueryInv, CacheExact, InFlightExact, NothingBeforeReady,
                      QueryExact, program, idb
  <2> QED
    BY <2>1, <2>2
<1>2. ASSUME NEW u \in Units, NEW asBuiltin \in BOOLEAN, AddPolicy(u, asBuiltin) PROVE QueryInv'
  BY <1>2, WriterPreserves DEF AddPolicy
<1>3. ASSUME NEW p \in LoadPaths, Load(p[1], p[2]) PROVE QueryInv'
  BY <1>3, WriterPreserves DEF Load
<1>4. ASSUME NEW r \in Reloaders, ReloadSwap(r) PROVE QueryInv'
  BY <1>4, WriterPreserves DEF ReloadSwap
<1>5. ASSUME UNCHANGED <<program, stores, versions, cache, query>> PROVE QueryInv'
  BY <1>5 DEF QueryInv, CacheExact, InFlightExact, NothingBeforeReady, QueryExact, NotAhead,
       Current, Answer, program, stores, versions
<1>6. CASE \E r \in Reloaders :
              (\E u \in Units : ReloadStart(r, u)) \/ ReloadCopy(r) \/ ReloadFail(r)
  BY <1>5, <1>6 DEF ReloadStart, ReloadCopy, ReloadFail, idb
<1>7. ASSUME NEW q \in Queriers, NEW F \in RequestFacts, QueryBegin(q, F) PROVE QueryInv'
  <2> DEFINE key == [prog |-> programVersion, base |-> baseVersion, req |-> F]
  <2>1. F \in SUBSET Facts
    BY RuntimeAssumption
  <2>2. key \in Keys /\ Current(key) /\ NotAhead(key)
    BY <2>1 DEF TypeOK, Keys, Current, NotAhead
  <2>3. Eval(units, base \union F) = Answer(F)
    <3>1. SameEval(units, base \union F, explicit \union F)
      BY <1>a, <2>1, EvalAbsorbs
    <3> QED
      BY <3>1 DEF SameEval, Answer
  <2>4. \A e \in cache : e.key = key => e.store = Answer(F)
    BY <2>2 DEF QueryInv, CacheExact
  <2>5. /\ UNCHANGED <<ready, units, explicit, programVersion, baseVersion, cache>>
        /\ ready
    BY <1>7 DEF QueryBegin, program, stores, versions
  <2>6. \/ query' = [query EXCEPT ![q] = [pc |-> "done", key |-> key, units |-> units,
                                           store |-> Answer(F), want |-> Answer(F)]]
        \/ query' = [query EXCEPT ![q] = [pc |-> "eval", key |-> key, units |-> units,
                                           store |-> base \union F, want |-> Answer(F)]]
    BY <1>7, <2>4 DEF QueryBegin, Answer
  <2>7. CacheExact' /\ NothingBeforeReady'
    BY <2>5 DEF QueryInv, CacheExact, NothingBeforeReady, NotAhead, Current, Answer
  <2>8. QueryExact'
    BY <1>a, <2>6 DEF QueryInv, QueryExact
  <2>9. InFlightExact'
    <3> DEFINE Ok(k, u, st, w) == /\ Eval(u, st) = w
                                  /\ NotAhead(k)
                                  /\ Current(k) => w = Answer(k.req)
    <3>1. Ok(key, units, base \union F, Answer(F))
      BY <2>2, <2>3
    <3>2. \A p \in Queriers : query[p].pc = "eval" =>
             Ok(query[p].key, query[p].units, query[p].store, query[p].want)
      BY DEF QueryInv, InFlightExact
    <3> HIDE DEF Ok
    <3>3. \A p \in Queriers : query'[p].pc = "eval" =>
             Ok(query'[p].key, query'[p].units, query'[p].store, query'[p].want)
      <4> SUFFICES ASSUME NEW p \in Queriers, query'[p].pc = "eval"
                   PROVE  Ok(query'[p].key, query'[p].units, query'[p].store, query'[p].want)
        OBVIOUS
      <4>1. CASE p # q
        <5>1. query'[p] = query[p]
          BY <1>a, <2>6, <4>1
        <5> QED
          BY <3>2, <5>1
      <4>2. CASE p = q
        <5>1. query'[p] = [pc |-> "eval", key |-> key, units |-> units,
                           store |-> base \union F, want |-> Answer(F)]
          <6> HIDE DEF key
          <6>1. \/ query'[q] = [pc |-> "done", key |-> key, units |-> units,
                                store |-> Answer(F), want |-> Answer(F)]
                \/ query'[q] = [pc |-> "eval", key |-> key, units |-> units,
                                store |-> base \union F, want |-> Answer(F)]
            BY <1>a, <2>6
          <6> QED
            BY <4>2, <6>1
        <5> HIDE DEF key
        <5> QED
          BY <3>1, <5>1
      <4> QED
        BY <4>1, <4>2
    <3> QED
      BY <2>5, <3>3 DEF Ok, InFlightExact, NotAhead, Current, Answer
  <2> QED
    BY <2>7, <2>8, <2>9 DEF QueryInv
<1>8. ASSUME NEW q \in Queriers, QueryFinish(q) PROVE QueryInv'
  <2> DEFINE store == Eval(query[q].units, query[q].store)
             entry == [key |-> query[q].key, store |-> store]
  <2>1. /\ store = query[q].want
        /\ NotAhead(query[q].key)
        /\ Current(query[q].key) => query[q].want = Answer(query[q].key.req)
    BY <1>8 DEF QueryFinish, QueryInv, InFlightExact
  <2>2. UNCHANGED <<ready, units, explicit, programVersion, baseVersion>>
    BY <1>8 DEF QueryFinish, program, stores, versions
  <2>3. cache' \subseteq cache \union {entry}
    BY <1>8 DEF QueryFinish, Publish
  <2>4. CacheExact'
    BY <2>1, <2>2, <2>3 DEF QueryInv, CacheExact, NotAhead, Current, Answer
  <2>5. ready
    BY <1>8 DEF QueryFinish, QueryInv, NothingBeforeReady
  <2>6. \/ query' = [query EXCEPT ![q].pc = "panic"]
        \/ query' = [query EXCEPT ![q].pc = "done", ![q].store = store]
    BY <1>8 DEF QueryFinish
  <2>7. /\ query'[q].pc \in {"panic", "done"}
        /\ query'[q].want = query[q].want
        /\ query'[q].pc = "done" => query'[q].store = store
    BY <1>a, <2>6 DEF QueryRecord
  <2>8. \A p \in Queriers : p # q => query'[p] = query[p]
    BY <1>a, <2>6
  <2>9. QueryExact'
    BY <2>1, <2>7, <2>8 DEF QueryInv, QueryExact
  <2>10. \A p \in Queriers : query'[p].pc = "eval" => query'[p] = query[p]
    BY <2>7, <2>8
  <2>11. InFlightExact'
    BY <2>2, <2>10 DEF QueryInv, InFlightExact, NotAhead, Current, Answer
  <2> QED
    BY <2>2, <2>4, <2>5, <2>9, <2>10, <2>11 DEF QueryInv, NothingBeforeReady
<1>9. ASSUME NEW q \in Queriers, QueryFail(q) \/ QueryReturn(q) PROVE QueryInv'
  BY <1>a, <1>9, ReaderPreserves DEF QueryFail, QueryReturn, idb
<1>10. CASE UNCHANGED vars
  BY <1>5, <1>10 DEF vars, program, stores, versions
<1>11. ASSUME NEW X \in FactBatches, LoadFactsMalformed(X) PROVE FALSE
  BY <1>11 DEF LoadFactsMalformed
<1> QED
  BY <1>1, <1>2, <1>3, <1>4, <1>6, <1>7, <1>8, <1>9, <1>10, <1>11 DEF Next

\* Initially nothing is cached and no query runs.
LEMMA QueryInit == Init => QueryInv
BY DEF Init, QueryInv, CacheExact, InFlightExact, NothingBeforeReady, QueryExact, IdleQuery

\* Every query answers for one program and one set of facts, those in force
\* when it began, whether from the cache or not; malformed batches excepted.
THEOREM QueriesExact == ~MalformedBatches => (Spec => []QueryExact)
<1> SUFFICES ASSUME ~MalformedBatches PROVE Spec => []QueryExact
  OBVIOUS
<1>1. TypeOK /\ BaseInv /\ QueryInv /\ [Next]_vars => QueryInv'
  BY QueryStep
<1>2. QueryInv => QueryExact
  BY DEF QueryInv
<1> QED
  BY <1>1, <1>2, TypeInit, TypeStep, BaseInit, BaseStep, QueryInit, PTL DEF Spec
=============================================================================
