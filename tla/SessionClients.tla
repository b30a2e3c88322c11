--------------------------- MODULE SessionClients ---------------------------
(***************************************************************************)
(* Clients of the session stores: any sequence of operations on the        *)
(* in-memory store, or on the transient store through its adapter, while   *)
(* facts age, the default time to live changes and expired facts are       *)
(* cleaned up.  Every operation holds the store's lock and is one step.    *)
(***************************************************************************)
EXTENDS SessionStores

CONSTANTS
    Sessions, Workflows,   \* identifiers; a workflow's has one segment
    Values,                \* instances
    Notes,                 \* sessions and keys of other facts in the transient store
    TTLs                   \* default times to live in use, in ticks

VARIABLES backend, mem, facts, ttl

storeVars == <<backend, mem, facts, ttl>>

IDs == Sessions \X Workflows

StoreInit ==
    /\ backend \in {"memory", "transient"}
    /\ mem = EmptyMem
    /\ facts = <<>>
    /\ ttl \in TTLs

Memory(m) == backend = "memory" /\ mem' = m /\ UNCHANGED <<backend, facts, ttl>>
Transient(t) == backend = "transient" /\ facts' = t /\ UNCHANGED <<backend, mem, ttl>>

Create(s, w, v) ==
    \/ ~MemHas(mem, SessionKey(s, w)) /\ Memory(MemCreate(mem, s, w, v))
    \/ Transient(AdapterPut(facts, s, w, v, ttl))
Update(s, w, v) ==
    \/ Memory(MemUpdate(mem, s, w, v))
    \/ Transient(AdapterPut(facts, s, w, v, ttl))
DeleteKey(s, w) ==
    \/ Memory(MemDelete(mem, s, w))
    \/ Transient(AdapterDelete(facts, SessionKey(s, w)))
Clear(s) ==
    \/ Memory(MemClearSession(mem, s))
    \/ Transient(ClearSession(facts, s))

\* Other users of the transient store put facts of their own.
PutNote(s, k) ==
    Transient(Put(facts, s, k, [pred |-> "note", object |-> None, graph |-> "session",
                                age |-> 0, ttl |-> 0], ttl))

Cleanup == Transient(CleanupExpired(facts))
SetTTL(d) == backend = "transient" /\ ttl' = d /\ UNCHANGED <<backend, mem, facts>>
\* Ages past the time to live are not told apart.
Tick ==
    Transient([s \in DOMAIN facts |->
                 [k \in DOMAIN facts[s] |-> 
                    [facts[s][k] EXCEPT !.age = Min({@ + 1, facts[s][k].ttl + 1})]]])

StoreNext ==
    \/ \E s \in Sessions, w \in Workflows :
          DeleteKey(s, w) \/ \E v \in Values : Create(s, w, v) \/ Update(s, w, v)
    \/ \E s \in Sessions : Clear(s)
    \/ \E n \in Notes : PutNote(n[1], n[2])
    \/ Cleanup
    \/ \E d \in TTLs : SetTTL(d)
    \/ Tick
-----------------------------------------------------------------------------
\* What each store answers for an instance.
MemView == [id \in IDs |-> MemGet(mem, SessionKey(id[1], id[2]))]
FactView == [id \in IDs |-> AdapterGet(facts, SessionKey(id[1], id[2]))]

MemMap == INSTANCE SessionMap WITH kv <- MemView, Forgetful <- FALSE
FactMap == INSTANCE SessionMap WITH kv <- FactView, Forgetful <- TRUE

\* The in-memory store is the map its interface promises: Create and Update
\* change one instance, ClearSession removes exactly the session's, through the
\* bySession index, and sessions whose identifiers extend one another do not
\* mix although all keys share one map.
MemoryIsMap == MemMap!Spec

\* The adapter over the transient store is the same map, except that instances
\* expire: cleaning up, other users' facts and a new default time to live are
\* invisible, and looking a key up in the session its text names finds it.
TransientIsMap == FactMap!Spec

\* List answers the instances Get answers for the session, each once, in both
\* stores: the index of the one and the predicate filter of the other agree
\* with the keys.
Listed(s, view) == {view[<<s, w>>] : w \in Workflows} \ {None}
ListAgrees ==
    \A s \in Sessions :
        /\ ToSet(MemList(mem, s)) = Listed(s, MemView)
        /\ Len(MemList(mem, s)) = Cardinality({w \in Workflows : MemView[<<s, w>>] # None})
        /\ AdapterList(facts, s) = Listed(s, FactView)

\* An answer never depends on when the cleaner runs, and the cleaner leaves no
\* expired fact and no empty session behind.
CleanupInvisible ==
    LET clean == CleanupExpired(facts)
    IN  /\ \A s \in Sessions : GetAll(clean, s) = GetAll(facts, s)
        /\ \A s \in DOMAIN clean : clean[s] # <<>> /\ \A k \in DOMAIN clean[s] : ~IsExpired(clean[s][k])

\* Both stores are maps from sessions and keys to values, expiry and cleanup
\* included.
StoresAreMaps == MemoryIsMap /\ TransientIsMap /\ [](ListAgrees /\ CleanupInvisible)
=============================================================================
