--------------------------- MODULE SessionStores ----------------------------
(***************************************************************************)
(* The two homes of workflow instances, as functions on their states:      *)
(* sdk/ports/session_store.go (InMemorySessionStore) and, behind the       *)
(* adapter of x/agents/architect.go, adapters/storage/session/store.go.    *)
(*                                                                         *)
(* An identifier is the sequence of its ":"-separated segments, so that    *)
(* building and splitting a session key are what the code does.  Go maps   *)
(* are functions on the present keys.  A fact of the transient store has   *)
(* an age, in ticks since CreatedAt.                                       *)
(***************************************************************************)
EXTENDS Naturals, Sequences, FiniteSets, SequencesExt, FiniteSetsExt, Functions

CONSTANT None   \* the missing instance

Without(f, keys) == Restrict(f, DOMAIN f \ keys)
With(f, key, v) == [k \in DOMAIN f \union {key} |-> IF k = key THEN v ELSE f[k]]

SessionKey(s, w) == s \o w
splitSessionKey(key) == <<Front(key), <<Last(key)>>>>
-----------------------------------------------------------------------------
\* InMemorySessionStore: sessions by key, and the keys of each session.
EmptyMem == [sessions |-> <<>>, bySession |-> <<>>]

MemHas(m, key) == key \in DOMAIN m.sessions
MemGet(m, key) == IF MemHas(m, key) THEN m.sessions[key] ELSE None

Indexed(m, s) == IF s \in DOMAIN m.bySession THEN m.bySession[s] ELSE <<>>

MemCreate(m, s, w, v) ==
    [sessions |-> With(m.sessions, SessionKey(s, w), v),
     bySession |-> With(m.bySession, s, Append(Indexed(m, s), SessionKey(s, w)))]

MemUpdate(m, s, w, v) ==
    IF MemHas(m, SessionKey(s, w))
    THEN [m EXCEPT !.sessions = With(@, SessionKey(s, w), v)]
    ELSE m

MemDelete(m, s, w) ==
    LET key == SessionKey(s, w)
        rest == SelectSeq(Indexed(m, s), LAMBDA k : k # key)
    IN  IF ~MemHas(m, key) THEN m
        ELSE [sessions |-> Without(m.sessions, {key}),
              bySession |-> IF rest = <<>> THEN Without(m.bySession, {s})
                            ELSE With(m.bySession, s, rest)]

MemList(m, s) ==
    LET keys == SelectSeq(Indexed(m, s), LAMBDA k : MemHas(m, k))
    IN  [i \in DOMAIN keys |-> m.sessions[keys[i]]]

MemClearSession(m, s) ==
    [sessions |-> Without(m.sessions, ToSet(Indexed(m, s))),
     bySession |-> Without(m.bySession, {s})]
-----------------------------------------------------------------------------
\* SessionStore: session -> key -> fact.
IsExpired(fact) == fact.ttl > 0 /\ fact.age > fact.ttl

SessionOf(t, s) == IF s \in DOMAIN t THEN t[s] ELSE <<>>

\* A write that renews the whole session.
PutRenewing(t, s, key, fact, ttl) ==
    With(t, s, With([k \in DOMAIN SessionOf(t, s) |-> [t[s][k] EXCEPT !.age = 0]], key,
                    [fact EXCEPT !.age = 0, !.ttl = IF @ = 0 THEN ttl ELSE @]))

\* A fact without a time to live gets the store's.
Put(t, s, key, fact, ttl) ==
    With(t, s, With(SessionOf(t, s), key,
                    [fact EXCEPT !.age = 0, !.ttl = IF @ = 0 THEN ttl ELSE @]))

Get(t, s, key) ==
    IF key \in DOMAIN SessionOf(t, s) /\ ~IsExpired(t[s][key]) THEN t[s][key] ELSE None

GetAll(t, s) == {t[s][k] : k \in {j \in DOMAIN SessionOf(t, s) : ~IsExpired(t[s][j])}}

\* Empty sessions are dropped.
Prune(t) == Restrict(t, {s \in DOMAIN t : t[s] # <<>>})
Delete(t, s, key) ==
    IF s \in DOMAIN t THEN Prune([t EXCEPT ![s] = Without(@, {key})]) ELSE t
ClearSession(t, s) == Without(t, {s})
CleanupExpired(t) ==
    Prune([s \in DOMAIN t |-> Restrict(t[s], {k \in DOMAIN t[s] : ~IsExpired(t[s][k])})])

\* ToAtoms and ToQuads drop what is about time; an atom drops the graph too.
ToQuads(t, s) == {[pred |-> f.pred, object |-> f.object, graph |-> f.graph] : f \in GetAll(t, s)}
ToAtoms(t, s) == {[pred |-> q.pred, object |-> q.object] : q \in ToQuads(t, s)}
-----------------------------------------------------------------------------
\* The adapter keeps an instance as one fact, serialized.  TransientFactsStore
\* hands no time to live on.
InstanceFact(v) ==
    [pred |-> "workflow_instance", object |-> v, graph |-> "session_state", age |-> 0, ttl |-> 0]

AdapterPut(t, s, w, v, ttl) == Put(t, s, SessionKey(s, w), InstanceFact(v), ttl)

\* What is there under the key, looked up in the session its text names; the
\* caller gets a new instance in place of None.
AdapterGet(t, key) ==
    LET fact == Get(t, splitSessionKey(key)[1], key)
    IN  IF fact = None THEN None ELSE fact.object

AdapterDelete(t, key) == Delete(t, splitSessionKey(key)[1], key)

AdapterList(t, s) == {f.object : f \in {g \in GetAll(t, s) : g.pred = "workflow_instance"}}
=============================================================================
