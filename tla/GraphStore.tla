----------------------------- MODULE GraphStore -----------------------------
(***************************************************************************)
(* internal/adapters/storage/graph: quads in four index permutations of a  *)
(* Badger database, and a fact counter kept both in memory (numFacts) and  *)
(* under a key of the database.                                            *)
(*                                                                         *)
(* Badger is external: a read-write transaction reads a snapshot and fails *)
(* at commit if a key it read was written since; a write batch does not    *)
(* look.  A key is a tuple <<prefix, word, word, word, word>>; big-endian  *)
(* words make the byte order of keys the order of the tuples.              *)
(***************************************************************************)
EXTENDS Integers, Sequences, SequencesExt, FiniteSets, FiniteSetsExt

CONSTANTS
  Quads,      \* the quads writers may add, as tuples <<s, p, o, g>> of words
  Writers,    \* concurrent callers
  MaxOps      \* bound on the number of calls

VARIABLES
  db,         \* the index keys on disk
  diskCount,  \* the value of KeyFactCount
  numFacts,   \* the counter in memory
  open,       \* the store is open
  writer,     \* each writer's call
  wrote,      \* how often each quad was committed, for Badger's conflicts
  past        \* history: calls made, overlapping calls, facts and counter at boot

graphVars == <<db, diskCount, numFacts, open, writer, wrote, past>>

PrefixSPOg == 16
PrefixPOSg == 17
PrefixPSOg == 18
PrefixGSPO == 19
Indexes == {PrefixSPOg, PrefixPOSg, PrefixPSOg, PrefixGSPO}

\* EncodeQuadKey: the permutation of each index.
EncodeQuadKey(prefix, q) ==
  LET s == q[1] p == q[2] o == q[3] g == q[4]
  IN  CASE prefix = PrefixSPOg -> <<prefix, s, p, o, g>>
        [] prefix = PrefixPOSg -> <<prefix, p, o, s, g>>
        [] prefix = PrefixPSOg -> <<prefix, p, s, o, g>>
        [] prefix = PrefixGSPO -> <<prefix, g, s, p, o>>

\* DecodeQuadKey: back to <<s, p, o, g>>.
DecodeQuadKey(k) ==
  CASE k[1] = PrefixSPOg -> <<k[2], k[3], k[4], k[5]>>
    [] k[1] = PrefixPOSg -> <<k[4], k[2], k[3], k[5]>>
    [] k[1] = PrefixPSOg -> <<k[3], k[2], k[4], k[5]>>
    [] k[1] = PrefixGSPO -> <<k[3], k[4], k[5], k[2]>>

KeysOf(q) == {EncodeQuadKey(p, q) : p \in Indexes}

Facts(keys) == {DecodeQuadKey(k) : k \in {j \in keys : j[1] = PrefixSPOg}}

\* The order of keys in Badger's tables.
KeyLess(a, b) ==
  \E i \in 1 .. 5 : a[i] < b[i] /\ \A j \in 1 .. i - 1 : a[j] = b[j]

\* Scan: the decoded keys of one index from seekKey on, at most limit of them
\* (all of them when limit is 0).
Scan(prefix, seekKey, limit) ==
  LET keys == SetToSortSeq({k \in db : k[1] = prefix /\ ~KeyLess(k, seekKey)}, KeyLess)
      upTo == IF limit > 0 /\ limit < Len(keys) THEN limit ELSE Len(keys)
  IN  [i \in 1 .. upTo |-> DecodeQuadKey(keys[i])]

Idle == [at |-> "idle"]

GraphInit ==
  /\ db = {} /\ diskCount = 0 /\ numFacts = 0 /\ open = TRUE
  /\ writer = [w \in Writers |-> Idle]
  /\ wrote = [q \in Quads |-> 0]
  /\ past = [ops |-> 0, overlap |-> FALSE, facts |-> 0, count |-> 0]

Begin(w, call) ==
  /\ open /\ writer[w] = Idle /\ past.ops < MaxOps
  /\ writer' = [writer EXCEPT ![w] = call]
  /\ past' = [past EXCEPT !.ops = @ + 1,
                          !.overlap = @ \/ \E v \in Writers : writer[v] # Idle]
  /\ UNCHANGED <<db, diskCount, numFacts, open, wrote>>

-----------------------------------------------------------------------------
(* AddFact: one read-write transaction *)

\* The transaction begins and looks the quad up in its snapshot.
AddFact(w, q) ==
  Begin(w, [at |-> "add", quads |-> {q}, new |-> IF q \in Facts(db) THEN 0 ELSE 1,
            seen |-> wrote[q], buf |-> 0])

\* numFacts.Add(1) for a quad the snapshot does not have.
Count(w) ==
  /\ writer[w].at = "add"
  /\ IF writer[w].new = 0
     THEN /\ writer' = [writer EXCEPT ![w].at = "commit"] /\ UNCHANGED numFacts
     ELSE /\ numFacts' = numFacts + 1
          /\ writer' = [writer EXCEPT ![w].at = "load"]
  /\ UNCHANGED <<db, diskCount, open, wrote, past>>

\* numFacts.Load() into the value to be written under KeyFactCount.
LoadCount(w) ==
  /\ writer[w].at = "load"
  /\ writer' = [writer EXCEPT ![w].at = "commit", ![w].buf = numFacts]
  /\ UNCHANGED <<db, diskCount, numFacts, open, wrote, past>>

\* What a commit writes: all keys of the quads, and the counter if it counted.
Write(w) ==
  /\ db' = db \cup UNION {KeysOf(q) : q \in writer[w].quads}
  /\ wrote' = [q \in Quads |-> IF q \in writer[w].quads THEN wrote[q] + 1 ELSE wrote[q]]
  /\ diskCount' = IF writer[w].new > 0 THEN writer[w].buf ELSE diskCount
  /\ writer' = [writer EXCEPT ![w] = Idle]
  /\ UNCHANGED <<numFacts, open, past>>

\* The transaction commits; or it conflicts with another writer of its quad,
\* or finds the database closed, and the call returns an error.
CommitFact(w) ==
  /\ writer[w].at = "commit"
  /\ LET conflict == \E q \in writer[w].quads : wrote[q] # writer[w].seen
     IN  \/ open /\ ~conflict /\ Write(w)
         \/ /\ conflict \/ ~open
            /\ writer' = [writer EXCEPT ![w] = Idle]
            /\ UNCHANGED <<db, diskCount, numFacts, open, wrote, past>>

-----------------------------------------------------------------------------
(* AddFacts: a scan for duplicates, then a write batch *)

\* The read-only pre-scan counts the quads that are not there yet.
AddFacts(w, batch) ==
  Begin(w, [at |-> "batch", quads |-> batch, new |-> Cardinality(batch \ Facts(db)),
            seen |-> 0, buf |-> 0])

\* numFacts.Add(newCount): its result is what will be written.
CountBatch(w) ==
  /\ writer[w].at = "batch"
  /\ numFacts' = numFacts + writer[w].new
  /\ writer' = [writer EXCEPT ![w].at = "flush", ![w].buf = numFacts']
  /\ UNCHANGED <<db, diskCount, open, wrote, past>>

\* wb.Flush, without conflict detection; it fails on a closed database.
Flush(w) ==
  /\ writer[w].at = "flush"
  /\ \/ open /\ Write(w)
     \/ /\ ~open
        /\ writer' = [writer EXCEPT ![w] = Idle]
        /\ UNCHANGED <<db, diskCount, numFacts, open, wrote, past>>

-----------------------------------------------------------------------------
(* Close, crash and boot *)

Close ==
  /\ open /\ open' = FALSE
  /\ UNCHANGED <<db, diskCount, numFacts, writer, wrote, past>>

\* initializeCounters that starts from zero.
NewStoreFromZero ==
  /\ ~open /\ \A w \in Writers : writer[w] = Idle
  /\ open' = TRUE /\ numFacts' = 0
  /\ past' = [past EXCEPT !.facts = Cardinality(Facts(db)), !.count = 0]
  /\ UNCHANGED <<db, diskCount, writer, wrote>>

\* NewStoreWithOptions and initializeCounters: the counter comes from disk.
NewStore ==
  /\ ~open /\ \A w \in Writers : writer[w] = Idle
  /\ open' = TRUE /\ numFacts' = diskCount
  /\ past' = [past EXCEPT !.facts = Cardinality(Facts(db)), !.count = diskCount]
  /\ UNCHANGED <<db, diskCount, writer, wrote>>

\* The process dies: calls in flight are gone, transactions are atomic.
Crash ==
  /\ open /\ open' = FALSE
  /\ writer' = [w \in Writers |-> Idle]
  /\ UNCHANGED <<db, diskCount, numFacts, wrote, past>>

GraphNext ==
  \/ \E w \in Writers :
       \/ \E q \in Quads : AddFact(w, q)
       \/ \E batch \in SUBSET Quads \ {{}} : AddFacts(w, batch)
       \/ Count(w) \/ LoadCount(w) \/ CommitFact(w) \/ CountBatch(w) \/ Flush(w)
  \/ Close \/ NewStore \/ Crash

-----------------------------------------------------------------------------

\* The four indexes describe the same quads at every moment, whatever crashed
\* or ran in parallel (AddFact: "all four index permutations atomically").
IndexesAgree ==
  \A p \in Indexes : {DecodeQuadKey(k) : k \in {j \in db : j[1] = p}} = Facts(db)

\* A scan of any index from its start finds every fact exactly once, and the
\* scan from the key where a limited one stopped goes on where that one ended.
ScanComplete ==
  \A p \in Indexes :
    LET all == Scan(p, <<p, 0, 0, 0, 0>>, 0)
    IN  /\ ToSet(all) = Facts(db) /\ Len(all) = Cardinality(Facts(db))
        /\ \A i \in DOMAIN all :
             /\ Scan(p, <<p, 0, 0, 0, 0>>, i) = SubSeq(all, 1, i)
             /\ Scan(p, EncodeQuadKey(p, all[i]), 0) = SubSeq(all, i, Len(all))

\* Since the store was opened, the counter in memory has grown by at least the
\* number of facts that were added: it counts before it commits.
CounterCoversFacts ==
  open => numFacts - past.count >= Cardinality(Facts(db)) - past.facts

\* As long as no two calls have overlapped, the counter of a quiet open store
\* and the one on disk are the number of facts, through any crash and restart.
SerialCountExact ==
  /\ ~past.overlap /\ open /\ \A w \in Writers : writer[w] = Idle
  => numFacts = Cardinality(Facts(db)) /\ diskCount = numFacts

\* "Value-less keys are idempotent on re-insert, so a duplicate AddFact must
\* not inflate the counter" (store.go:107-108).
DuplicatesNotCounted ==
  open /\ (\A w \in Writers : writer[w] = Idle) => numFacts <= Cardinality(Facts(db))

\* The store is exact: the indexes agree, scans are complete, and the counters
\* are right as far as overlapping calls let them be.
StoreExact == IndexesAgree /\ ScanComplete /\ CounterCoversFacts /\ SerialCountExact
=============================================================================
