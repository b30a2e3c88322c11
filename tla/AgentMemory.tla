---------------------------- MODULE AgentMemory -----------------------------
(***************************************************************************)
(* What an agent remembers: sdk/memory_orchestrator.go (HybridMemory) over *)
(* adapters/vector/simple_store.go (SimpleStore).                          *)
(*                                                                         *)
(* Embedding is outside the store's lock, and a recall takes the lock once *)
(* for the search and once more for each document.  A document's content   *)
(* is a number; its vector is known by the content it was computed from,   *)
(* and its score against a query by Similarity.  Documents are only added  *)
(* or replaced by SimpleStore; another VectorStore may miss one on Get.    *)
(***************************************************************************)
EXTENDS Naturals, Sequences, FiniteSets, SequencesExt, FiniteSetsExt, Functions

CONSTANTS
    DocIDs, Contents,   \* identifiers, docID of the contents among them
    Similarity(_, _),        \* cosineSimilarity of a query and a content
    Queries,            \* queries of recalls
    TopK,               \* HybridMemory.TopK; below 1 it counts as 3
    Clients             \* concurrent callers

VARIABLES
    vectors, docs,      \* SimpleStore: content a vector is of, and content
    client              \* locals of each caller

memoryVars == <<vectors, docs, client>>

NoDoc == 0
Resting == [at |-> "rest"]
Limit == IF TopK <= 0 THEN 3 ELSE TopK

\* Memorize's identifier is a hash of the content; two contents with one hash
\* are left out.
docID(content) == <<"sha256", content>>

\* Search: the identifiers by descending score, at most topK; ties come in
\* the order of the map's iteration.
Search(query, topK) ==
    {SubSeq(s, 1, Min({topK, Len(s)})) :
        s \in {t \in SetToSeqs({d \in DocIDs : vectors[d] # NoDoc}) :
                 \A i, j \in DOMAIN t : i < j => Similarity(query, vectors[t[i]]) >= Similarity(query, vectors[t[j]])}}
-----------------------------------------------------------------------------
MemoryInit ==
    /\ vectors = [d \in DocIDs |-> NoDoc] /\ docs = [d \in DocIDs |-> NoDoc]
    /\ client = [c \in Clients |-> Resting]

\* Upsert, of a document or of what Memorize composes: the embedder is called
\* and a failure changes nothing.
Upsert(c, id, content) ==
    /\ client[c] = Resting
    /\ client' = [client EXCEPT ![c] = [at |-> "embedded", id |-> id, content |-> content]]
    /\ UNCHANGED <<vectors, docs>>
Memorize(c, content) == Upsert(c, docID(content), content)

\* Upsert's critical section.
Store(c) ==
    /\ client[c].at = "embedded"
    /\ docs' = [docs EXCEPT ![client[c].id] = client[c].content]
    /\ vectors' = [vectors EXCEPT ![client[c].id] = client[c].content]
    /\ client' = [client EXCEPT ![c] = Resting]

\* A recall's search, under the lock; no hit: no context, no facts.
StartRecall(c, query, facts) ==
    /\ client[c] = Resting
    /\ \E ids \in Search(query, Limit) :
          client' = [client EXCEPT ![c] = [at |-> "recall", left |-> ids, hits |-> <<>>,
                                           context |-> <<>>, hit |-> 0, facts |-> facts]]
    /\ UNCHANGED <<vectors, docs>>

RecallDocs(c, query) == StartRecall(c, query, FALSE)
RecallWithFacts(c, query) == StartRecall(c, query, TRUE)

\* GetDocument that numbers a hit by its position, also when it is skipped.
GetDocumentByPosition(c, found) ==
    LET r == client[c]
        id == Head(r.left)
    IN  /\ r.at = "recall" /\ r.left # <<>>
        /\ client' = [client EXCEPT ![c] = [@ EXCEPT !.left = Tail(@), !.hit = @ + 1,
              !.hits = IF found /\ r.facts THEN Append(@, <<r.hit, id>>) ELSE @,
              !.context = IF found THEN Append(@, [id |-> id, content |-> docs[id]]) ELSE @]]
        /\ UNCHANGED <<vectors, docs>>

\* The next document: one that cannot be read is left out, and so is its hit.
GetDocument(c, found) ==
    LET r == client[c]
        id == Head(r.left)
    IN  /\ r.at = "recall" /\ r.left # <<>>
        /\ client' = [client EXCEPT ![c] = [@ EXCEPT !.left = Tail(@),
              !.hit = IF found THEN @ + 1 ELSE @,
              !.hits = IF found /\ r.facts THEN Append(@, <<r.hit, id>>) ELSE @,
              !.context = IF found THEN Append(@, [id |-> id, content |-> docs[id]]) ELSE @]]
        /\ UNCHANGED <<vectors, docs>>

\* All documents are read: context and facts are returned.
Recalled(c) ==
    /\ client[c].at = "recall" /\ client[c].left = <<>>
    /\ client' = [client EXCEPT ![c] = Resting]
    /\ UNCHANGED <<vectors, docs>>

MemoryNext ==
    \E c \in Clients :
          \/ \E d \in DocIDs, t \in Contents : Upsert(c, d, t)
          \/ \E t \in Contents : Memorize(c, t)
          \/ Store(c) \/ Recalled(c)
          \/ \E q \in Queries : RecallDocs(c, q) \/ RecallWithFacts(c, q)
          \/ \E found \in BOOLEAN : GetDocument(c, found)
-----------------------------------------------------------------------------
\* The vector a document is found by is the vector of its content, although it
\* is computed before the lock is taken and other callers replace the document
\* meanwhile.
VectorsMatchDocs == vectors = docs

\* The facts memory_hit_0, memory_hit_1, ... a policy judges are numbered
\* without gaps and name, in order, the documents of the context the model
\* gets, also when documents were missing or replaced after the search.
HitsDescribeContext ==
    \A c \in Clients : client[c].at = "recall" /\ client[c].facts =>
        client[c].hits = [i \in DOMAIN client[c].context |-> <<i - 1, client[c].context[i].id>>]

\* What a search returns is full, and not beaten by a document it left out.
SearchIsBest ==
    \A q \in Queries : \A ids \in Search(q, Limit) :
        LET known == {d \in DocIDs : vectors[d] # NoDoc}
        IN  /\ Len(ids) = Min({Limit, Cardinality(known)})
            /\ \A d \in known \ ToSet(ids), i \in DOMAIN ids :
                  Similarity(q, vectors[d]) <= Similarity(q, vectors[ids[i]])

\* What an agent recalls is the best there was, under the right numbers.
RecallExact == VectorsMatchDocs /\ HitsDescribeContext /\ SearchIsBest
=============================================================================
