---------------------------- MODULE ShardedDict ----------------------------
(***************************************************************************)
(* internal/adapters/storage/dict: strings interned as numbers, in shards  *)
(* with a lock each and one atomic counter for all of them.  The persisted *)
(* dictionary is loaded first; then callers intern strings concurrently.   *)
(***************************************************************************)
EXTENDS Integers, FiniteSets, FiniteSetsExt, Functions

CONSTANTS
  Strings,    \* the strings to intern
  Shard,      \* Shard[s]: the shard a string hashes to
  Persisted,  \* a set of <<string, id>> to load, one per string and id
  Threads     \* concurrent callers

VARIABLES
  strToID,    \* the partial map of all shards together
  idToStr,    \* its inverse, per shard: a set of <<shard, id, string>>
  nextID,     \* the atomic counter
  toLoad,     \* what Load has still to be called with
  intern      \* each thread's call

dictVars == <<strToID, idToStr, nextID, toLoad, intern>>

DictInit ==
  /\ strToID = <<>> /\ idToStr = {} /\ nextID = 100
  /\ toLoad = Persisted
  /\ intern = [t \in Threads |-> [at |-> "idle", str |-> "", id |-> 0]]

BindID(s, id) ==
  /\ strToID' = [x \in DOMAIN strToID \cup {s} |-> IF x = s THEN id ELSE strToID[x]]
  /\ idToStr' = idToStr \cup {<<Shard[s], id, s>>}

\* Load: the counter is moved ahead of the loaded number.
Load(p) ==
  /\ p \in toLoad /\ toLoad' = toLoad \ {p}
  /\ BindID(p[1], p[2])
  /\ nextID' = IF p[2] < nextID THEN nextID ELSE p[2] + 1
  /\ UNCHANGED intern

\* GetOrCreateID, the optimistic read under the read lock.
GetOrCreateID(t, s) ==
  /\ toLoad = {} /\ intern[t].at = "idle"
  /\ intern' = [intern EXCEPT ![t] =
                  IF s \in DOMAIN strToID THEN [at |-> "done", str |-> s, id |-> strToID[s]]
                  ELSE [at |-> "miss", str |-> s, id |-> 0]]
  /\ UNCHANGED <<strToID, idToStr, nextID, toLoad>>


\* The write lock: look again, else take the next number.
Create(t) ==
  /\ intern[t].at = "miss"
  /\ LET s == intern[t].str
     IN  IF s \in DOMAIN strToID
         THEN /\ intern' = [intern EXCEPT ![t].at = "done", ![t].id = strToID[s]]
              /\ UNCHANGED <<strToID, idToStr, nextID>>
         ELSE /\ nextID' = nextID + 1
              /\ BindID(s, nextID')
              /\ intern' = [intern EXCEPT ![t].at = "done", ![t].id = nextID']
  /\ UNCHANGED toLoad

\* GetString: the first shard that knows the number.
GetString(id) ==
  LET known == {e \in idToStr : e[2] = id}
  IN  IF known = {} THEN ""
      ELSE (CHOOSE e \in known : \A f \in known : e[1] <= f[1])[3]

DictNext ==
  \/ \E p \in Persisted : Load(p)
  \/ \E t \in Threads : Create(t) \/ \E s \in Strings : GetOrCreateID(t, s)

\* Callers that asked for the same string have the same number, whatever raced
\* or was loaded before, and the number leads back to the string.
InternExact ==
  \A t, u \in Threads :
    intern[t].at = "done" /\ intern[u].at = "done" =>
      /\ intern[t].str = intern[u].str <=> intern[t].id = intern[u].id
      /\ GetString(intern[t].id) = intern[t].str

\* No number, loaded or created, stands for two strings.
NumbersUnique == \A e, f \in idToStr : e[2] = f[2] => e[3] = f[3]

\* The dictionary is one bijection between strings and numbers for all callers.
DictExact == InternExact /\ NumbersUnique
=============================================================================
