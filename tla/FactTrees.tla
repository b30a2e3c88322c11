----------------------------- MODULE FactTrees ------------------------------
(***************************************************************************)
(* Go values as Datalog facts, and back: internal/engine/reflection.go     *)
(* (ToFacts), flattener.go (Flatten), evaluator.go (structToFacts) and     *)
(* reconstruction.go (FromFacts) with engine/parse.                        *)
(*                                                                         *)
(* A value is a heap: a function from nodes to [kind, entries, text], the  *)
(* entries being [key, to] pairs in the order they are visited; node 1 is  *)
(* the root.  So values may share parts and be cyclic; a nil pointer is a  *)
(* pointer to a node of kind "nil".  A predicate name                      *)
(* is the sequence of the names that are joined with "_".  A leaf's text   *)
(* is a member of a small set; a text that escaping or splitting tells     *)
(* apart is a sequence of character classes.                               *)
(***************************************************************************)
EXTENDS Integers, Sequences, FiniteSets, SequencesExt, FiniteSetsExt

CONSTANTS
    GoValues,     \* heaps
    Texts,        \* argument lists: sequences of sequences of character classes
    FactLists     \* sequences of values one predicate has for one subject

VARIABLES heap, texts, values

treeVars == <<heap, texts, values>>

Root == 1
Entries(h, n) == h[n].entries
Targets(h, n) == {Entries(h, n)[i].to : i \in DOMAIN Entries(h, n)}

\* Whether some cycle of the heap stays within the given kinds.
CycleWithin(h, kinds) ==
    \E S \in SUBSET {n \in DOMAIN h : h[n].kind \in kinds} \ {{}} :
        \A n \in S : Targets(h, n) \intersect S # {}

IndexKey(i) == <<"0", "1", "2", "3">>[i]
KeyOf(h, n, i) == IF h[n].kind = "slice" THEN IndexKey(i) ELSE Entries(h, n)[i].key

\* The value behind pointers.
RECURSIVE Elem(_, _)
Elem(h, n) == IF h[n].kind = "ptr" THEN Elem(h, Entries(h, n)[1].to) ELSE n
-----------------------------------------------------------------------------
(* Flatten.  A fact is <<"link", node, key, child>> or <<"leaf", node, key, text>>. *)
isComplexKind(kind) == kind \in {"map", "slice"}

\* nil adds nothing; a struct is a leaf with its printed form.
addPrimitiveReflect(h, id, key, n) ==
    CASE h[n].kind = "nil" -> <<>>
      [] h[n].kind = "prim" -> <<<<"leaf", id, key, h[n].text>>>>
      [] OTHER -> <<<<"leaf", id, key, "printed">>>>

RECURSIVE flattenRecursive(_, _, _, _)


\* One entry of a map or a slice: a container gets a fresh node and a link.
FlattenEntry(h, id, n, acc, i) ==
    LET to == Entries(h, n)[i].to
        eff == Elem(h, to)
        child == acc.counter + 1
    IN  IF isComplexKind(h[eff].kind)
        THEN flattenRecursive(h, child, to,
                [acc EXCEPT !.counter = child,
                            !.facts = Append(@, <<"link", id, KeyOf(h, n, i), child>>)])
        ELSE [acc EXCEPT !.facts = @ \o addPrimitiveReflect(h, id, KeyOf(h, n, i), eff)]

\* A pointer met before ends here; what it is remembered in is never cleared.
flattenRecursive(h, id, n, acc) ==
    CASE h[n].kind = "ptr" ->
            IF n \in acc.visited THEN acc
            ELSE flattenRecursive(h, id, Entries(h, n)[1].to, [acc EXCEPT !.visited = @ \union {n}])
      [] isComplexKind(h[n].kind) ->
            FoldLeftDomain(LAMBDA a, i : FlattenEntry(h, id, n, a, i), acc, Entries(h, n))
      [] OTHER -> acc

Flatten(h) == flattenRecursive(h, 0, Root, [facts |-> <<>>, counter |-> 0, visited |-> {}]).facts
-----------------------------------------------------------------------------
(* ToFacts.  A fact is <<predicate, arguments, text>>. *)
RECURSIVE toFactsRecursive(_, _, _, _, _)

\* A struct's field extends the predicate, a map's key and a slice's index
\* the arguments.
ToFactsEntry(h, n, path, args, visited, i) ==
    toFactsRecursive(h, Entries(h, n)[i].to,
                     IF h[n].kind = "struct" THEN Append(path, KeyOf(h, n, i)) ELSE path,
                     IF h[n].kind = "struct" THEN args ELSE Append(args, KeyOf(h, n, i)),
                     visited)

generatePrimitiveFact(path, args, text) ==
    <<<<IF path = <<>> THEN <<"value">> ELSE path, args, text>>>>

\* What is on the stack of pointers, maps and slices is not entered again.
toFactsRecursive(h, n, path, args, visited) ==
    LET kind == h[n].kind
        ref == kind \in {"ptr", "map", "slice"}
        inner == IF ref THEN visited \union {n} ELSE visited
    IN  CASE kind = "nil" \/ (ref /\ n \in visited) -> <<>>
          [] kind = "prim" -> generatePrimitiveFact(path, args, h[n].text)
          [] kind = "ptr" /\ n \notin visited ->
                toFactsRecursive(h, Entries(h, n)[1].to, path, args, inner)
          [] kind \in {"map", "slice", "struct"} /\ ~(ref /\ n \in visited) ->
                FoldLeftDomain(LAMBDA facts, i :
                    facts \o ToFactsEntry(h, n, path, args, inner, i), <<>>, Entries(h, n))

ToFacts(h) == toFactsRecursive(h, Root, <<>>, <<>>, {})
-----------------------------------------------------------------------------
(* structToFacts.  Atoms are <<predicate, text>>; err tells of a part that  *)
(* was skipped.                                                            *)
Atoms(as) == [atoms |-> as, err |-> FALSE]
NoAtoms == [atoms |-> <<>>, err |-> TRUE]

RECURSIVE structToFactsRecursive(_, _, _)

\* The parts' atoms in order; one failed part makes the whole report an error.
Collect(h, n, prefix) ==
    FoldLeftDomain(LAMBDA acc, i :
        LET part == structToFactsRecursive(h, Entries(h, n)[i].to, Append(prefix, KeyOf(h, n, i)))
        IN  [atoms |-> acc.atoms \o part.atoms, err |-> acc.err \/ part.err],
        Atoms(<<>>), Entries(h, n))

\* One pointer is followed, a pointer behind it is of no kind handled.
structToFactsRecursive(h, n, prefix) ==
    LET v == IF h[n].kind = "ptr" THEN Entries(h, n)[1].to ELSE n
        parts == Collect(h, v, prefix)
    IN  CASE h[n].kind = "ptr" /\ h[v].kind = "nil" -> NoAtoms
          [] h[v].kind = "prim" -> Atoms(<<<<prefix, h[v].text>>>>)
          [] h[v].kind \in {"map", "slice"} -> parts
          [] h[v].kind = "struct" -> IF parts.atoms = <<>> THEN NoAtoms ELSE parts
          [] OTHER -> Atoms(<<>>)

structToFacts(h) ==
    LET v == IF h[Root].kind = "ptr" THEN Entries(h, Root)[1].to ELSE Root
        all == structToFactsRecursive(h, Root, <<>>)
    IN  IF h[v].kind # "struct" \/ all.err \/ all.atoms = <<>> THEN NoAtoms ELSE all
-----------------------------------------------------------------------------
(* FromFacts.  Facts are subject, key, value; a target type is a function  *)
(* from tags to types, or "prim", or "list".                               *)
Prim == [kind |-> "prim"]
ListOf == [kind |-> "list"]
StructOf(fields) == [kind |-> "struct", fields |-> fields]

buildFactIndex(facts, id, key) ==
    LET own == SelectSeq(facts, LAMBDA f : f[2] = id /\ f[3] = key)
    IN  [i \in DOMAIN own |-> own[i]]

SingleValue(found) == found[1]

\* Only the tags that have facts are set: a list takes all of them, any
\* other field one.
RECURSIVE hydrate(_, _, _)
hydrate(type, id, facts) ==
    {LET found == buildFactIndex(facts, id, tag)
         field == type.fields[tag]
     IN  CASE field.kind = "list" -> <<tag, "list", [i \in DOMAIN found |-> found[i][4]]>>
           [] field.kind = "prim" -> <<tag, "leaf", SingleValue(found)[4]>>
           [] field.kind = "struct" -> <<tag, "node", hydrate(field, SingleValue(found)[4], facts)>> :
        tag \in {t \in DOMAIN type.fields : buildFactIndex(facts, id, t) # <<>>}}

FromFacts(type, facts) == hydrate(type, 0, facts)
-----------------------------------------------------------------------------
(* escapeString and ParseAtomContent.  Character classes: "q" a quote, "b" *)
(* a backslash, "n" a line end, "c" a comma, "s" a space, "x" any other,   *)
(* "ctl" another control character; a line end is escaped to b, "N".       *)
escapeString(s) ==
    FlattenSeq([i \in DOMAIN s |->
        CASE s[i] \in {"b", "q"} -> <<"b", s[i]>>
          [] s[i] = "n" -> <<"b", "N">>
          [] s[i] = "ctl" -> <<"s">>
          [] OTHER -> <<s[i]>>])

\* The arguments of a fact as the converters write them.
Rendered(args) ==
    FlattenSeq([i \in DOMAIN args |->
        (IF i = 1 THEN <<>> ELSE <<"c", "s">>) \o <<"q">> \o escapeString(args[i]) \o <<"q">>])

\* Spaces before and after the argument.
TrimSpace(s) ==
    LET kept == {i \in DOMAIN s : s[i] # "s"}
    IN  IF kept = {} THEN <<>> ELSE SubSeq(s, Min(kept), Max(kept))

\* Splits at commas outside quotes; an escaped quote counts as a quote.
SplitArgs(s) ==
    FoldLeft(LAMBDA acc, ch :
        CASE ch = "q" -> [acc EXCEPT !.quoted = ~@, !.cur = Append(@, ch)]
          [] ch = "c" /\ ~acc.quoted ->
                [acc EXCEPT !.args = Append(@, TrimSpace(acc.cur)), !.cur = <<>>]
          [] OTHER -> [acc EXCEPT !.cur = Append(@, ch)],
        [args |-> <<>>, cur |-> <<>>, quoted |-> FALSE], s)

ParseAtomContent(s) ==
    LET split == SplitArgs(s)
        all == IF split.cur = <<>> THEN split.args ELSE Append(split.args, TrimSpace(split.cur))
        quoted(a) == a # <<>> /\ a[1] = "q" /\ a[Len(a)] = "q"
    IN  [i \in DOMAIN all |->
            IF ~quoted(all[i]) THEN all[i]
            ELSE IF Len(all[i]) >= 2 THEN SubSeq(all[i], 2, Len(all[i]) - 1) ELSE <<>>]

\* The Datalog parser reads a string constant up to the first quote that is
\* not escaped, and unescapes it; the rest is left over.
ReadConstant(s) ==
    FoldLeft(LAMBDA acc, ch :
        CASE acc.at = "out" -> [acc EXCEPT !.rest = Append(@, ch)]
          [] acc.at = "escape" ->
                [acc EXCEPT !.at = "in", !.text = Append(@, IF ch = "N" THEN "n" ELSE ch)]
          [] acc.at = "in" /\ ch = "b" -> [acc EXCEPT !.at = "escape"]
          [] acc.at = "in" /\ ch = "q" -> [acc EXCEPT !.at = "out"]
          [] OTHER -> [acc EXCEPT !.text = Append(@, ch)],
        [at |-> "in", text |-> <<>>, rest |-> <<>>], s)
-----------------------------------------------------------------------------
Nothing == <<>>
Converting == heap # Nothing \/ texts # Nothing \/ values # Nothing

TreeInit == heap = Nothing /\ texts = Nothing /\ values = Nothing

\* One conversion after the other: of a value, of a fact's arguments, of the
\* facts of one key.
ConvertValue == ~Converting /\ heap' \in GoValues /\ UNCHANGED <<texts, values>>
ConvertTexts == ~Converting /\ texts' \in Texts /\ UNCHANGED <<heap, values>>
ConvertFacts == ~Converting /\ values' \in FactLists /\ UNCHANGED <<heap, texts>>
Converted == Converting /\ heap' = Nothing /\ texts' = Nothing /\ values' = Nothing

TreeNext == ConvertValue \/ ConvertTexts \/ ConvertFacts \/ Converted
-----------------------------------------------------------------------------
Links(facts) == {i \in DOMAIN facts : facts[i][1] = "link"}

\* The facts Flatten makes of a value form a tree under the root: every node
\* is the child of exactly one link, numbered after its parent, also when the
\* value shares parts or has cycles through pointers.
FlattenMakesTree ==
    heap # Nothing /\ ~CycleWithin(heap, {"map", "slice", "struct"}) =>
        LET facts == Flatten(heap)
            nodes == {facts[i][4] : i \in Links(facts)}
        IN  /\ \A i, j \in Links(facts) : facts[i][4] = facts[j][4] => i = j
            /\ \A i \in Links(facts) : facts[i][2] < facts[i][4]
            /\ nodes = 1 .. Cardinality(Links(facts))
            /\ \A i \in DOMAIN facts : facts[i][2] \in nodes \union {0}

\* The paths from the root that enter no reference twice.
AccessPaths ==
    LET ref(n) == heap[n].kind \in {"ptr", "map", "slice"}
        RECURSIVE Extend(_)
        Extend(p) ==
            LET n == p[Len(p)][1]
                visited == {p[j][1] : j \in 1 .. Len(p)}
            IN  {p} \union UNION {Extend(Append([p EXCEPT ![Len(p)][2] = i], <<Entries(heap, n)[i].to, 0>>)) :
                    i \in {k \in DOMAIN Entries(heap, n) :
                              LET to == Entries(heap, n)[k].to IN ~(ref(to) /\ to \in visited)}}
    IN  Extend(<<<<Root, 0>>>>)

\* ToFacts writes one fact for each way to reach a leaf without going round a
\* cycle: a part that is shared is repeated wherever it is reached from.
SharedPartsRepeated ==
    heap # Nothing =>
    LET facts == ToFacts(heap)
        leaves == {p \in AccessPaths : heap[p[Len(p)][1]].kind = "prim"}
        steps(p, structs) ==
            LET at == SelectSeq([j \in 1 .. Len(p) - 1 |-> <<p[j][1], p[j][2]>>],
                                LAMBDA s : IF structs THEN heap[s[1]].kind = "struct"
                                           ELSE heap[s[1]].kind \in {"map", "slice"})
            IN  [j \in DOMAIN at |-> KeyOf(heap, at[j][1], at[j][2])]
    IN  /\ Len(facts) = Cardinality(leaves)
        /\ Range(facts) = {<<IF steps(p, TRUE) = <<>> THEN <<"value">> ELSE steps(p, TRUE),
                             steps(p, FALSE), heap[p[Len(p)][1]].text>> : p \in leaves}

\* The leaves structToFacts can reach: through at most one pointer at a time.
RECURSIVE PlainLeaves(_)
PlainLeaves(n) ==
    LET v == IF heap[n].kind = "ptr" THEN Entries(heap, n)[1].to ELSE n
    IN  IF heap[v].kind = "prim" THEN 1
        ELSE IF heap[v].kind = "ptr" THEN 0
        ELSE FoldLeftDomain(LAMBDA sum, i : sum + PlainLeaves(Entries(heap, v)[i].to), 0,
                            Entries(heap, v))

RECURSIVE HasNilPointer(_)
HasNilPointer(n) ==
    LET v == IF heap[n].kind = "ptr" THEN Entries(heap, n)[1].to ELSE n
    IN  \/ heap[n].kind = "ptr" /\ heap[v].kind = "nil"
        \/ heap[v].kind # "ptr" /\ \E t \in Targets(heap, v) : HasNilPointer(t)

\* A rule is evaluated on all of a struct or not at all: structToFacts returns
\* an atom for every leaf, or an error; a nil pointer anywhere is an error.
StructFactsAllOrNothing ==
    heap # Nothing /\ ~CycleWithin(heap, {"map", "slice", "struct", "ptr"}) =>
        LET result == structToFacts(heap)
        IN  /\ ~result.err => Len(result.atoms) = PlainLeaves(Root)
            /\ HasNilPointer(Root) => result.err

\* The struct type and the contents of a value made of maps.
RECURSIVE TypeOf(_), TreeContents(_)
TypeOf(n) ==
    LET v == Elem(heap, n)
        es == Entries(heap, v)
    IN  IF heap[v].kind # "map" THEN Prim
        ELSE StructOf([k \in {es[i].key : i \in DOMAIN es} |->
                        TypeOf(es[CHOOSE i \in DOMAIN es : es[i].key = k].to)])
TreeContents(n) ==
    LET es == Entries(heap, Elem(heap, n))
    IN  {IF heap[Elem(heap, es[i].to)].kind = "map"
         THEN <<es[i].key, "node", TreeContents(es[i].to)>>
         ELSE <<es[i].key, "leaf", heap[Elem(heap, es[i].to)].text>> :
            i \in {j \in DOMAIN es : heap[Elem(heap, es[j].to)].kind # "nil"}}

\* Flattening a value of nested maps and reading the facts back gives the
\* value, if no pointer is reached twice (Flatten leaves the second occurrence
\* empty); repeated facts fill a list in their order and a field with the first.
MapsReadBack ==
    LET flat == [i \in DOMAIN values |-> <<"leaf", 0, "k", values[i]>>]
        twice == \E p, q \in AccessPaths :
                    p # q /\ p[Len(p)][1] = q[Len(q)][1] /\ heap[p[Len(p)][1]].kind = "ptr"
    IN  /\ heap # Nothing /\ (\A n \in DOMAIN heap : heap[n].kind \in {"map", "ptr", "prim", "nil"})
             /\ ~CycleWithin(heap, {"map", "ptr"}) /\ ~twice /\ heap[Elem(heap, Root)].kind = "map"
           => FromFacts(TypeOf(Root), Flatten(heap)) = TreeContents(Root)
        /\ values # <<>> => /\ FromFacts(StructOf([k |-> ListOf]), flat) = {<<"k", "list", values>>}
                            /\ FromFacts(StructOf([k |-> Prim]), flat) = {<<"k", "leaf", values[1]>>}

\* What is written as a string constant reads back, control characters as
\* spaces: no text ends its constant early.
ConstantsReadBack ==
    \A i \in DOMAIN texts :
        LET read == ReadConstant(Append(escapeString(texts[i]), "q"))
        IN  /\ read.at = "out" /\ read.rest = <<>>
            /\ read.text = [j \in DOMAIN texts[i] |-> IF texts[i][j] = "ctl" THEN "s" ELSE texts[i][j]]

\* ParseAtomContent takes a fact apart into the arguments it was written with,
\* commas and spaces in them included, if none needed escaping.
ArgumentsReadBack ==
    (\A i \in DOMAIN texts : Range(texts[i]) \intersect {"q", "b", "n", "ctl"} = {}) =>
        ParseAtomContent(Rendered(texts)) = texts

=============================================================================
