--------------------------- MODULE KnowledgeGraph ---------------------------
(***************************************************************************)
(* Knowledge access: the bridge to the external fact store                 *)
(* (adapters/storage/meb/bridge.go) and the readers of graph files         *)
(* (adapters/knowledge: nquads.go, graph_loader.go).                       *)
(*                                                                         *)
(* The store holds quads <<s, p, o, g>> in scan order, others add to it    *)
(* between two scans, and a scan may end early with an error the bridge    *)
(* swallows.  A line is a sequence of character classes: "q" a quote, "b"  *)
(* a backslash, "s" a space, "<" and ">" brackets, "." a dot, "#", and any *)
(* other text.  A Turtle document is a sequence of tokens.                 *)
(***************************************************************************)
EXTENDS Integers, Sequences, FiniteSets, SequencesExt, FiniteSetsExt

CONSTANTS
    KnownQuads,      \* quads others may add
    KnowledgeQueries,\* queries: a name
    RecallTopK,      \* the limits recalls are made with
    KnowledgeGraphs, \* graph names a call may pass, "" for the default one
    MaxKnown,        \* bound on the store's length
    QuadLines,       \* sequences of terms, the lines of a file are written from
    TurtleDocs       \* sequences of statements [s, pos : sequence of [p, os]]

VARIABLES known, recalling, line, turtle

knowledgeVars == <<known, recalling, line, turtle>>

NoRecall == [at |-> "none"]
DefaultGraph == "default"
-----------------------------------------------------------------------------
(* The bridge. *)
toAtom(f) == <<f[1], f[2], f[3]>>
toQuad(f) == <<f[1], f[2], f[3], f[4]>>
containsAtom(atoms, a) == \E i \in DOMAIN atoms : atoms[i] = a
GraphOf(g) == IF g = "" THEN DefaultGraph ELSE g

\* The store's Scan; "" matches anything.
ScanQuads(s, p, g) ==
    SelectSeq(known, LAMBDA f : s \in {"", f[1]} /\ p \in {"", f[2]} /\ f[4] = g)

\* What a scan delivers before its error, or all of it.
Delivered(facts) == {SubSeq(facts, 1, k) : k \in 0 .. Len(facts)}


\* The predicate scan: at most topK, none twice.
AddMatches(atoms, facts, topK) ==
    FoldLeft(LAMBDA acc, f :
        IF Len(acc) >= topK \/ containsAtom(acc, toAtom(f)) THEN acc ELSE Append(acc, toAtom(f)),
        atoms, facts)

Learn ==
    /\ Len(known) < MaxKnown
    /\ \E f \in KnownQuads \ Range(known) : known' = Append(known, f)
    /\ UNCHANGED <<recalling, line, turtle>>

\* The scan for the query as a subject.
RecallSubjects ==
    /\ recalling = NoRecall
    /\ \E query \in KnowledgeQueries, topK \in RecallTopK, g \in KnowledgeGraphs :
         LET all == ScanQuads(query, "", GraphOf(g))
         IN  \E facts \in Delivered(all) :
               recalling' = [at |-> "predicates", query |-> query, topK |-> topK,
                             graph |-> GraphOf(g), failed |-> facts # all, before |-> Range(known),
                             atoms |-> [i \in 1 .. Min({Len(facts), IF topK < 0 THEN 0 ELSE topK}) |->
                                           toAtom(facts[i])]]
    /\ UNCHANGED <<known, line, turtle>>

\* The scan for the query as a predicate, if there is room; the answer.
Recall ==
    /\ recalling.at = "predicates"
    /\ LET r == recalling
           all == ScanQuads("", r.query, r.graph)
       IN  \E facts \in IF Len(r.atoms) < r.topK THEN Delivered(all) ELSE {all} :
             recalling' = [r EXCEPT !.at = "recalled", !.failed = @ \/ facts # all,
                  !.atoms = IF Len(@) < r.topK THEN AddMatches(@, facts, r.topK) ELSE @]
    /\ UNCHANGED <<known, line, turtle>>

\* GetFacts and StreamFacts: one scan; the stream's consumer may stop.
GetFacts ==
    /\ recalling = NoRecall
    /\ \E s \in KnowledgeQueries \union {""}, p \in KnowledgeQueries \union {""}, g \in KnowledgeGraphs :
         LET all == ScanQuads(s, p, GraphOf(g))
         IN  \E facts \in Delivered(all) :
               recalling' = [at |-> "facts", failed |-> facts # all, graph |-> GraphOf(g),
                             s |-> s, p |-> p, before |-> Range(known),
                             quads |-> [i \in DOMAIN facts |-> toQuad(facts[i])]]
    /\ UNCHANGED <<known, line, turtle>>

RecallDone ==
    /\ recalling.at \in {"recalled", "facts"} /\ recalling' = NoRecall
    /\ UNCHANGED <<known, line, turtle>>
-----------------------------------------------------------------------------
(* N-Quads. *)
Separated(parts) ==
    FlattenSeq([i \in DOMAIN parts |-> IF i = 1 THEN parts[i] ELSE <<"s">> \o parts[i]])
WrittenLine(terms) == Separated(Append(terms, <<".">>))

\* The tokenizer of Parse: a space ends a token outside quotes, a quote that
\* is not escaped ends the quotes.
Tokenize(chars) ==
    FoldLeft(LAMBDA t, ch :
        CASE t.quoted -> [t EXCEPT !.cur = Append(@, ch),
                                   !.quoted = ~(ch = "q" /\ ~t.escaped),
                                   !.escaped = (ch = "b" /\ ~t.escaped)]
          [] ~t.quoted /\ ch = "q" -> [t EXCEPT !.cur = Append(@, ch), !.quoted = TRUE]
          [] ~t.quoted /\ ch = "s" ->
                IF t.cur = <<>> THEN t
                ELSE [t EXCEPT !.tokens = Append(@, t.cur), !.cur = <<>>]
          [] OTHER -> [t EXCEPT !.cur = Append(@, ch)],
        [tokens |-> <<>>, cur |-> <<>>, quoted |-> FALSE, escaped |-> FALSE], chars)

TokensOf(chars) ==
    LET t == Tokenize(chars)
    IN  IF t.cur = <<>> THEN t.tokens ELSE Append(t.tokens, t.cur)

clean(s) == IF s # <<>> /\ s[1] = "<" /\ s[Len(s)] = ">" THEN SubSeq(s, 2, Len(s) - 1) ELSE s

\* One line of Parse: a quad, or nothing.
Parse(chars) ==
    LET all == TokensOf(chars)
        tokens == IF all # <<>> /\ all[Len(all)] = <<".">> THEN Front(all) ELSE all
    IN  IF chars = <<>> \/ chars[1] = "#" THEN {}
        ELSE CASE Len(tokens) = 3 -> {<<clean(tokens[1]), clean(tokens[2]), clean(tokens[3]),
                                        <<DefaultGraph>>>>}
               [] Len(tokens) = 4 -> {[i \in 1 .. 4 |-> clean(tokens[i])]}
               [] OTHER -> {}

\* One line of parseNQuads: the parts between spaces, quoted or not.
splitLineRespectingQuotes(chars) ==
    LET t == FoldLeft(LAMBDA acc, ch :
                 IF ch # "s" THEN [acc EXCEPT !.cur = Append(@, ch)]
                 ELSE IF acc.cur = <<>> THEN acc
                 ELSE [tokens |-> Append(acc.tokens, acc.cur), cur |-> <<>>],
                 [tokens |-> <<>>, cur |-> <<>>], chars)
    IN  IF t.cur = <<>> THEN t.tokens ELSE Append(t.tokens, t.cur)

\* The expression in front of it wants a URI or blank subject, a URI as
\* predicate and a dot after a space.  SanitizePredicate removes the brackets;
\* the terms here have no namespace for it to cut.
parseNQuads(chars) ==
    LET parts == splitLineRespectingQuotes(chars)
        uri(s) == Len(s) > 2 /\ s[1] = "<" /\ s[Len(s)] = ">"
    IN  IF Len(parts) >= 4 /\ uri(parts[1]) /\ uri(parts[2]) /\ <<".">> \in Range(parts)
        THEN {<<parts[1], clean(parts[2]), parts[3]>>} ELSE {}

TrimSpaces(s) ==
    LET kept == {i \in DOMAIN s : s[i] # "s"}
    IN  IF kept = {} THEN <<>> ELSE SubSeq(s, Min(kept), Max(kept))
TrimDot(s) == IF s # <<>> /\ s[Len(s)] = "." THEN Front(s) ELSE s

\* The dot, and the brackets or the quotes with what follows them, are removed.
cleanObject(raw) ==
    LET s == TrimSpaces(TrimDot(TrimSpaces(raw)))
        quotes == {i \in DOMAIN s : s[i] = "q"}
    IN  IF s # <<>> /\ s[1] = "<" /\ s[Len(s)] = ">" THEN SubSeq(s, 2, Len(s) - 1)
        ELSE IF s # <<>> /\ s[1] = "q" /\ Max(quotes) > 1 THEN SubSeq(s, 2, Max(quotes) - 1)
        ELSE s

\* One line of ParseNTriples: what follows the second space is the object.
ParseNTriples(chars) ==
    LET spaces == {i \in DOMAIN chars : chars[i] = "s"}
        first == Min(spaces)
        second == Min(spaces \ {first})
    IN  IF Cardinality(spaces) < 2 \/ chars[1] = "#" THEN {}
        ELSE {<<clean(SubSeq(chars, 1, first - 1)), clean(SubSeq(chars, first + 1, second - 1)),
                cleanObject(SubSeq(chars, second + 1, Len(chars)))>>}
-----------------------------------------------------------------------------
(* Turtle.  Punctuation is a token of its own. *)
TurtleStateAfter(token) ==
    CASE token = "." -> "subject"
      [] token = ";" -> "predicate"
      [] token = "," -> "object"

\* parseTurtle's machine, one token at a time.
TurtleToken(t, token) ==
    IF token \in {".", ";", ","} THEN [t EXCEPT !.state = TurtleStateAfter(token)]
    ELSE CASE t.state = "subject" -> [t EXCEPT !.s = token, !.state = "predicate"]
           [] t.state = "predicate" -> [t EXCEPT !.p = token, !.state = "object"]
           [] t.state = "object" -> [t EXCEPT !.triples = Append(@, <<t.s, t.p, token>>)]

parseTurtle(tokens) ==
    FoldLeft(TurtleToken, [state |-> "subject", s |-> "", p |-> "", triples |-> <<>>], tokens).triples

GetPredicates(triples) ==
    FoldLeft(LAMBDA ps, t : IF t[2] \in Range(ps) THEN ps ELSE Append(ps, t[2]), <<>>, triples)

Joined(seqs, by) ==
    FlattenSeq([i \in DOMAIN seqs |-> IF i = 1 THEN seqs[i] ELSE <<by>> \o seqs[i]])
WrittenTurtle(doc) ==
    FlattenSeq([i \in DOMAIN doc |->
        <<doc[i].s>> \o Joined([j \in DOMAIN doc[i].pos |->
            <<doc[i].pos[j].p>> \o Joined([k \in DOMAIN doc[i].pos[j].os |->
                <<doc[i].pos[j].os[k]>>], ",")], ";") \o <<".">>])
-----------------------------------------------------------------------------
KnowledgeInit == known = <<>> /\ recalling = NoRecall /\ line = <<>> /\ turtle = <<>>

ReadLine ==
    /\ known = <<>> /\ recalling = NoRecall /\ turtle = <<>>
    /\ line' \in QuadLines /\ UNCHANGED <<known, recalling, turtle>>
ReadTurtle ==
    /\ known = <<>> /\ recalling = NoRecall /\ line = <<>>
    /\ turtle' \in TurtleDocs /\ UNCHANGED <<known, recalling, line>>

KnowledgeNext ==
    \/ line = <<>> /\ turtle = <<>> /\ (Learn \/ RecallSubjects \/ Recall \/ GetFacts \/ RecallDone)
    \/ line = <<>> /\ ReadLine
    \/ turtle = <<>> /\ ReadTurtle
    \/ line # <<>> /\ line' = <<>> /\ UNCHANGED <<known, recalling, turtle>>
    \/ turtle # <<>> /\ turtle' = <<>> /\ UNCHANGED <<known, recalling, line>>
-----------------------------------------------------------------------------
\* GetFacts returns what is known of the pattern in its graph, unless its scan
\* broke off.  A recall returns at most topK facts of the graph that was asked for, none
\* twice, although the store grows between its scans; if it returns fewer and
\* no scan broke off, nothing that was known and matches is missing.
RecallComplete ==
    /\ recalling.at = "facts" /\ ~recalling.failed =>
        Range(recalling.quads) = {f \in recalling.before :
            recalling.s \in {"", f[1]} /\ recalling.p \in {"", f[2]} /\ f[4] = recalling.graph}
    /\ recalling.at = "recalled" =>
        LET r == recalling
            match(f) == f[4] = r.graph /\ r.query \in {f[1], f[2]}
        IN  /\ Len(r.atoms) <= IF r.topK < 0 THEN 0 ELSE r.topK
            /\ IsInjective(r.atoms)
            /\ \A i \in DOMAIN r.atoms : \E f \in Range(known) : match(f) /\ toAtom(f) = r.atoms[i]
            /\ Len(r.atoms) < r.topK /\ ~r.failed =>
                  \A f \in r.before : match(f) => toAtom(f) \in Range(r.atoms)

\* Terms written on a line with spaces between them and a dot at the end read
\* back, literals with spaces and escaped quotes included.
QuadsReadBack ==
    line # <<>> =>
        Parse(WrittenLine(line))
          = {[i \in 1 .. 4 |-> IF i > Len(line) THEN <<DefaultGraph>> ELSE clean(line[i])]}

\* The three readers of line files find the same terms: parseNQuads wherever no
\* literal contains a space, ParseNTriples, which also removes a literal's
\* quotes, on every line that names no graph.
ReadersAgree ==
    line # <<>> =>
        LET written == WrittenLine(line)
            bare(t) == IF t # <<>> /\ t[1] = "q" THEN SubSeq(t, 2, Len(t) - 1) ELSE t
        IN  \A q \in Parse(written) :
              /\ (\A i \in DOMAIN line : "s" \notin Range(line[i])) =>
                    \A t \in parseNQuads(written) :
                        q[1] = clean(t[1]) /\ q[2] = t[2] /\ q[3] = clean(t[3])
              /\ Len(line) = 3 => ParseNTriples(written) = {<<q[1], q[2], bare(q[3])>>}

\* A Turtle document gives the triples it abbreviates, in order.
TurtleExpands ==
    turtle # <<>> =>
        /\ parseTurtle(WrittenTurtle(turtle)) =
              FlattenSeq([i \in DOMAIN turtle |->
                  FlattenSeq([j \in DOMAIN turtle[i].pos |->
                      [k \in DOMAIN turtle[i].pos[j].os |->
                          <<turtle[i].s, turtle[i].pos[j].p, turtle[i].pos[j].os[k]>>]])])
        /\ IsInjective(GetPredicates(parseTurtle(WrittenTurtle(turtle))))

\* Knowledge is neither lost nor invented: by a recall among concurrent
\* additions, nor by the readers of the file formats.
KnowledgeExact == RecallComplete /\ QuadsReadBack /\ ReadersAgree /\ TurtleExpands
=============================================================================
