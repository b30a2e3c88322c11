---------------------------- MODULE PolicySource ----------------------------
(***************************************************************************)
(* From policy texts to a program: cleanSource, the merge of std.dl into a *)
(* loaded text, the declarations of external predicates, AddPolicy and     *)
(* ReloadFromSource of internal/engine/runtime.go.  When a reload races    *)
(* others is the subject of MangleRuntime; here a load is one step, and    *)
(* what matters is which texts it accepts.                                 *)
(*                                                                         *)
(* A text is a sequence of lines [kind, sym, uses, ends].  A "Decl" line   *)
(* begins with a Decl and its argument list, a "clause" line with a head,  *)
(* a "rest" line continues a statement; sym is <<name, arity>>, uses are   *)
(* the positive premises of the clause, as <<name, modes>> with "+" for a  *)
(* constant argument and "-" for a variable, listed at its first line,     *)
(* and ends says whether the line ends with a dot.  For cleanSource a line *)
(* is a sequence of character classes: "q" a quote, "b" a backslash, "%",  *)
(* "/", "s" white space, "x" any other.                                    *)
(***************************************************************************)
EXTENDS Integers, Sequences, FiniteSets, SequencesExt, FiniteSetsExt

CONSTANTS
    StdLib,          \* the text of std.dl
    PlannerRules,    \* the text of planner.dl
    PolicyTexts,     \* texts that are added or loaded
    ExternalNames,   \* names under which callbacks are registered
    MaxUnits,        \* bound: units of a program
    RawLines         \* lines to clean

VARIABLES
    externalPreds,   \* the registered names
    ruleUnits,       \* the texts of the program, in order
    persistentUnits, \* those that survive a reload
    edbDeclarations, \* the external declarations of the program: <<name, modes>>
    lastReload,      \* history: text, names, builtins and verdict of the last reload
    raw              \* a line to clean

sourceVars == <<externalPreds, ruleUnits, persistentUnits, edbDeclarations, lastReload, raw>>
-----------------------------------------------------------------------------
CommentAt(ln, i) == ln[i] = "%" \/ (ln[i] = "/" /\ i < Len(ln) /\ ln[i + 1] = "/")

\* A quote after a backslash does not toggle.
Toggles(ln, i) == ln[i] = "q" /\ ~(i > 1 /\ ln[i - 1] = "b")
InQuote(ln, i) == Cardinality({j \in 1 .. i : Toggles(ln, j)}) % 2 = 1


withoutComment(ln) ==
    LET cuts == {i \in 1 .. Len(ln) : ~InQuote(ln, i) /\ CommentAt(ln, i)}
    IN  IF cuts = {} THEN ln ELSE SubSeq(ln, 1, Min(cuts) - 1)

\* Lines of comments and white space go, the others lose their comment.
cleanSource(lines) ==
    SelectSeq([i \in DOMAIN lines |-> withoutComment(lines[i])],
              LAMBDA ln : \E i \in DOMAIN ln : ln[i] # "s")
-----------------------------------------------------------------------------
Decls(text) == {text[i].sym : i \in {j \in DOMAIN text : text[j].kind = "Decl"}}
Heads(text) == {text[i].sym : i \in {j \in DOMAIN text : text[j].kind = "clause"}}

\* A Decl is recognized at the beginning of a line.
collectCallerDecls(texts) == UNION {Decls(t) : t \in Range(texts)}

\* How a line of std.dl is dropped: as the continuation of a dropped statement,
\* because its predicate is declared elsewhere, or because it is external.
Drops(ln, callerDecls, names) ==
    \/ ln.kind = "Decl" /\ (ln.sym \in callerDecls \/ ln.sym[1] \in names)
    \/ ln.kind \in {"clause", "rest"} /\ ln.sym[1] \in names
FilterStep(acc, ln, callerDecls, names) ==
    IF acc.skipping THEN [acc EXCEPT !.skipping = ~ln.ends]
    ELSE IF Drops(ln, callerDecls, names) THEN [acc EXCEPT !.skipping = ~ln.ends]
    ELSE [acc EXCEPT !.kept = Append(@, ln)]

\* Mutant: the rules of std.dl stay when their predicate is external.
prependStdLibWithRules(stdLib, source, callerDecls, names) ==
    SelectSeq(stdLib, LAMBDA ln : ln.kind # "Decl" \/ (ln.sym \notin callerDecls /\ ln.sym[1] \notin names))
      \o source

prependStdLibIfMissing(stdLib, source, callerDecls, names) ==
    FoldLeft(LAMBDA acc, ln : FilterStep(acc, ln, callerDecls, names),
             [kept |-> <<>>, skipping |-> FALSE], stdLib).kept \o source

\* The first use of a name in a unit: a clause's premises come before its head,
\* whose arguments are variables here.
UsesOf(ln) == ln.uses \o (IF ln.kind = "clause" THEN <<<<ln.sym[1], [i \in 1 .. ln.sym[2] |-> "-"]>>>> ELSE <<>>)
findPredicateUsage(text, name) ==
    SelectSeq(FlattenSeq([i \in DOMAIN text |-> UsesOf(text[i])]), LAMBDA u : u[1] = name)

\* The first unit that uses a name decides how it is declared.
externalDecls(units, names) ==
    {LET i == Min({j \in DOMAIN units : findPredicateUsage(units[j], n) # <<>>})
     IN  findPredicateUsage(units[i], n)[1] :
       n \in {m \in names : \E j \in DOMAIN units : findPredicateUsage(units[j], m) # <<>>}}

Sym(use) == <<use[1], Len(use[2])>>

\* Mangle's analysis refuses a predicate that is declared twice and a rule for
\* an external one.  It may accept a text's own declaration of a registered name.
DeclaredTwice(units) ==
    \/ \E i, j \in DOMAIN units : i # j /\ Decls(units[i]) \intersect Decls(units[j]) # {}
    \/ \E i \in DOMAIN units : \E k, l \in DOMAIN units[i] :
          k # l /\ units[i][k].kind = "Decl" /\ units[i][l].kind = "Decl" /\ units[i][k].sym = units[i][l].sym
Conflicts(units, decls) ==
    DeclaredTwice(units) \/ \E i \in DOMAIN units, d \in decls : Sym(d) \in Heads(units[i])
Disputed(units, names) == \E i \in DOMAIN units : \E s \in Decls(units[i]) : s[1] \in names
Analyze(units, names) ==
    IF Conflicts(units, externalDecls(units, names)) THEN {FALSE}
    ELSE IF Disputed(units, names) THEN BOOLEAN ELSE {TRUE}
-----------------------------------------------------------------------------
\* A new engine has loaded planner.dl and std.dl.
SourceInit ==
    /\ externalPreds = {}
    /\ ruleUnits = <<PlannerRules, StdLib>>
    /\ persistentUnits = <<PlannerRules>>
    /\ edbDeclarations = {}
    /\ lastReload = [text |-> <<>>, names |-> {}, builtins |-> <<>>, ok |-> FALSE]
    /\ raw \in RawLines

RegisterExternalPredicate(name) ==
    /\ externalPreds' = externalPreds \union {name}
    /\ UNCHANGED <<ruleUnits, persistentUnits, edbDeclarations, lastReload, raw>>

\* A program that is refused leaves the old one in force.
addPolicy(text, persistent) ==
    LET units == Append(ruleUnits, text)
    IN  /\ Len(ruleUnits) < MaxUnits
        /\ TRUE \in Analyze(units, externalPreds)
        /\ ruleUnits' = units
        /\ persistentUnits' = IF persistent THEN Append(persistentUnits, text) ELSE persistentUnits
        /\ edbDeclarations' = externalDecls(units, externalPreds)
        /\ UNCHANGED <<externalPreds, lastReload, raw>>

ReloadFromSource(text) ==
    LET callerDecls == collectCallerDecls(<<text>> \o persistentUnits)
        units == <<prependStdLibIfMissing(StdLib, text, callerDecls, externalPreds)>> \o persistentUnits
    IN  \E ok \in Analyze(units, externalPreds) :
        /\ lastReload' = [text |-> text, names |-> externalPreds, builtins |-> persistentUnits, ok |-> ok]
        /\ ruleUnits' = IF ok THEN units ELSE ruleUnits
        /\ edbDeclarations' = IF ok THEN externalDecls(units, externalPreds) ELSE edbDeclarations
        /\ UNCHANGED <<externalPreds, persistentUnits, raw>>

SourceNext ==
    \/ \E n \in ExternalNames : RegisterExternalPredicate(n)
    \/ \E t \in PolicyTexts, p \in BOOLEAN : addPolicy(t, p)
    \/ \E t \in PolicyTexts : ReloadFromSource(t)
-----------------------------------------------------------------------------
\* std.dl is never the reason why a text is refused: whatever was registered and
\* added before, a reload that fails would fail without std.dl too.
StdNeverInTheWay ==
    LET own == <<lastReload.text>> \o lastReload.builtins
    IN  lastReload.text # <<>> /\ ~lastReload.ok => FALSE \in Analyze(own, lastReload.names)

\* Whatever is registered, added and loaded, in which order ever, the program
\* keeps every statement of std.dl: a line is missing only if its predicate was
\* registered as external, or is declared by another text.
VocabularyComplete ==
    \A k \in DOMAIN StdLib : LET ln == StdLib[k] IN
      \/ ln.sym[1] \in externalPreds
      \/ \E i \in DOMAIN ruleUnits : ln \in Range(ruleUnits[i])
      \/ ln.kind = "Decl" /\ \E i \in DOMAIN ruleUnits : ln.sym \in Decls(ruleUnits[i])

\* The lexer's view of a line: in a string a backslash hides the next character.
LexStep(mode, c) ==
    CASE mode = "out" -> IF c = "q" THEN "string" ELSE "out"
      [] mode = "string" -> IF c = "q" THEN "out" ELSE IF c = "b" THEN "escape" ELSE "string"
      [] mode = "escape" -> "string"
ModeBefore(ln, i) == FoldLeft(LexStep, "out", SubSeq(ln, 1, i - 1))

\* cleanSource cuts a line exactly at the first comment mark outside of strings,
\* if no string has two backslashes in a row and none is outside of strings.
CleaningExact ==
    LET marks == {i \in 1 .. Len(raw) : ModeBefore(raw, i) = "out" /\ CommentAt(raw, i)}
        code == IF marks = {} THEN raw ELSE SubSeq(raw, 1, Min(marks) - 1)
        plain == \A i \in 1 .. Len(raw) : raw[i] = "b" =>
                   ModeBefore(raw, i) = "string" /\ (i > 1 => raw[i - 1] # "b")
    IN  plain => cleanSource(<<raw>>) = IF \A i \in DOMAIN code : code[i] = "s" THEN <<>> ELSE <<code>>

=============================================================================
