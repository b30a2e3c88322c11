---------------------------- MODULE EngineQueries ---------------------------
(***************************************************************************)
(* The queries the policy engine answers besides the gate                  *)
(* (internal/engine/solver.go): plain and audited queries, the             *)
(* configuration and the arguments of an action, and the requirement of a  *)
(* capability.                                                             *)
(*                                                                         *)
(* A call turns the facts of its envelope into atoms one by one through a  *)
(* bounded cache of parsed facts that all calls share, then asks the       *)
(* runtime once or twice.  Each question is put to the program loaded at   *)
(* that moment: a reload may come between any two steps.  A program is     *)
(* what it answers: for each predicate a set of <<key, value, need>>,      *)
(* where need is the fact an answer rests on, "" for none.                 *)
(***************************************************************************)
EXTENDS Integers, Sequences, FiniteSets, SequencesExt

CONSTANTS
    EnginePrograms,      \* programs that may be loaded
    EngineEnvelopes,     \* sequences of fact strings, "bad" does not parse
    EngineCallers,       \* calls in flight
    MaxFactParseCache    \* maxFactParseCacheEntries

\* loaded: the program in force; factCache: the cache of parsed facts; engine:
\* the calls, each with the programs that were loaded while it ran.
VARIABLES loaded, factCache, engine

engineVars == <<loaded, factCache, engine>>

NoEngineCall == [at |-> "idle"]
Lenient == {"GetActionConfig", "ExtractActionArguments"}
Strict == {"Query", "QueryWithAudit"}
EngineCalls == Lenient \union Strict \union {"CheckRequirement"}
-----------------------------------------------------------------------------
Parses(f) == f # "bad"
Atom(f) == <<"atom", f>>

\* What a predicate's answers are, given facts.
AnswersTo(p, predicate, facts) ==
    {<<a[1], a[2]>> : a \in {b \in p[predicate] : b[3] = "" \/ Atom(b[3]) \in facts}}

\* One entry for each key, the last answer's.
AsMap(answers) ==
    {m \in SUBSET answers : /\ {a[1] : a \in m} = {a[1] : a \in answers}
                            /\ \A a, b \in m : a[1] = b[1] => a = b}

\* parseCachedAtom: the cache after a fact string was looked up.
parseCachedAtom(f) ==
    IF f \in factCache \/ ~Parses(f) \/ Cardinality(factCache) >= MaxFactParseCache THEN factCache
    ELSE factCache \union {f}

\* What a lookup gives: the cached atom or the parsed one, or nothing.
Looked(f) == IF f \in factCache \/ Parses(f) THEN {Atom(f)} ELSE {}
-----------------------------------------------------------------------------
EngineInit ==
    /\ loaded \in EnginePrograms /\ factCache = {}
    /\ engine = [c \in EngineCallers |-> NoEngineCall]

Proceed(c, call) == engine' = [engine EXCEPT ![c] = call]

\* A call begins; the plain queries parse their facts at once, without the
\* cache, and fail on the first that does not parse.
StartEngineCall(c, kind, env) ==
    /\ engine[c].at = "idle"
    /\ LET begun == [at |-> "query", kind |-> kind, env |-> env, left |-> <<>>, facts |-> {},
                     result |-> {}, rules |-> {}, programs |-> {loaded}]
       IN  Proceed(c, CASE kind \in Lenient -> [begun EXCEPT !.at = "facts", !.left = env]
                     [] kind = "CheckRequirement" -> begun
                     [] OTHER -> IF \A i \in DOMAIN env : Parses(env[i])
                                 THEN [begun EXCEPT !.facts = {Atom(env[i]) : i \in DOMAIN env}]
                                 ELSE [begun EXCEPT !.at = "failed"])
    /\ UNCHANGED <<loaded, factCache>>

\* appendEnvelopeFacts, one fact; at a malformed one, or at the end with the
\* metadata, the facts so far are used.
appendEnvelopeFacts(c) ==
    /\ engine[c].at = "facts"
    /\ IF engine[c].left = <<>>
       THEN /\ Proceed(c, [engine[c] EXCEPT !.at = "query", !.facts = @ \union {Atom("meta")}])
            /\ UNCHANGED factCache
       ELSE LET f == Head(engine[c].left)
            IN  /\ factCache' = parseCachedAtom(f)
                /\ Proceed(c, IF Looked(f) = {} THEN [engine[c] EXCEPT !.at = "query"]
                           ELSE [engine[c] EXCEPT !.left = Tail(@), !.facts = @ \union Looked(f)])
    /\ UNCHANGED loaded

\* config(Key, Value); a failed query leaves the configuration empty.
GetActionConfig(c) ==
    /\ engine[c].at = "query" /\ engine[c].kind = "GetActionConfig"
    /\ \E config \in AsMap(AnswersTo(loaded, "config", engine[c].facts)) \union {{}} :
          Proceed(c, [engine[c] EXCEPT !.at = "done", !.result = config])
    /\ UNCHANGED <<loaded, factCache>>

\* action_args, asked without the envelope's facts, and if that gave nothing
\* suggested_action.
ExtractFirst(c) ==
    /\ engine[c].at = "query" /\ engine[c].kind = "ExtractActionArguments"
    /\ \E arguments \in AsMap(AnswersTo(loaded, "action_args", {})) \union {{}} :
          Proceed(c, [engine[c] EXCEPT !.at = "alternative", !.result = arguments])
    /\ UNCHANGED <<loaded, factCache>>
ExtractAlternative(c) ==
    /\ engine[c].at = "alternative"
    /\ \E arguments \in AsMap(AnswersTo(loaded, "suggested_action", {})) \union {{}} :
          Proceed(c, [engine[c] EXCEPT !.at = "done", !.result = IF @ = {} THEN arguments ELSE @])
    /\ UNCHANGED <<loaded, factCache>>

\* Query and the first half of QueryWithAudit; the timeout fails either.
QueryEngine(c) ==
    /\ engine[c].at = "query" /\ engine[c].kind \in Strict
    /\ \/ Proceed(c, [engine[c] EXCEPT
                    !.at = IF engine[c].kind = "Query" THEN "done" ELSE "explain",
                    !.result = AnswersTo(loaded, "allow", engine[c].facts)])
       \/ Proceed(c, [engine[c] EXCEPT !.at = "failed"])
    /\ UNCHANGED <<loaded, factCache>>

\* The audit trail: the derivations are asked for once more; without them if
\* that fails.
QueryWithAudit(c) ==
    /\ engine[c].at = "explain"
    /\ \/ Proceed(c, [engine[c] EXCEPT !.at = "done", !.rules = AnswersTo(loaded, "allow", engine[c].facts)])
       \/ Proceed(c, [engine[c] EXCEPT !.at = "done"])
    /\ UNCHANGED <<loaded, factCache>>

\* requires(Req, capability): neither the envelope's facts nor its metadata.
CheckRequirement(c) ==
    /\ engine[c].at = "query" /\ engine[c].kind = "CheckRequirement"
    /\ \/ Proceed(c, [engine[c] EXCEPT !.at = "done", !.result = AnswersTo(loaded, "requires", {})])
       \/ Proceed(c, [engine[c] EXCEPT !.at = "failed"])
    /\ UNCHANGED <<loaded, factCache>>

EngineReturned(c) ==
    /\ engine[c].at \in {"done", "failed"} /\ Proceed(c, NoEngineCall)
    /\ UNCHANGED <<loaded, factCache>>

\* The runtime loads another program.
ReloadProgram(p) ==
    /\ p # loaded /\ loaded' = p
    /\ engine' = [c \in EngineCallers |->
                    IF engine[c].at = "idle" THEN engine[c]
                    ELSE [engine[c] EXCEPT !.programs = @ \union {p}]]
    /\ UNCHANGED factCache

EngineNext ==
    \/ \E c \in EngineCallers :
          \/ \E kind \in EngineCalls, env \in EngineEnvelopes : StartEngineCall(c, kind, env)
          \/ appendEnvelopeFacts(c) \/ GetActionConfig(c) \/ ExtractFirst(c) \/ ExtractAlternative(c)
          \/ QueryEngine(c) \/ QueryWithAudit(c) \/ CheckRequirement(c) \/ EngineReturned(c)
    \/ \E p \in EnginePrograms : ReloadProgram(p)
-----------------------------------------------------------------------------
Done(c, kinds) == engine[c].at = "done" /\ engine[c].kind \in kinds

\* The part of an envelope before its first malformed fact, with the metadata
\* if there is none.
Understood(env) ==
    LET bad == {i \in DOMAIN env : ~Parses(env[i])}
    IN  {Atom(env[i]) : i \in {j \in DOMAIN env : \A b \in bad : j < b}}
          \union (IF bad = {} THEN {Atom("meta")} ELSE {})

\* The configuration of an action is one that a program loaded during the call
\* gives for the facts before the first malformed one, with one value for each
\* key, whatever other calls put into the cache of parsed facts.
ConfigIsDerived ==
    \A c \in EngineCallers : Done(c, {"GetActionConfig"}) /\ engine[c].result # {} =>
        \E p \in engine[c].programs :
            engine[c].result \in AsMap(AnswersTo(p, "config", Understood(engine[c].env)))

\* The arguments of an action never mix the two forms of giving them, nor two
\* programs: they are what one program, loaded during the call, gives in one of
\* the forms.
ArgumentsFromOneForm ==
    \A c \in EngineCallers : Done(c, {"ExtractActionArguments"}) /\ engine[c].result # {} =>
        \E p \in engine[c].programs, form \in {"action_args", "suggested_action"} :
            engine[c].result \in AsMap(AnswersTo(p, form, {}))

\* The rules in the trail of an audited query explain its results, all of them
\* and nothing else, unless a reload came in between or the explanation failed.
TrailExplainsResults ==
    \A c \in EngineCallers :
        Done(c, {"QueryWithAudit"}) /\ Cardinality(engine[c].programs) = 1 /\ engine[c].rules # {}
            => engine[c].rules = engine[c].result

=============================================================================
