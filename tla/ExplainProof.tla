---------------------------- MODULE ExplainProof ----------------------------
(***************************************************************************)
(* Explain: a derivation tree for every fact that matches a query          *)
(* (internal/engine/explain.go).                                           *)
(*                                                                         *)
(* A call evaluates a working store under one lock, takes the program      *)
(* under another, so that a reload may come in between, and then chains    *)
(* backwards from the store's facts over the program's rules.  An atom is  *)
(* a predicate and terms, a term a variable or a constant.  The order in   *)
(* which the store hands out facts is one of two, opposite ones.           *)
(* Rendering of facts, rules and bindings is left out.                     *)
(***************************************************************************)
EXTENDS Integers, Sequences, FiniteSets, SequencesExt, FiniteSetsExt

CONSTANTS
    RulePrograms,      \* [strata : sequences of rule sequences, base : facts]
    ExplainQueries,    \* query atoms
    RequestFacts,      \* sets of facts a call may bring along
    MaxExplainDepth, MaxExplainSteps

VARIABLES rules, explaining

explainVars == <<rules, explaining>>

Var(name) == [var |-> TRUE, name |-> name]
Const(name) == [var |-> FALSE, name |-> name]
Tiers == {"T0", "T1", "T2", "T3"}
NoSubst == [x \in {} |-> Const("")]
-----------------------------------------------------------------------------
applySubstTerm(t, subst) == IF t.var /\ t.name \in DOMAIN subst THEN subst[t.name] ELSE t
applySubstToArgs(args, subst) == [i \in DOMAIN args |-> applySubstTerm(args[i], subst)]
isGround(args) == \A i \in DOMAIN args : ~args[i].var
Bind(subst, x, t) == [y \in DOMAIN subst \union {x} |-> IF y = x THEN t ELSE subst[y]]

\* The extended substitution, or nothing: a constant meets its equal, a
\* repeated variable binds consistently.
unifyTerm(pattern, actual, subst) ==
    IF ~pattern.var THEN IF pattern = actual THEN {subst} ELSE {}
    ELSE IF pattern.name \in DOMAIN subst
         THEN IF subst[pattern.name] = actual THEN {subst} ELSE {}
         ELSE {Bind(subst, pattern.name, actual)}


unifyAtomArgs(pattern, actual, subst) ==
    FoldLeftDomain(LAMBDA found, i : UNION {unifyTerm(pattern[i], actual[i], s) : s \in found},
                   {subst}, pattern)

\* A head argument that is a tier, or the variable Tier bound to one.
tierFromSubst(args, subst) ==
    LET named == SelectSeq([i \in DOMAIN args |->
                     IF args[i].var
                     THEN IF args[i].name = "Tier" /\ "Tier" \in DOMAIN subst
                          THEN subst["Tier"].name ELSE ""
                     ELSE args[i].name], LAMBDA n : n \in Tiers)
    IN  IF named = <<>> THEN "unknown" ELSE named[1]

Step(fact, via, rule, tier, children) ==
    [fact |-> fact, via |-> via, rule |-> rule, tier |-> tier, children |-> children]
Failed(steps) == [ok |-> FALSE, steps |-> steps, proof |-> <<>>]
Proved(steps, proof) == [ok |-> TRUE, steps |-> steps, proof |-> proof]

NoRule == [head |-> [pred |-> "", args |-> <<>>], premises |-> <<>>]
-----------------------------------------------------------------------------
RECURSIVE prove(_, _, _, _), tryRules(_, _, _, _, _),
          solvePremises(_, _, _, _, _, _), tryFacts(_, _, _, _, _, _, _)

\* The premises from the i-th on; p is [store, facts, rules], steps the count of
\* calls of prove so far.  The children follow the premises.
solvePremises(p, premises, i, subst, depth, steps) ==
    IF i > Len(premises) THEN Proved(steps, <<>>)
    ELSE LET premise == premises[i]
             ground == applySubstToArgs(premise.args, subst)
             atom == [pred |-> premise.pred, args |-> ground]
             then(child, s, n) ==
                LET rest == solvePremises(p, premises, i + 1, s, depth, n)
                IN  IF rest.ok THEN Proved(rest.steps, <<child>> \o rest.proof)
                    ELSE Failed(rest.steps)
         IN  CASE premise.kind = "atom" /\ isGround(ground) ->
                    IF atom \notin p.store THEN Failed(steps)
                    ELSE LET child == prove(p, atom, depth + 1, steps)
                         IN  IF child.ok THEN then(child.proof, subst, child.steps)
                             ELSE Failed(child.steps)
               [] premise.kind = "atom" /\ ~isGround(ground) ->
                    tryFacts(p, premises, i, subst, depth, steps, p.facts)
               [] premise.kind = "neg" ->
                    IF isGround(ground) /\ atom \in p.store THEN Failed(steps)
                    ELSE then(Step(atom, "negation", NoRule, "", <<>>), subst, steps)
               [] premise.kind \in {"eq", "ineq"} ->
                    IF isGround(ground) /\ ((ground[1] = ground[2]) # (premise.kind = "eq"))
                    THEN Failed(steps)
                    ELSE then(Step(atom, "builtin", NoRule, "", <<>>), subst, steps)

\* The open premise i against the facts that are left, the first that
\* carries the rest of the premises wins.
tryFacts(p, premises, i, subst, depth, steps, facts) ==
    IF facts = <<>> THEN Failed(steps)
    ELSE LET candidate == Head(facts)
             ground == applySubstToArgs(premises[i].args, subst)
             trial == IF candidate.pred = premises[i].pred /\ Len(candidate.args) = Len(ground)
                      THEN unifyAtomArgs(ground, candidate.args, subst) ELSE {}
             next(n) == tryFacts(p, premises, i, subst, depth, n, Tail(facts))
         IN  IF trial = {} THEN next(steps)
             ELSE LET child == prove(p, candidate, depth + 1, steps)
                      rest == solvePremises(p, premises, i + 1, CHOOSE s \in trial : TRUE,
                                            depth, child.steps)
                  IN  IF ~child.ok THEN next(child.steps)
                      ELSE IF rest.ok THEN Proved(rest.steps, <<child.proof>> \o rest.proof)
                           ELSE next(rest.steps)

\* The rules from the k-th on, in program order.
tryRules(p, fact, depth, steps, k) ==
    IF k > Len(p.rules)
    THEN IF fact \in p.store
         THEN Proved(steps, Step(fact, "fact", NoRule, tierFromSubst(fact.args, NoSubst), <<>>))
         ELSE Failed(steps)
    ELSE LET rule == p.rules[k]
             matches == IF rule.head.pred = fact.pred /\ Len(rule.head.args) = Len(fact.args)
                             /\ rule.premises # <<>>
                        THEN unifyAtomArgs(rule.head.args, fact.args, NoSubst) ELSE {}
         IN  IF matches = {} THEN tryRules(p, fact, depth, steps, k + 1)
             ELSE LET s == CHOOSE s \in matches : TRUE
                      body == solvePremises(p, rule.premises, 1, s, depth, steps)
                  IN  IF body.ok
                      THEN Proved(body.steps, Step(fact, "rule", rule,
                                       tierFromSubst(rule.head.args, s), body.proof))
                      ELSE tryRules(p, fact, depth, body.steps, k + 1)

AtLimit(depth, steps) == steps > MaxExplainSteps \/ depth >= MaxExplainDepth

\* A derivation of the fact, or none.
prove(p, fact, depth, steps) ==
    IF AtLimit(depth, steps + 1)
    THEN Proved(steps + 1, Step(fact, "depth_limit", NoRule, "unknown", <<>>))
    ELSE tryRules(p, fact, depth, steps + 1, 1)
-----------------------------------------------------------------------------
FactOrder(store) == FoldSet(LAMBDA f, seq : Append(seq, f), <<>>, store)

Matches(query, fact) ==
    /\ fact.pred = query.pred /\ Len(fact.args) = Len(query.args)
    /\ \A i \in DOMAIN query.args : query.args[i].var \/ query.args[i] = fact.args[i]

\* The facts in the store's order, each with a proof; the prover's step count
\* runs on over all of them.
Derivations(p, query) ==
    FoldLeft(LAMBDA acc, fact :
        IF ~Matches(query, fact) THEN acc
        ELSE LET r == prove(p, fact, 0, acc.steps)
                 bare == Step(fact, "fact", NoRule, tierFromSubst(fact.args, NoSubst), <<>>)
             IN  [steps |-> r.steps,
                  found |-> Append(acc.found, IF r.ok THEN r.proof ELSE bare)],
        [steps |-> 0, found |-> <<>>], p.facts).found
-----------------------------------------------------------------------------
(* The Datalog engine: what one round of a rule derives, and the least     *)
(* fixpoint, stratum by stratum.                                           *)
RuleVars(rule) ==
    {t.name : t \in {u \in Range(rule.head.args)
                        \union UNION {Range(q.args) : q \in Range(rule.premises)} : u.var}}

Holds(premise, subst, store) ==
    LET args == applySubstToArgs(premise.args, subst)
        atom == [pred |-> premise.pred, args |-> args]
    IN  CASE premise.kind = "atom" -> atom \in store
          [] premise.kind = "neg" -> atom \notin store
          [] premise.kind = "eq" -> args[1] = args[2]
          [] premise.kind = "ineq" -> args[1] # args[2]

Consequences(rule, store) ==
    LET values == UNION {Range(f.args) : f \in store}
        substs == [RuleVars(rule) -> values]
    IN  {[pred |-> rule.head.pred, args |-> applySubstToArgs(rule.head.args, s)] :
            s \in {t \in substs : \A q \in Range(rule.premises) : Holds(q, t, store)}}

RECURSIVE LeastFixpoint(_, _)
LeastFixpoint(stratum, store) ==
    LET more == store \union UNION {Consequences(r, store) : r \in Range(stratum)}
    IN  IF more = store THEN store ELSE LeastFixpoint(stratum, more)

EvaluatedStore(program, facts) ==
    FoldLeft(LAMBDA store, stratum : LeastFixpoint(stratum, store),
             program.base \union facts, program.strata)

AllRules(program) == FlattenSeq(program.strata)
-----------------------------------------------------------------------------
NotExplaining == [at |-> "idle"]

ExplainInit == rules \in RulePrograms /\ explaining = NotExplaining

\* Rules are replaced wholesale.
ReloadRules == rules' \in RulePrograms \ {rules} /\ UNCHANGED explaining

\* evaluatedWorkingStore, under the runtime's lock.
ExplainStore ==
    /\ explaining.at = "idle"
    /\ \E facts \in RequestFacts, query \in ExplainQueries :
          explaining' = [at |-> "store", query |-> query, from |-> rules, facts |-> facts,
                         store |-> EvaluatedStore(rules, facts)]
    /\ UNCHANGED rules

\* The program's snapshot and the walk.
Explain ==
    /\ explaining.at = "store"
    /\ \E facts \in {FactOrder(explaining.store), Reverse(FactOrder(explaining.store))} :
       LET p == [store |-> explaining.store, facts |-> facts, rules |-> AllRules(rules)]
       IN  explaining' = [at |-> "done", query |-> explaining.query, from |-> explaining.from,
                          facts |-> explaining.facts, store |-> explaining.store, by |-> rules,
                          derivations |-> Derivations(p, explaining.query)]
    /\ UNCHANGED rules

ExplainAgain == explaining.at = "done" /\ explaining' = NotExplaining /\ UNCHANGED rules

ExplainNext == ReloadRules \/ ExplainStore \/ Explain \/ ExplainAgain
-----------------------------------------------------------------------------
RECURSIVE Nodes(_), Height(_)
Nodes(proof) == {proof} \union UNION {Nodes(c) : c \in Range(proof.children)}
Height(proof) == IF proof.children = <<>> THEN 0
                 ELSE 1 + Max({Height(c) : c \in Range(proof.children)})

ProofNodes == UNION {Nodes(d) : d \in Range(explaining.derivations)}

\* Every rule step of a proof is an instance of a rule of the program: one
\* substitution makes its head the fact and its premises the children, facts
\* of the store for the positive ones, absent for the negated ones; its tier
\* is an argument of the fact.
ProofsAreInstances ==
    explaining.at = "done" =>
        \A n \in ProofNodes :
            /\ n.via # "negation" /\ n.via # "builtin" => n.fact \in explaining.store
            /\ n.via = "negation" /\ isGround(n.fact.args) => n.fact \notin explaining.store
            /\ n.tier \in Tiers => Const(n.tier) \in Range(n.fact.args)
            /\ n.via = "rule" =>
                  /\ n.rule \in Range(AllRules(explaining.by))
                  /\ Len(n.children) = Len(n.rule.premises)
                  /\ \E s \in [RuleVars(n.rule) -> UNION {Range(f.args) : f \in explaining.store}] :
                        /\ applySubstToArgs(n.rule.head.args, s) = n.fact.args
                        /\ \A i \in DOMAIN n.children :
                              /\ n.children[i].fact.pred = n.rule.premises[i].pred
                              /\ n.children[i].fact.args
                                    = applySubstToArgs(n.rule.premises[i].args, s)

\* The explanation has one derivation for each fact of the store that answers
\* the query.  Unless the rules were reloaded between the evaluation and the
\* walk, what a proof presents as a given fact was given: with the program or
\* with the request.
GivenFactsWereGiven ==
    explaining.at = "done" =>
        /\ {d.fact : d \in Range(explaining.derivations)}
              = {f \in explaining.store : Matches(explaining.query, f)}
        /\ explaining.by = explaining.from =>
              \A n \in ProofNodes :
                  n.via = "fact" => n.fact \in explaining.from.base \union explaining.facts

\* A proof is never deeper than the bound, also for rules that feed
\* themselves.
ProofsAreBounded ==
    explaining.at = "done" =>
        \A d \in Range(explaining.derivations) : Height(d) <= MaxExplainDepth

=============================================================================
