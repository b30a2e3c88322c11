---------------------------- MODULE OODAContext ----------------------------
(***************************************************************************)
(* The working memory of a cognitive frame: axioms pinned in the           *)
(* AttentionSink and soft facts in the Context, with the token budget of   *)
(* x/ooda/memory.go and the conflict and activity measures of              *)
(* x/east/saliency.go.                                                     *)
(*                                                                         *)
(* An atom is a record with its predicate, subject and object, a weight    *)
(* in tenths and its size: the characters of the three names and the       *)
(* three separators.                                                       *)
(***************************************************************************)
EXTENDS Integers, Sequences, SequencesExt, FiniteSets, FiniteSetsExt

CONSTANTS
  Atoms,        \* the soft facts the environment offers
  Axioms,       \* the atoms it may pin
  MaxContext,   \* bound on Len(context)
  Budgets       \* token budgets given to ShaveContext

VARIABLES
  context,      \* frame.Context
  sink          \* frame.AttentionSink

contextVars == <<context, sink>>

ShaveThreshold == 5

Chars(atoms) == FoldLeft(LAMBDA n, a : n + a.size, 0, atoms)

\* estimateTokens: four characters are one token; an atom is at least its
\* three separators, so the fallback only ever sees the empty list.
estimateTokens(atoms) == Chars(atoms) \div 4

\* trimmedToBudget: the longest prefix whose atoms, each rounded down to
\* whole tokens, fit.
trimmedToBudget(atoms, maxTokens) ==
  LET used(n) == FoldLeft(LAMBDA t, a : t + estimateTokens(<<a>>), 0,
                          SubSeq(atoms, 1, n))
      fits == {n \in 0 .. Len(atoms) : \A k \in 0 .. n : used(k) <= maxTokens}
  IN  SubSeq(atoms, 1, Max(fits))

\* The orders sort.Slice may leave: by descending weight, ties in any order.
ByWeight(atoms) ==
  {s \in {[i \in DOMAIN atoms |-> atoms[p[i]]] : p \in SetToSeqs(DOMAIN atoms)} :
     \A i, j \in DOMAIN s : i < j => s[i].weight >= s[j].weight}

\* What ShaveContext may leave of a context.
Shaved(atoms, maxTokens) ==
  IF estimateTokens(atoms) <= maxTokens THEN {atoms}
  ELSE {trimmedToBudget(s, maxTokens) :
          s \in ByWeight(SelectSeq(atoms, LAMBDA a : a.weight >= ShaveThreshold))}

\* CalculateActivity: how often each predicate:subject occurs.
CalculateActivity(atoms) ==
  [k \in {<<atoms[i].pred, atoms[i].subj>> : i \in DOMAIN atoms} |->
     Cardinality({i \in DOMAIN atoms : <<atoms[i].pred, atoms[i].subj>> = k})]

\* A cold, low-weight atom.
Cold(atom, activity) ==
  activity[<<atom.pred, atom.subj>>] <= 1 /\ atom.weight < ShaveThreshold

\* PruneColdAtoms with the activity measured on the same atoms (Orient).
Pruned(atoms) ==
  LET activity == CalculateActivity(atoms)
  IN  SelectSeq(atoms, LAMBDA a : ~Cold(a, activity))

\* DetectConflicts: atoms of weight 0.5 and more that no axiom states while
\* an axiom states something else of the same predicate.
Conflicting(atom, axioms) ==
  /\ atom.weight >= 5
  /\ \A i \in DOMAIN axioms : <<axioms[i].pred, axioms[i].obj>> # <<atom.pred, atom.obj>>
  /\ \E i \in DOMAIN axioms : axioms[i].pred = atom.pred

DetectConflicts(atoms, axioms) ==
  Cardinality({i \in DOMAIN atoms : Conflicting(atoms[i], axioms)})

-----------------------------------------------------------------------------

ContextInit == context = <<>> /\ sink = <<>>

\* AddContext: an atom without a weight gets 0.5.
AddContext(atom) ==
  /\ Len(context) < MaxContext
  /\ context' = Append(context, [atom EXCEPT !.weight = IF @ = 0 THEN 5 ELSE @])
  /\ UNCHANGED sink

\* Orient's own atoms, for instance the session facts, keep weight 0.
Recall(atom) ==
  /\ Len(context) < MaxContext
  /\ context' = Append(context, atom)
  /\ UNCHANGED sink

PinAxiom(atom) ==
  /\ sink = <<>>
  /\ sink' = Append(sink, [atom EXCEPT !.weight = 10])
  /\ UNCHANGED context

ShaveContext(maxTokens) ==
  /\ context' \in Shaved(context, maxTokens)
  /\ UNCHANGED sink

PruneColdAtoms ==
  /\ context' = Pruned(context)
  /\ UNCHANGED sink

ContextNext ==
  \/ \E a \in Atoms : AddContext(a) \/ Recall(a)
  \/ \E a \in Axioms : PinAxiom(a)
  \/ \E b \in Budgets : ShaveContext(b)
  \/ PruneColdAtoms

-----------------------------------------------------------------------------

\* Shaving a context leaves it alone when it is within the budget; otherwise
\* only trusted atoms stay, no atom that was dropped for space is heavier than
\* one that stayed, and rounding every atom down exceeds the budget by less
\* than one token per kept atom (memory.go ShaveContext, trimmedToBudget).
ShavingKeepsHeaviest ==
  \A b \in Budgets : \A kept \in Shaved(context, b) :
    \/ kept = context /\ estimateTokens(context) <= b
    \/ /\ \A i \in DOMAIN kept : kept[i].weight >= ShaveThreshold
       /\ \A a \in ToSet(context) \ ToSet(kept) :
            a.weight >= ShaveThreshold =>
              \A i \in DOMAIN kept : kept[i].weight >= a.weight
       /\ Chars(kept) <= 4 * b + 3 * Len(kept)

\* "trimmedToBudget trims atoms to fit within the token budget"
\* (memory.go:103): a shaved context is within the budget by the same estimate
\* that decided that it had to be shaved.
ShavedFits ==
  \A b \in Budgets : \A kept \in Shaved(context, b) : estimateTokens(kept) <= b

\* orientWithEAST measures the conflicts first and prunes afterwards: pruning
\* cold atoms loses none of the conflicts, so the entropy it stored is the
\* entropy of what is left or less, and never above 1.
PruningKeepsConflicts ==
  LET kept == Pruned(context)
  IN  /\ DetectConflicts(kept, sink) = DetectConflicts(context, sink)
      /\ DetectConflicts(kept, sink) <= Len(kept)
      /\ \A a \in ToSet(context) \ ToSet(kept) :
           Cardinality({i \in DOMAIN context :
                          <<context[i].pred, context[i].subj>> = <<a.pred, a.subj>>}) = 1
=============================================================================
