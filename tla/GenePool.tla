------------------------------ MODULE GenePool ------------------------------
(***************************************************************************)
(* Signed units of policy and their way into the policy program:           *)
(* x/genes (genes.go, pool.go, policy.go, apply.go).                       *)
(*                                                                         *)
(* An author edits and signs a draft, WritePool puts drafts into a         *)
(* manifest, the manifest is edited by hand, LoadPool reads it and ApplyTo *)
(* compiles genes of the pool into the program.  A hash is the form it     *)
(* covers.  Rules are the sequence of their lines, one rule on each,       *)
(* given by the tier of its halt or deny head, or "" without one.          *)
(***************************************************************************)
EXTENDS Naturals, Sequences, FiniteSets, SequencesExt

CONSTANTS
    GeneNames, GeneTiers,   \* "" is among the tiers: not a governance tier
    GeneIntents,            \* sequences of intents, each a sequence of words
    GeneRules,              \* sequences of lines
    MaxEntries, MaxSigns, MaxApplied, MaxEdits
                            \* bounds: genes of a manifest, forms signed, genes
                            \* applied, edits of drafts and manifests

VARIABLES
    draft,      \* the gene its author works on
    manifest,   \* the entries on disk
    pool,       \* the genes LoadPool returned, and the entries it read
    program,    \* genes applied, and whether hard tiers were allowed
    signedForms,\* history: every form that was signed
    edits       \* number of edits so far

geneVars == <<draft, manifest, pool, program, signedForms, edits>>

Unsigned == <<>>
NoPool == [genes |-> <<>>, from |-> <<>>, ok |-> FALSE]
-----------------------------------------------------------------------------
\* What the signature covers: %v of the intents separates words and intents
\* alike.
canonical(g) == <<g.name, g.tier, FlattenSeq(g.intents), g.rules>>

Verify(g) == g.sig # Unsigned /\ g.sig = canonical(g)

validTier(t) == t \in {"T0", "T1", "T2", "T3"}
isHardTier(t) == t \in {"T0", "T1"}

\* Each line's tier, if it has one, is the declared one.
checkTierConsistency(g) == \A i \in DOMAIN g.rules : g.rules[i] \in {"", g.tier}

\* Genes are compiled in the order of their names; names are numbers.
Genes(p) == SortSeq(p.genes, LAMBDA a, b : a.name < b.name)

Active(p, intent) ==
    SelectSeq(Genes(p), LAMBDA g : g.intents = <<>> \/ \E i \in DOMAIN g.intents : g.intents[i] = intent)

\* What LoadPool makes of an entry, after the entries before it.
Loadable(entries, i) ==
    /\ \A j \in 1 .. i - 1 : entries[j].name # entries[i].name
    /\ validTier(entries[i].tier)
    /\ entries[i].rules # <<>>
    /\ Verify(entries[i])

\* A gene Compile lets through.
Compilable(g, allowHard) ==
    /\ Verify(g) /\ validTier(g.tier)
    /\ ~isHardTier(g.tier) \/ allowHard
    /\ checkTierConsistency(g)
-----------------------------------------------------------------------------
GeneInit ==
    /\ draft \in [name : GeneNames, tier : GeneTiers, intents : GeneIntents,
                  rules : GeneRules, sig : {Unsigned}]
    /\ manifest = <<>> /\ pool = NoPool /\ program = {}
    /\ signedForms = {} /\ edits = 0

\* One field of a gene is changed; its signature stays.
Edited(g) ==
    {[g EXCEPT !.tier = t] : t \in GeneTiers} \union {[g EXCEPT !.rules = r] : r \in GeneRules}
       \union {[g EXCEPT !.name = n] : n \in GeneNames}

Edit ==
    /\ edits < MaxEdits /\ edits' = edits + 1
    /\ draft' \in Edited(draft)
    /\ UNCHANGED <<manifest, pool, program, signedForms>>

Sign ==
    /\ Cardinality(signedForms) < MaxSigns
    /\ draft' = [draft EXCEPT !.sig = canonical(draft)]
    /\ signedForms' = signedForms \union {canonical(draft)}
    /\ UNCHANGED <<manifest, pool, program, edits>>

\* The genes of the pool, if any, and the draft.  Signed is all WritePool asks
\* for: a stale signature is written too.
WritePool ==
    LET genes == pool.genes \o <<draft>>
    IN  /\ Len(genes) <= MaxEntries
        /\ \A i \in DOMAIN genes : genes[i].sig # Unsigned
        /\ manifest' = genes
        /\ UNCHANGED <<draft, pool, program, signedForms, edits>>

\* The manifest is a text file: an entry is changed or loses its signature.
EditManifest ==
    /\ edits < MaxEdits /\ edits' = edits + 1
    /\ \E i \in DOMAIN manifest :
          \E g \in Edited(manifest[i]) \union {[manifest[i] EXCEPT !.sig = Unsigned]} :
             manifest' = [manifest EXCEPT ![i] = g]
    /\ UNCHANGED <<draft, pool, program, signedForms>>

\* Every entry is accepted or none is; on an error the caller has no new pool.
LoadPool ==
    /\ \A i \in DOMAIN manifest : Loadable(manifest, i)
    /\ pool' = [genes |-> manifest, from |-> manifest, ok |-> TRUE]
    /\ UNCHANGED <<draft, manifest, program, signedForms, edits>>


\* Compile succeeds only on genes that all pass.
Compile(genes, allowHard) ==
    genes # <<>> /\ \A i \in DOMAIN genes : Compilable(genes[i], allowHard)

\* What was compiled is added to the program; a reload of the policy drops it.
ApplyTo(genes, allowHard) ==
    /\ Compile(genes, allowHard)
    /\ Cardinality(program) + Len(genes) <= MaxApplied
    /\ program' = program \union {[gene |-> genes[i], allowed |-> allowHard] : i \in DOMAIN genes}
    /\ UNCHANGED <<draft, manifest, pool, signedForms, edits>>

ReloadPolicy ==
    program # {} /\ program' = {} /\ UNCHANGED <<draft, manifest, pool, signedForms, edits>>

\* Genes come from the pool, or straight from their author.
GeneNext ==
    \/ Edit \/ Sign \/ ReloadPolicy \/ WritePool \/ EditManifest \/ LoadPool
    \/ \E allowHard \in BOOLEAN :
          \/ ApplyTo(<<draft>>, allowHard)
          \/ ApplyTo(Genes(pool), allowHard)
          \/ \E intents \in GeneIntents : intents # <<>> /\ ApplyTo(Active(pool, intents[1]), allowHard)
-----------------------------------------------------------------------------
\* A gene in the program reads as it did when somebody signed it, whatever was
\* edited between Sign, WritePool, LoadPool and ApplyTo.
CompiledWasSigned ==
    \A p \in program : canonical(p.gene) \in signedForms

\* A program compiled without AllowHardTiers has no rule line that emits a
\* tier the gate blocks on, whatever tier its gene declares.
AdvisoryUnlessPromoted ==
    \A p \in program :
        (\E k \in DOMAIN p.gene.rules : isHardTier(p.gene.rules[k])) => p.allowed

\* A loaded pool is the whole manifest ("a corrupted pool fails closed"): no
\* entry is left out, names are unique, and each gene was signed as it reads.
PoolIsManifest ==
    pool.ok =>
        /\ pool.genes = pool.from
        /\ \A i, j \in DOMAIN pool.genes : pool.genes[i].name = pool.genes[j].name => i = j
        /\ \A i \in DOMAIN pool.genes : canonical(pool.genes[i]) \in signedForms

=============================================================================
