---------------------------- MODULE FixedChoice -----------------------------
(***************************************************************************)
(* Fixed-choice scoring: adapters/scoring (scoring.go, score.go, chat.go). *)
(*                                                                         *)
(* A caller scores a prompt, reads the thresholds from the active policy   *)
(* in three queries and builds the request envelope, while the policy may  *)
(* be reloaded between any two steps.  Probabilities are integer weights   *)
(* and thresholds percentages: p / total < t / 100 is compared without     *)
(* division.  A label is a number, a token surface a label with or without *)
(* a leading space (label 0: any other text).  The exponential has base 2. *)
(* Entropy, which nothing is compared with, is left out.                   *)
(***************************************************************************)
EXTENDS Integers, Sequences, FiniteSets, SequencesExt, FiniteSetsExt

CONSTANTS
    Bars,          \* policies: [auto, margin, review : set of defined values]
    LabelLists,    \* the label sequences callers score with
    Weights,       \* sequences a /v1/score server may return
    Answers,       \* answer tokens: sequences of [space, label, logprob]
    Tokens(_, _),  \* token ids of a surface: Tokens(space, label)
    Supplied       \* the LabelTokenIDs a server may be configured with

VARIABLES bars, scoring, server

choiceVars == <<bars, scoring, server>>

NoDecision == [choice |-> 0]
ThresholdNames == <<"auto", "margin", "review">>
-----------------------------------------------------------------------------
Clamp(w) == IF w < 0 THEN 0 ELSE w
Total(ws) == FoldLeft(LAMBDA sum, w : sum + Clamp(w), 0, ws)

\* The loop of Build: the first of the best wins, the runner-up moves along.
Rank(ws) ==
    FoldLeftDomain(LAMBDA r, i :
        IF Clamp(ws[i]) > r.top THEN [best |-> i, top |-> Clamp(ws[i]), second |-> r.top]
        ELSE IF Clamp(ws[i]) > r.second THEN [r EXCEPT !.second = Clamp(ws[i])] ELSE r,
        [best |-> 1, top |-> 0, second |-> 0], ws)

firstDuplicate(xs) == IF IsInjective(xs) THEN {} ELSE
    {xs[Min({i \in DOMAIN xs : \E j \in 1 .. i - 1 : xs[j] = xs[i]})]}

\* Build, of one weight for each label; nothing observed is an error.
Build(labels, ws) ==
    IF Len(ws) # Len(labels) \/ firstDuplicate(labels) # {} \/ Total(ws) <= 0 THEN NoDecision
    ELSE LET r == Rank(ws)
         IN  [choice |-> r.best, top |-> r.top, margin |-> r.top - r.second,
              total |-> Total(ws), dist |-> [i \in DOMAIN ws |-> Clamp(ws[i])]]

\* Softmax of log-probabilities, on the scale where the smallest weighs 1.
Softmax(logs) == [i \in DOMAIN logs |-> 2 ^ (logs[i] - Min(Range(logs)))]

\* observe: the best log-probability of the label's surfaces in the answer.
Observed(answer, label) == {t.logprob : t \in {u \in Range(answer) : u.label = label}}

\* The labels' weights, if every one of them was among the tokens returned.
decisionFromAnswerToken(answer, labels) ==
    IF \A i \in DOMAIN labels : Observed(answer, labels[i]) # {}
    THEN Build(labels, Softmax([i \in DOMAIN labels |-> Max(Observed(answer, labels[i]))]))
    ELSE NoDecision

\* Only flags that hold are present.
Flags(th, d) ==
    IF d = NoDecision THEN {"unobserved_distribution"}
    ELSE {f \in {"below_review", "below_auto", "thin_margin"} :
            CASE f = "below_review" -> 100 * d.top < th.review * d.total
              [] f = "below_auto"   -> 100 * d.top < th.auto * d.total
              [] f = "thin_margin"  -> 100 * d.top >= th.auto * d.total
                                         /\ 100 * d.margin < th.margin * d.total}
-----------------------------------------------------------------------------
\* The cache key: which surfaces are tokenized, and the labels.
CacheKey(labels) == <<server.space, labels>>

tokenSurfaces(labels) == [i \in DOMAIN labels |-> <<server.space, labels[i]>>]

ValidateSingleTokens(surfaces) ==
    \A i \in DOMAIN surfaces : Len(Tokens(surfaces[i][1], surfaces[i][2])) = 1

\* The ids resolveLabelIDs finds without its cache; {} is its error.
LookupIDs(labels) ==
    IF server.supplied # <<>>
    THEN IF Range(labels) \subseteq DOMAIN server.supplied
         THEN {[i \in DOMAIN labels |-> server.supplied[labels[i]]]} ELSE {}
    ELSE LET surfaces == tokenSurfaces(labels)
         IN  IF ValidateSingleTokens(surfaces)
             THEN {[i \in DOMAIN surfaces |-> Tokens(surfaces[i][1], surfaces[i][2])[1]]} ELSE {}

\* resolveLabelIDs: the cached ids, or the ones found now.
resolveLabelIDs(labels) ==
    IF CacheKey(labels) \in DOMAIN server.cache THEN {server.cache[CacheKey(labels)]}
    ELSE LookupIDs(labels)
-----------------------------------------------------------------------------
NotScored == [at |-> "score", labels |-> <<>>, answer |-> <<>>, ids |-> <<>>,
              decision |-> NoDecision, th |-> <<>>, since |-> {}, flags |-> {}, choice |-> 0]

\* NewScoreServer: the cache is empty.
ChoiceInit ==
    /\ bars \in Bars
    /\ scoring = NotScored
    /\ server \in [supplied : Supplied, space : BOOLEAN, cache : {<<>>}]

ReloadBars ==
    /\ bars' \in Bars
    /\ scoring' = [scoring EXCEPT !.since = @ \union {bars'}]
    /\ UNCHANGED server

\* SpacePrefix is a field of the running server.
SetSpacePrefix ==
    /\ scoring.at = "score"
    /\ server' = [server EXCEPT !.space = ~@]
    /\ UNCHANGED <<bars, scoring>>

\* ScoreServer.Score: the ids are resolved and cached, then the server answers
\* or fails; a caller without a decision goes on with nil.
Score ==
    /\ scoring.at = "score"
    /\ \E labels \in LabelLists, ws \in Weights \union {<<>>} :
          LET ids == resolveLabelIDs(labels)
              put == [k \in DOMAIN server.cache \union {CacheKey(labels)} |->
                        IF k = CacheKey(labels) THEN CHOOSE l \in ids : TRUE ELSE server.cache[k]]
          IN  /\ server' = [server EXCEPT !.cache = IF ids = {} THEN @ ELSE put]
              /\ scoring' = [scoring EXCEPT !.at = "read", !.since = {bars}, !.labels = labels,
                    !.ids = IF ids = {} THEN <<>> ELSE CHOOSE l \in ids : TRUE,
                    !.decision = IF ids = {} THEN NoDecision ELSE Build(labels, ws)]
    /\ UNCHANGED bars

\* ChatScorer.Score.
ScoreChat ==
    /\ scoring.at = "score"
    /\ \E labels \in LabelLists, answer \in Answers :
          scoring' = [scoring EXCEPT !.at = "read", !.since = {bars}, !.labels = labels,
                          !.answer = answer, !.decision = decisionFromAnswerToken(answer, labels)]
    /\ UNCHANGED <<bars, server>>


\* The next of ThresholdsFromPolicy's queries; a bar that is missing or has
\* several values ends the call with an error.
ReadBar ==
    LET name == ThresholdNames[Cardinality(DOMAIN scoring.th) + 1]
    IN  /\ scoring.at = "read" /\ Cardinality(DOMAIN scoring.th) < 3
        /\ IF Cardinality(bars[name]) = 1
           THEN scoring' = [scoring EXCEPT !.th = [n \in DOMAIN @ \union {name} |->
                               IF n = name THEN CHOOSE v \in bars[name] : TRUE ELSE @[n]]]
           ELSE scoring' = [scoring EXCEPT !.at = "error"]
        /\ UNCHANGED <<bars, server>>

\* The bars must be in order, also when they come from two policies.
ThresholdsFromPolicy ==
    /\ scoring.at = "read" /\ Cardinality(DOMAIN scoring.th) = 3
    /\ scoring' = [scoring EXCEPT !.at = IF scoring.th.review > scoring.th.auto
                                         THEN "error" ELSE "request"]
    /\ UNCHANGED <<bars, server>>

\* Request adds the flags, and the choice if there is one, to the envelope.
Request ==
    /\ scoring.at = "request"
    /\ scoring' = [scoring EXCEPT !.at = "done",
                       !.flags = @ \union Flags(scoring.th, scoring.decision),
                       !.choice = IF scoring.decision = NoDecision THEN @ ELSE scoring.decision.choice]
    /\ UNCHANGED <<bars, server>>

\* The caller starts again, with a new payload or with the same envelope.
NextPrompt ==
    /\ scoring.at \in {"done", "error"}
    /\ scoring' \in {NotScored,
                     [NotScored EXCEPT !.flags = scoring.flags, !.choice = scoring.choice]}
    /\ UNCHANGED <<bars, server>>

ChoiceNext ==
    \/ ReloadBars \/ SetSpacePrefix \/ Score \/ ScoreChat
    \/ ReadBar \/ ThresholdsFromPolicy \/ Request \/ NextPrompt
-----------------------------------------------------------------------------
\* Every threshold is a value of a policy that was active while it was being
\* read: after a reload the new numbers are used.
ThresholdsFresh ==
    \A n \in DOMAIN scoring.th : \E b \in scoring.since : b[n] = {scoring.th[n]}

\* The choice is the first option nothing beats, and the margin its lead over
\* the best of the others.
DecisionExact ==
    LET d == scoring.decision
    IN  d # NoDecision =>
          LET others == {d.dist[i] : i \in DOMAIN d.dist \ {d.choice}}
          IN  /\ d.top = d.dist[d.choice]
              /\ \A i \in DOMAIN d.dist : d.dist[i] <= d.top /\ (i < d.choice => d.dist[i] < d.top)
              /\ d.margin = d.top - Max(others \union {0})

\* A request without a flag, which a policy may route by itself, is about a
\* decision over all labels that clears the bars; a decision below the review
\* floor is below the auto bar too.
AutoRouteIsEarned ==
    scoring.at = "done" =>
        /\ scoring.flags = {} =>
              /\ scoring.choice \in DOMAIN scoring.labels
              /\ 100 * scoring.decision.top >= scoring.th.auto * scoring.decision.total
              /\ 100 * scoring.decision.margin >= scoring.th.margin * scoring.decision.total
              /\ scoring.answer # <<>> =>
                    \A l \in Range(scoring.labels) : \E t \in Range(scoring.answer) : t.label = l
        /\ "below_review" \in scoring.flags => "below_auto" \in scoring.flags

\* The ids sent to the server are those of the surfaces the current prefix
\* asks for, each a single token, whether they were cached or looked up.
ResolvedIdsCurrent ==
    scoring.ids # <<>> /\ server.supplied = <<>> =>
        \A i \in DOMAIN scoring.labels :
            Tokens(server.space, scoring.labels[i]) = <<scoring.ids[i]>>

=============================================================================
