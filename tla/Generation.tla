----------------------------- MODULE Generation -----------------------------
(***************************************************************************)
(* Text generation through adapters/ai: generation options, the middleware *)
(* configuration they leave in the metadata of a call's configuration, and *)
(* the validators around the model.  Callers may pass one configuration of *)
(* their own to many calls; *o = *settings.Config copies the struct, so    *)
(* its Metadata map, if it has one, is shared by these calls.              *)
(*                                                                         *)
(* A middleware configuration has one place for each built-in kind, empty  *)
(* or an argument, and a list of custom ones.  Pointers are sequences of   *)
(* at most one element.  Retries and fallbacks happen inside of Genkit.    *)
(***************************************************************************)
EXTENDS Integers, Sequences, SequencesExt

CONSTANTS
    GenCallers,        \* goroutines that generate
    GenRequests,       \* [via, opts]: options through BuildGenerateOptions or passed directly
    GenValidators,     \* the custom middlewares that validate; the others only observe
    ConfigsWithMeta,   \* may the callers' configuration have a Metadata map: subset of BOOLEAN
    MaxGenerations     \* bound: calls to the model

VARIABLES
    gen,        \* gen[c]: [pc, request, uses, at, pre, post] of a caller's call
    callerMeta, \* the callers' Metadata map: [exists, mw]
    leftover,   \* history: the middleware in callerMeta when a caller's call began
    generated   \* calls begun

genVars == <<gen, callerMeta, leftover, generated>>

BuiltIn == <<"retry", "fallback", "approval", "filesystem">>
NoMiddleware == [k \in Range(BuiltIn) \union {"custom"} |-> <<>>]
-----------------------------------------------------------------------------
\* The With...Middleware options and WithGenerationConfig.
SetOption(settings, o) ==
    IF o.op = "config" THEN [settings EXCEPT !.config = TRUE]
    ELSE LET cfg == IF settings.mw = <<>> THEN NoMiddleware ELSE settings.mw[1]
         IN  [settings EXCEPT !.mw = <<[cfg EXCEPT ![o.op] =
                  IF o.op = "custom" THEN Append(@, o.arg) ELSE <<o.arg>>]>>]

Settings(opts) == FoldLeft(SetOption, [config |-> FALSE, mw |-> <<>>], opts)
ConfigOption(s) == IF s.config THEN <<[op |-> "config"]>> ELSE <<>>
MiddlewareOption(s) == IF s.mw # <<>> THEN <<[op |-> "middleware", mw |-> s.mw]>> ELSE <<>>


BuildGenerateOptions(opts) == ConfigOption(Settings(opts)) \o MiddlewareOption(Settings(opts))

\* WithRetry, WithFallback, ... each make a configuration of their own.
DirectOption(o) == MiddlewareOption(Settings(<<o>>))[1]

\* A call's configuration: which Metadata map it has, and what the maps hold.
WithMiddleware(call, mw) ==
    IF call.meta = "caller" THEN [call EXCEPT !.caller = mw]
    ELSE [call EXCEPT !.meta = "own", !.own = mw]
CopyConfig(call) == [call EXCEPT !.meta = IF callerMeta.exists THEN "caller" ELSE "nil"]
ApplyOption(call, o) == IF o.op = "config" THEN CopyConfig(call) ELSE WithMiddleware(call, o.mw)

extractMiddlewareConfig(call) ==
    CASE call.meta = "nil" -> <<>> [] call.meta = "own" -> call.own [] call.meta = "caller" -> call.caller

buildMiddlewareOptions(mw) ==
    IF mw = <<>> THEN <<>>
    ELSE FlattenSeq([i \in DOMAIN BuiltIn |-> [j \in DOMAIN mw[1][BuiltIn[i]] |-> <<BuiltIn[i], mw[1][BuiltIn[i]][j]>>]])
           \o [j \in DOMAIN mw[1].custom |-> <<"custom", mw[1].custom[j]>>]
-----------------------------------------------------------------------------
NoCall == [pc |-> "idle", request |-> [via |-> "build", opts |-> <<>>], uses |-> <<>>, at |-> 0, pre |-> {}, post |-> {}]

GenInit ==
    /\ gen = [c \in GenCallers |-> NoCall]
    /\ \E e \in ConfigsWithMeta : callerMeta = [exists |-> e, mw |-> <<>>]
    /\ leftover = [c \in GenCallers |-> <<>>]
    /\ generated = 0

\* The options are applied and the middleware is read before Genkit is called.
Generate(c, request) ==
    LET opts == IF request.via = "build" THEN BuildGenerateOptions(request.opts)
                ELSE [i \in DOMAIN request.opts |-> DirectOption(request.opts[i])]
        call == FoldLeft(ApplyOption, [meta |-> "nil", own |-> <<>>, caller |-> callerMeta.mw], opts)
    IN  /\ generated < MaxGenerations
        /\ gen[c].pc \in {"idle", "returned", "failed"}
        /\ gen' = [gen EXCEPT ![c] = [NoCall EXCEPT !.pc = "enter", !.request = request, !.at = 1,
                                        !.uses = buildMiddlewareOptions(extractMiddlewareConfig(call))]]
        /\ callerMeta' = [callerMeta EXCEPT !.mw = call.caller]
        /\ leftover' = [leftover EXCEPT ![c] = callerMeta.mw]
        /\ generated' = generated + 1

\* LLMAction.Execute completes its prompt without options; a payload that is not
\* a string is an error.
Execute(c) == Generate(c, [via |-> "direct", opts |-> <<>>])
ExecuteMistyped(c) ==
    /\ gen[c].pc \in {"idle", "returned", "failed"}
    /\ gen' = [gen EXCEPT ![c] = [NoCall EXCEPT !.pc = "failed"]]
    /\ UNCHANGED <<callerMeta, leftover, generated>>

Validates(use) == use[1] = "custom" /\ use[2] \in GenValidators
Becomes(c, next) == gen' = [gen EXCEPT ![c] = next] /\ UNCHANGED <<callerMeta, leftover, generated>>

\* Going in: a validator may refuse the request, the others pass it on.
Enter(c) ==
    LET g == gen[c] IN
    /\ g.pc = "enter" /\ g.at <= Len(g.uses)
    /\ \/ Becomes(c, [g EXCEPT !.at = @ + 1, !.pre = IF Validates(g.uses[g.at]) THEN @ \union {g.at} ELSE @])
       \/ Validates(g.uses[g.at]) /\ Becomes(c, [g EXCEPT !.pc = "failed"])

\* Genkit asks the model, under the built-in middlewares.
ModelAnswers(c) ==
    LET g == gen[c] IN
    /\ g.pc = "enter" /\ g.at > Len(g.uses)
    /\ \E pc \in {"leave", "failed"} : Becomes(c, [g EXCEPT !.pc = pc, !.at = @ - 1])

\* Going out, in the opposite order: the response is validated.
Leave(c) ==
    LET g == gen[c] IN
    /\ g.pc = "leave" /\ g.at > 0
    /\ \/ Becomes(c, [g EXCEPT !.at = @ - 1, !.post = IF Validates(g.uses[g.at]) THEN @ \union {g.at} ELSE @])
       \/ Validates(g.uses[g.at]) /\ Becomes(c, [g EXCEPT !.pc = "failed"])

Return(c) == gen[c].pc = "leave" /\ gen[c].at = 0 /\ Becomes(c, [gen[c] EXCEPT !.pc = "returned"])

GenNext ==
    \E c \in GenCallers :
      \/ \E r \in GenRequests : Generate(c, r)
      \/ Execute(c) \/ ExecuteMistyped(c)
      \/ Enter(c) \/ ModelAnswers(c) \/ Leave(c) \/ Return(c)
-----------------------------------------------------------------------------
Of(opts, op) == SelectSeq(opts, LAMBDA o : o.op = op)
Asked(opts) ==
    FlattenSeq([i \in DOMAIN BuiltIn |->
                  LET os == Of(opts, BuiltIn[i]) IN IF os = <<>> THEN <<>> ELSE <<<<BuiltIn[i], Last(os).arg>>>>])
      \o [j \in DOMAIN Of(opts, "custom") |-> <<"custom", Of(opts, "custom")[j].arg>>]

\* A call runs under exactly the middleware it asked for: the last option of each
\* built-in kind and all custom ones, or the last option alone if they are passed
\* directly.  Only a call that asks for none and passes a configuration with a
\* Metadata map runs under what an earlier call left there.
MiddlewareAsAsked ==
    \A c \in GenCallers : LET r == gen[c].request IN
      gen[c].uses =
        IF r.via = "direct" /\ r.opts # <<>> THEN Asked(<<Last(r.opts)>>)
        ELSE IF Asked(r.opts) = <<>> /\ r.opts # <<>> /\ callerMeta.exists THEN buildMiddlewareOptions(leftover[c])
        ELSE Asked(r.opts)

\* A text is returned only if every validator the call asked for accepted the
\* request before the model saw it and the response afterwards.
ResponsesValidated ==
    \A c \in GenCallers : LET g == gen[c]
                              asked == {i \in DOMAIN g.uses : Validates(g.uses[i])} IN
      /\ g.pc = "leave" => g.pre = asked
      /\ g.pc = "returned" => g.pre = asked /\ g.post = asked


\* What adapters/ai/doc.go says of options that are passed directly: "All
\* middleware can be composed together".
DirectOptionsCompose ==
    \A c \in GenCallers : LET r == gen[c].request IN
      r.via = "direct" => gen[c].uses = Asked(r.opts)
=============================================================================
