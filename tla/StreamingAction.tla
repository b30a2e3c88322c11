-------------------------- MODULE StreamingAction --------------------------
(***************************************************************************)
(* A supervised stream (adapters/ai/stream.go) on top of a Genkit model    *)
(* (adapters/ai/genkit.go): the model's callback fills a buffered channel, *)
(* the supervising goroutine forwards its chunks over an unbuffered one,   *)
(* post-checks the assembled text and publishes it in the action's single  *)
(* final envelope.  Several streams of one action may run at a time, and   *)
(* each has a context that its caller may cancel.                          *)
(*                                                                         *)
(* The chunks of a stream are numbered; Err is a chunk with an error.      *)
(***************************************************************************)
EXTENDS Integers, Sequences, SequencesExt, FiniteSets

CONSTANTS
  Streams,    \* the calls of Stream
  Lengths,    \* how many chunks a model may produce
  Buffer      \* capacity of the adapter's channel (8 in the code)

VARIABLES
  stream,     \* the state of each call
  final       \* a.final: the stream it came from and its text, or NoFinal

streamVars == <<stream, final>>

Err == 0

NoFinal == [of |-> "", text |-> <<>>]

\* Fields: total, the chunks the model has; model, the provider's goroutine;
\* made, the chunks it has sent; buf, the adapter's channel; sup, the
\* supervising goroutine; hold, the chunk it emits; text, what it assembled;
\* got, what the caller received; cancelled, the context.
NotCalled == [total |-> 0, model |-> "none", made |-> 0, buf |-> <<>>, sup |-> "none",
              hold |-> 0, text |-> <<>>, got |-> <<>>, cancelled |-> FALSE, denied |-> FALSE]

StreamInit ==
  /\ stream = [s \in Streams |-> NotCalled]
  /\ final = NoFinal

Set(s, record) == stream' = [stream EXCEPT ![s] = record]

\* Stream: the prompt and the pre-check; if the gate denies, no channel and no
\* model call exist.
Stream(s) ==
  /\ stream[s].sup = "none"
  /\ \/ \E n \in Lengths : Set(s, [stream[s] EXCEPT !.total = n, !.model = "running",
                                                    !.sup = "receive"])
     \/ Set(s, [stream[s] EXCEPT !.sup = "refused"])
  /\ UNCHANGED final

\* The model's callback (streamCb): send a chunk or give up with the context.
Callback(s) ==
  /\ stream[s].model = "running" /\ stream[s].made < stream[s].total
  /\ \/ /\ Len(stream[s].buf) < Buffer
        /\ Set(s, [stream[s] EXCEPT !.made = @ + 1, !.buf = Append(@, stream[s].made + 1)])
     \/ stream[s].cancelled /\ Set(s, [stream[s] EXCEPT !.model = "failed"])
  /\ UNCHANGED final

\* Generate returns: all chunks sent, or the provider failed.
GenerateReturns(s) ==
  /\ stream[s].model = "running"
  /\ \/ stream[s].made = stream[s].total /\ Set(s, [stream[s] EXCEPT !.model = "closed"])
     \/ Set(s, [stream[s] EXCEPT !.model = "failed"])
  /\ UNCHANGED final

\* The adapter reports the error, unless the context is done, and closes.
ReportFailure(s) ==
  /\ stream[s].model = "failed"
  /\ \/ /\ Len(stream[s].buf) < Buffer
        /\ Set(s, [stream[s] EXCEPT !.model = "closed", !.buf = Append(@, Err)])
     \/ stream[s].cancelled /\ Set(s, [stream[s] EXCEPT !.model = "closed"])
  /\ UNCHANGED final

\* The goroutine takes the next chunk of the source.
Receive(s) ==
  /\ stream[s].sup = "receive" /\ stream[s].buf # <<>>
  /\ LET c == Head(stream[s].buf)
     IN  Set(s, IF c = Err
                THEN [stream[s] EXCEPT !.buf = Tail(@), !.sup = "emiterr"]
                ELSE [stream[s] EXCEPT !.buf = Tail(@), !.hold = c, !.sup = "emit",
                                       !.text = Append(@, c)])
  /\ UNCHANGED final

\* The source is closed and empty: on to the post-check.
SourceEnds(s) ==
  /\ stream[s].sup = "receive" /\ stream[s].buf = <<>> /\ stream[s].model = "closed"
  /\ Set(s, [stream[s] EXCEPT !.sup = "reflect"])
  /\ UNCHANGED final

\* emit without the case of a finished context.
EmitAlways(s) ==
  /\ stream[s].sup \in {"emit", "emiterr"} /\ ~stream[s].cancelled
  /\ Set(s, IF stream[s].sup = "emit"
            THEN [stream[s] EXCEPT !.got = Append(@, stream[s].hold), !.sup = "receive"]
            ELSE [stream[s] EXCEPT !.got = Append(@, Err), !.sup = "closed"])
  /\ UNCHANGED final

\* emit: the caller takes the chunk, or the context is done and the goroutine
\* closes the channel without a word.
Emit(s) ==
  /\ stream[s].sup \in {"emit", "emiterr"}
  /\ \/ Set(s, IF stream[s].sup = "emit"
               THEN [stream[s] EXCEPT !.got = Append(@, stream[s].hold), !.sup = "receive"]
               ELSE [stream[s] EXCEPT !.got = Append(@, Err), !.sup = "closed"])
     \/ stream[s].cancelled /\ Set(s, [stream[s] EXCEPT !.sup = "closed"])
  /\ UNCHANGED final

\* Publish what Reflect returned before looking at its error.
ReflectPublishesFirst(s) ==
  /\ stream[s].sup = "reflect"
  /\ final' = [of |-> s, text |-> stream[s].text]
  /\ \/ Set(s, [stream[s] EXCEPT !.sup = "closed"])
     \/ Set(s, [stream[s] EXCEPT !.sup = "emiterr", !.denied = TRUE])

\* Reflect on the assembled text: publish it, or end with an error chunk.
Reflect(s) ==
  /\ stream[s].sup = "reflect"
  /\ \/ /\ final' = [of |-> s, text |-> stream[s].text]
        /\ Set(s, [stream[s] EXCEPT !.sup = "closed"])
     \/ /\ Set(s, [stream[s] EXCEPT !.sup = "emiterr", !.denied = TRUE])
        /\ UNCHANGED final

\* The caller cancels; one that stops listening does so too (defer cancel()).
Cancel(s) ==
  /\ stream[s].sup \notin {"none", "refused", "closed"} /\ ~stream[s].cancelled
  /\ Set(s, [stream[s] EXCEPT !.cancelled = TRUE])
  /\ UNCHANGED final

StreamStep(s) ==
  \/ Callback(s) \/ GenerateReturns(s) \/ ReportFailure(s)
  \/ Receive(s) \/ SourceEnds(s) \/ Emit(s) \/ Reflect(s)

StreamNext == \E s \in Streams : Stream(s) \/ StreamStep(s) \/ Cancel(s)

\* Goroutines run, providers return, and callers listen or cancel.
StreamFairness == \A s \in Streams : WF_streamVars(StreamStep(s))

-----------------------------------------------------------------------------

\* The caller sees the model's chunks in order, none twice and none left out,
\* and an error only as the last thing of a stream.
ChunksInOrder ==
  \A s \in Streams : \A i \in DOMAIN stream[s].got :
    \/ stream[s].got[i] = i
    \/ stream[s].got[i] = Err /\ i = Len(stream[s].got) /\ stream[s].sup = "closed"

\* A text in the final envelope was delivered in full before: its stream's
\* caller received every chunk of it and no error.
FinalWasDelivered ==
  final # NoFinal => final.text = stream[final.of].got

\* A stream that nobody cancelled ends either with an error chunk or with its
\* complete text approved by the post-check.
EndsAreExplained ==
  \A s \in Streams :
    stream[s].sup = "closed" /\ ~stream[s].cancelled =>
      LET got == stream[s].got
      IN  IF got # <<>> /\ Last(got) = Err THEN TRUE
          ELSE ~stream[s].denied /\ Len(got) = stream[s].total

\* Both goroutines of every stream come to an end.
StreamsEnd ==
  \A s \in Streams :
    stream[s].sup = "receive" ~> stream[s].sup = "closed" /\ stream[s].model = "closed"

\* "FinalEnvelope returns the post-checked assembled response, if the stream
\* has completed and the post-check passed" (stream.go:160-161).
FinalIsComplete ==
  final # NoFinal => Len(final.text) = stream[final.of].total

\* "If it denies, the caller receives a terminal core.StreamChunk carrying the
\* policy error and no final envelope is exposed" (stream.go:31-33).
NoFinalAfterDenial ==
  \A s \in Streams : stream[s].denied /\ (\A r \in Streams : stream[r].sup \in {"none", "closed"}) => final = NoFinal

\* The caller of a stream can tell from what arrived how it ended, and the
\* final envelope agrees with what somebody received.
StreamsExplained == ChunksInOrder /\ FinalWasDelivered /\ EndsAreExplained
=============================================================================
