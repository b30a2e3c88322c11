------------------------ MODULE ClientShutdownProofs ------------------------
(***************************************************************************)
(* StopsOnceDrained for any number of executions and of Shutdown calls.    *)
(* The invariant says who the first caller is: only it leaves the critical *)
(* section towards the wait, so only it can stop the exporters, and the    *)
(* flag it has set keeps memWg empty from then on.                         *)
(***************************************************************************)
EXTENDS ClientShutdown, TLAPS

\* The callers that found shuttingDown unset.
First == {s \in Closers : closer[s] \in {"waiting", "drained", "expired"}}

\* There is one such caller at most, and none before the flag is set; once it
\* has stopped the exporters nothing is in flight.
ShutdownInv ==
    /\ ShutdownTypeOK
    /\ \A s, t \in First : s = t
    /\ First # {} => shuttingDown
    /\ exporters \in {0, 1}
    /\ exporters = 1 => (\E s \in First : closer[s] = "drained") /\ InFlight = {}

\* Every step of asyncMemorize and Shutdown preserves the invariant.
LEMMA ShutdownStep == ShutdownInv /\ [ShutdownNext]_shutdownVars => ShutdownInv'
<1> SUFFICES ASSUME ShutdownInv, [ShutdownNext]_shutdownVars
             PROVE  ShutdownInv'
  OBVIOUS
<1> USE DEF ShutdownInv, ShutdownTypeOK, First, InFlight
<1>1. CASE UNCHANGED shutdownVars
  BY <1>1 DEF shutdownVars
<1>2. ASSUME NEW m \in Results, asyncMemorize(m)
      PROVE  ShutdownInv'
  BY <1>2 DEF asyncMemorize
<1>3. ASSUME NEW m \in Results, Memorized(m)
      PROVE  ShutdownInv'
  BY <1>3 DEF Memorized
<1>4. ASSUME NEW s \in Closers, Shutdown(s)
      PROVE  ShutdownInv'
  BY <1>4 DEF Shutdown
<1>5. ASSUME NEW s \in Closers, Drained(s)
      PROVE  ShutdownInv'
  BY <1>5 DEF Drained
<1>6. ASSUME NEW s \in Closers, ContextEnds(s)
      PROVE  ShutdownInv'
  BY <1>6 DEF ContextEnds
<1> QED
  BY <1>1, <1>2, <1>3, <1>4, <1>5, <1>6 DEF ShutdownNext

\* Client.Shutdown stops the exporters at most once and only when every
\* memorization started before it has ended, whatever the interleaving.
THEOREM ExportersStopDrained == ShutdownSpec => []StopsOnceDrained
<1>1. ShutdownInit => ShutdownInv
  <2> SUFFICES ASSUME ShutdownInit
               PROVE  ShutdownInv
    OBVIOUS
  <2>1. ShutdownTypeOK
    BY DEF ShutdownInit, ShutdownTypeOK
  <2>2. First = {}
    BY DEF ShutdownInit, First
  <2> QED
    BY <2>1, <2>2 DEF ShutdownInit, ShutdownInv
<1>2. ShutdownInv => StopsOnceDrained
  BY DEF ShutdownInv, StopsOnceDrained
<1> QED
  BY <1>1, <1>2, ShutdownStep, PTL DEF ShutdownSpec
=============================================================================
