----------------------------- MODULE SessionMap -----------------------------
(***************************************************************************)
(* What a session state store promises (ports.SessionStateStore): a map    *)
(* from a session and a workflow to an instance, in which an operation     *)
(* touches the instance it names, ClearSession exactly the instances of    *)
(* its session, and nothing else changes, except that a store may forget.  *)
(***************************************************************************)
CONSTANTS Sessions, Workflows, Values, None, Forgetful

VARIABLE kv

Init == kv = [k \in Sessions \X Workflows |-> None]

Set(s, w) == \E v \in Values : kv' = [kv EXCEPT ![<<s, w>>] = v]
Remove(s, w) == kv' = [kv EXCEPT ![<<s, w>>] = None]
Clear(s) == kv' = [k \in DOMAIN kv |-> IF k[1] = s THEN None ELSE kv[k]]
Forget ==
    /\ Forgetful
    /\ \E lost \in SUBSET DOMAIN kv :
          kv' = [k \in DOMAIN kv |-> IF k \in lost THEN None ELSE kv[k]]

Next ==
    \/ \E s \in Sessions, w \in Workflows : Set(s, w) \/ Remove(s, w)
    \/ \E s \in Sessions : Clear(s)
    \/ Forget

Spec == Init /\ [][Next]_kv
=============================================================================
