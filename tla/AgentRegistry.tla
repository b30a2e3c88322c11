--------------------------- MODULE AgentRegistry ----------------------------
(***************************************************************************)
(* AgentSystem of multiagent/agent_system.go: agents are Datalog facts, a  *)
(* lookup asks four queries in parallel and caches what it assembled, and  *)
(* SetAgentStatus changes only the cached object.  The facts change when   *)
(* policies are added or reloaded.  A fact base gives every agent a role   *)
(* ("" if it has none), the tasks its capabilities cover and a status; a   *)
(* query sees one fact base.                                               *)
(***************************************************************************)
EXTENDS Naturals, FiniteSets, Sequences, SequencesExt, FiniteSetsExt

CONSTANTS
    Agents, Callers,
    FactBases,        \* the fact bases that may be loaded
    Statuses,         \* values of SetAgentStatus
    MaxReloads        \* bound on changes of the facts

VARIABLES
    base,         \* the facts in force
    registry,     \* agent -> the cached object, or NoAgent
    lookup,       \* GetAgent in progress, per caller
    asked,        \* history: what SetAgentStatus last set on a cached agent
    past,         \* history: the fact bases that have been in force
    reloads

registryVars == <<base, registry, lookup, asked, past, reloads>>

Queries == {"role", "capabilities", "config", "status"}
NoAgent == [role |-> "", caps |-> {}, status |-> "available"]
NoLookup == [pc |-> "idle", agent |-> CHOOSE a \in Agents : TRUE, found |-> {},
             pending |-> {}, part |-> NoAgent, failed |-> FALSE]

RegistryInit ==
    /\ base \in FactBases
    /\ registry = [a \in Agents |-> NoAgent]
    /\ lookup = [c \in Callers |-> NoLookup]
    /\ asked = [a \in Agents |-> ""]
    /\ past = {base}
    /\ reloads = 0

\* Adding or reloading policies.
ChangeFacts ==
    /\ reloads < MaxReloads
    /\ base' \in FactBases \ {base}
    /\ reloads' = reloads + 1
    /\ past' = past \union {base'}
    /\ UNCHANGED <<registry, lookup, asked>>

\* The join of FindAgentsForTask and of GetAgentsByRole; each agent found is
\* then looked up, one after the other.
Matching(task) ==
    {a \in Agents : base[a].role # "" /\ task \in base[a].caps /\ base[a].status = "available"}
FindAgentsForTask(c, task) ==
    /\ lookup[c].pc = "idle"
    /\ lookup' = [lookup EXCEPT ![c] = [NoLookup EXCEPT !.pc = "next", !.found = Matching(task)]]
    /\ UNCHANGED <<base, registry, asked, past, reloads>>
WithRole(role) == {a \in Agents : base[a].role = role /\ base[a].status = "available"}
GetAgentsByRole(c, role) ==
    /\ lookup[c].pc = "idle"
    /\ lookup' = [lookup EXCEPT ![c] = [NoLookup EXCEPT !.pc = "next", !.found = WithRole(role)]]
    /\ UNCHANGED <<base, registry, asked, past, reloads>>

\* GetAgent: the cache first, under the read lock.
GetAgent(c) ==
    /\ lookup[c].pc = "next"
    /\ \/ /\ lookup[c].found = {}
          /\ lookup' = [lookup EXCEPT ![c] = NoLookup]
       \/ \E a \in lookup[c].found :
             lookup' = [lookup EXCEPT ![c] =
                 IF registry[a] # NoAgent THEN [@ EXCEPT !.found = @ \ {a}]
                 ELSE [@ EXCEPT !.pc = "query", !.agent = a, !.found = @ \ {a}, !.failed = FALSE,
                                !.pending = Queries, !.part = NoAgent]]
    /\ UNCHANGED <<base, registry, asked, past, reloads>>

\* One of the four goroutines.  A failed status query keeps the default.
Answer(c, q) ==
    LET facts == base[lookup[c].agent]
        part == lookup[c].part
    IN  [part EXCEPT !.role = IF q = "role" THEN facts.role ELSE @,
                     !.caps = IF q = "capabilities" THEN facts.caps ELSE @,
                     !.status = IF q = "status" THEN facts.status ELSE @]
Query(c, q, ok) ==
    /\ lookup[c].pc = "query" /\ q \in lookup[c].pending
    /\ lookup' = [lookup EXCEPT ![c] =
          [@ EXCEPT !.pending = @ \ {q},
                    !.part = IF ok THEN Answer(c, q) ELSE @,
                    !.failed = @ \/ (~ok /\ q # "status")]]
    /\ UNCHANGED <<base, registry, asked, past, reloads>>

\* Errors of the capabilities and of the configuration are forgotten.
RegisterPartial(c) ==
    LET a == lookup[c].agent
        bad == lookup[c].part.role = ""
    IN  /\ lookup[c].pc = "query" /\ lookup[c].pending = {}
        /\ registry' = IF bad THEN registry ELSE [registry EXCEPT ![a] = lookup[c].part]
        /\ lookup' = [lookup EXCEPT ![c].pc = "next"]
        /\ UNCHANGED <<base, asked, past, reloads>>

\* After wg.Wait: an error or an empty role is not cached; the last of two
\* concurrent lookups replaces the object of the first.
Register(c) ==
    LET a == lookup[c].agent
        bad == lookup[c].failed \/ lookup[c].part.role = ""
    IN  /\ lookup[c].pc = "query" /\ lookup[c].pending = {}
        /\ registry' = IF bad THEN registry ELSE [registry EXCEPT ![a] = lookup[c].part]
        /\ lookup' = [lookup EXCEPT ![c].pc = "next"]
        /\ UNCHANGED <<base, asked, past, reloads>>

\* Nothing happens for an agent that is not cached.
SetAgentStatus(a, status) ==
    /\ registry' = IF registry[a] = NoAgent THEN registry ELSE [registry EXCEPT ![a].status = status]
    /\ asked' = IF registry[a] = NoAgent THEN asked ELSE [asked EXCEPT ![a] = status]
    /\ UNCHANGED <<base, lookup, past, reloads>>

RegistryNext ==
    \/ ChangeFacts
    \/ \E c \in Callers :
          \/ \E task \in UNION {base[a].caps : a \in Agents} : FindAgentsForTask(c, task)
          \/ \E role \in {base[a].role : a \in Agents} \ {""} : GetAgentsByRole(c, role)
          \/ GetAgent(c)
          \/ \E q \in Queries, ok \in BOOLEAN : Query(c, q, ok)
          \/ Register(c)
    \/ \E a \in Agents, status \in Statuses : SetAgentStatus(a, status)
-----------------------------------------------------------------------------
\* A cached agent is made of answers only: its role and its capabilities are
\* those of fact bases that were in force, however the four queries of its
\* lookup, their failures and changes of the facts fall.
PartialNeverCached ==
    \A a \in Agents : registry[a] # NoAgent =>
        /\ registry[a].role \in {b[a].role : b \in past} \ {""}
        /\ registry[a].caps \in {b[a].caps : b \in past}

\* The status SetAgentStatus gave a cached agent stays until it is set again.
StatusSticks ==
    \A a \in Agents : asked[a] # "" => registry[a].status = asked[a]
=============================================================================
