--------------------------- MODULE AiAgentRuntime ---------------------------
(***************************************************************************)
(* The AI agent on the server: triggers, of which one runs and one waits,  *)
(* the turns of a run over the AI spaces of the graph, and the screenshot  *)
(* an idle agent asks a client for.  A turn asks a language model for a    *)
(* plan, tries the plan on a copy of the graph, has it repaired once if it *)
(* fails there, and applies it to the graph, which managers edit           *)
(* meanwhile.  What runs broadcast is part of SemanticSync.                *)
(***************************************************************************)
EXTENDS Naturals, Sequences, SequencesExt

CONSTANTS
  AiNode,        \* nodes that plans and managers add and remove
  AiSpaces,      \* AI spaces bound to an event
  AiRepairs,     \* SHUGU_AI_REPAIR_MAX_ATTEMPTS
  AiTriggers,    \* bound: triggers
  AiEdits,       \* bound: edits of managers
  AiNone

ASSUME AiAssumption ==
  /\ AiSpaces \in Nat \ {0} /\ AiRepairs \in Nat
  /\ AiTriggers \in Nat /\ AiEdits \in Nat

\* The priorities of triggers, a pending trigger, and a run.
Priority == {"idle", "system", "user"}
AiWaiting == [id : Nat, priority : Priority]
AiActive == [id : Nat, superseded : BOOLEAN, space : Nat, repairs : Nat]

ASSUME AiNoneAssumption == AiNone \notin AiWaiting \cup AiActive

VARIABLES
  aiGraph,       \* the nodes of the graph
  aiEdits,       \* edits of managers
  aiNewest,      \* the trigger enqueued last
  aiStarted,     \* the trigger that started to run last
  aiPending,     \* pendingTrigger
  aiRun,         \* activeRun, its space and its repairs there
  aiSeen,        \* the snapshot a run took, {} without one
  aiQuiet,       \* no user activity for idleQuietMs
  aiShot,        \* an idle tick waits for a screenshot
  aiApplied      \* the plan applied last: was it whole, was its snapshot old

aiVars == <<aiGraph, aiEdits, aiNewest, aiStarted, aiPending, aiRun, aiSeen, aiQuiet, aiShot, aiApplied>>

AiInit ==
  /\ aiGraph \in SUBSET AiNode
  /\ aiEdits = 0 /\ aiNewest = 0 /\ aiStarted = 0
  /\ aiPending = AiNone /\ aiRun = AiNone /\ aiSeen = {}
  /\ aiQuiet = FALSE /\ aiShot = FALSE
  /\ aiApplied = AiNone

-----------------------------------------------------------------------------
(* Commands and plans *)

AiOp == [do : {"add", "remove"}, node : AiNode]
AiPlan == UNION {[1..n -> AiOp] : n \in 1..2}

Applies(op, g) == (op.do = "add") = (op.node \notin g)
Effect(op, g) == IF op.do = "add" THEN g \cup {op.node} ELSE g \ {op.node}

\* applyPlanCommands: one after the other until one is refused.
Applying(plan, g) ==
  FoldLeft(LAMBDA acc, op : IF acc.whole /\ Applies(op, acc.graph)
                            THEN [acc EXCEPT !.graph = Effect(op, @)]
                            ELSE [acc EXCEPT !.whole = FALSE],
           [graph |-> g, whole |-> TRUE], plan)

-----------------------------------------------------------------------------
(* Triggers *)

Rank(p) == CASE p = "idle" -> 0 [] p = "system" -> 1 [] p = "user" -> 2

Running(t) == [id |-> t.id, superseded |-> FALSE, space |-> 1, repairs |-> 0]

\* handleEnvironmentEvent takes its snapshot as it starts, for all its turns.
Starts(t, g) == aiRun' = Running(t) /\ aiSeen' = g /\ aiStarted' = t.id

\* enqueue.  A trigger supersedes the run if it outranks what is pending.
Enqueue(p) ==
  LET t == [id |-> aiNewest + 1, priority |-> p]
      waiting == IF aiPending = AiNone THEN "idle" ELSE aiPending.priority
  IN /\ aiNewest < AiTriggers
     /\ aiNewest' = t.id
     /\ IF aiRun = AiNone
        THEN Starts(t, aiGraph) /\ UNCHANGED aiPending
        ELSE /\ aiRun' = [aiRun EXCEPT !.superseded = @ \/ Rank(p) >= Rank(waiting)]
             /\ aiPending' = t
             /\ UNCHANGED <<aiStarted, aiSeen>>

\* The messages of clients and managers that trigger the agent.
Trigger(p) ==
  /\ Enqueue(p)
  /\ aiQuiet' = (aiQuiet /\ p # "user")
  /\ UNCHANGED <<aiGraph, aiEdits, aiShot, aiApplied>>

QuietPasses ==
  /\ ~aiQuiet
  /\ aiQuiet' = TRUE
  /\ UNCHANGED <<aiGraph, aiEdits, aiNewest, aiStarted, aiPending, aiRun, aiSeen, aiShot, aiApplied>>

\* runIdleTick, up to the request; a second request is refused.
RunIdleTick ==
  /\ aiQuiet /\ aiRun = AiNone /\ aiPending = AiNone /\ ~aiShot
  /\ aiShot' = TRUE
  /\ UNCHANGED <<aiGraph, aiEdits, aiNewest, aiStarted, aiPending, aiRun, aiSeen, aiQuiet, aiApplied>>

\* finishScreenshotWaiter and the rest of runIdleTick.
HandleClientScreenshot ==
  /\ aiShot
  /\ aiShot' = FALSE
  /\ Enqueue("idle")
  /\ UNCHANGED <<aiGraph, aiEdits, aiQuiet, aiApplied>>

ScreenshotTimesOut ==
  /\ aiShot
  /\ aiShot' = FALSE
  /\ UNCHANGED <<aiGraph, aiEdits, aiNewest, aiStarted, aiPending, aiRun, aiSeen, aiQuiet, aiApplied>>

-----------------------------------------------------------------------------
(* Turns *)

\* Seeded fault: what waits is forgotten with the run that ends.
ForgetPending(g) ==
  aiRun' = AiNone /\ aiSeen' = {} /\ aiPending' = AiNone /\ UNCHANGED aiStarted

\* drain: the run has ended, the pending trigger runs.
DrainNext(g) ==
  IF aiPending = AiNone
  THEN aiRun' = AiNone /\ aiSeen' = {} /\ UNCHANGED <<aiPending, aiStarted>>
  ELSE Starts(aiPending, g) /\ aiPending' = AiNone

\* The turn of a space is over; g is the graph it leaves.
TurnEnds(g) ==
  IF aiRun.space < AiSpaces
  THEN /\ aiRun' = [aiRun EXCEPT !.space = @ + 1, !.repairs = 0]
       /\ UNCHANGED <<aiPending, aiStarted, aiSeen>>
  ELSE DrainNext(g)

\* Seeded fault: a repaired plan is taken without trying it.
TriedOnce(plan) == aiRun.repairs > 0 \/ Applying(plan, aiSeen).whole

\* dryRunCommands: on a bus of its own, made from the snapshot of the event.
DryRun(plan) == Applying(plan, aiSeen).whole

Unapplied == UNCHANGED <<aiGraph, aiApplied>>

\* The model answered with no plan, or with one the dry run refuses: it is
\* asked to repair it, as often as allowed.
PlanFails ==
  IF aiRun.repairs < AiRepairs
  THEN /\ aiRun' = [aiRun EXCEPT !.repairs = @ + 1]
       /\ UNCHANGED <<aiPending, aiStarted, aiSeen>> /\ Unapplied
  ELSE TurnEnds(aiGraph) /\ Unapplied

\* A plan that passed the dry run is applied unless the run is superseded.
PlanPasses(plan) ==
  LET done == Applying(plan, aiGraph)
  IN IF aiRun.superseded
     THEN TurnEnds(aiGraph) /\ Unapplied
     ELSE /\ aiGraph' = done.graph
          /\ aiApplied' = [whole |-> done.whole, stale |-> aiSeen # aiGraph]
          /\ TurnEnds(done.graph)

CompletionArrives ==
  /\ aiRun # AiNone
  /\ \/ PlanFails
     \/ \E plan \in AiPlan :
          \/ DryRun(plan) /\ PlanPasses(plan)
          \/ ~DryRun(plan) /\ PlanFails
  /\ UNCHANGED <<aiEdits, aiNewest, aiQuiet, aiShot>>

\* The request failed: the turn is over.
CompletionFails ==
  /\ aiRun # AiNone
  /\ TurnEnds(aiGraph) /\ Unapplied
  /\ UNCHANGED <<aiEdits, aiNewest, aiQuiet, aiShot>>

\* A manager's command on the graph, while the agent waits.
ManagerEdits(op) ==
  /\ aiEdits < AiEdits
  /\ Applies(op, aiGraph)
  /\ aiGraph' = Effect(op, aiGraph)
  /\ aiEdits' = aiEdits + 1
  /\ UNCHANGED <<aiNewest, aiStarted, aiPending, aiRun, aiSeen, aiQuiet, aiShot, aiApplied>>

AiNext ==
  \/ \E p \in {"system", "user"} : Trigger(p)
  \/ QuietPasses \/ RunIdleTick \/ HandleClientScreenshot \/ ScreenshotTimesOut
  \/ CompletionArrives \/ CompletionFails
  \/ \E op \in AiOp : ManagerEdits(op)

AiSpec == AiInit /\ [][AiNext]_aiVars

-----------------------------------------------------------------------------
(* Properties *)

\* Whatever supersedes and replaces what, the trigger that was enqueued last
\* is not lost: it has run, it runs, or it waits behind a run.
NewestIsServed ==
  \/ aiStarted = aiNewest
  \/ aiRun # AiNone /\ aiPending # AiNone /\ aiPending.id = aiNewest

\* Plans are tried "transactionally before applying"
\* (ai-orchestrator.service.spec.ts:1075): one that is applied in part only
\* was tried on a graph that has changed since, by a manager or by an earlier
\* turn of the same event.
PartialOnlyWhenStale ==
  aiApplied # AiNone => aiApplied.whole \/ aiApplied.stale
=============================================================================
