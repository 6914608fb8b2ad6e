--------------------------- MODULE PatchDeployment ---------------------------
(***************************************************************************)
(* The patch runtime of the manager's node canvas: it exports the part of  *)
(* the graph that feeds an output (the patch) to the clients the graph     *)
(* selects, remembers what it sent to whom, and reconciles that record     *)
(* with the graph when a trigger tells it to.  Nothing acknowledges a      *)
(* deployment: the record is all the manager goes by, and a client that    *)
(* comes back with a new connection time is told apart by its revision.    *)
(*                                                                         *)
(* Composed with NodeExecutor, the other end of the connection.            *)
(***************************************************************************)
EXTENDS NodeExecutor, FiniteSets

CONSTANTS
  Patch,         \* the loop id of the patch
  Remote,        \* TRUE: snapshots of the server may add or remove the root
  Flaky,         \* bound: the clients whose connection may be lost
  MaxEdits,      \* bound: edits of the graph, of its targets and switches
  MaxDrops       \* bound: connections lost

ASSUME PatchAssumption ==
  /\ Flaky \subseteq Client /\ Remote \in BOOLEAN
  /\ MaxEdits \in Nat /\ MaxDrops \in Nat

ASSUME NoneAssumption ==
  /\ None # Patch /\ None \notin Nat
  /\ \A cs \in SUBSET Client : None # cs
  /\ None \notin [version : Nat, revision : Nat] /\ None \notin [value : Nat, brief : BOOLEAN]

VARIABLES
  graph,         \* what planning reads of the graph: has it a patch root, the
                 \* clients it selects, and what its signatures tell apart
  live,          \* a field that is left out of the signatures
  planned,       \* the root in cachedCompiledPlanningGraph, None when dirty
  isRunning,     \* isRunningStore
  gated,         \* a node of the patch is in a disabled group
  view,          \* the clients as the manager last heard of them
  news,          \* a connected set the manager has not heard of
  records,       \* deployedPatchByClientId
  patchDeployTimer,
  patchLastPlan,
  commits,       \* patchPendingCommitByKey
  edits, drops

deployVars == <<down, records, patchLastPlan, planned, patchDeployTimer>>
otherEndVars == <<exec, up, status, link, server>>
vars == <<otherEndVars, deployVars, graph, live, isRunning, gated, view, news, commits, edits, drops>>

PatchInit ==
  /\ ExecutorInit
  /\ \E cs \in SUBSET Client \ {{}} : graph = [root |-> TRUE, to |-> cs, version |-> 1]
  /\ live = 1
  /\ planned = None
  /\ isRunning = TRUE /\ gated = FALSE
  /\ view = server /\ news = FALSE
  /\ records = [c \in Client |-> None]
  /\ patchDeployTimer = FALSE
  /\ patchLastPlan = None
  /\ commits = [c \in Client |-> None]
  /\ edits = 0 /\ drops = 0

-----------------------------------------------------------------------------
(* The plan.  A handler that changes the graph reconciles in the same turn: *)
(* g is the graph, and k the compiled graph, as the handler leaves them.    *)

\* getCompiledPlanningGraph: compiled again only when it was invalidated.
Compiled(g, k) == IF k = None THEN g.root ELSE k

\* resolvePatchDeploymentPlan: the selected clients that the manager believes
\* connected; no plan without a root or without a target.
Targets(g) == {c \in g.to : view[c].on}

Plan(g, k) == IF Compiled(g, k) /\ Targets(g) # {} THEN Targets(g) ELSE None

\* targetRevision is connectedAt.
Record(c, g) == [version |-> g.version, revision |-> view[c].since]

\* Seeded fault: the revision of the target is not compared.
SameVersion(c, g) == records[c] # None /\ records[c].version = g.version

UpToDate(c, g) == records[c] = Record(c, g)

NeedDeploy(c, g) == ~UpToDate(c, g) \/ status[c].loop \notin {None, Patch}

-----------------------------------------------------------------------------
(* Reconciling *)

StopAndRemove == <<Stop(Patch), Remove(Patch)>>

Deployed == {c \in Client : records[c] # None}

\* stopAndRemovePatchOnClient for some of the deployed clients.
StopOn(cs) == Post([c \in Client |-> IF c \in cs THEN StopAndRemove ELSE <<>>])

StopAllDeployedPatches ==
  /\ StopOn(Deployed)
  /\ records' = [c \in Client |-> None]
  /\ patchLastPlan' = None
  /\ planned' = None

\* Seeded fault: a client that is no target any more is only forgotten.
ForgetOthers(c, ts, g) ==
  IF c \in ts /\ NeedDeploy(c, g) THEN <<Deploy(Patch, g.version, live), Start(Patch)>> ELSE <<>>

\* What a reconcile sends to a client when the targets are ts.
ControlsFor(c, ts, g) ==
  CASE c \in ts /\ NeedDeploy(c, g) -> <<Deploy(Patch, g.version, live), Start(Patch)>>
    [] c \in ts /\ ~NeedDeploy(c, g) /\ status[c] = [loop |-> Patch, running |-> FALSE] -> <<Start(Patch)>>
    [] c \in Deployed \ ts -> StopAndRemove
    [] OTHER -> <<>>

\* Without a target the deployment stays, unless the root itself is gone; it
\* stays while a disabled node keeps the patch from being deployed, and when
\* the patch cannot be exported because its root is gone from the live graph.
Kept(g, k) == Plan(g, k) = None \/ gated \/ ~g.root

ReconcilePatchDeployment(g, k) ==
  CASE ~isRunning \/ ~Compiled(g, k) -> StopAllDeployedPatches
    [] isRunning /\ Compiled(g, k) /\ Kept(g, k) ->
         /\ patchLastPlan' = Plan(g, k) /\ planned' = Compiled(g, k)
         /\ UNCHANGED <<down, records>>
    [] OTHER ->
         /\ Post([c \in Client |-> ControlsFor(c, Plan(g, k), g)])
         /\ records' = [c \in Client |-> IF c \in Plan(g, k) THEN Record(c, g) ELSE None]
         /\ patchLastPlan' = Plan(g, k) /\ planned' = Compiled(g, k)

\* scheduleReconcile: 320 ms after the last request, or at once.
Debounced == patchDeployTimer' = TRUE
Immediate(g, k) == patchDeployTimer' = FALSE /\ ReconcilePatchDeployment(g, k)

PatchDeployTimerFires ==
  /\ patchDeployTimer
  /\ Immediate(graph, planned)
  /\ UNCHANGED <<otherEndVars, graph, live, isRunning, gated, view, news, commits, edits, drops>>

\* Seeded fault: a tick compares the targets but not the payloads.
TargetsChanged == Plan(graph, planned) # patchLastPlan

\* shouldUpdatePatchDeploymentPlan compares the targets, not their revisions;
\* then the payloads of the targets are compared with those of the records.
\* A patch that cannot be exported differs too, but reconciling it changes
\* nothing.
Outdated ==
  LET plan == Plan(graph, planned)
  IN \/ plan # patchLastPlan
     \/ /\ Deployed # {} /\ plan # None /\ graph.root
        /\ {<<c, graph.version>> : c \in plan} # {<<c, records[c].version>> : c \in Deployed}

\* onTick, at most every 200 ms, and not while a debounced reconcile is due.
\* A tick that finds nothing outdated may still compile the planning graph.
Tick ==
  /\ isRunning /\ ~patchDeployTimer
  /\ \/ Outdated /\ Immediate(graph, planned)
     \/ /\ ~Outdated /\ planned = None
        /\ planned' = graph.root
        /\ UNCHANGED <<down, records, patchLastPlan, patchDeployTimer>>
  /\ UNCHANGED <<otherEndVars, graph, live, isRunning, gated, view, news, commits, edits, drops>>

-----------------------------------------------------------------------------
(* Edits *)

Edit == edits < MaxEdits /\ edits' = edits + 1

NextGraph(root) == [root |-> root, to |-> graph.to, version |-> graph.version + 1]

\* onGraphStateChanged: another topology is reconciled at once.
EditTopology(root) ==
  /\ Edit
  /\ graph' = NextGraph(root)
  /\ Immediate(NextGraph(root), None)
  /\ UNCHANGED <<otherEndVars, live, isRunning, gated, view, news, commits, drops>>

\* A topology or a value that comes with a snapshot of the server is left to
\* the ticks: the graph subscription returns while a snapshot is applied.
ApplySnapshot(root) ==
  /\ Edit
  /\ Remote \/ root = graph.root
  /\ graph' = NextGraph(root)
  /\ UNCHANGED <<otherEndVars, deployVars, live, isRunning, gated, view, news, commits, drops>>

\* Another selection: picked in the canvas, or computed by the graph.
Select(cs, picked) ==
  LET g == [graph EXCEPT !.to = cs]
  IN /\ Edit
     /\ graph # g
     /\ graph' = g
     /\ IF picked THEN Immediate(g, planned) ELSE UNCHANGED deployVars
     /\ UNCHANGED <<otherEndVars, live, isRunning, gated, view, news, commits, drops>>

\* onGroupDisabledChanged: patches with disabled nodes stop at once.
SetGate(on) ==
  /\ Edit
  /\ gated # on
  /\ gated' = on
  /\ IF on
     THEN StopOn(Deployed) /\ records' = [c \in Client |-> None]
     ELSE UNCHANGED <<down, records>>
  /\ Debounced
  /\ UNCHANGED <<otherEndVars, graph, live, isRunning, view, news, patchLastPlan, planned,
                 commits, drops>>

\* onRunningChanged; the engine button also requests a reconcile.
SetRunning(on) ==
  /\ Edit
  /\ isRunning # on
  /\ isRunning' = on
  /\ IF on THEN Debounced /\ UNCHANGED <<down, records, patchLastPlan, planned>>
           ELSE StopAllDeployedPatches /\ UNCHANGED patchDeployTimer
  /\ UNCHANGED <<otherEndVars, graph, live, gated, view, news, commits, drops>>

\* Seeded fault: the value is sent for some time and never committed.
BriefOnly(cs, v) == UNCHANGED commits

\* The commit timers are kept apart by client and field; they outlive the
\* deployment they were armed under.
ArmCommits(cs, v) == commits' = [c \in Client |-> IF c \in cs THEN v ELSE commits[c]]

\* sendNodeOverride: to the deployed clients believed connected, for a time,
\* and once more for good when the value has settled.
EditLive ==
  LET cs == {c \in Deployed : view[c].on}
  IN /\ Edit
     /\ live' = live + 1
     /\ Post([c \in Client |-> IF c \in cs THEN <<OverrideSet(Patch, live + 1, TRUE)>> ELSE <<>>])
     /\ ArmCommits(cs, live + 1)
     /\ UNCHANGED <<otherEndVars, graph, isRunning, gated, view, news, records, patchLastPlan,
                    planned, patchDeployTimer, drops>>

CommitFires(c) ==
  /\ commits[c] # None
  /\ commits' = [commits EXCEPT ![c] = None]
  /\ Post([d \in Client |-> IF d = c THEN <<OverrideSet(Patch, commits[c], FALSE)>> ELSE <<>>])
  /\ UNCHANGED <<otherEndVars, graph, live, isRunning, gated, view, news, records, patchLastPlan,
                 planned, patchDeployTimer, edits, drops>>

-----------------------------------------------------------------------------
(* What the manager hears *)

\* Client lists, one or several between two ticks.  A change of who is
\* connected requests a reconcile; a new connection time alone does not.
HearClients ==
  /\ view # server \/ news
  /\ view' = server /\ news' = FALSE
  /\ patchDeployTimer' = (patchDeployTimer \/ news)
  /\ UNCHANGED <<otherEndVars, down, graph, live, isRunning, gated, records, patchLastPlan,
                 planned, commits, edits, drops>>

Connection(c) ==
  /\ \/ c \in Flaky /\ drops < MaxDrops /\ ClientDrops(c) /\ drops' = drops + 1 /\ UNCHANGED news
     \/ ServerNotices(c) /\ news' = TRUE /\ UNCHANGED drops
     \/ \E reloaded \in BOOLEAN :
          ClientReturns(c, reloaded) /\ news' = (news \/ ~server[c].on) /\ UNCHANGED drops
  /\ UNCHANGED <<graph, live, isRunning, gated, view, records, patchLastPlan, planned,
                 patchDeployTimer, commits, edits>>

Executor(c) ==
  /\ HandlePluginControl(c) \/ OverrideExpires(c) \/ HearReport(c)
  /\ UNCHANGED <<graph, live, isRunning, gated, view, news, records, patchLastPlan, planned,
                 patchDeployTimer, commits, edits, drops>>

PatchNext ==
  \/ PatchDeployTimerFires \/ Tick \/ HearClients
  \/ \E root \in BOOLEAN : EditTopology(root) \/ ApplySnapshot(root)
  \/ \E cs \in SUBSET Client, picked \in BOOLEAN : Select(cs, picked)
  \/ \E on \in BOOLEAN : SetGate(on) \/ SetRunning(on)
  \/ EditLive
  \/ \E c \in Client : CommitFires(c) \/ Connection(c) \/ Executor(c)

PatchSpec == PatchInit /\ [][PatchNext]_vars

-----------------------------------------------------------------------------
(* Properties *)

\* Nothing is on its way to the client, and what the manager deployed to it
\* it deployed to the connection the client has now.
Current(c) ==
  /\ link[c] /\ down[c] = <<>>
  /\ records[c] # None /\ records[c].revision = server[c].since

Runs(c, n) == exec[c].running /\ exec[c].loop = Patch /\ exec[c].version = n

\* Although nothing acknowledges a deployment, a record made for the present
\* connection of a client is true: it runs what the record says.
RecordsAreTrue == \A c \in Able : Current(c) => Runs(c, records[c].version)

\* The newest value of a field arrives, by deployment or by override.  The
\* exception is a commit timer that outlived the deployment it was armed
\* under: it puts an older value over the one the client was deployed with.
Outlived(c) == exec[c].over # None /\ exec[c].over.value < exec[c].value

LiveValueArrives ==
  \A c \in Able : Current(c) /\ commits[c] = None => Effective(c) = live \/ Outlived(c)

\* The event loops have nothing left to do: no timer, no trigger for a tick,
\* no control on its way, and the manager knows who is connected.
AtRest ==
  /\ view = server /\ ~news /\ ~patchDeployTimer
  /\ isRunning => ~Outdated /\ planned # None
  /\ \A c \in Client : down[c] = <<>> /\ link[c] = server[c].on

Wanted(c) == isRunning /\ graph.root /\ ~gated /\ c \in graph.to /\ link[c]

\* Whatever edits, switches and outages met, a client the graph selects ends
\* with a deployment of the graph as it is.  A deployment made for an earlier
\* connection is not renewed by ticks, which compare targets and payloads: it
\* stays when a connection was taken over before the server noticed its end.
SettledAtRest ==
  AtRest /\ planned = graph.root
    => \A c \in Able : Wanted(c) => records[c] # None /\ (Current(c) => Runs(c, graph.version))

\* Structural changes trigger a deployment, whoever made them.
StructureDeploys == AtRest => \A c \in Able : Wanted(c) => records[c] # None

\* A client the manager keeps no record of has stopped the patch, unless its
\* connection was lost since it loaded it: the stop was sent to nobody then.
WithdrawnStops ==
  \A c \in Client :
    link[c] /\ down[c] = <<>> /\ records[c] = None /\ Runs(c, exec[c].version)
      => exec[c].since < server[c].since
=============================================================================
