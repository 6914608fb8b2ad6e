---------------------------- MODULE SemanticSync ----------------------------
(***************************************************************************)
(* The semantic graph and its copies: the server owns the graph and its    *)
(* file (SemanticGraphAuthorityService), each manager shows a copy that it *)
(* edits ahead of the server (bindServerSemanticSync and                   *)
(* createServerSemanticSyncState), and the AI agent edits it too.          *)
(*                                                                         *)
(* Connections are FIFO in each direction; losing one loses what is under  *)
(* way.  A graph is what the commands tell apart: for each entity (a node, *)
(* a connection) the number of the command that last wrote it.             *)
(***************************************************************************)
EXTENDS Integers, Sequences, SequencesExt

CONSTANTS
  Manager,
  Node,          \* node and connection ids
  Importers,     \* managers with a project in local storage, not yet imported
  Project,       \* the nodes of that project
  Turns,         \* AI spaces an AI run visits, a turn each
  DiskFails,     \* TRUE: writing the file may fail
  MaxCommands,   \* bound: edits made by managers and AI
  MaxOutages,    \* bound: connections lost and server restarts
  None

Value == 0..MaxCommands
Graph == [Node -> Value \cup {None}]
Revision == Nat
Snapshot == [revision : Revision, graph : Graph]

\* The commands modelled; replace is the import of a local project and
\* snapshot asks for the current graph.
Command == [kind : {"add", "set", "remove", "replace", "snapshot"},
            node : Node \cup {None}, value : Value]

ASSUME SyncAssumption ==
  /\ Importers \subseteq Manager /\ Project \subseteq Node
  /\ Turns \in Nat \ {0} /\ MaxCommands \in Nat /\ MaxOutages \in Nat
  /\ DiskFails \in BOOLEAN
  /\ None \notin Nat /\ None \notin Node

VARIABLES
  memory,        \* persisted.revision and persisted.graph of the authority
  disk,          \* the file they are written to
  held,          \* applied snapshots of the AI run that is under way
  online,        \* managers whose socket is connected
  up, down,      \* per manager: messages to and from the server
  view,          \* per manager: the graph in its node engine
  latest,        \* per manager: latestAppliedRevision, None before the first
  pending,       \* per manager: pendingCommands
  imported,      \* managers whose local storage has the migration key
  used,          \* node ids somebody has generated
  commands,      \* edits made so far
  outages,
  acked,         \* history: highest revision confirmed to the manager that asked
  gap            \* history: what happened to the newest revision (see Mirrored)

netVars == <<online, up, down>>
managerVars == <<view, latest, pending, imported>>
serverVars == <<memory, disk, held, acked, gap>>
vars == <<serverVars, netVars, managerVars, used, commands, outages>>

Init ==
  /\ \E saved \in {{}, Project} :
       memory = [revision |-> 0, graph |-> [n \in Node |-> IF n \in saved THEN 0 ELSE None]]
  /\ used = Project
  /\ disk = memory
  /\ held = <<>>
  /\ online = {}
  /\ up = [m \in Manager |-> <<>>]
  /\ down = [m \in Manager |-> <<>>]
  /\ view = [m \in Manager |-> [n \in Node |-> None]]
  /\ latest = [m \in Manager |-> None]
  /\ pending = [m \in Manager |-> <<>>]
  /\ imported = Manager \ Importers
  /\ commands = 0 /\ outages = 0
  /\ acked = 0
  /\ gap = "none"

-----------------------------------------------------------------------------
(* Commands *)

IsEmpty(g) == \A n \in Node : g[n] = None

\* validateNodeCommand: add needs nothing, replacing a node of the same id.
Valid(g, c) == c.kind \in {"set", "remove"} => g[c.node] # None

\* applySemanticCommand.
Apply(g, c) ==
  CASE c.kind = "add"     -> [g EXCEPT ![c.node] = c.value]
    [] c.kind = "set"     -> [g EXCEPT ![c.node] = IF @ = None THEN None ELSE c.value]
    [] c.kind = "remove"  -> [g EXCEPT ![c.node] = None]
    [] c.kind = "replace" -> [n \in Node |-> IF n \in Project THEN 0 ELSE None]
    [] OTHER              -> g

\* canvasRequestId: the same for every command of a kind to a node.
RequestId(c) == <<c.kind, c.node>>

SnapshotRequest == [kind |-> "snapshot", node |-> None, value |-> 0]
ImportCommand   == [kind |-> "replace", node |-> None, value |-> 0]

\* overlayPendingSemanticCommands.
Overlay(g, cs) == FoldLeft(Apply, g, cs)

\* trackPendingCommand: an update of the same node takes its place.
Track(cs, c) ==
  IF c.kind = "set" /\ \E i \in 1..Len(cs) : RequestId(cs[i]) = RequestId(c)
  THEN [i \in 1..Len(cs) |-> IF RequestId(cs[i]) = RequestId(c) THEN c ELSE cs[i]]
  ELSE Append(cs, c)

\* Seeded fault: a rejected command stays pending.
SettleAccepted(cs, id, ok) ==
  IF ok /\ \E i \in 1..Len(cs) : RequestId(cs[i]) = id
  THEN RemoveAt(cs, CHOOSE i \in 1..Len(cs) :
         RequestId(cs[i]) = id /\ \A j \in 1..(i - 1) : RequestId(cs[j]) # id)
  ELSE cs

\* settlePendingCommand: the first command of that request is settled,
\* whatever the result.
Settle(cs, id, ok) == SettleAccepted(cs, id, TRUE)

-----------------------------------------------------------------------------
(* The server *)

Send(queues, ms, msgs) ==
  [m \in Manager |-> IF m \in ms THEN queues[m] \o msgs ELSE queues[m]]

Broadcast(snaps) == [i \in 1..Len(snaps) |-> [type |-> "snapshot", snap |-> snaps[i]]]

Result(c, ok, snap) == [type |-> "result", id |-> RequestId(c), ok |-> ok, snap |-> snap]

Applied(c) == [revision |-> memory.revision + 1, graph |-> Apply(memory.graph, c)]

\* Seeded fault: the file is not written.
SkipWrite == UNCHANGED disk

Persist == disk' = memory'

\* routeSemanticMessage with the authority's dispatch: the result goes to the
\* sender, then the new snapshot to every manager.
Serve(m) ==
  /\ up[m] # <<>>
  /\ up' = [up EXCEPT ![m] = Tail(@)]
  /\ LET c == Head(up[m])
     IN \/ /\ ~Valid(memory.graph, c)
           /\ down' = Send(down, {m}, <<Result(c, FALSE, None)>>)
           /\ UNCHANGED <<memory, disk, acked, gap>>
        \/ /\ c.kind = "snapshot"
           /\ down' = Send(down, {m}, <<Result(c, TRUE, memory)>>)
           /\ UNCHANGED <<memory, disk, acked, gap>>
        \/ /\ c.kind # "snapshot" /\ Valid(memory.graph, c)
           /\ memory' = Applied(c)
           /\ Persist
           /\ down' = Send(Send(down, {m}, <<Result(c, TRUE, memory')>>),
                           online, Broadcast(<<memory'>>))
           /\ acked' = memory'.revision
           /\ gap' = IF gap = "failed" THEN gap ELSE "none"
  /\ UNCHANGED <<held, online, managerVars, used, commands, outages>>

\* dispatch throws where it writes the file: the graph in memory has changed,
\* nobody is told.
ServeFails(m) ==
  /\ DiskFails
  /\ up[m] # <<>> /\ Head(up[m]).kind # "snapshot" /\ Valid(memory.graph, Head(up[m]))
  /\ up' = [up EXCEPT ![m] = Tail(@)]
  /\ memory' = Applied(Head(up[m]))
  /\ gap' = "failed"
  /\ UNCHANGED <<disk, held, acked, online, down, managerVars, used, commands, outages>>

AiCommand(n) ==
  /\ commands < MaxCommands /\ commands' = commands + 1
  /\ memory.graph[n] # None
  /\ memory' = Applied([kind |-> "set", node |-> n, value |-> commands'])

\* Seeded fault: one turn more than there are spaces.
OneTurnMore == Len(held) < Turns

MoreTurns == Len(held) < Turns - 1

\* applyPlanCommands of a turn that is not the run's last.
AiTurn(n) ==
  /\ MoreTurns
  /\ AiCommand(n)
  /\ Persist
  /\ held' = Append(held, memory')
  /\ UNCHANGED <<acked, gap, netVars, managerVars, used, outages>>

\* The last turn, which may apply nothing, and broadcastAppliedSnapshots of
\* the snapshots of every turn.
AiRunEnds ==
  /\ \/ \E n \in Node : AiCommand(n) /\ Persist
     \/ held # <<>> /\ UNCHANGED <<memory, disk, commands>>
  /\ down' = Send(down, online,
                  Broadcast(IF memory' = memory THEN held ELSE Append(held, memory')))
  /\ held' = <<>>
  /\ gap' = IF gap = "failed" THEN gap ELSE "none"
  /\ UNCHANGED <<acked, online, up, managerVars, used, outages>>

\* The same failure under an AI command ends the run: drain catches it.
AiFails ==
  /\ DiskFails
  /\ \E n \in Node : AiCommand(n)
  /\ held' = <<>>
  /\ gap' = "failed"
  /\ UNCHANGED <<disk, acked, netVars, managerVars, used, outages>>

\* A trigger arrives between two turns: the rest is skipped and drain does not
\* broadcast.
AiSuperseded ==
  /\ held # <<>>
  /\ held' = <<>>
  /\ gap' = IF gap = "failed" THEN gap ELSE "superseded"
  /\ UNCHANGED <<memory, disk, acked, netVars, managerVars, used, commands, outages>>

\* The server stops and starts again from its file.
ServerRestart ==
  /\ outages < MaxOutages /\ outages' = outages + 1
  /\ memory' = disk
  /\ held' = <<>>
  /\ online' = {}
  /\ up' = [m \in Manager |-> <<>>]
  /\ down' = [m \in Manager |-> <<>>]
  /\ gap' = "none"
  /\ UNCHANGED <<disk, acked, managerVars, used, commands>>

-----------------------------------------------------------------------------
(* A manager *)

\* Seeded fault: what was applied before the connection was lost counts.
KeepLatest(m) == UNCHANGED latest

ForgetLatest(m) == latest' = [latest EXCEPT ![m] = None]

\* onStateChange: the first connection and every later one ask for the graph;
\* a later one clears what was pending.
Connect(m) ==
  /\ m \notin online
  /\ online' = online \cup {m}
  /\ up' = [up EXCEPT ![m] = <<SnapshotRequest>>]
  /\ pending' = [pending EXCEPT ![m] = <<>>]
  /\ ForgetLatest(m)
  /\ UNCHANGED <<serverVars, down, view, imported, used, commands, outages>>

Cut(m) ==
  /\ m \in online
  /\ outages < MaxOutages /\ outages' = outages + 1
  /\ online' = online \ {m}
  /\ up' = [up EXCEPT ![m] = <<>>]
  /\ down' = [down EXCEPT ![m] = <<>>]
  /\ UNCHANGED <<serverVars, managerVars, used, commands>>

\* createNodeCanvasSemanticCommands, dispatch: sent, applied to the engine and
\* tracked.  Callers have changed a parameter in the engine before, so it
\* changes there even when nothing can be sent.
Edit(m, c) ==
  /\ commands < MaxCommands /\ commands' = commands + 1
  /\ m \in online \/ c.kind = "set"
  /\ view' = [view EXCEPT ![m] = Apply(@, c)]
  /\ IF m \in online
     THEN /\ up' = [up EXCEPT ![m] = Append(@, c)]
          /\ pending' = [pending EXCEPT ![m] = Track(@, c)]
     ELSE UNCHANGED <<up, pending>>
  /\ UNCHANGED <<serverVars, online, down, latest, imported, outages>>

\* A new node has a generated id.
AddNode(m, n) ==
  /\ n \notin used /\ used' = used \cup {n}
  /\ Edit(m, [kind |-> "add", node |-> n, value |-> commands + 1])

ChangeNode(m, n, kind) ==
  /\ view[m][n] # None
  /\ UNCHANGED used
  /\ Edit(m, [kind |-> kind, node |-> n, value |-> commands + 1])

\* Seeded fault: a snapshot older than the one shown is applied.
AnyRevision(m, snap) == TRUE

Fresh(m, snap) == latest[m] = None \/ snap.revision >= latest[m]

\* maybeImport: a local project goes to a server whose graph is empty, once.
ImportsAt(m, snap) == m \notin imported /\ IsEmpty(snap.graph)

\* handleSnapshot with what is still pending.
Show(m, snap, cs) ==
  IF Fresh(m, snap)
  THEN /\ latest' = [latest EXCEPT ![m] = snap.revision]
       /\ view' = [view EXCEPT ![m] = Overlay(snap.graph, cs)]
       /\ IF ImportsAt(m, snap)
          THEN /\ up' = [up EXCEPT ![m] = Append(@, ImportCommand)]
               /\ imported' = imported \cup {m}
          ELSE UNCHANGED <<up, imported>>
  ELSE UNCHANGED <<latest, view, up, imported>>

ReceiveSnapshot(m) ==
  /\ down[m] # <<>> /\ Head(down[m]).type = "snapshot"
  /\ down' = [down EXCEPT ![m] = Tail(@)]
  /\ Show(m, Head(down[m]).snap, pending[m])
  /\ UNCHANGED <<serverVars, online, pending, used, commands, outages>>

\* onSemanticResult: a rejection asks for a fresh snapshot.
ReceiveResult(m) ==
  /\ down[m] # <<>> /\ Head(down[m]).type = "result"
  /\ down' = [down EXCEPT ![m] = Tail(@)]
  /\ LET r == Head(down[m])
     IN /\ pending' = [pending EXCEPT ![m] = Settle(@, r.id, r.ok)]
        /\ IF r.ok
           THEN Show(m, r.snap, pending'[m])
           ELSE /\ up' = [up EXCEPT ![m] = Append(@, SnapshotRequest)]
                /\ UNCHANGED <<latest, view, imported>>
  /\ UNCHANGED <<serverVars, online, used, commands, outages>>

\* pruneExpired: the oldest pending command goes after 5 seconds.
Expire(m) ==
  /\ pending[m] # <<>>
  /\ pending' = [pending EXCEPT ![m] =
       RemoveAt(@, CHOOSE i \in 1..Len(@) : \A j \in 1..Len(@) : @[i].value <= @[j].value)]
  /\ UNCHANGED <<serverVars, netVars, view, latest, imported, used, commands, outages>>

Next ==
  \/ \E m \in Manager :
       \/ Serve(m) \/ ServeFails(m)
       \/ Connect(m) \/ Cut(m)
       \/ ReceiveSnapshot(m) \/ ReceiveResult(m) \/ Expire(m)
       \/ \E n \in Node : AddNode(m, n) \/ \E k \in {"set", "remove"} : ChangeNode(m, n, k)
  \/ \E n \in Node : AiTurn(n)
  \/ AiRunEnds \/ AiFails \/ AiSuperseded
  \/ ServerRestart

Spec == Init /\ [][Next]_vars

-----------------------------------------------------------------------------
(* Properties *)

Message ==
  [type : {"snapshot"}, snap : Snapshot] \cup
  [type : {"result"}, id : {RequestId(c) : c \in Command}, ok : {TRUE}, snap : Snapshot] \cup
  [type : {"result"}, id : {RequestId(c) : c \in Command}, ok : {FALSE}, snap : {None}]

TypeOK ==
  /\ memory \in Snapshot /\ disk \in Snapshot
  /\ held \in Seq(Snapshot) /\ Len(held) < Turns
  /\ online \subseteq Manager
  /\ up \in [Manager -> Seq(Command)]
  /\ down \in [Manager -> Seq(Message)]
  /\ view \in [Manager -> Graph]
  /\ latest \in [Manager -> Revision \cup {None}]
  /\ pending \in [Manager -> Seq(Command)]
  /\ imported \subseteq Manager
  /\ used \subseteq Node
  /\ commands \in Value /\ outages \in 0..MaxOutages
  /\ acked \in Revision
  /\ gap \in {"none", "superseded", "failed"}

\* Nothing is under way between the server and a manager that has the graph.
Settled(m) ==
  /\ m \in online /\ latest[m] # None
  /\ up[m] = <<>> /\ down[m] = <<>> /\ held = <<>>

\* server-semantic-sync.ts:1 "mirroring the server-owned semantic graph": when
\* nothing is under way a manager shows the server's graph, whatever it edited,
\* was refused, lost with a connection or had expire, and whatever late
\* snapshots of an AI run came in between; unless the newest revision was never
\* broadcast (an AI run superseded, the file not written).
Mirrored == gap = "none" => \A m \in Manager : Settled(m) => view[m] = memory.graph

\* message-router.service.spec.ts:509 "broadcasts semantic snapshots after AI
\* agent mutations": the same after an AI run that was superseded.
MirroredAfterAi ==
  gap # "failed" => \A m \in Manager : Settled(m) => view[m] = memory.graph

\* server-semantic-sync-state.ts: a command is pending only while it, or its
\* result, is under way; none stays to be laid over later snapshots.
UnderWay(m) ==
  {RequestId(up[m][i]) : i \in 1..Len(up[m])} \cup
  {down[m][i].id : i \in {j \in 1..Len(down[m]) : down[m][j].type = "result"}}

PendingIsUnderWay ==
  gap # "failed" =>
    \A m \in online : \A i \in 1..Len(pending[m]) : RequestId(pending[m][i]) \in UnderWay(m)

\* semantic-graph-authority.service.spec.ts:29 "persists accepted graph
\* mutations and restores them on restart": a change confirmed to the manager
\* that made it is on disk, and no restart takes it back.
ConfirmedIsDurable == acked <= disk.revision /\ disk.revision <= memory.revision

\* server-semantic-sync.spec.ts:1202 "migration coordinator never overwrites
\* non-empty server graph with old local project".
ImportIntoEmpty ==
  [][\A m \in Manager :
       (up[m] # <<>> /\ Head(up[m]).kind = "replace" /\ up'[m] = Tail(up[m])
          /\ memory'.revision > memory.revision) => IsEmpty(memory.graph)]_vars
=============================================================================
