---------------------------- MODULE NodeExecutor ----------------------------
(***************************************************************************)
(* The node executor of a client: it holds one graph, runs it, and obeys   *)
(* the controls the manager sends over a connection that may be lost, with *)
(* what is on its way.  Every control it obeys is answered by a report.    *)
(*                                                                         *)
(* A graph is the id of its loop, the version of its payload and the value *)
(* one of its fields has in the payload; an override of that field         *)
(* replaces the value for some time, or until the graph is loaded again.   *)
(* since tells, for the properties, on which connection it was loaded.     *)
(***************************************************************************)
EXTENDS Naturals, Sequences

CONSTANTS
  Client,        \* clients, each with one executor
  Able,          \* the clients that have the capabilities the graph requires
  None

ASSUME ExecutorAssumption == Able \subseteq Client

VARIABLES
  exec,          \* the executor of each client
  down,          \* controls on their way to a client
  up,            \* reports on their way to the manager
  status,        \* executorStatusByClient, what the manager knows of them
  link,          \* is the connection of a client alive
  server         \* its record on the server: connected, and since when

executorVars == <<exec, down, up, status, link, server>>

Empty == [loop |-> None, version |-> 0, value |-> 0, over |-> None, running |-> FALSE,
          since |-> 0]

ExecutorInit ==
  /\ exec = [c \in Client |-> Empty]
  /\ down = [c \in Client |-> <<>>]
  /\ up = [c \in Client |-> <<>>]
  /\ status = [c \in Client |-> [loop |-> None, running |-> FALSE]]
  /\ link = [c \in Client |-> TRUE]
  /\ server = [c \in Client |-> [on |-> TRUE, since |-> 0]]

\* What a reader of the device sees of the field.
Effective(c) == IF exec[c].over # None THEN exec[c].over.value ELSE exec[c].value

-----------------------------------------------------------------------------
(* The controls *)

Stop(l) == [cmd |-> "stop", loop |-> l]
Remove(l) == [cmd |-> "remove", loop |-> l]
Start(l) == [cmd |-> "start", loop |-> l]
Deploy(l, n, v) == [cmd |-> "deploy", loop |-> l, version |-> n, value |-> v]
OverrideSet(l, v, brief) == [cmd |-> "override", loop |-> l, value |-> v, brief |-> brief]

\* updateExecutorStatus: what a report tells the manager, given what it knew.
Noted(known, event, l) ==
  [loop |-> IF l = None THEN known.loop ELSE l,
   running |-> CASE event \in {"deployed", "started"} -> TRUE
                 [] event \in {"stopped", "removed", "rejected"} -> FALSE
                 [] OTHER -> known.running]

\* report.  A report on its way is the status the manager will have noted
\* after it; one that would change nothing is left out.
Report(c, event, l) ==
  LET last == IF up[c] = <<>> THEN status[c] ELSE up[c][Len(up[c])]
      next == Noted(last, event, l)
  IN up' = [up EXCEPT ![c] = IF next = last THEN @ ELSE Append(@, next)]

\* A control for another loop than the one loaded is ignored; with no loop
\* loaded every control is obeyed.
Addressed(c, m) == exec[c].loop \in {m.loop, None}

\* deploy: refused for want of capabilities before anything changes; else the
\* graph replaces what was loaded, with its overrides, and runs.
Loaded(c, m) ==
  [loop |-> m.loop, version |-> m.version, value |-> m.value, over |-> None, running |-> TRUE,
   since |-> server[c].since]

ObeyDeploy(c, m) ==
  IF c \in Able
  THEN exec' = [exec EXCEPT ![c] = Loaded(c, m)] /\ Report(c, "deployed", m.loop)
  ELSE Report(c, "rejected", m.loop) /\ UNCHANGED exec

ObeyStart(c, m) ==
  /\ exec' = [exec EXCEPT ![c].running = TRUE]
  /\ Report(c, "started", exec[c].loop)

ObeyStop(c, m) ==
  /\ exec' = [exec EXCEPT ![c].running = FALSE]
  /\ Report(c, "stopped", exec[c].loop)

ObeyRemove(c, m) ==
  /\ exec' = [exec EXCEPT ![c] = Empty]
  /\ Report(c, "removed", m.loop)

\* applyOverrides: also on an executor that has no graph.
ObeyOverride(c, m) ==
  /\ exec' = [exec EXCEPT ![c].over = [value |-> m.value, brief |-> m.brief]]
  /\ UNCHANGED up

Obey(c, m) ==
  \/ m.cmd = "deploy" /\ ObeyDeploy(c, m)
  \/ m.cmd = "start" /\ Addressed(c, m) /\ ObeyStart(c, m)
  \/ m.cmd = "stop" /\ Addressed(c, m) /\ ObeyStop(c, m)
  \/ m.cmd = "remove" /\ Addressed(c, m) /\ ObeyRemove(c, m)
  \/ m.cmd = "override" /\ Addressed(c, m) /\ ObeyOverride(c, m)
  \/ m.cmd # "deploy" /\ ~Addressed(c, m) /\ UNCHANGED <<exec, up>>

HandlePluginControl(c) ==
  /\ down[c] # <<>>
  /\ Obey(c, Head(down[c]))
  /\ down' = [down EXCEPT ![c] = Tail(@)]
  /\ UNCHANGED <<status, link, server>>

\* The sensor subscription.
HearReport(c) ==
  /\ up[c] # <<>>
  /\ status' = [status EXCEPT ![c] = Head(up[c])]
  /\ up' = [up EXCEPT ![c] = Tail(@)]
  /\ UNCHANGED <<exec, down, link, server>>

\* An override with a time to live is dropped at a tick after its time.
OverrideExpires(c) ==
  /\ exec[c].over # None
  /\ exec[c].over.brief
  /\ exec' = [exec EXCEPT ![c].over = None]
  /\ UNCHANGED <<down, up, status, link, server>>

-----------------------------------------------------------------------------
(* The connection of a client *)

\* The connection is lost, with the controls on their way; the reports that
\* reached the server are still delivered.
ClientDrops(c) ==
  /\ link[c]
  /\ link' = [link EXCEPT ![c] = FALSE]
  /\ down' = [down EXCEPT ![c] = <<>>]
  /\ UNCHANGED <<exec, up, status, server>>

\* The server notices and tells the managers.
ServerNotices(c) ==
  /\ server[c].on /\ ~link[c]
  /\ server' = [server EXCEPT ![c].on = FALSE]
  /\ UNCHANGED <<exec, down, up, status, link>>

\* The client is back under its id, after a reload with an empty executor.
\* It takes over the old connection if the server has not noticed its end.
ClientReturns(c, reloaded) ==
  /\ ~link[c]
  /\ link' = [link EXCEPT ![c] = TRUE]
  /\ server' = [server EXCEPT ![c] = [on |-> TRUE, since |-> @.since + 1]]
  /\ exec' = [exec EXCEPT ![c] = IF reloaded THEN Empty ELSE @]
  /\ UNCHANGED <<down, up, status>>

\* Controls for a client that is not connected reach nobody.
Post(msgs) ==
  down' = [c \in Client |-> IF link[c] THEN down[c] \o msgs[c] ELSE down[c]]
=============================================================================
