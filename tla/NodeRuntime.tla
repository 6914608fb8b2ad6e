----------------------------- MODULE NodeRuntime -----------------------------
(***************************************************************************)
(* The node runtime under the engine of the manager.  A tick computes the  *)
(* nodes and then hands to each sink what its connections carry, if that   *)
(* has changed; a sink starts something outside (a text, a sound) that     *)
(* lasts until its disable hook runs.  The runtime keeps caches to know    *)
(* what has changed; whenever the graph changes the engine loads it whole, *)
(* which clears the caches but runs no hook: that is the engine's part.    *)
(* Modelled are the sinks of a graph, with or without a connection, and    *)
(* the values that come in; groups, overrides and the oscillation warning  *)
(* are not.                                                                *)
(***************************************************************************)
EXTENDS Naturals, Sequences, SequencesExt

CONSTANTS
  RtOrder,       \* executionOrder: the sinks, in the order of the passes
  RtBundle,      \* values, each a bundle of commands that no other has
  RtBig,         \* those that exceed maxSinkValuesPerTick; a tick passes one other
  RtNone

ASSUME RtAssumption ==
  /\ RtOrder \in Seq(ToSet(RtOrder))
  /\ RtBig \subseteq RtBundle /\ RtNone \notin RtBundle

VARIABLES
  rtNodes,       \* nodes of the graph
  rtPlugged,     \* those with a sink connection
  rtValue,       \* what the connection of a node carries
  rtDisabled,    \* disabledNodeIds
  rtOffloaded,   \* offloadedPatchNodeIds
  rtOn,          \* the timer of the runtime
  rtOff,         \* nodes whose lastEnabledStateByNode is false
  rtFed,         \* nodes whose lastHadSinkConnectionsByNode is true
  rtSunk,        \* lastOnSinkStateByNode
  rtShown,       \* what a sink has started outside
  rtCalm         \* ticks since the last change, up to the number of sinks

rtGiven == <<rtNodes, rtPlugged, rtValue, rtDisabled, rtOffloaded>>
rtCaches == <<rtOff, rtFed, rtSunk>>
rtVars == <<rtGiven, rtOn, rtCaches, rtShown, rtCalm>>

RtNode == ToSet(RtOrder)
Nothing == [n \in RtNode |-> RtNone]

RtInit ==
  /\ rtNodes = {} /\ rtPlugged = {}
  /\ rtValue \in [RtNode -> RtBundle]
  /\ rtDisabled = {} /\ rtOffloaded = {}
  /\ rtOn = FALSE
  /\ rtOff = {} /\ rtFed = {} /\ rtSunk = Nothing
  /\ rtShown = Nothing /\ rtCalm = 0

-----------------------------------------------------------------------------
(* A tick *)

Without(f, ns) == [n \in RtNode |-> IF n \in ns THEN RtNone ELSE f[n]]

\* Compute pass: a node that is disabled and was not before runs its hook.
TurnedOff == (rtNodes \cap rtDisabled) \ rtOff

Sinks == rtNodes \ (rtDisabled \cup rtOffloaded)

\* The sink pass.  acc has the caches and what is shown, whether a value was
\* passed, and whether the budget was exceeded.
Handed(acc, n, v, fed, passed) ==
  [fed |-> fed, sunk |-> [acc.sunk EXCEPT ![n] = v], shown |-> [acc.shown EXCEPT ![n] = v],
   passed |-> passed, burst |-> acc.burst]

Noted(acc, fed, burst) ==
  [fed |-> fed, sunk |-> acc.sunk, shown |-> acc.shown, passed |-> acc.passed, burst |-> burst]

Sink(acc, n) ==
  CASE acc.burst \/ n \notin Sinks -> acc
    [] ~acc.burst /\ n \in Sinks \ rtPlugged ->
         IF n \in acc.fed THEN Handed(acc, n, RtNone, acc.fed \ {n}, acc.passed) ELSE acc
    [] ~acc.burst /\ n \in Sinks \cap rtPlugged /\ acc.sunk[n] = rtValue[n] ->
         Noted(acc, acc.fed \cup {n}, FALSE)
    [] ~acc.burst /\ n \in Sinks \cap rtPlugged /\ acc.sunk[n] # rtValue[n] ->
         IF acc.passed \/ rtValue[n] \in RtBig
         THEN Noted(acc, acc.fed \cup {n}, TRUE)
         ELSE Handed(acc, n, rtValue[n], acc.fed \cup {n}, TRUE)

\* With what a tick finds.
PassStart ==
  [fed |-> rtFed \ (rtNodes \cap rtDisabled), sunk |-> Without(rtSunk, rtNodes \cap rtDisabled),
   shown |-> Without(rtShown, TurnedOff), passed |-> FALSE, burst |-> FALSE]

SinkPass == FoldLeft(Sink, PassStart, RtOrder)

RtTick ==
  /\ rtOn
  /\ rtOff' = rtNodes \cap rtDisabled
  /\ rtFed' = SinkPass.fed /\ rtSunk' = SinkPass.sunk /\ rtShown' = SinkPass.shown
  /\ rtCalm' = IF rtCalm < Len(RtOrder) THEN rtCalm + 1 ELSE rtCalm
  /\ UNCHANGED <<rtGiven, rtOn>>

-----------------------------------------------------------------------------
(* Changes of the graph *)

\* Seeded fault: the cache of what sinks have seen survives.
KeepSunk == rtOff' = {} /\ rtFed' = {} /\ UNCHANGED rtSunk

\* NodeRuntime.loadGraph
LoadRuntime == rtOff' = {} /\ rtFed' = {} /\ rtSunk' = Nothing

\* Seeded fault: only the nodes that are removed run their hooks.
RemovedOnly(nodes, plugged) == rtNodes \ nodes

\* cleanupGraphTransition: nodes that are removed, or lose their connections.
ToDisable(nodes, plugged) == (rtNodes \ nodes) \cup (rtPlugged \ plugged)

\* The engine gives the runtime another graph.
LoadedWith(nodes, plugged) ==
  /\ rtNodes' = nodes /\ rtPlugged' = plugged
  /\ rtShown' = Without(rtShown, ToDisable(nodes, plugged))
  /\ LoadRuntime
  /\ rtCalm' = 0
  /\ UNCHANGED <<rtValue, rtOn>>

AddNode(n) ==
  /\ n \notin rtNodes
  /\ LoadedWith(rtNodes \cup {n}, rtPlugged)
  /\ UNCHANGED <<rtDisabled, rtOffloaded>>

RemoveNode(n) ==
  /\ n \in rtNodes
  /\ LoadedWith(rtNodes \ {n}, rtPlugged \ {n})
  /\ UNCHANGED <<rtDisabled, rtOffloaded>>

AddConnection(n) ==
  /\ n \in rtNodes \ rtPlugged
  /\ LoadedWith(rtNodes, rtPlugged \cup {n})
  /\ UNCHANGED <<rtDisabled, rtOffloaded>>

RemoveConnection(n) ==
  /\ n \in rtPlugged
  /\ LoadedWith(rtNodes, rtPlugged \ {n})
  /\ UNCHANGED <<rtDisabled, rtOffloaded>>

\* NodeEngine.loadGraph: a project, or a snapshot of the server.  Values that
\* come with it are updates of the sources just before.
LoadGraph(nodes, plugged) ==
  /\ LoadedWith(nodes, plugged)
  /\ rtDisabled' = {} /\ rtOffloaded' = {}

\* updateNodeConfig, updateNodeInputValue of the node the value comes from.
UpdateSource(n, v) ==
  /\ rtValue[n] # v
  /\ rtValue' = [rtValue EXCEPT ![n] = v]
  /\ rtCalm' = 0
  /\ UNCHANGED <<rtNodes, rtPlugged, rtDisabled, rtOffloaded, rtOn, rtCaches, rtShown>>

-----------------------------------------------------------------------------
(* Switches *)

SetNodesDisabled(n, disabled) ==
  /\ (n \in rtDisabled) # disabled
  /\ rtDisabled' = IF disabled THEN rtDisabled \cup {n} ELSE rtDisabled \ {n}
  /\ rtCalm' = 0
  /\ UNCHANGED <<rtNodes, rtPlugged, rtValue, rtOffloaded, rtOn, rtCaches, rtShown>>

SetPatchOffloaded(ns) ==
  /\ ns # rtOffloaded
  /\ rtOffloaded' = ns
  /\ rtCalm' = 0
  /\ UNCHANGED <<rtNodes, rtPlugged, rtValue, rtDisabled, rtOn, rtCaches, rtShown>>

RtStart ==
  /\ ~rtOn
  /\ rtOn' = TRUE /\ rtCalm' = 0
  /\ UNCHANGED <<rtGiven, rtCaches, rtShown>>

\* NodeRuntime.stop: nothing if it does not run, else every hook.
Stopping ==
  /\ rtOn' = FALSE
  /\ rtShown' = IF rtOn THEN Without(rtShown, rtNodes) ELSE rtShown
  /\ LoadRuntime
  /\ rtCalm' = 0

RtStop == rtOn /\ Stopping /\ UNCHANGED rtGiven

RtClear ==
  /\ Stopping
  /\ rtNodes' = {} /\ rtPlugged' = {} /\ rtDisabled' = {} /\ rtOffloaded' = {}
  /\ UNCHANGED rtValue

RtNext ==
  \/ RtTick \/ RtStart \/ RtStop \/ RtClear
  \/ \E n \in RtNode : AddNode(n) \/ RemoveNode(n) \/ AddConnection(n) \/ RemoveConnection(n)
  \/ \E nodes \in SUBSET RtNode : \E plugged \in SUBSET nodes : LoadGraph(nodes, plugged)
  \/ \E n \in RtNode, v \in RtBundle : UpdateSource(n, v)
  \/ \E n \in RtNode, disabled \in BOOLEAN : SetNodesDisabled(n, disabled)
  \/ \E ns \in SUBSET RtNode : SetPatchOffloaded(ns)

RtSpec == RtInit /\ [][RtNext]_rtVars

-----------------------------------------------------------------------------
(* Properties *)

\* What a sink has started lasts no longer than its cause: the runtime runs,
\* the node is in the graph and has a connection, and since the last tick it
\* has not been disabled.
EffectsEnd ==
  \A n \in RtNode : rtShown[n] # RtNone =>
    /\ rtOn /\ n \in rtNodes /\ n \in rtPlugged
    /\ n \in rtDisabled => rtCalm = 0

\* A bundle above the budget is never handed over, and every tick ends at it.
Reached(n) ==
  \A i \in 1..Len(RtOrder) :
    /\ RtOrder[i] \in Sinks \cap rtPlugged
    /\ rtValue[RtOrder[i]] \in RtBig
    => \E j \in 1..i-1 : RtOrder[j] = n

\* Whatever was loaded, unplugged, switched or offloaded before, a graph that
\* is left alone has handed every sink the value it carries after as many
\* ticks as there are sinks, the budget of a tick notwithstanding, unless a
\* bundle above the budget stops the pass before it.
SinksFollow ==
  rtOn /\ rtCalm = Len(RtOrder) =>
    \A n \in Sinks \cap rtPlugged : Reached(n) => rtShown[n] = rtValue[n]
=============================================================================
