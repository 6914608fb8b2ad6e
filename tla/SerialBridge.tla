---------------------------- MODULE SerialBridge ----------------------------
(***************************************************************************)
(* The manager's bridge to an Arduino on a serial port.  The pins that the *)
(* graph wants are compared with those switched on, and the difference is  *)
(* appended to a chain of writes, each an await.  Disconnecting resets the *)
(* pins, awaits the chain and closes the port, while ticks of the graph go *)
(* on.  Connecting awaits the user's choice of a port, and closes every    *)
(* port when it fails.  One write that fails leaves the chain rejected.    *)
(***************************************************************************)
EXTENDS Naturals, Sequences, SequencesExt, FiniteSets

CONSTANTS
  Pin,           \* output pins, each driven by one node
  SerialChanges, \* bound: changes of the graph and stops of the engine
  SerialCalls    \* bound: openings of the port and calls to disconnect it

ASSUME SerialAssumption == IsFiniteSet(Pin) /\ SerialChanges \in Nat /\ SerialCalls \in Nat

VARIABLES
  serWanted,     \* pins the graph switches on
  serActive,     \* device.active
  serBoard,      \* pins that are on
  serDevice,     \* the device in the map, numbered by its opening; or 0
  serStatus,     \* state.status
  serChooser,    \* connect awaits the choice of a port
  serChain,      \* commands of the write chain not yet written
  serBroken,     \* the chain is rejected
  serAwaits,     \* the calls of disconnect under way, each by the commands it still awaits
  serLeft,       \* pins may be left on: see PinsFollow
  serChanges,    \* changes of the graph so far
  serCalls       \* openings of the port and calls to disconnect it so far

serVars == <<serWanted, serActive, serBoard, serDevice, serStatus, serChooser, serChain, serBroken, serAwaits, serLeft, serChanges, serCalls>>

SerInit ==
  /\ serWanted = {} /\ serActive = {} /\ serBoard = {}
  /\ serDevice = 0 /\ serStatus = "disconnected" /\ serChooser = FALSE
  /\ serChain = <<>> /\ serBroken = FALSE /\ serAwaits = {} /\ serLeft = FALSE
  /\ serChanges = 0 /\ serCalls = 0

-----------------------------------------------------------------------------

\* diffArduinoUnoBridgeCommands
Diff(device, active, next) ==
  SetToSeq([device : {device}, pin : next \ active, on : {TRUE}]) \o SetToSeq([device : {device}, pin : active \ next, on : {FALSE}])

\* enqueueCommands: on a rejected chain they are dropped and reported.
Enqueued(commands, status) ==
  /\ serChain' = IF serBroken THEN serChain ELSE serChain \o commands
  /\ serStatus' = IF serBroken /\ commands # <<>> THEN "error" ELSE status

\* flushFromGraph: nothing unless the board is connected.
FlushFromGraph(pins) ==
  IF serDevice # 0 /\ serStatus = "connected"
  THEN /\ Enqueued(Diff(serDevice, serActive, pins), "connected")
       /\ serActive' = pins
       /\ serLeft' = (serLeft \/ (serAwaits # {} /\ serActive # pins))
  ELSE UNCHANGED <<serActive, serStatus, serChain, serLeft>>

GraphChanges ==
  /\ serChanges < SerialChanges
  /\ serChanges' = serChanges + 1
  /\ \E pins \in SUBSET Pin : serWanted' = pins /\ FlushFromGraph(pins)
  /\ UNCHANGED <<serBoard, serDevice, serChooser, serBroken, serAwaits, serCalls>>

Tick ==
  /\ serActive # serWanted
  /\ FlushFromGraph(serWanted)
  /\ UNCHANGED <<serWanted, serBoard, serDevice, serChooser, serBroken, serAwaits, serChanges, serCalls>>

\* writeCommand: nothing if the device is gone by now.
WriteCommand ==
  /\ serChain # <<>>
  /\ LET c == Head(serChain)
     IN serBoard' = IF c.device # serDevice THEN serBoard
                    ELSE IF c.on THEN serBoard \cup {c.pin} ELSE serBoard \ {c.pin}
  /\ serChain' = Tail(serChain)
  /\ serAwaits' = {IF n = 0 THEN 0 ELSE n - 1 : n \in serAwaits}
  /\ UNCHANGED <<serWanted, serActive, serDevice, serStatus, serChooser, serBroken, serLeft, serChanges, serCalls>>

\* The rest of the chain is skipped; a disconnect that awaits it gives up and
\* leaves the device open.  A write under way when its port closes may fail too.
WriteFails ==
  /\ serChain # <<>>
  /\ serChain' = <<>> /\ serBroken' = TRUE /\ serStatus' = "error"
  /\ serAwaits' = serAwaits \cap {0}
  /\ UNCHANGED <<serWanted, serActive, serBoard, serDevice, serChooser, serLeft, serChanges, serCalls>>

\* connect, up to the choice of a port, which is modal.  The panel offers it
\* unless the bridge is connecting, also while a disconnect is under way.
ConnectStarts ==
  /\ serStatus # "connecting" /\ ~serChooser
  /\ serChooser' = TRUE /\ serStatus' = "connecting"
  /\ UNCHANGED <<serWanted, serActive, serBoard, serDevice, serChain, serBroken, serAwaits, serLeft, serChanges, serCalls>>

\* The port opens, which starts the board anew, and the graph is flushed to it.
\* A disconnect of the board before it closes this one as well.
ConnectOpens ==
  /\ serChooser /\ serDevice = 0 /\ serCalls < SerialCalls
  /\ serChooser' = FALSE /\ serCalls' = serCalls + 1
  /\ serDevice' = serCalls' /\ serBoard' = {}
  /\ Enqueued(Diff(serDevice', {}, serWanted), "connected")
  /\ serActive' = serWanted
  /\ serLeft' = (serAwaits # {})
  /\ UNCHANGED <<serWanted, serBroken, serAwaits, serChanges>>

\* No port is chosen, or it cannot be opened, as one that is open already.
\* The board that was connected is closed as it is.
ConnectFails ==
  /\ serChooser
  /\ serChooser' = FALSE
  /\ serDevice' = 0 /\ serStatus' = "error"
  /\ serLeft' = (serLeft \/ serDevice # 0)
  /\ UNCHANGED <<serWanted, serActive, serBoard, serChain, serBroken, serAwaits, serChanges, serCalls>>

\* resetActivePins, up to its await.
Resets ==
  /\ serActive' = {}
  /\ Enqueued(Diff(serDevice, serActive, {}), serStatus)

\* The engine stops: nobody awaits the chain, and the next flush finds the
\* stored values of the graph in place of the computed ones.
EngineStops ==
  /\ serDevice # 0 /\ serChanges < SerialChanges
  /\ serChanges' = serChanges + 1
  /\ Resets
  /\ \E pins \in SUBSET Pin : serWanted' = pins
  /\ UNCHANGED <<serBoard, serDevice, serChooser, serBroken, serAwaits, serLeft, serCalls>>

\* Seeded fault: the chain is not awaited.
AwaitNothing(chain) == 0

\* The commands in the chain when disconnect comes to its await.
AwaitChain(chain) == Len(chain)

\* disconnect, up to its await: a rejected chain ends it there.  With no device
\* there is nothing to await and nothing to close.
Disconnect ==
  /\ serStatus \in {"connected", "error"}
  /\ \/ /\ serDevice = 0
        /\ serStatus' = "disconnected"
        /\ UNCHANGED <<serActive, serChain, serAwaits, serCalls>>
     \/ /\ serDevice # 0 /\ serCalls < SerialCalls
        /\ serCalls' = serCalls + 1
        /\ Resets
        /\ serAwaits' = IF serBroken THEN serAwaits ELSE serAwaits \cup {AwaitChain(serChain')}
  /\ UNCHANGED <<serWanted, serBoard, serDevice, serChooser, serBroken, serLeft, serChanges>>

\* closeAllDevices and the rest of disconnect.
CloseAllDevices ==
  /\ 0 \in serAwaits
  /\ serAwaits' = serAwaits \ {0}
  /\ serDevice' = 0 /\ serStatus' = "disconnected"
  /\ UNCHANGED <<serWanted, serActive, serBoard, serChooser, serChain, serBroken, serLeft, serChanges, serCalls>>

SerNext ==
  \/ GraphChanges \/ Tick \/ EngineStops
  \/ WriteCommand \/ WriteFails
  \/ ConnectStarts \/ ConnectOpens \/ ConnectFails
  \/ Disconnect \/ CloseAllDevices

SerSpec == SerInit /\ [][SerNext]_serVars

-----------------------------------------------------------------------------
(* Properties *)

\* While writes succeed, the board shows what the bridge takes for active once
\* the chain is written.  With no device in the map the board has all pins off,
\* with these exceptions: it was connected, or a tick switched its pins, while a
\* disconnect was under way; or a failing connect closed it as it was.
PinsFollow ==
  /\ serDevice # 0 /\ ~serBroken /\ serChain = <<>> => serBoard = serActive
  /\ serDevice = 0 /\ ~serLeft => serBoard = {}
=============================================================================
