--------------------------- MODULE ClientRegistry ---------------------------
(***************************************************************************)
(* Presence of browser tabs and managers on the single ShuGu server: the   *)
(* ClientRegistryService maps, the EventsGateway connection handlers that  *)
(* drive them, the per-socket FIFO streams the router writes to, and what  *)
(* ClientSDK and ManagerSDK do with the messages.                          *)
(*                                                                         *)
(* A tab keeps (deviceId, instanceId, clientId) in browser storage.  The   *)
(* server may see a new socket of a tab before it notices that the old one *)
(* is gone, a stream may be cut with messages still in it, and the server  *)
(* may restart and forget everything.                                      *)
(***************************************************************************)
EXTENDS Integers, Sequences, FiniteSets

CONSTANTS
  Tab,           \* browser tabs running the client or display application
  Manager,       \* manager pages
  Socket,        \* socket.io connections (an unreferenced one may be reused)
  Device,        \* deviceId values
  Instance,      \* instanceId values
  DeviceOf,      \* [Tab -> Device \cup {None}]: None for a tab without identity
  InstanceOf,    \* [Tab -> Instance]
  GeneratedId,   \* ids generateClientId can return
  ManagerTime,   \* Date.now() values that appear in manager ids
  MaxSuffix,     \* allocateClientId tries the suffixes 1..MaxSuffix
  Grace,         \* SHUGU_CLIENT_GRACE_MS > 0
  MaxInbox,      \* bound: messages in flight on one socket
  MaxRestarts,   \* bound: server restarts
  None

BaseId(d) == <<d, 0>>
ClientId  == (Device \X (0..MaxSuffix)) \cup ({"c"} \X GeneratedId)
ManagerId == {"m"} \X ManagerTime

ConnectionInfo == [sock : Socket, instance : Instance \cup {None},
                   connected : BOOLEAN, selected : BOOLEAN]
ClientInfo     == [connected : BOOLEAN, selected : BOOLEAN]

ASSUME RegistryAssumption ==
  /\ MaxSuffix \in Nat
  /\ Grace \in BOOLEAN
  /\ MaxInbox \in Nat /\ MaxRestarts \in Nat
  /\ DeviceOf \in [Tab -> Device \cup {None}]
  /\ InstanceOf \in [Tab -> Instance]
  /\ None \notin Socket \cup Device \cup Instance \cup ClientId \cup ManagerId
  /\ None \notin ConnectionInfo
  /\ Device \cap {"c", "m"} = {}

VARIABLES
  clients,       \* ClientRegistryService.clients
  managers,      \* ClientRegistryService.managers: the socket of each manager id
  idOf,          \* ClientRegistryService.socketToClientId
  graceTimers,   \* ids with an armed grace timer
  thisMs,        \* the manager id generated in the current millisecond, if any
  restarts,      \* server restarts so far
  conn,          \* state of each connection
  inbox,         \* messages the server has emitted on a socket, not yet received
  tabSock,       \* the socket a tab believes it is on
  stored,        \* clientId in sessionStorage and socket.auth
  sensors,       \* sensorManager running in the tab
  mgrSock,       \* the socket a manager page believes it is on
  view           \* ManagerState.clients

serverVars == <<clients, managers, idOf, graceTimers, thisMs, restarts>>
tabVars    == <<tabSock, stored, sensors>>
mgrVars    == <<mgrSock, view>>
vars       == <<serverVars, conn, inbox, tabVars, mgrVars>>

-----------------------------------------------------------------------------
(* Data *)

\* lost: the connection is cut and the server has not noticed; closed: the
\* server is done with it.  The remote end notices either in its own time.
ConnState == {"free", "open", "lost", "closed"}

ClientList     == [ClientId -> ClientInfo \cup {None}]

Message == [type : {"registered", "joined", "left"}, id : ClientId]
             \cup [type : {"sensor"}, active : BOOLEAN]
             \cup [type : {"list"}, clients : ClientList]

Registered(id) == [type |-> "registered", id |-> id]
Joined(id)     == [type |-> "joined", id |-> id]
Left(id)       == [type |-> "left", id |-> id]
SensorState(b) == [type |-> "sensor", active |-> b]
List(cs)       == [type |-> "list", clients |-> cs]

\* getAllClients: what a clientList message carries.
GetAllClients(cl) ==
  [c \in ClientId |-> IF cl[c] = None THEN None
                      ELSE [connected |-> cl[c].connected,
                            selected  |-> cl[c].selected]]

\* getSocketIds, for client ids: disconnected and unknown ids resolve to nothing.
GetSocketIds(cl, ids) ==
  {cl[c].sock : c \in {d \in ids : cl[d] # None /\ cl[d].connected}}

GetAllManagerSocketIds(ms) == {ms[m] : m \in ManagerId} \ {None}

\* emitToSockets: only an open connection can still deliver.
Emit(box, socks, msgs) ==
  [s \in Socket |-> IF s \in socks /\ conn[s] = "open" THEN box[s] \o msgs
                                                       ELSE box[s]]

\* Seeded fault: the notice is sent without the list that should follow it.
NoticeOnly(box, cl, ms, notice) == Emit(box, GetAllManagerSocketIds(ms), notice)

\* broadcastClientListUpdate, with the join / leave notice that precedes it.
Broadcast(box, cl, ms, notice) ==
  Emit(box, GetAllManagerSocketIds(ms), notice \o <<List(GetAllClients(cl))>>)

IsClientIdInUse(c) == clients[c] # None
IsManager(s) == idOf[s] \in ManagerId /\ managers[idOf[s]] # None

\* A connection nobody refers to any more.
Unreferenced(s) ==
  /\ conn[s] \in {"free", "closed"}
  /\ idOf[s] = None
  /\ \A t \in Tab : tabSock[t] # s
  /\ \A m \in Manager : mgrSock[m] # s
  /\ \A c \in ClientId : clients[c] # None => clients[c].sock # s
  /\ \A i \in ManagerId : managers[i] # s

Room == \A s \in Socket : Len(inbox[s]) <= MaxInbox

NewInfo(s, i) == [sock |-> s, instance |-> i, connected |-> TRUE, selected |-> FALSE]

\* allocateClientId: the device id, else the first free suffix, else a
\* generated id.
FreeSuffixes(d) == {n \in 0..MaxSuffix : ~IsClientIdInUse(<<d, n>>)}
FreshIds == {id \in {"c"} \X GeneratedId :
               ~IsClientIdInUse(id) /\ \A t \in Tab : stored[t] # id}
FirstFree(d) ==
  {<<d, n>> : n \in {k \in FreeSuffixes(d) : \A j \in FreeSuffixes(d) : k <= j}}

\* Seeded fault: the suffix loop runs one too far.
AllocateOneTooFar(d) ==
  IF FreeSuffixes(d) = {} THEN {<<d, MaxSuffix + 1>>} ELSE FirstFree(d)

AllocateClientId(d) == IF FreeSuffixes(d) = {} THEN FreshIds ELSE FirstFree(d)

\* Seeded fault: a takeover leaves the replaced socket mapped.
RemapKeepingOld(old, s, c) == [idOf EXCEPT ![s] = c]

\* A takeover's update of socketToClientId: the replaced socket is unmapped.
Remap(old, s, c) == [idOf EXCEPT ![old] = None, ![s] = c]

\* Seeded fault: a takeover leaves the grace timer armed.
KeepGraceTimer(c) == graceTimers

ClearGraceTimer(c) == graceTimers \ {c}

\* Seeded fault: the disconnect is recorded and no purge scheduled.
NoGracePurge(c) == graceTimers

ScheduleGracePurge(c) == IF Grace THEN graceTimers \cup {c} ELSE graceTimers \ {c}

\* Seeded fault: a tab that comes back is told to stop, whatever the selection.
StoppedOnConnect(c) == SensorState(FALSE)

\* The sensor state told to a tab whose record survived.
SensorOnConnect(c) == SensorState(clients[c].selected)

-----------------------------------------------------------------------------
Init ==
  /\ clients = [c \in ClientId |-> None]
  /\ managers = [m \in ManagerId |-> None]
  /\ idOf = [s \in Socket |-> None]
  /\ graceTimers = {}
  /\ thisMs = None
  /\ restarts = 0
  /\ conn = [s \in Socket |-> "free"]
  /\ inbox = [s \in Socket |-> <<>>]
  /\ tabSock = [t \in Tab |-> None]
  /\ stored = [t \in Tab |-> IF DeviceOf[t] = None THEN None ELSE BaseId(DeviceOf[t])]
  /\ sensors = [t \in Tab |-> FALSE]
  /\ mgrSock = [m \in Manager |-> None]
  /\ view = [m \in Manager |-> [c \in ClientId |-> None]]

-----------------------------------------------------------------------------
(* Client connections (EventsGateway.handleConnection) *)

\* A new record under id c, announced to the managers and confirmed to the tab.
RegisterAs(t, s, c) ==
  LET inst == IF DeviceOf[t] = None THEN None ELSE InstanceOf[t]
      cl   == [clients EXCEPT ![c] = NewInfo(s, inst)]
  IN /\ clients' = cl
     /\ idOf' = [idOf EXCEPT ![s] = c]
     /\ conn' = [conn EXCEPT ![s] = "open"]
     /\ tabSock' = [tabSock EXCEPT ![t] = s]
     /\ inbox' = [Broadcast(inbox, cl, managers, <<Joined(c)>>)
                    EXCEPT ![s] = <<Registered(c), SensorState(FALSE)>>]
     /\ UNCHANGED <<managers, graceTimers, thisMs, restarts, stored, sensors, mgrVars>>

SameInstance(t, c) == clients[c] # None /\ clients[c].instance = InstanceOf[t]

\* registerConnection of a socket that opens a new record: the requested id
\* when it is free, an allocated one when another instance holds it, a
\* generated one for a tab without identity.
ConnectNew(t, s) ==
  /\ tabSock[t] = None /\ Unreferenced(s) /\ Room
  /\ \/ /\ DeviceOf[t] = None
        /\ \E c \in FreshIds : RegisterAs(t, s, c)
     \/ /\ DeviceOf[t] # None
        /\ ~IsClientIdInUse(stored[t])
        /\ RegisterAs(t, s, stored[t])
     \/ /\ DeviceOf[t] # None
        /\ IsClientIdInUse(stored[t]) /\ ~SameInstance(t, stored[t])
        /\ \E c \in AllocateClientId(DeviceOf[t]) : RegisterAs(t, s, c)

\* registerConnection of a socket that takes over the record of its own tab:
\* the old socket is unmapped and disconnected, its disconnect event comes
\* later, the grace timer is cleared, the selection is kept and told to the
\* tab again.
TakeOver(t, s) ==
  LET c   == stored[t]
      old == clients[c].sock
      cl  == [clients EXCEPT ![c].sock = s, ![c].connected = TRUE]
  IN /\ tabSock[t] = None /\ Unreferenced(s) /\ Room
     /\ DeviceOf[t] # None /\ SameInstance(t, c)
     /\ clients' = cl
     /\ idOf' = Remap(old, s, c)
     /\ graceTimers' = ClearGraceTimer(c)
     /\ conn' = [conn EXCEPT ![old] = IF @ = "closed" THEN @ ELSE "lost", ![s] = "open"]
     /\ tabSock' = [tabSock EXCEPT ![t] = s]
     /\ inbox' = [Broadcast(inbox, cl, managers, <<>>)
                    EXCEPT ![s] = <<Registered(c), SensorOnConnect(c)>>]
     /\ UNCHANGED <<managers, thisMs, restarts, stored, sensors, mgrVars>>

\* The network cuts a connection: what was in flight is lost, and each end
\* notices in its own time.
Cut(s) ==
  /\ conn[s] = "open"
  /\ conn' = [conn EXCEPT ![s] = "lost"]
  /\ inbox' = [inbox EXCEPT ![s] = <<>>]
  /\ UNCHANGED <<serverVars, tabVars, mgrVars>>

\* A page reload drops the connection and everything not in browser storage.
Reload(t) ==
  LET s == tabSock[t]
  IN /\ s # None
     /\ conn' = [conn EXCEPT ![s] = IF @ = "open" THEN "lost" ELSE @]
     /\ inbox' = [inbox EXCEPT ![s] = <<>>]
     /\ tabSock' = [tabSock EXCEPT ![t] = None]
     /\ sensors' = [sensors EXCEPT ![t] = FALSE]
     /\ UNCHANGED <<serverVars, stored, mgrVars>>

\* The SDK's disconnect listener: the tab will connect again.
NoticeClosed(t) ==
  LET s == tabSock[t]
  IN /\ s # None /\ conn[s] # "open"
     /\ inbox' = [inbox EXCEPT ![s] = <<>>]
     /\ tabSock' = [tabSock EXCEPT ![t] = None]
     /\ UNCHANGED <<serverVars, conn, stored, sensors, mgrVars>>

\* ClientSDK.handleMessage: the assigned id is persisted, setSensorState
\* starts or stops the sensors.
ReceiveTab(t) ==
  LET s == tabSock[t]
      m == Head(inbox[s])
  IN /\ s # None /\ inbox[s] # <<>>
     /\ inbox' = [inbox EXCEPT ![s] = Tail(@)]
     /\ stored' = IF m.type = "registered" /\ DeviceOf[t] # None
                  THEN [stored EXCEPT ![t] = m.id] ELSE stored
     /\ sensors' = IF m.type = "sensor" THEN [sensors EXCEPT ![t] = m.active]
                                        ELSE sensors
     /\ UNCHANGED <<serverVars, conn, tabSock, mgrVars>>

-----------------------------------------------------------------------------
(* Disconnects and grace expiry (unregisterBySocketId, purgeClient) *)

Purge(cl, c) == [cl EXCEPT ![c] = None]

\* handleDisconnect for a client socket: presence is kept for the grace
\* period; a zero grace purges at once.
DisconnectClient(s) ==
  LET c    == idOf[s]
      gone == [clients EXCEPT ![c].connected = FALSE]
      cl   == IF Grace THEN gone ELSE Purge(clients, c)
      note == IF Grace THEN <<>> ELSE <<Left(c), List(GetAllClients(cl))>>
  IN /\ conn[s] = "lost" /\ c \in ClientId
     /\ conn' = [conn EXCEPT ![s] = "closed"]
     /\ idOf' = [idOf EXCEPT ![s] = None]
     /\ clients' = cl
     /\ graceTimers' = ScheduleGracePurge(c)
     /\ inbox' = Broadcast(inbox, cl, managers, note)
     /\ UNCHANGED <<managers, thisMs, restarts, tabVars, mgrVars>>

DisconnectManager(s) ==
  /\ conn[s] = "lost" /\ idOf[s] \in ManagerId
  /\ conn' = [conn EXCEPT ![s] = "closed"]
  /\ idOf' = [idOf EXCEPT ![s] = None]
  /\ managers' = [managers EXCEPT ![idOf[s]] = None]
  /\ UNCHANGED <<clients, graceTimers, thisMs, restarts, inbox, tabVars, mgrVars>>

\* A disconnect of a socket that a takeover has already unmapped changes
\* nothing in the registry.
DisconnectUnmapped(s) ==
  /\ conn[s] = "lost" /\ idOf[s] = None
  /\ conn' = [conn EXCEPT ![s] = "closed"]
  /\ UNCHANGED <<serverVars, inbox, tabVars, mgrVars>>

\* The grace timer's callback: purges unless the client came back.
GraceExpires(c) ==
  LET cl == Purge(clients, c)
  IN /\ c \in graceTimers
     /\ graceTimers' = graceTimers \ {c}
     /\ IF clients[c] = None \/ clients[c].connected
        THEN UNCHANGED <<clients, inbox>>
        ELSE /\ clients' = cl
             /\ inbox' = Broadcast(inbox, cl, managers, <<Left(c)>>)
     /\ UNCHANGED <<managers, idOf, thisMs, restarts, conn, tabVars, mgrVars>>

\* All of the server's presence state lives in its process.
ServerRestart ==
  /\ restarts < MaxRestarts
  /\ restarts' = restarts + 1
  /\ clients' = [c \in ClientId |-> None]
  /\ managers' = [m \in ManagerId |-> None]
  /\ idOf' = [s \in Socket |-> None]
  /\ graceTimers' = {}
  /\ thisMs' = None
  /\ conn' = [s \in Socket |-> IF conn[s] = "free" THEN "free" ELSE "closed"]
  /\ inbox' = [s \in Socket |-> <<>>]
  /\ UNCHANGED <<tabVars, mgrVars>>

-----------------------------------------------------------------------------
(* Managers *)

\* handleConnection for a manager.  generateManagerId is the millisecond of
\* the call, so two managers connecting in one millisecond get one id.
GenerateManagerId(i) == i = thisMs \/ \A s \in Socket : idOf[s] # i

ConnectManager(m, s, i) ==
  LET ms == [managers EXCEPT ![i] = s]
  IN /\ mgrSock[m] = None /\ Unreferenced(s) /\ Room
     /\ GenerateManagerId(i)
     /\ thisMs' = i
     /\ managers' = ms
     /\ idOf' = [idOf EXCEPT ![s] = i]
     /\ conn' = [conn EXCEPT ![s] = "open"]
     /\ mgrSock' = [mgrSock EXCEPT ![m] = s]
     /\ inbox' = [Broadcast(inbox, clients, ms, <<>>)
                    EXCEPT ![s] = <<List(GetAllClients(clients))>>]
     /\ UNCHANGED <<clients, graceTimers, restarts, tabVars, view>>

NoticeManagerClosed(m) ==
  LET s == mgrSock[m]
  IN /\ s # None /\ conn[s] # "open"
     /\ inbox' = [inbox EXCEPT ![s] = <<>>]
     /\ mgrSock' = [mgrSock EXCEPT ![m] = None]
     /\ UNCHANGED <<serverVars, conn, tabVars, view>>

\* handleManagerSystemMessage: applyClientJoined, applyClientLeft and the
\* full-list replacement.
Applied(v, msg) ==
  CASE msg.type = "list"   -> msg.clients
    [] msg.type = "joined" ->
         [v EXCEPT ![msg.id] = [connected |-> TRUE,
                                selected  |-> @ # None /\ @.selected]]
    [] msg.type = "left"   -> [v EXCEPT ![msg.id] = None]
    [] OTHER               -> v

ReceiveManager(m) ==
  LET s == mgrSock[m]
  IN /\ s # None /\ inbox[s] # <<>>
     /\ inbox' = [inbox EXCEPT ![s] = Tail(@)]
     /\ view' = [view EXCEPT ![m] = Applied(@, Head(inbox[s]))]
     /\ UNCHANGED <<serverVars, conn, tabVars, mgrSock>>

\* handleSelectClients: one selection for the whole server; the message may
\* name ids the registry no longer has.  Only the clients whose flag changes
\* and that are connected are told.
SelectClients(m, ids) ==
  LET before == {c \in ClientId : clients[c] # None /\ clients[c].selected}
      cl     == [c \in ClientId |-> IF clients[c] = None THEN None
                   ELSE [clients[c] EXCEPT !.selected = c \in ids]]
      on     == Emit(inbox, GetSocketIds(clients, ids \ before), <<SensorState(TRUE)>>)
      off    == Emit(on, GetSocketIds(clients, before \ ids), <<SensorState(FALSE)>>)
  IN /\ mgrSock[m] # None /\ conn[mgrSock[m]] = "open" /\ IsManager(mgrSock[m]) /\ Room
     /\ clients' = cl
     /\ inbox' = Broadcast(off, cl, managers, <<>>)
     /\ UNCHANGED <<managers, idOf, graceTimers, thisMs, restarts, conn, tabVars, mgrVars>>

-----------------------------------------------------------------------------
Connect ==
  \E s \in Socket :
    \/ \E t \in Tab : ConnectNew(t, s) \/ TakeOver(t, s)
    \/ \E m \in Manager, i \in ManagerId : ConnectManager(m, s, i)
Disconnect(s) ==
  DisconnectClient(s) \/ DisconnectManager(s) \/ DisconnectUnmapped(s)
TabStep(t)     == ReceiveTab(t) \/ NoticeClosed(t)
ManagerStep(m) == ReceiveManager(m) \/ NoticeManagerClosed(m)
Fail ==
  \/ \E s \in Socket : Cut(s)
  \/ \E t \in Tab : Reload(t)
  \/ ServerRestart

Next ==
  \/ Connect
  \/ Fail
  \/ \E s \in Socket : Disconnect(s)
  \/ \E t \in Tab : TabStep(t)
  \/ \E m \in Manager : ManagerStep(m)
  \/ \E c \in ClientId : GraceExpires(c)
  \/ \E m \in Manager, ids \in SUBSET ClientId : SelectClients(m, ids)

Spec == Init /\ [][Next]_vars

\* The server notices a cut connection (ping timeout), a timer fires, and an
\* end that has a message or a closed socket handles it.  Nothing forces a
\* page to connect, a network to fail or an operator to select.
Fairness ==
  /\ \A s \in Socket : WF_vars(Disconnect(s))
  /\ \A c \in ClientId : WF_vars(GraceExpires(c))
  /\ \A t \in Tab : WF_vars(TabStep(t))
  /\ \A m \in Manager : WF_vars(ManagerStep(m))

FairSpec == Spec /\ Fairness

-----------------------------------------------------------------------------
(* Properties *)

TypeOK ==
  /\ clients \in [ClientId -> ConnectionInfo \cup {None}]
  /\ managers \in [ManagerId -> Socket \cup {None}]
  /\ idOf \in [Socket -> ClientId \cup ManagerId \cup {None}]
  /\ graceTimers \in SUBSET ClientId
  /\ thisMs \in ManagerId \cup {None}
  /\ restarts \in 0..MaxRestarts
  /\ conn \in [Socket -> ConnState]
  /\ inbox \in [Socket -> Seq(Message)]
  /\ tabSock \in [Tab -> Socket \cup {None}]
  /\ stored \in [Tab -> ClientId \cup {None}]
  /\ \A t \in Tab : DeviceOf[t] # None => stored[t] # None
  /\ sensors \in [Tab -> BOOLEAN]
  /\ mgrSock \in [Manager -> Socket \cup {None}]
  /\ view \in [Manager -> ClientList]

\* A record counts as connected exactly when its socket maps back to it, and
\* a socket mapped to a client id is the one that id's record holds: messages
\* for a client reach its tab and nobody else's, across takeovers
\* (registerConnection and unregisterBySocketId keep the two maps together).
SocketsMatchRecords ==
  /\ \A c \in ClientId : clients[c] # None =>
       (clients[c].connected <=> idOf[clients[c].sock] = c)
  /\ \A s \in Socket : idOf[s] \in ClientId =>
       clients[idOf[s]] # None /\ clients[idOf[s]].sock = s

\* Every disconnected record has an armed grace timer and no other id has:
\* nothing lingers for ever, and no timer is pending against a client that
\* came back (scheduleGracePurge, clearGraceTimer, purgeClient).
TimersMatchGrace ==
  graceTimers = {c \in ClientId : clients[c] # None /\ ~clients[c].connected}

\* A record is never dropped while the connection it holds is up, whatever
\* timers, late disconnects of replaced sockets and other tabs do.
NoLiveClientPurged ==
  [][restarts' = restarts =>
       \A c \in ClientId :
         (clients[c] # None /\ conn[clients[c].sock] = "open") => clients'[c] # None]_vars

\* README "Only selected clients send high-frequency data": once a tab has
\* read its stream, its sensors run exactly when its own record is selected,
\* through reloads, takeovers and selections made while it was away.
SensorsFollowSelection ==
  \A t \in Tab :
    (tabSock[t] # None /\ conn[tabSock[t]] = "open" /\ inbox[tabSock[t]] = <<>>)
      => /\ idOf[tabSock[t]] \in ClientId
         /\ sensors[t] = clients[idOf[tabSock[t]]].selected

\* A manager the server knows, with its stream read, shows the registry as it
\* is: every change of presence or selection is broadcast, in order.
ViewsConverge ==
  \A m \in Manager :
    LET s == mgrSock[m]
    IN (/\ s # None /\ conn[s] = "open" /\ inbox[s] = <<>>
        /\ idOf[s] \in ManagerId /\ managers[idOf[s]] = s)
       => view[m] = GetAllClients(clients)

\* A record whose connection is gone is taken over or removed in the end.
Ghost(c) == clients[c] # None /\ conn[clients[c].sock] # "open"
GhostsVanish == \A c \in ClientId : Ghost(c) ~> ~Ghost(c)

\* Records never share a socket, and the socket of a disconnected record is
\* down until the record is taken over: the strengthening that makes the
\* invariants above inductive.
UniqueSockets ==
  \A b, c \in ClientId :
    (clients[b] # None /\ clients[c] # None /\ clients[b].sock = clients[c].sock) => b = c
OfflineIsDown ==
  \A c \in ClientId :
    (clients[c] # None /\ ~clients[c].connected) => conn[clients[c].sock] # "open"

\* The registry's inductive invariant: type, the agreement of the two maps,
\* the grace timers, and the strengthening.
RegistryInv ==
  /\ TypeOK
  /\ SocketsMatchRecords
  /\ TimersMatchGrace
  /\ UniqueSockets
  /\ OfflineIsDown

\* The claim of phase2_3_server_hygiene.md:114, no ghost clients or repeated
\* ids in the list after a short disconnect: one record per tab.
NoDuplicates ==
  \A b, c \in ClientId :
    (clients[b] # None /\ clients[c] # None /\ clients[b].instance # None
       /\ clients[b].instance = clients[c].instance) => b = c
=============================================================================
