------------------------ MODULE ClientRegistryProofs ------------------------
(***************************************************************************)
(* Proofs about ClientRegistry for every set of tabs, managers, sockets    *)
(* and ids: the registry's inductive invariant, that no step drops the     *)
(* record of a client whose connection is up, and, from what is on its way *)
(* to a page, that tabs and managers end with what the registry says.      *)
(***************************************************************************)
EXTENDS ClientRegistry, SequenceTheorems, TLAPS

-----------------------------------------------------------------------------
(* Ids and messages *)

\* Client ids, manager ids and None never collide: device ids, generated ids
\* and manager ids differ in their form.
LEMMA IdsDisjoint ==
  /\ ClientId \cap ManagerId = {}
  /\ None \notin ClientId /\ None \notin ManagerId
BY RegistryAssumption DEF RegistryAssumption, ClientId, ManagerId

\* None is no socket and no record.
LEMMA NoneIsNothing ==
  /\ None \notin Socket
  /\ None \notin ConnectionInfo
  /\ \A d \in Device : BaseId(d) \in ClientId
BY RegistryAssumption DEF RegistryAssumption, ClientId, BaseId

\* Every id allocateClientId can return is a client id nobody uses.
LEMMA AllocatedIsFree ==
  ASSUME NEW d \in Device, NEW c \in AllocateClientId(d)
  PROVE  c \in ClientId /\ clients[c] = None
<1>1. CASE FreeSuffixes(d) = {}
  BY <1>1 DEF AllocateClientId, FreshIds, ClientId, IsClientIdInUse
<1>2. CASE FreeSuffixes(d) # {}
  <2>1. PICK n \in FreeSuffixes(d) : c = <<d, n>>
    BY <1>2 DEF AllocateClientId, FirstFree
  <2>2. n \in 0..MaxSuffix /\ clients[<<d, n>>] = None
    BY <2>1 DEF FreeSuffixes, IsClientIdInUse
  <2> QED BY <2>1, <2>2 DEF ClientId
<1> QED BY <1>1, <1>2

\* Literal sequences of one or two elements.
LEMMA ShortSeqs ==
  ASSUME NEW S
  PROVE  /\ \A a \in S : <<a>> \in Seq(S)
         /\ \A a, b \in S : <<a, b>> \in Seq(S)
OBVIOUS

\* A list broadcast is well typed when the registry is.
LEMMA ListTyped ==
  ASSUME NEW cl \in [ClientId -> ConnectionInfo \cup {None}]
  PROVE  /\ GetAllClients(cl) \in ClientList
         /\ List(GetAllClients(cl)) \in Message
<1>1. GetAllClients(cl) \in ClientList
  BY DEF GetAllClients, ClientList, ClientInfo, ConnectionInfo
<1> QED BY <1>1 DEF List, Message

\* The other messages are well typed.
LEMMA NoticesTyped ==
  /\ \A c \in ClientId : Registered(c) \in Message /\ Joined(c) \in Message
                                                  /\ Left(c) \in Message
  /\ \A b \in BOOLEAN : SensorState(b) \in Message
BY DEF Registered, Joined, Left, SensorState, Message

\* Emitting and broadcasting keep the streams well typed.
LEMMA EmitTyped ==
  ASSUME NEW box \in [Socket -> Seq(Message)], NEW socks, NEW msgs \in Seq(Message)
  PROVE  Emit(box, socks, msgs) \in [Socket -> Seq(Message)]
BY ConcatProperties DEF Emit

LEMMA BroadcastTyped ==
  ASSUME NEW box \in [Socket -> Seq(Message)], NEW ms,
         NEW cl \in [ClientId -> ConnectionInfo \cup {None}],
         NEW notice \in Seq(Message)
  PROVE  Broadcast(box, cl, ms, notice) \in [Socket -> Seq(Message)]
<1>1. List(GetAllClients(cl)) \in Message
  BY ListTyped
<1>2. <<List(GetAllClients(cl))>> \in Seq(Message)
  BY <1>1
<1>3. notice \o <<List(GetAllClients(cl))>> \in Seq(Message)
  BY <1>2, ConcatProperties
<1> QED BY <1>3, EmitTyped DEF Broadcast

-----------------------------------------------------------------------------
(* Type correctness *)

LEMMA InitTyped == Init => TypeOK
BY RegistryAssumption, NoneIsNothing, EmptySeq
DEF Init, TypeOK, RegistryAssumption, ConnState, ClientList

\* A record opened by registerConnection keeps the types.
LEMMA RegisterTyped ==
  ASSUME TypeOK, NEW t \in Tab, NEW s \in Socket, NEW c \in ClientId,
         RegisterAs(t, s, c)
  PROVE  TypeOK'
<1> DEFINE inst == IF DeviceOf[t] = None THEN None ELSE InstanceOf[t]
           cl   == [clients EXCEPT ![c] = NewInfo(s, inst)]
<1>1. inst \in Instance \cup {None}
  BY RegistryAssumption DEF RegistryAssumption
<1>2. cl \in [ClientId -> ConnectionInfo \cup {None}]
  BY <1>1 DEF TypeOK, NewInfo, ConnectionInfo
<1>3. <<Joined(c)>> \in Seq(Message) /\ <<Registered(c), SensorState(FALSE)>> \in Seq(Message)
  BY NoticesTyped, ShortSeqs
<1>4. Broadcast(inbox, cl, managers, <<Joined(c)>>) \in [Socket -> Seq(Message)]
  BY <1>2, <1>3, BroadcastTyped DEF TypeOK
<1>5. inbox' \in [Socket -> Seq(Message)]
  BY <1>3, <1>4 DEF RegisterAs
<1> HIDE DEF inst
<1>6. clients' \in [ClientId -> ConnectionInfo \cup {None}]
  BY <1>2 DEF RegisterAs, inst
<1> QED BY <1>5, <1>6 DEF RegisterAs, TypeOK, ConnState, mgrVars

\* The streams after the four kinds of steps that touch one socket only.
LEMMA ClearedTyped ==
  ASSUME inbox \in [Socket -> Seq(Message)], NEW s
  PROVE  [inbox EXCEPT ![s] = <<>>] \in [Socket -> Seq(Message)]
BY EmptySeq

LEMMA ReadTyped ==
  ASSUME inbox \in [Socket -> Seq(Message)], NEW s \in Socket, inbox[s] # <<>>
  PROVE  /\ Head(inbox[s]) \in Message
         /\ [inbox EXCEPT ![s] = Tail(@)] \in [Socket -> Seq(Message)]
BY HeadTailProperties

\* What a manager shows stays a client list, whichever message it applies.
LEMMA AppliedTyped ==
  ASSUME NEW v \in ClientList, NEW msg \in Message
  PROVE  Applied(v, msg) \in ClientList
<1>1. CASE msg.type = "list"
  BY <1>1 DEF Applied, Message
<1>2. CASE msg.type = "joined"
  <2>1. msg.id \in ClientId
    BY <1>2 DEF Message
  <2>2. (v[msg.id] # None /\ v[msg.id].selected) \in BOOLEAN
    BY <2>1 DEF ClientList, ClientInfo
  <2>3. [connected |-> TRUE, selected |-> v[msg.id] # None /\ v[msg.id].selected] \in ClientInfo
    BY <2>2 DEF ClientInfo
  <2> QED BY <1>2, <2>1, <2>3 DEF Applied, ClientList
<1>3. CASE msg.type = "left"
  BY <1>3 DEF Applied, ClientList, Message
<1> QED BY <1>1, <1>2, <1>3 DEF Applied

\* Every step keeps the types.  A disconnect needs to know that the socket it
\* is about still maps to a record, so this is not inductive on its own.
LEMMA StepTyped == TypeOK /\ SocketsMatchRecords /\ [Next]_vars => TypeOK'
<1> SUFFICES ASSUME TypeOK, SocketsMatchRecords, [Next]_vars PROVE TypeOK'
  OBVIOUS
<1> USE NoneIsNothing
<1>1. ASSUME NEW t \in Tab, NEW s \in Socket, ConnectNew(t, s)
      PROVE  TypeOK'
  <2>1. CASE DeviceOf[t] = None /\ \E c \in FreshIds : RegisterAs(t, s, c)
    BY <2>1, RegisterTyped DEF FreshIds, ClientId
  <2>2. CASE DeviceOf[t] # None /\ ~IsClientIdInUse(stored[t]) /\ RegisterAs(t, s, stored[t])
    <3>1. stored[t] \in ClientId
      BY <2>2 DEF TypeOK
    <3> QED BY <3>1, <2>2, RegisterTyped
  <2>3. CASE DeviceOf[t] # None /\ \E c \in AllocateClientId(DeviceOf[t]) : RegisterAs(t, s, c)
    BY <2>3, AllocatedIsFree, RegisterTyped, RegistryAssumption DEF RegistryAssumption
  <2> QED BY <1>1, <2>1, <2>2, <2>3 DEF ConnectNew
<1>2. ASSUME NEW t \in Tab, NEW s \in Socket, TakeOver(t, s)
      PROVE  TypeOK'
  <2> DEFINE c  == stored[t]
             cl == [clients EXCEPT ![c].sock = s, ![c].connected = TRUE]
             old == clients[c].sock
  <2>1. c \in ClientId /\ clients[c] \in ConnectionInfo
    BY <1>2 DEF TakeOver, TypeOK, SameInstance
  <2>2. cl \in [ClientId -> ConnectionInfo \cup {None}]
    BY <2>1 DEF TypeOK, ConnectionInfo
  <2>3. old \in Socket /\ clients[c].selected \in BOOLEAN
    BY <2>1 DEF ConnectionInfo
  <2>4. <<>> \in Seq(Message) /\ <<Registered(c), SensorOnConnect(c)>> \in Seq(Message)
    BY <2>1, <2>3, NoticesTyped, ShortSeqs, EmptySeq DEF SensorOnConnect
  <2>5. Broadcast(inbox, cl, managers, <<>>) \in [Socket -> Seq(Message)]
    BY <2>2, <2>4, BroadcastTyped DEF TypeOK
  <2>6. inbox' \in [Socket -> Seq(Message)]
    BY <1>2, <2>4, <2>5 DEF TakeOver
  <2>7. clients' \in [ClientId -> ConnectionInfo \cup {None}]
    BY <1>2, <2>2 DEF TakeOver
  <2>8. idOf' \in [Socket -> ClientId \cup ManagerId \cup {None}]
    BY <1>2, <2>1 DEF TakeOver, Remap, TypeOK
  <2>9. graceTimers' \in SUBSET ClientId
    BY <1>2 DEF TakeOver, ClearGraceTimer, TypeOK
  <2>10. conn' \in [Socket -> ConnState] /\ tabSock' \in [Tab -> Socket \cup {None}]
    BY <1>2 DEF TakeOver, TypeOK, ConnState
  <2> QED BY <1>2, <2>6, <2>7, <2>8, <2>9, <2>10 DEF TakeOver, TypeOK, mgrVars
<1>3. ASSUME NEW s \in Socket, Cut(s)
      PROVE  TypeOK'
  BY <1>3, ClearedTyped DEF Cut, TypeOK, ConnState, serverVars, tabVars, mgrVars
<1>4. ASSUME NEW t \in Tab, Reload(t)
      PROVE  TypeOK'
  BY <1>4, ClearedTyped DEF Reload, TypeOK, ConnState, serverVars, mgrVars
<1>5. ASSUME NEW t \in Tab, TabStep(t)
      PROVE  TypeOK'
  <2>1. CASE NoticeClosed(t)
    BY <2>1, ClearedTyped DEF NoticeClosed, TypeOK, serverVars, mgrVars
  <2>2. CASE ReceiveTab(t)
    <3> DEFINE msg == Head(inbox[tabSock[t]])
    <3>1. msg \in Message /\ inbox' \in [Socket -> Seq(Message)]
      BY <2>2, ReadTyped DEF ReceiveTab, TypeOK
    <3>2. /\ msg.type = "registered" => msg.id \in ClientId
          /\ msg.type = "sensor" => msg.active \in BOOLEAN
      BY <3>1 DEF Message
    <3>3. stored' \in [Tab -> ClientId \cup {None}]
      BY <2>2, <3>2 DEF ReceiveTab, TypeOK
    <3>4. \A u \in Tab : DeviceOf[u] # None => stored'[u] # None
      BY <2>2, <3>2, IdsDisjoint DEF ReceiveTab, TypeOK
    <3>5. sensors' \in [Tab -> BOOLEAN]
      BY <2>2, <3>2 DEF ReceiveTab, TypeOK
    <3> QED BY <2>2, <3>1, <3>3, <3>4, <3>5 DEF ReceiveTab, TypeOK, serverVars, mgrVars
  <2> QED BY <1>5, <2>1, <2>2 DEF TabStep
<1>6. ASSUME NEW s \in Socket, DisconnectClient(s)
      PROVE  TypeOK'
  <2> DEFINE c    == idOf[s]
             gone == [clients EXCEPT ![c].connected = FALSE]
             cl   == IF Grace THEN gone ELSE Purge(clients, c)
             note == IF Grace THEN <<>> ELSE <<Left(c), List(GetAllClients(cl))>>
  <2>1. c \in ClientId
    BY <1>6 DEF DisconnectClient
  <2>2. cl \in [ClientId -> ConnectionInfo \cup {None}]
    <3>1. clients[c] \in ConnectionInfo
      BY <1>6, <2>1 DEF TypeOK, SocketsMatchRecords
    <3>2. [clients[c] EXCEPT !.connected = FALSE] \in ConnectionInfo
      BY <3>1 DEF ConnectionInfo
    <3> QED BY <2>1, <3>2 DEF TypeOK, Purge
  <2>3. note \in Seq(Message)
    BY <2>1, <2>2, NoticesTyped, ListTyped, ShortSeqs, EmptySeq
  <2>4. Broadcast(inbox, cl, managers, note) \in [Socket -> Seq(Message)]
    BY <2>2, <2>3, BroadcastTyped DEF TypeOK
  <2>5. clients' = cl /\ inbox' = Broadcast(inbox, cl, managers, note)
    BY <1>6 DEF DisconnectClient
  <2> HIDE DEF cl, note
  <2> QED BY <1>6, <2>1, <2>2, <2>4, <2>5
          DEF DisconnectClient, ScheduleGracePurge, TypeOK, ConnState, tabVars, mgrVars
<1>7. ASSUME NEW s \in Socket, DisconnectManager(s)
      PROVE  TypeOK'
  BY <1>7 DEF DisconnectManager, TypeOK, ConnState, tabVars, mgrVars
<1>8. ASSUME NEW s \in Socket, DisconnectUnmapped(s)
      PROVE  TypeOK'
  BY <1>8 DEF DisconnectUnmapped, TypeOK, ConnState, serverVars, tabVars, mgrVars
<1>9. ASSUME NEW c \in ClientId, GraceExpires(c)
      PROVE  TypeOK'
  <2>1. Purge(clients, c) \in [ClientId -> ConnectionInfo \cup {None}]
    BY DEF TypeOK, Purge
  <2>2. Broadcast(inbox, Purge(clients, c), managers, <<Left(c)>>) \in [Socket -> Seq(Message)]
    BY <2>1, NoticesTyped, ShortSeqs, BroadcastTyped DEF TypeOK
  <2> QED BY <1>9, <2>1, <2>2 DEF GraceExpires, TypeOK, tabVars, mgrVars
<1>10. ASSUME ServerRestart
       PROVE  TypeOK'
  BY <1>10, EmptySeq, RegistryAssumption
  DEF ServerRestart, TypeOK, ConnState, tabVars, mgrVars, RegistryAssumption
<1>11. ASSUME NEW m \in Manager, NEW s \in Socket, NEW i \in ManagerId, ConnectManager(m, s, i)
       PROVE  TypeOK'
  <2> DEFINE ms == [managers EXCEPT ![i] = s]
  <2>1. <<List(GetAllClients(clients))>> \in Seq(Message) /\ <<>> \in Seq(Message)
    BY ListTyped, ShortSeqs, EmptySeq DEF TypeOK
  <2>2. Broadcast(inbox, clients, ms, <<>>) \in [Socket -> Seq(Message)]
    BY <2>1, BroadcastTyped DEF TypeOK
  <2>3. inbox' \in [Socket -> Seq(Message)]
    BY <1>11, <2>1, <2>2 DEF ConnectManager
  <2> QED BY <1>11, <2>3 DEF ConnectManager, TypeOK, ConnState, tabVars
<1>12. ASSUME NEW m \in Manager, ManagerStep(m)
       PROVE  TypeOK'
  <2>1. CASE NoticeManagerClosed(m)
    BY <2>1, ClearedTyped DEF NoticeManagerClosed, TypeOK, serverVars, tabVars
  <2>2. CASE ReceiveManager(m)
    <3>1. /\ Head(inbox[mgrSock[m]]) \in Message
          /\ inbox' \in [Socket -> Seq(Message)]
      BY <2>2, ReadTyped DEF ReceiveManager, TypeOK
    <3>2. view' \in [Manager -> ClientList]
      BY <2>2, <3>1, AppliedTyped DEF ReceiveManager, TypeOK
    <3> QED BY <2>2, <3>1, <3>2 DEF ReceiveManager, TypeOK, serverVars, tabVars
  <2> QED BY <1>12, <2>1, <2>2 DEF ManagerStep
<1>13. ASSUME NEW m \in Manager, NEW ids \in SUBSET ClientId, SelectClients(m, ids)
       PROVE  TypeOK'
  <2> DEFINE before == {c \in ClientId : clients[c] # None /\ clients[c].selected}
             cl     == [c \in ClientId |-> IF clients[c] = None THEN None
                          ELSE [clients[c] EXCEPT !.selected = c \in ids]]
             on     == Emit(inbox, GetSocketIds(clients, ids \ before), <<SensorState(TRUE)>>)
             off    == Emit(on, GetSocketIds(clients, before \ ids), <<SensorState(FALSE)>>)
  <2>1. cl \in [ClientId -> ConnectionInfo \cup {None}]
    <3>1. ASSUME NEW c \in ClientId, clients[c] # None
          PROVE  [clients[c] EXCEPT !.selected = c \in ids] \in ConnectionInfo
      <4>1. clients[c] \in ConnectionInfo /\ (c \in ids) \in BOOLEAN
        BY <3>1 DEF TypeOK
      <4> QED BY <4>1 DEF ConnectionInfo
    <3> QED BY <3>1
  <2>2. /\ <<SensorState(TRUE)>> \in Seq(Message)
        /\ <<SensorState(FALSE)>> \in Seq(Message)
        /\ <<>> \in Seq(Message)
    BY NoticesTyped, ShortSeqs, EmptySeq
  <2>3. on \in [Socket -> Seq(Message)]
    BY <2>2, EmitTyped DEF TypeOK
  <2> HIDE DEF on
  <2>4. off \in [Socket -> Seq(Message)]
    BY <2>2, <2>3, EmitTyped
  <2> HIDE DEF off, cl
  <2>5. Broadcast(off, cl, managers, <<>>) \in [Socket -> Seq(Message)]
    BY <2>1, <2>2, <2>4, BroadcastTyped
  <2>6. clients' = cl /\ inbox' = Broadcast(off, cl, managers, <<>>)
    BY <1>13 DEF SelectClients, cl, off, on
  <2> QED BY <1>13, <2>1, <2>5, <2>6 DEF SelectClients, TypeOK, tabVars, mgrVars
<1>14. CASE UNCHANGED vars
  BY <1>14 DEF TypeOK, vars, serverVars, tabVars, mgrVars
<1> QED
  BY <1>1, <1>2, <1>3, <1>4, <1>5, <1>6, <1>7, <1>8, <1>9, <1>10, <1>11, <1>12, <1>13, <1>14
  DEF Next, Connect, Fail, Disconnect

-----------------------------------------------------------------------------
(* The two maps, the grace timers and the sockets *)

\* What the registry promises beside the types.
Agreement == SocketsMatchRecords /\ TimersMatchGrace /\ UniqueSockets /\ OfflineIsDown

\* Opening a record on a fresh socket under a free id keeps the agreement.
LEMMA RegisterAgrees ==
  ASSUME RegistryInv, NEW t \in Tab, NEW s \in Socket, NEW c \in ClientId,
         clients[c] = None, Unreferenced(s), RegisterAs(t, s, c)
  PROVE  Agreement'
<1> DEFINE inst == IF DeviceOf[t] = None THEN None ELSE InstanceOf[t]
<1>1. /\ clients' = [clients EXCEPT ![c] = NewInfo(s, inst)]
      /\ idOf' = [idOf EXCEPT ![s] = c]
      /\ conn' = [conn EXCEPT ![s] = "open"]
      /\ graceTimers' = graceTimers
  BY DEF RegisterAs
<1>2. /\ NewInfo(s, inst) # None
      /\ NewInfo(s, inst).sock = s /\ NewInfo(s, inst).connected
  <2>1. NewInfo(s, inst) \in ConnectionInfo
    BY RegistryAssumption DEF RegistryAssumption, NewInfo, ConnectionInfo
  <2> QED BY <2>1, NoneIsNothing DEF NewInfo
<1>3. \A b \in ClientId : clients[b] # None => clients[b].sock # s
  BY DEF Unreferenced
<1> HIDE DEF inst
<1> USE DEF RegistryInv, TypeOK, Agreement
<1>4. SocketsMatchRecords'
  BY <1>1, <1>2, <1>3, IdsDisjoint DEF SocketsMatchRecords
<1>5. TimersMatchGrace'
  BY <1>1, <1>2 DEF TimersMatchGrace
<1>6. UniqueSockets'
  BY <1>1, <1>2, <1>3 DEF UniqueSockets
<1>7. OfflineIsDown'
  BY <1>1, <1>2, <1>3 DEF OfflineIsDown
<1> QED BY <1>4, <1>5, <1>6, <1>7

\* A takeover moves the record to the fresh socket: the replaced socket is
\* held by no other record, so unmapping it strands nobody.
LEMMA TakeOverAgrees ==
  ASSUME RegistryInv, NEW t \in Tab, NEW s \in Socket, TakeOver(t, s)
  PROVE  Agreement'
<1> DEFINE c == stored[t]
           old == clients[c].sock
<1>1. c \in ClientId /\ clients[c] # None /\ clients[c] \in ConnectionInfo /\ old \in Socket
  <2>1. c \in ClientId /\ clients[c] # None
    BY DEF TakeOver, SameInstance, RegistryInv, TypeOK
  <2> QED BY <2>1 DEF RegistryInv, TypeOK, ConnectionInfo
<1>2. /\ clients' = [clients EXCEPT ![c] = [clients[c] EXCEPT !.sock = s, !.connected = TRUE]]
      /\ idOf' = [idOf EXCEPT ![old] = None, ![s] = c]
      /\ conn' = [conn EXCEPT ![old] = IF @ = "closed" THEN @ ELSE "lost", ![s] = "open"]
      /\ graceTimers' = graceTimers \ {c}
  BY <1>1 DEF TakeOver, Remap, ClearGraceTimer, RegistryInv, TypeOK
<1>3. /\ clients'[c] \in ConnectionInfo
      /\ clients'[c].sock = s /\ clients'[c].connected
      /\ \A b \in ClientId \ {c} : clients'[b] = clients[b]
  BY <1>1, <1>2 DEF RegistryInv, TypeOK, ConnectionInfo
<1>4. clients'[c] # None
  BY <1>3, NoneIsNothing
<1>5. /\ \A b \in ClientId : clients[b] # None => clients[b].sock # s
      /\ \A b \in ClientId \ {c} : clients[b] # None => clients[b].sock # old
  BY <1>1 DEF TakeOver, Unreferenced, RegistryInv, UniqueSockets
<1>6. \A b \in ClientId : clients[b] # None => clients[b].sock \in Socket
  BY DEF RegistryInv, TypeOK, ConnectionInfo
<1>11. /\ idOf'[s] = c
       /\ \A r \in Socket \ {s} : idOf'[r] = IF r = old THEN None ELSE idOf[r]
  BY <1>1, <1>2 DEF RegistryInv, TypeOK
<1> HIDE DEF c, old
<1> USE DEF RegistryInv, TypeOK, Agreement
<1>7. SocketsMatchRecords'
  <2>1. ASSUME NEW b \in ClientId, clients'[b] # None
        PROVE  clients'[b].connected <=> idOf'[clients'[b].sock] = b
    <3>1. CASE b = c
      BY <3>1, <1>3, <1>11
    <3>2. CASE b # c
      BY <2>1, <3>2, <1>3, <1>5, <1>6, <1>11 DEF SocketsMatchRecords
    <3> QED BY <3>1, <3>2
  <2>2. ASSUME NEW r \in Socket, idOf'[r] \in ClientId
        PROVE  clients'[idOf'[r]] # None /\ clients'[idOf'[r]].sock = r
    <3>1. CASE r = s
      BY <3>1, <1>3, <1>4, <1>11
    <3>2. CASE r # s
      <4>1. idOf'[r] = idOf[r] /\ r # old
        BY <2>2, <3>2, <1>11, IdsDisjoint
      <4>2. clients[idOf[r]].sock = r /\ clients[idOf[r]] # None /\ idOf[r] # c
        BY <2>2, <4>1 DEF SocketsMatchRecords, old
      <4> QED BY <2>2, <4>1, <4>2, <1>3
    <3> QED BY <3>1, <3>2
  <2> QED BY <2>1, <2>2 DEF SocketsMatchRecords
<1>8. TimersMatchGrace'
  BY <1>1, <1>2, <1>3, <1>4 DEF TimersMatchGrace
<1>9. UniqueSockets'
  <2> SUFFICES ASSUME NEW a \in ClientId, NEW b \in ClientId, clients'[a] # None,
                      clients'[b] # None, clients'[a].sock = clients'[b].sock
               PROVE  a = b
    BY DEF UniqueSockets
  <2>1. a # c \/ b # c => a # c /\ b # c
    BY <1>3, <1>5
  <2> QED BY <2>1, <1>3 DEF UniqueSockets
<1>10. OfflineIsDown'
  BY <1>1, <1>2, <1>3, <1>4, <1>5, <1>6 DEF OfflineIsDown
<1> QED BY <1>7, <1>8, <1>9, <1>10

\* A disconnect marks or purges the record its socket holds, and no other.
LEMMA DisconnectAgrees ==
  ASSUME RegistryInv, NEW s \in Socket, DisconnectClient(s)
  PROVE  Agreement'
<1> DEFINE c == idOf[s]
<1>1. /\ c \in ClientId /\ clients[c] # None /\ clients[c].sock = s
      /\ clients[c] \in ConnectionInfo /\ conn[s] = "lost"
  BY DEF DisconnectClient, RegistryInv, TypeOK, SocketsMatchRecords
<1>2. /\ idOf' = [idOf EXCEPT ![s] = None]
      /\ conn' = [conn EXCEPT ![s] = "closed"]
  BY DEF DisconnectClient
<1>3. CASE Grace
  <2>1. /\ clients' = [clients EXCEPT ![c] = [clients[c] EXCEPT !.connected = FALSE]]
        /\ graceTimers' = graceTimers \cup {c}
    BY <1>1, <1>3 DEF DisconnectClient, ScheduleGracePurge, RegistryInv, TypeOK
  <2>2. /\ clients'[c] \in ConnectionInfo /\ clients'[c].sock = s /\ ~clients'[c].connected
        /\ \A b \in ClientId \ {c} : clients'[b] = clients[b]
    BY <1>1, <2>1 DEF RegistryInv, TypeOK, ConnectionInfo
  <2>3. clients'[c] # None
    BY <2>2, NoneIsNothing
  <2>4. \A b \in ClientId : clients[b] # None => clients[b].sock \in Socket
    BY DEF RegistryInv, TypeOK, ConnectionInfo
  <2> HIDE DEF c
  <2> USE DEF RegistryInv, TypeOK, Agreement
  <2>5. SocketsMatchRecords'
    <3>1. ASSUME NEW b \in ClientId, clients'[b] # None
          PROVE  clients'[b].connected <=> idOf'[clients'[b].sock] = b
      <4>1. CASE b = c
        BY <4>1, <1>2, <2>2, IdsDisjoint
      <4>2. CASE b # c
        BY <3>1, <4>2, <1>1, <1>2, <2>2, <2>4 DEF SocketsMatchRecords, UniqueSockets
      <4> QED BY <4>1, <4>2
    <3>2. ASSUME NEW r \in Socket, idOf'[r] \in ClientId
          PROVE  clients'[idOf'[r]] # None /\ clients'[idOf'[r]].sock = r
      <4>1. r # s /\ idOf'[r] = idOf[r]
        BY <3>2, <1>2, IdsDisjoint
      <4>2. clients[idOf[r]] # None /\ clients[idOf[r]].sock = r /\ idOf[r] # c
        BY <3>2, <4>1, <1>1 DEF SocketsMatchRecords
      <4> QED BY <3>2, <4>1, <4>2, <2>2
    <3> QED BY <3>1, <3>2 DEF SocketsMatchRecords
  <2>6. TimersMatchGrace'
    BY <1>1, <2>1, <2>2, <2>3 DEF TimersMatchGrace
  <2>7. UniqueSockets'
    <3>1. \A b \in ClientId : clients'[b] # None =>
             clients[b] # None /\ clients'[b].sock = clients[b].sock
      BY <1>1, <2>2
    <3> QED BY <3>1 DEF UniqueSockets
  <2>8. OfflineIsDown'
    BY <1>1, <1>2, <2>2, <2>3, <2>4 DEF OfflineIsDown
  <2> QED BY <2>5, <2>6, <2>7, <2>8
<1>4. CASE ~Grace
  <2>1. /\ clients' = [clients EXCEPT ![c] = None]
        /\ graceTimers' = graceTimers \ {c}
    BY <1>1, <1>4 DEF DisconnectClient, ScheduleGracePurge, Purge
  <2>2. \A b \in ClientId : clients[b] # None => clients[b].sock \in Socket
    BY DEF RegistryInv, TypeOK, ConnectionInfo
  <2> HIDE DEF c
  <2> USE DEF RegistryInv, TypeOK, Agreement
  <2>3. SocketsMatchRecords'
    BY <1>1, <1>2, <2>1, <2>2, IdsDisjoint DEF SocketsMatchRecords, UniqueSockets, c
  <2>4. TimersMatchGrace'
    BY <1>1, <2>1 DEF TimersMatchGrace
  <2>5. UniqueSockets'
    BY <1>1, <2>1 DEF UniqueSockets
  <2>6. OfflineIsDown'
    BY <1>1, <1>2, <2>1, <2>2 DEF OfflineIsDown
  <2> QED BY <2>3, <2>4, <2>5, <2>6
<1> QED BY <1>3, <1>4

\* The grace timer purges only a record no socket maps to.
LEMMA GraceAgrees ==
  ASSUME RegistryInv, NEW c \in ClientId, GraceExpires(c)
  PROVE  Agreement'
<1> USE DEF RegistryInv, TypeOK, Agreement
<1>1. /\ clients[c] # None /\ ~clients[c].connected
      /\ graceTimers' = graceTimers \ {c}
      /\ idOf' = idOf /\ conn' = conn
  BY DEF GraceExpires, TimersMatchGrace
<1>2. clients' = [clients EXCEPT ![c] = None]
  BY <1>1 DEF GraceExpires, Purge
<1>3. SocketsMatchRecords'
  BY <1>1, <1>2 DEF SocketsMatchRecords
<1>4. TimersMatchGrace'
  BY <1>1, <1>2 DEF TimersMatchGrace
<1>5. UniqueSockets'
  BY <1>2 DEF UniqueSockets
<1>6. OfflineIsDown'
  BY <1>1, <1>2 DEF OfflineIsDown
<1> QED BY <1>3, <1>4, <1>5, <1>6

\* A selection changes neither the socket nor the presence of any record.
LEMMA SelectAgrees ==
  ASSUME RegistryInv, NEW m \in Manager, NEW ids \in SUBSET ClientId, SelectClients(m, ids)
  PROVE  Agreement'
<1>1. /\ clients' = [c \in ClientId |-> IF clients[c] = None THEN None
                       ELSE [clients[c] EXCEPT !.selected = c \in ids]]
      /\ graceTimers' = graceTimers /\ idOf' = idOf /\ conn' = conn
  BY DEF SelectClients
<1>2. ASSUME NEW c \in ClientId
      PROVE  /\ clients[c] = None => clients'[c] = None
             /\ clients[c] # None => /\ clients'[c] # None
                                     /\ clients'[c].sock = clients[c].sock
                                     /\ clients'[c].connected = clients[c].connected
  <2>1. CASE clients[c] # None
    <3>1. clients[c] \in ConnectionInfo /\ (c \in ids) \in BOOLEAN
      BY <2>1 DEF RegistryInv, TypeOK
    <3>2. clients'[c] = [clients[c] EXCEPT !.selected = c \in ids]
      BY <1>1, <2>1
    <3>3. /\ clients'[c] \in ConnectionInfo
          /\ clients'[c].sock = clients[c].sock
          /\ clients'[c].connected = clients[c].connected
      BY <3>1, <3>2 DEF ConnectionInfo
    <3> QED BY <2>1, <3>3, NoneIsNothing
  <2> QED BY <1>1, <2>1
<1>3. \A s \in Socket : idOf'[s] = idOf[s] /\ conn'[s] = conn[s]
  BY <1>1
<1> USE DEF RegistryInv, Agreement
<1>4. SocketsMatchRecords'
  BY <1>1, <1>2 DEF SocketsMatchRecords
<1>5. TimersMatchGrace'
  BY <1>1, <1>2 DEF TimersMatchGrace
<1>6. UniqueSockets'
  BY <1>2 DEF UniqueSockets
<1>7. OfflineIsDown'
  BY <1>1, <1>2 DEF OfflineIsDown
<1> QED BY <1>4, <1>5, <1>6, <1>7

\* Steps that touch none of the records and close but never open a connection.
LEMMA BystanderAgrees ==
  ASSUME RegistryInv, UNCHANGED <<clients, graceTimers>>,
         \A s \in Socket : idOf[s] \in ClientId \/ idOf'[s] \in ClientId => idOf'[s] = idOf[s],
         \A c \in ClientId : clients[c] # None =>
            (conn'[clients[c].sock] = "open" => conn[clients[c].sock] = "open")
  PROVE  Agreement'
<1> USE DEF RegistryInv, Agreement
<1>1. \A c \in ClientId : clients[c] # None => clients[c].sock \in Socket
  BY DEF TypeOK, ConnectionInfo
<1>2. SocketsMatchRecords'
  BY <1>1 DEF SocketsMatchRecords
<1>3. TimersMatchGrace' /\ UniqueSockets' /\ OfflineIsDown'
  BY DEF TimersMatchGrace, UniqueSockets, OfflineIsDown
<1> QED BY <1>2, <1>3

-----------------------------------------------------------------------------
(* The invariant and what follows from it *)

\* Initially there are no records, no mapped sockets and no timers.
LEMMA InitRegistry == Init => RegistryInv
<1> SUFFICES ASSUME Init PROVE RegistryInv
  OBVIOUS
<1>1. SocketsMatchRecords
  BY IdsDisjoint DEF Init, SocketsMatchRecords
<1>2. TimersMatchGrace /\ UniqueSockets /\ OfflineIsDown
  BY DEF Init, TimersMatchGrace, UniqueSockets, OfflineIsDown
<1> QED BY <1>1, <1>2, InitTyped DEF RegistryInv

\* Every step of the system keeps it.
LEMMA StepRegistry == RegistryInv /\ [Next]_vars => RegistryInv'
<1> SUFFICES ASSUME RegistryInv, [Next]_vars PROVE Agreement'
  BY StepTyped DEF RegistryInv, Agreement
<1>0. \A c \in ClientId : clients[c] # None => clients[c].sock \in Socket
  BY DEF RegistryInv, TypeOK, ConnectionInfo
<1>1. ASSUME NEW t \in Tab, NEW s \in Socket, ConnectNew(t, s)
      PROVE  Agreement'
  <2>1. PICK c \in ClientId : clients[c] = None /\ RegisterAs(t, s, c)
    <3>1. CASE \E c \in FreshIds : RegisterAs(t, s, c)
      BY <3>1 DEF FreshIds, ClientId, IsClientIdInUse
    <3>2. CASE DeviceOf[t] # None /\ ~IsClientIdInUse(stored[t]) /\ RegisterAs(t, s, stored[t])
      <4>1. stored[t] \in ClientId
        BY <3>2 DEF RegistryInv, TypeOK
      <4> QED BY <3>2, <4>1 DEF IsClientIdInUse
    <3>3. CASE DeviceOf[t] # None /\ \E c \in AllocateClientId(DeviceOf[t]) : RegisterAs(t, s, c)
      <4>1. DeviceOf[t] \in Device
        BY <3>3, RegistryAssumption DEF RegistryAssumption
      <4> QED BY <3>3, <4>1, AllocatedIsFree
    <3> QED BY <1>1, <3>1, <3>2, <3>3 DEF ConnectNew
  <2> QED BY <1>1, <2>1, RegisterAgrees DEF ConnectNew
<1>2. ASSUME NEW t \in Tab, NEW s \in Socket, TakeOver(t, s)
      PROVE  Agreement'
  BY <1>2, TakeOverAgrees
<1>3. ASSUME NEW s \in Socket, Cut(s)
      PROVE  Agreement'
  BY <1>0, <1>3, BystanderAgrees DEF Cut, serverVars, RegistryInv, TypeOK
<1>4. ASSUME NEW t \in Tab, Reload(t)
      PROVE  Agreement'
  BY <1>0, <1>4, BystanderAgrees DEF Reload, serverVars, RegistryInv, TypeOK
<1>5. ASSUME NEW t \in Tab, TabStep(t)
      PROVE  Agreement'
  BY <1>0, <1>5, BystanderAgrees DEF TabStep, ReceiveTab, NoticeClosed, serverVars
<1>6. ASSUME NEW s \in Socket, DisconnectClient(s)
      PROVE  Agreement'
  BY <1>6, DisconnectAgrees
<1>7. ASSUME NEW s \in Socket, DisconnectManager(s)
      PROVE  Agreement'
  <2>1. \A r \in Socket : idOf[r] \in ClientId \/ idOf'[r] \in ClientId => idOf'[r] = idOf[r]
    BY <1>7, IdsDisjoint DEF DisconnectManager, RegistryInv, TypeOK
  <2>2. \A r \in Socket : conn'[r] = "open" => conn[r] = "open"
    BY <1>7 DEF DisconnectManager, RegistryInv, TypeOK
  <2> QED BY <1>0, <1>7, <2>1, <2>2, BystanderAgrees DEF DisconnectManager
<1>8. ASSUME NEW s \in Socket, DisconnectUnmapped(s)
      PROVE  Agreement'
  BY <1>0, <1>8, BystanderAgrees DEF DisconnectUnmapped, serverVars, RegistryInv, TypeOK
<1>9. ASSUME NEW c \in ClientId, GraceExpires(c)
      PROVE  Agreement'
  BY <1>9, GraceAgrees
<1>10. ASSUME ServerRestart
       PROVE  Agreement'
  BY <1>10, IdsDisjoint
  DEF ServerRestart, Agreement, SocketsMatchRecords, TimersMatchGrace, UniqueSockets, OfflineIsDown
<1>11. ASSUME NEW m \in Manager, NEW s \in Socket, NEW i \in ManagerId, ConnectManager(m, s, i)
       PROVE  Agreement'
  <2>1. \A r \in Socket : idOf[r] \in ClientId \/ idOf'[r] \in ClientId => idOf'[r] = idOf[r]
    BY <1>11, IdsDisjoint DEF ConnectManager, Unreferenced, RegistryInv, TypeOK
  <2>2. \A c \in ClientId : clients[c] # None =>
           (conn'[clients[c].sock] = "open" => conn[clients[c].sock] = "open")
    BY <1>0, <1>11 DEF ConnectManager, Unreferenced, RegistryInv, TypeOK
  <2> QED BY <1>11, <2>1, <2>2, BystanderAgrees DEF ConnectManager
<1>12. ASSUME NEW m \in Manager, ManagerStep(m)
       PROVE  Agreement'
  BY <1>0, <1>12, BystanderAgrees DEF ManagerStep, ReceiveManager, NoticeManagerClosed, serverVars
<1>13. ASSUME NEW m \in Manager, NEW ids \in SUBSET ClientId, SelectClients(m, ids)
       PROVE  Agreement'
  BY <1>13, SelectAgrees
<1>14. CASE UNCHANGED vars
  BY <1>14, BystanderAgrees DEF vars, serverVars
<1> QED
  BY <1>1, <1>2, <1>3, <1>4, <1>5, <1>6, <1>7, <1>8, <1>9, <1>10, <1>11, <1>12, <1>13, <1>14
  DEF Next, Connect, Fail, Disconnect

\* The registry's inductive invariant holds in every reachable state, for any
\* number of tabs, managers, sockets, devices and restarts.
THEOREM RegistryInvariant == Spec => []RegistryInv
BY InitRegistry, StepRegistry, PTL DEF Spec

\* Type correctness.
THEOREM TypeCorrect == Spec => []TypeOK
BY RegistryInvariant, PTL DEF RegistryInv

\* The client records and the socket map always agree: what is sent to a
\* client reaches the tab that holds its id, and nobody else.
THEOREM MapsAgree == Spec => []SocketsMatchRecords
BY RegistryInvariant, PTL DEF RegistryInv

\* A grace timer is armed exactly for the disconnected records.
THEOREM TimersAgree == Spec => []TimersMatchGrace
BY RegistryInvariant, PTL DEF RegistryInv

\* Only a restart drops the record of a client whose connection is up: a
\* timer that fires late, or the late disconnect of a replaced socket, purges
\* nobody that is back.
THEOREM LiveClientsKept == Spec => NoLiveClientPurged
<1> DEFINE Kept == restarts' = restarts =>
             \A c \in ClientId :
               (clients[c] # None /\ conn[clients[c].sock] = "open") => clients'[c] # None
<1>1. RegistryInv /\ [Next]_vars => [Kept]_vars
  <2> SUFFICES ASSUME RegistryInv, Next, restarts' = restarts,
                      NEW c \in ClientId, clients[c] # None, conn[clients[c].sock] = "open"
               PROVE  clients'[c] # None
    OBVIOUS
  <2>0. RegistryInv'
    BY StepRegistry
  <2>1. ~ServerRestart
    BY DEF ServerRestart, RegistryInv, TypeOK
  <2>2. ASSUME NEW s \in Socket, NEW b \in ClientId, idOf'[s] = b,
               \A d \in ClientId \ {b} : clients'[d] = clients[d]
        PROVE  clients'[c] # None
    BY <2>0, <2>2 DEF RegistryInv, SocketsMatchRecords
  <2>3. ASSUME NEW t \in Tab, NEW s \in Socket, ConnectNew(t, s)
        PROVE  clients'[c] # None
    <3>1. ASSUME NEW b \in ClientId, RegisterAs(t, s, b)
          PROVE  clients'[c] # None
      <4>1. idOf'[s] = b /\ \A d \in ClientId \ {b} : clients'[d] = clients[d]
        BY <3>1 DEF RegisterAs, RegistryInv, TypeOK
      <4> QED BY <2>2, <4>1
    <3>2. FreshIds \subseteq ClientId
      BY DEF FreshIds, ClientId
    <3>3. DeviceOf[t] # None =>
             /\ stored[t] \in ClientId
             /\ AllocateClientId(DeviceOf[t]) \subseteq ClientId
      BY AllocatedIsFree, RegistryAssumption DEF RegistryInv, TypeOK, RegistryAssumption
    <3> QED BY <2>3, <3>1, <3>2, <3>3 DEF ConnectNew
  <2>4. ASSUME NEW t \in Tab, NEW s \in Socket, TakeOver(t, s)
        PROVE  clients'[c] # None
    <3>1. stored[t] \in ClientId
      BY <2>4 DEF TakeOver, RegistryInv, TypeOK
    <3>2. idOf'[s] = stored[t] /\ \A d \in ClientId \ {stored[t]} : clients'[d] = clients[d]
      BY <2>4 DEF TakeOver, Remap, RegistryInv, TypeOK
    <3> QED BY <2>2, <3>1, <3>2
  <2>5. ASSUME NEW s \in Socket, DisconnectClient(s)
        PROVE  clients'[c] # None
    <3>1. idOf[s] \in ClientId /\ clients[idOf[s]].sock = s /\ conn[s] = "lost"
      BY <2>5 DEF DisconnectClient, RegistryInv, SocketsMatchRecords
    <3>2. c # idOf[s]
      BY <3>1
    <3> QED BY <2>5, <3>1, <3>2 DEF DisconnectClient, Purge, RegistryInv, TypeOK
  <2>6. ASSUME NEW b \in ClientId, GraceExpires(b)
        PROVE  clients'[c] # None
    BY <2>6 DEF GraceExpires, Purge, RegistryInv, TypeOK, OfflineIsDown, TimersMatchGrace
  <2>7. ASSUME NEW m \in Manager, NEW ids \in SUBSET ClientId, SelectClients(m, ids)
        PROVE  clients'[c] # None
    <3>1. clients'[c] = [clients[c] EXCEPT !.selected = c \in ids]
      BY <2>7 DEF SelectClients
    <3>2. clients[c] \in ConnectionInfo /\ (c \in ids) \in BOOLEAN
      BY DEF RegistryInv, TypeOK
    <3>3. clients'[c] \in ConnectionInfo
      BY <3>1, <3>2 DEF ConnectionInfo
    <3> QED BY <3>3, NoneIsNothing
  <2>8. ASSUME UNCHANGED clients
        PROVE  clients'[c] # None
    BY <2>8
  <2> QED
    BY <2>1, <2>3, <2>4, <2>5, <2>6, <2>7, <2>8
    DEF Next, Connect, Fail, Disconnect, TabStep, ManagerStep, ConnectManager, Cut, Reload,
        DisconnectManager, DisconnectUnmapped, ReceiveTab, NoticeClosed, ReceiveManager,
        NoticeManagerClosed, serverVars
<1> QED BY <1>1, RegistryInvariant, PTL DEF Spec, NoLiveClientPurged

-----------------------------------------------------------------------------
(* What the pages know *)

\* Once the messages q are handled, a tab whose sensors are in state cur has
\* them in state b: the last sensor message decides.
Tells(q, cur, b) ==
  /\ (\A i \in 1..Len(q) : q[i].type # "sensor") => cur = b
  /\ \A i \in 1..Len(q) :
       (q[i].type = "sensor" /\ \A j \in (i + 1)..Len(q) : q[j].type # "sensor")
         => q[i].active = b

\* A manager that shows v, with the messages q on their way, will show cl: the
\* last message is the list of cl.
Shows(q, v, cl) ==
  IF q = <<>> THEN v = GetAllClients(cl) ELSE q[Len(q)] = List(GetAllClients(cl))

\* No two pages are on one socket.
PagesApart ==
  /\ \A t, u \in Tab : (tabSock[t] # None /\ tabSock[t] = tabSock[u]) => t = u
  /\ \A m, n \in Manager : (mgrSock[m] # None /\ mgrSock[m] = mgrSock[n]) => m = n
  /\ \A t \in Tab, m \in Manager : tabSock[t] # None => tabSock[t] # mgrSock[m]

\* A tab whose connection is up has a record, and what it holds and what is on
\* its way agree with the record's selection.
TabInv(t) ==
  LET s == tabSock[t]
  IN (s # None /\ conn[s] = "open")
       => /\ idOf[s] \in ClientId
          /\ Tells(inbox[s], sensors[t], clients[idOf[s]].selected)

\* A manager page whose connection is up is registered as a manager, and the
\* one its id stands for has the registry as its last message.
Registers(m) ==
  LET s == mgrSock[m]
  IN s # None /\ conn[s] = "open" /\ idOf[s] \in ManagerId /\ managers[idOf[s]] = s
ManagerInv(m) == Registers(m) => Shows(inbox[mgrSock[m]], view[m], clients)

PageInv ==
  /\ PagesApart
  /\ \A t \in Tab : TabInv(t)
  /\ \A m \in Manager : ManagerInv(m)

\* Messages that are no sensor message leave what a tab is told.
LEMMA TellsMore ==
  ASSUME NEW q \in Seq(Message), NEW more \in Seq(Message), NEW cur, NEW b,
         Tells(q, cur, b), \A i \in 1..Len(more) : more[i].type # "sensor"
  PROVE  Tells(q \o more, cur, b)
<1> DEFINE r == q \o more
<1>1. /\ Len(q) \in Nat /\ Len(more) \in Nat
      /\ Len(r) = Len(q) + Len(more)
      /\ \A i \in 1..Len(q) : r[i] = q[i]
      /\ \A i \in 1..Len(more) : r[Len(q) + i] = more[i]
  BY ConcatProperties, LenProperties
<1>2. \A i \in 1..Len(q) : i \in 1..Len(r)
  BY <1>1
<1>3. \A i \in 1..Len(r) : i \in 1..Len(q) \/ (i - Len(q)) \in 1..Len(more)
  BY <1>1
<1>4. \A i \in 1..Len(r) : r[i].type = "sensor" => i \in 1..Len(q)
  <2> SUFFICES ASSUME NEW i \in 1..Len(r), i \notin 1..Len(q)
               PROVE  r[i].type # "sensor"
    OBVIOUS
  <2>1. (i - Len(q)) \in 1..Len(more) /\ Len(q) + (i - Len(q)) = i
    BY <1>1, <1>3
  <2>2. r[i] = more[i - Len(q)]
    BY <1>1, <2>1
  <2> QED BY <2>1, <2>2
<1> HIDE DEF r
<1>5. (\A i \in 1..Len(r) : r[i].type # "sensor") => cur = b
  BY <1>1, <1>2 DEF Tells
<1>6. ASSUME NEW i \in 1..Len(r), r[i].type = "sensor",
             \A j \in (i + 1)..Len(r) : r[j].type # "sensor"
      PROVE  r[i].active = b
  <2>1. i \in 1..Len(q) /\ r[i] = q[i]
    BY <1>1, <1>4, <1>6
  <2>2. \A j \in (i + 1)..Len(q) : j \in (i + 1)..Len(r) /\ j \in 1..Len(q)
    BY <1>1, <2>1
  <2>3. \A j \in (i + 1)..Len(q) : q[j].type # "sensor"
    BY <1>1, <1>6, <2>2
  <2> QED BY <1>6, <2>1, <2>3 DEF Tells
<1> QED BY <1>5, <1>6 DEF Tells, r

\* A sensor message at the end decides.
LEMMA TellsLast ==
  ASSUME NEW q \in Seq(Message), NEW cur, NEW b \in BOOLEAN
  PROVE  Tells(q \o <<SensorState(b)>>, cur, b)
<1> DEFINE r == q \o <<SensorState(b)>>
<1>1. /\ Len(q) \in Nat
      /\ Len(r) = Len(q) + 1
      /\ r[Len(r)] = SensorState(b)
  BY NoticesTyped, ConcatProperties, LenProperties
<1>2. r[Len(r)].type = "sensor" /\ r[Len(r)].active = b
  BY <1>1 DEF SensorState
<1> HIDE DEF r
<1>3. Len(r) \in 1..Len(r) /\ \A i \in 1..Len(r) : i # Len(r) => Len(r) \in (i + 1)..Len(r)
  BY <1>1
<1> QED BY <1>2, <1>3 DEF Tells, r

\* Handling the first message.
LEMMA TellsRead ==
  ASSUME NEW q \in Seq(Message), q # <<>>, NEW cur, NEW b, Tells(q, cur, b)
  PROVE  Tells(Tail(q), IF Head(q).type = "sensor" THEN Head(q).active ELSE cur, b)
<1> DEFINE r == Tail(q)
           now == IF Head(q).type = "sensor" THEN Head(q).active ELSE cur
<1>1. /\ Len(q) \in Nat \ {0}
      /\ Head(q) = q[1]
      /\ Len(r) = Len(q) - 1
      /\ \A i \in 1..Len(r) : r[i] = q[i + 1]
  BY HeadTailProperties, LenProperties, EmptySeq
<1> HIDE DEF r
<1>2. \A i \in 1..Len(r) : i + 1 \in 1..Len(q)
  BY <1>1
<1>3. \A j \in 2..Len(q) : (j - 1) \in 1..Len(r) /\ q[j] = r[j - 1]
  BY <1>1
<1>4. ASSUME \A i \in 1..Len(r) : r[i].type # "sensor"
      PROVE  now = b
  <2>1. \A j \in 2..Len(q) : q[j].type # "sensor"
    BY <1>3, <1>4
  <2>2. CASE q[1].type = "sensor"
    <3>1. 1 \in 1..Len(q) /\ \A j \in (1 + 1)..Len(q) : j \in 2..Len(q)
      BY <1>1
    <3>2. q[1].active = b
      BY <2>1, <2>2, <3>1 DEF Tells
    <3> QED BY <1>1, <2>2, <3>2
  <2>3. CASE q[1].type # "sensor"
    <3>1. \A i \in 1..Len(q) : i = 1 \/ i \in 2..Len(q)
      BY <1>1
    <3>2. cur = b
      BY <2>1, <2>3, <3>1 DEF Tells
    <3> QED BY <1>1, <2>3, <3>2
  <2> QED BY <2>2, <2>3
<1>5. ASSUME NEW i \in 1..Len(r), r[i].type = "sensor",
             \A j \in (i + 1)..Len(r) : r[j].type # "sensor"
      PROVE  r[i].active = b
  <2>1. i + 1 \in 1..Len(q) /\ r[i] = q[i + 1]
    BY <1>1, <1>2
  <2>2. \A j \in ((i + 1) + 1)..Len(q) : (j - 1) \in (i + 1)..Len(r) /\ q[j] = r[j - 1]
    BY <1>1
  <2>3. \A j \in ((i + 1) + 1)..Len(q) : q[j].type # "sensor"
    BY <1>5, <2>2
  <2> QED BY <1>5, <2>1, <2>3 DEF Tells
<1> QED BY <1>4, <1>5 DEF Tells, r

\* A short stream that ends with a sensor message.
LEMMA TellsPair ==
  ASSUME NEW a \in Message, NEW cur, NEW b \in BOOLEAN
  PROVE  Tells(<<a, SensorState(b)>>, cur, b)
<1>1. <<a>> \in Seq(Message) /\ <<a, SensorState(b)>> = <<a>> \o <<SensorState(b)>>
  BY NoticesTyped
<1> QED BY <1>1, TellsLast

\* Lists and notices are no sensor messages.
LEMMA NoSensor ==
  /\ \A v : List(v).type # "sensor"
  /\ \A c : Joined(c).type # "sensor" /\ Left(c).type # "sensor"
BY DEF List, Joined, Left

\* A broadcast leaves what a tab is told, and tells the managers the registry.
LEMMA BroadcastTells ==
  ASSUME NEW box \in [Socket -> Seq(Message)], NEW ms, NEW s \in Socket,
         NEW cl \in [ClientId -> ConnectionInfo \cup {None}],
         NEW notice \in Seq(Message),
         \A i \in 1..Len(notice) : notice[i].type # "sensor",
         NEW cur, NEW b, Tells(box[s], cur, b)
  PROVE  Tells(Broadcast(box, cl, ms, notice)[s], cur, b)
<1> DEFINE l    == List(GetAllClients(cl))
           more == notice \o <<l>>
<1>1. l \in Message /\ l.type # "sensor"
  BY ListTyped, NoSensor
<1> HIDE DEF l
<1>2. /\ more \in Seq(Message)
      /\ Len(notice) \in Nat
      /\ Len(more) = Len(notice) + 1
      /\ \A i \in 1..Len(notice) : more[i] = notice[i]
      /\ more[Len(more)] = l
  BY <1>1, ConcatProperties, LenProperties
<1>3. \A i \in 1..Len(more) : i \in 1..Len(notice) \/ i = Len(more)
  BY <1>2
<1>4. \A i \in 1..Len(more) : more[i].type # "sensor"
  BY <1>1, <1>2, <1>3
<1>5. Broadcast(box, cl, ms, notice)[s] \in {box[s], box[s] \o more}
  BY DEF Broadcast, Emit, l
<1> HIDE DEF more
<1> QED BY <1>2, <1>4, <1>5, TellsMore

LEMMA BroadcastShows ==
  ASSUME NEW box \in [Socket -> Seq(Message)], NEW ms, NEW s \in Socket,
         NEW cl \in [ClientId -> ConnectionInfo \cup {None}],
         NEW notice \in Seq(Message), NEW v,
         s \in GetAllManagerSocketIds(ms), conn[s] = "open"
  PROVE  Shows(Broadcast(box, cl, ms, notice)[s], v, cl)
<1> DEFINE l    == List(GetAllClients(cl))
           more == notice \o <<l>>
           r    == box[s] \o more
<1>1. l \in Message
  BY ListTyped
<1>2. Broadcast(box, cl, ms, notice)[s] = r
  BY DEF Broadcast, Emit
<1> HIDE DEF l
<1>3. /\ more \in Seq(Message)
      /\ Len(notice) \in Nat
      /\ Len(more) = Len(notice) + 1
      /\ more[Len(more)] = l
  BY <1>1, ConcatProperties, LenProperties
<1> HIDE DEF more
<1>4. /\ Len(box[s]) \in Nat
      /\ Len(r) = Len(box[s]) + Len(more)
      /\ r[Len(box[s]) + Len(more)] = more[Len(more)]
  <2>1. box[s] \in Seq(Message) /\ Len(more) \in 1..Len(more)
    BY <1>3
  <2> QED BY <1>3, <2>1, ConcatProperties, LenProperties
<1>5. r # <<>> /\ r[Len(r)] = l
  BY <1>3, <1>4
<1> QED BY <1>2, <1>5 DEF Shows, l

\* The two notices that precede a broadcast, and none at all.
LEMMA QuietNotices ==
  /\ <<>> \in Seq(Message) /\ \A i \in 1..Len(<<>>) : <<>>[i].type # "sensor"
  /\ \A c \in ClientId :
       /\ <<Joined(c)>> \in Seq(Message)
       /\ \A i \in 1..Len(<<Joined(c)>>) : <<Joined(c)>>[i].type # "sensor"
       /\ <<Left(c)>> \in Seq(Message)
       /\ \A i \in 1..Len(<<Left(c)>>) : <<Left(c)>>[i].type # "sensor"
BY NoticesTyped, NoSensor, EmptySeq

\* A manager that a broadcast reaches will show the registry it announces.
LEMMA ManagerTold ==
  ASSUME RegistryInv, NEW m \in Manager, NEW box \in [Socket -> Seq(Message)],
         NEW cl \in [ClientId -> ConnectionInfo \cup {None}],
         NEW notice \in Seq(Message),
         Registers(m), clients' = cl, mgrSock'[m] = mgrSock[m],
         inbox'[mgrSock[m]] = Broadcast(box, cl, managers, notice)[mgrSock[m]]
  PROVE  ManagerInv(m)'
<1> DEFINE s == mgrSock[m]
<1>1. s \in Socket /\ conn[s] = "open"
  BY DEF Registers, RegistryInv, TypeOK
<1>2. s \in GetAllManagerSocketIds(managers)
  BY <1>1, NoneIsNothing DEF Registers, GetAllManagerSocketIds
<1>3. Shows(inbox'[s], view'[m], cl)
  BY <1>1, <1>2, BroadcastShows
<1> QED BY <1>3 DEF ManagerInv

\* The socket of a tab whose connection is up is the one its record holds.
LEMMA TabHasRecord ==
  ASSUME RegistryInv, PageInv, NEW t \in Tab, tabSock[t] # None, conn[tabSock[t]] = "open"
  PROVE  /\ tabSock[t] \in Socket
         /\ idOf[tabSock[t]] \in ClientId
         /\ clients[idOf[tabSock[t]]] # None
         /\ clients[idOf[tabSock[t]]] \in ConnectionInfo
         /\ clients[idOf[tabSock[t]]].sock = tabSock[t]
         /\ clients[idOf[tabSock[t]]].connected
         /\ Tells(inbox[tabSock[t]], sensors[t], clients[idOf[tabSock[t]]].selected)
<1>1. tabSock[t] \in Socket /\ TabInv(t)
  BY DEF RegistryInv, TypeOK, PageInv
<1>2. /\ idOf[tabSock[t]] \in ClientId
      /\ Tells(inbox[tabSock[t]], sensors[t], clients[idOf[tabSock[t]]].selected)
  BY <1>1 DEF TabInv
<1>3. clients[idOf[tabSock[t]]] # None /\ clients[idOf[tabSock[t]]].sock = tabSock[t]
  BY <1>1, <1>2 DEF RegistryInv, SocketsMatchRecords
<1> QED BY <1>1, <1>2, <1>3 DEF RegistryInv, TypeOK, SocketsMatchRecords

\* A record opened on a fresh socket.
LEMMA RegisterPages ==
  ASSUME RegistryInv, PageInv, NEW t \in Tab, NEW s \in Socket, NEW c \in ClientId,
         tabSock[t] = None, clients[c] = None, Unreferenced(s), RegisterAs(t, s, c)
  PROVE  PageInv'
<1> DEFINE inst == IF DeviceOf[t] = None THEN None ELSE InstanceOf[t]
           cl   == [clients EXCEPT ![c] = NewInfo(s, inst)]
           told == Broadcast(inbox, cl, managers, <<Joined(c)>>)
<1>1. inst \in Instance \cup {None}
  BY RegistryAssumption DEF RegistryAssumption
<1>2. cl \in [ClientId -> ConnectionInfo \cup {None}]
  BY <1>1 DEF RegistryInv, TypeOK, NewInfo, ConnectionInfo
<1>3. /\ clients' = cl
      /\ idOf' = [idOf EXCEPT ![s] = c]
      /\ conn' = [conn EXCEPT ![s] = "open"]
      /\ tabSock' = [tabSock EXCEPT ![t] = s]
      /\ inbox' = [told EXCEPT ![s] = <<Registered(c), SensorState(FALSE)>>]
      /\ managers' = managers /\ sensors' = sensors /\ mgrSock' = mgrSock /\ view' = view
  BY DEF RegisterAs, mgrVars
<1>4. /\ inbox \in [Socket -> Seq(Message)]
      /\ told \in [Socket -> Seq(Message)]
  BY <1>2, QuietNotices, BroadcastTyped DEF RegistryInv, TypeOK
<1>5. cl[c].selected = FALSE /\ \A b \in ClientId \ {c} : cl[b] = clients[b]
  BY DEF NewInfo, RegistryInv, TypeOK
<1> HIDE DEF cl, told
<1>6. inbox'[s] = <<Registered(c), SensorState(FALSE)>> /\ \A r \in Socket \ {s} : inbox'[r] = told[r]
  BY <1>3, <1>4
<1>7. PagesApart'
  BY <1>3, NoneIsNothing DEF PageInv, PagesApart, Unreferenced, RegistryInv, TypeOK
<1>8. ASSUME NEW u \in Tab
      PROVE  TabInv(u)'
  <2>1. CASE u = t
    <3>1. tabSock'[u] = s /\ idOf'[s] = c /\ clients'[c].selected = FALSE
      BY <1>3, <1>5, <2>1 DEF RegistryInv, TypeOK
    <3>2. Tells(inbox'[s], sensors'[u], FALSE)
      BY <1>6, TellsPair, NoticesTyped
    <3> QED BY <3>1, <3>2 DEF TabInv
  <2>2. CASE u # t
    <3> DEFINE r == tabSock[u]
    <3>1. tabSock'[u] = r
      BY <1>3, <2>2 DEF RegistryInv, TypeOK
    <3>2. SUFFICES ASSUME r # None, conn'[r] = "open"
                   PROVE  idOf'[r] \in ClientId /\ Tells(inbox'[r], sensors'[u], clients'[idOf'[r]].selected)
      BY <3>1 DEF TabInv
    <3>3. r \in Socket /\ r # s
      BY <3>2 DEF Unreferenced, RegistryInv, TypeOK
    <3>4. conn[r] = "open" /\ idOf'[r] = idOf[r]
      BY <1>3, <3>2, <3>3 DEF RegistryInv, TypeOK
    <3>5. /\ idOf[r] \in ClientId /\ clients[idOf[r]] # None
          /\ Tells(inbox[r], sensors[u], clients[idOf[r]].selected)
      BY <3>2, <3>4, TabHasRecord
    <3>6. clients'[idOf[r]] = clients[idOf[r]]
      BY <1>3, <1>5, <3>5
    <3>7. Tells(told[r], sensors[u], clients[idOf[r]].selected)
      BY <1>2, <1>4, <3>3, <3>5, QuietNotices, BroadcastTells DEF told
    <3> QED BY <1>3, <1>6, <3>3, <3>4, <3>5, <3>6, <3>7
  <2> QED BY <2>1, <2>2
<1>9. ASSUME NEW m \in Manager
      PROVE  ManagerInv(m)'
  <2>1. SUFFICES ASSUME Registers(m)' PROVE ManagerInv(m)'
    BY DEF ManagerInv
  <2>2. mgrSock[m] \in Socket \ {s}
    BY <1>3, <2>1 DEF Registers, Unreferenced, RegistryInv, TypeOK
  <2>3. Registers(m)
    BY <1>3, <2>1, <2>2 DEF Registers, RegistryInv, TypeOK
  <2> QED BY <1>2, <1>3, <1>4, <1>6, <2>2, <2>3, ManagerTold, QuietNotices DEF told
<1> QED BY <1>7, <1>8, <1>9 DEF PageInv

\* A takeover repeats the selection to the tab, and leaves the tab that shared
\* the record without a connection.
LEMMA TakeOverPages ==
  ASSUME RegistryInv, PageInv, NEW t \in Tab, NEW s \in Socket, TakeOver(t, s)
  PROVE  PageInv'
<1> DEFINE c   == stored[t]
           old == clients[c].sock
           cl  == [clients EXCEPT ![c].sock = s, ![c].connected = TRUE]
           told == Broadcast(inbox, cl, managers, <<>>)
<1>1. /\ c \in ClientId /\ clients[c] # None /\ clients[c] \in ConnectionInfo
      /\ tabSock[t] = None /\ Unreferenced(s)
  BY DEF TakeOver, RegistryInv, TypeOK, SameInstance
<1>2. /\ old \in Socket /\ old # s
      /\ clients[c].selected \in BOOLEAN
  BY <1>1 DEF ConnectionInfo, Unreferenced
<1>3. cl \in [ClientId -> ConnectionInfo \cup {None}]
  <2>1. c \in ClientId /\ clients[c] \in ConnectionInfo /\ TypeOK
    BY <1>1 DEF RegistryInv
  <2> QED BY <2>1, NoneIsNothing DEF TypeOK, ConnectionInfo
<1>4. /\ clients' = cl
      /\ idOf' = [idOf EXCEPT ![old] = None, ![s] = c]
      /\ conn' = [conn EXCEPT ![old] = IF @ = "closed" THEN @ ELSE "lost", ![s] = "open"]
      /\ tabSock' = [tabSock EXCEPT ![t] = s]
      /\ inbox' = [told EXCEPT ![s] = <<Registered(c), SensorState(clients[c].selected)>>]
      /\ managers' = managers /\ sensors' = sensors /\ mgrSock' = mgrSock /\ view' = view
  BY DEF TakeOver, Remap, SensorOnConnect, mgrVars
<1>5. /\ inbox \in [Socket -> Seq(Message)]
      /\ told \in [Socket -> Seq(Message)]
  BY <1>3, QuietNotices, BroadcastTyped DEF RegistryInv, TypeOK
<1>6. cl[c].selected = clients[c].selected /\ \A b \in ClientId \ {c} : cl[b] = clients[b]
  BY <1>1 DEF ConnectionInfo, RegistryInv, TypeOK
<1> HIDE DEF cl, told, old
<1>7. /\ inbox'[s] = <<Registered(c), SensorState(clients[c].selected)>>
      /\ \A r \in Socket \ {s} : inbox'[r] = told[r]
  BY <1>4, <1>5
<1>8. /\ idOf'[s] = c /\ conn'[old] # "open"
      /\ \A r \in Socket \ {s, old} : idOf'[r] = idOf[r] /\ conn'[r] = conn[r]
  BY <1>2, <1>4 DEF RegistryInv, TypeOK
<1>9. PagesApart'
  BY <1>1, <1>4, NoneIsNothing DEF PageInv, PagesApart, Unreferenced, RegistryInv, TypeOK
<1>10. ASSUME NEW u \in Tab
       PROVE  TabInv(u)'
  <2>1. CASE u = t
    <3>1. tabSock'[u] = s /\ clients'[c].selected = clients[c].selected
      BY <1>4, <1>6, <2>1 DEF RegistryInv, TypeOK
    <3>2. Tells(inbox'[s], sensors'[u], clients[c].selected)
      BY <1>1, <1>2, <1>7, TellsPair, NoticesTyped
    <3> QED BY <1>1, <1>8, <3>1, <3>2 DEF TabInv
  <2>2. CASE u # t
    <3> DEFINE r == tabSock[u]
    <3>1. tabSock'[u] = r
      BY <1>4, <2>2 DEF RegistryInv, TypeOK
    <3>2. SUFFICES ASSUME r # None, conn'[r] = "open"
                   PROVE  idOf'[r] \in ClientId /\ Tells(inbox'[r], sensors'[u], clients'[idOf'[r]].selected)
      BY <3>1 DEF TabInv
    <3>3. r \in Socket /\ r # s /\ r # old
      BY <1>1, <1>8, <3>2 DEF Unreferenced, RegistryInv, TypeOK
    <3>4. conn[r] = "open" /\ idOf'[r] = idOf[r]
      BY <1>8, <3>2, <3>3
    <3>5. /\ idOf[r] \in ClientId /\ clients[idOf[r]].sock = r
          /\ Tells(inbox[r], sensors[u], clients[idOf[r]].selected)
      BY <3>2, <3>4, TabHasRecord
    <3>6. clients'[idOf[r]] = clients[idOf[r]]
      BY <1>4, <1>6, <3>3, <3>5 DEF old
    <3>7. Tells(told[r], sensors[u], clients[idOf[r]].selected)
      BY <1>3, <1>5, <3>3, <3>5, QuietNotices, BroadcastTells DEF told
    <3> QED BY <1>4, <1>7, <3>3, <3>4, <3>5, <3>6, <3>7
  <2> QED BY <2>1, <2>2
<1>11. ASSUME NEW m \in Manager
       PROVE  ManagerInv(m)'
  <2>1. SUFFICES ASSUME Registers(m)' PROVE ManagerInv(m)'
    BY DEF ManagerInv
  <2>2. mgrSock[m] \in Socket \ {s, old}
    BY <1>1, <1>4, <1>8, <2>1 DEF Registers, Unreferenced, RegistryInv, TypeOK
  <2>3. Registers(m)
    BY <1>4, <1>8, <2>1, <2>2 DEF Registers
  <2> QED BY <1>3, <1>4, <1>5, <1>7, <2>2, <2>3, ManagerTold, QuietNotices DEF told
<1> QED BY <1>9, <1>10, <1>11 DEF PageInv

\* Steps that send nothing and open nothing: a page may lose its connection,
\* a manager its id.
LEMMA QuietPages ==
  ASSUME RegistryInv, PageInv,
         clients' = clients, view' = view,
         \A i \in ManagerId : managers'[i] \in {managers[i], None},
         \A t \in Tab : tabSock'[t] \in {tabSock[t], None},
         \A m \in Manager : mgrSock'[m] \in {mgrSock[m], None},
         \A r \in Socket : conn'[r] = "open" =>
           conn[r] = "open" /\ idOf'[r] = idOf[r] /\ inbox'[r] = inbox[r],
         \A t \in Tab : tabSock'[t] # None => sensors'[t] = sensors[t]
  PROVE  PageInv'
<1>1. PagesApart'
  BY DEF PageInv, PagesApart
<1>2. ASSUME NEW t \in Tab
      PROVE  TabInv(t)'
  <2>1. tabSock[t] \in Socket \cup {None} /\ TabInv(t)
    BY DEF RegistryInv, TypeOK, PageInv
  <2> QED BY <2>1 DEF TabInv
<1>3. ASSUME NEW m \in Manager, Registers(m)'
      PROVE  Shows(inbox'[mgrSock'[m]], view'[m], clients')
  <2>1. mgrSock'[m] = mgrSock[m] /\ mgrSock[m] \in Socket
    BY <1>3 DEF Registers, RegistryInv, TypeOK
  <2>2. Registers(m)
    BY <1>3, <2>1, NoneIsNothing DEF Registers
  <2>3. Shows(inbox[mgrSock[m]], view[m], clients)
    BY <2>2 DEF PageInv, ManagerInv
  <2> QED BY <1>3, <2>1, <2>3 DEF Registers
<1>4. \A m \in Manager : ManagerInv(m)'
  BY <1>3 DEF ManagerInv
<1> QED BY <1>1, <1>2, <1>4 DEF PageInv

\* A tab handles a message of its own stream, and nobody else's.
LEMMA ReceiveTabPages ==
  ASSUME RegistryInv, PageInv, NEW t \in Tab, ReceiveTab(t)
  PROVE  PageInv'
<1> DEFINE s == tabSock[t]
           q == inbox[s]
<1>1. /\ s \in Socket /\ q \in Seq(Message) /\ q # <<>>
      /\ inbox' = [inbox EXCEPT ![s] = Tail(q)]
      /\ sensors' = IF Head(q).type = "sensor" THEN [sensors EXCEPT ![t] = Head(q).active]
                                               ELSE sensors
  BY DEF ReceiveTab, RegistryInv, TypeOK
<1>2. UNCHANGED <<clients, managers, idOf, conn, tabSock, mgrSock, view>>
  BY DEF ReceiveTab, serverVars, mgrVars
<1>3. PagesApart'
  BY <1>2 DEF PageInv, PagesApart
<1>4. ASSUME NEW u \in Tab, tabSock[u] # None, conn[tabSock[u]] = "open"
      PROVE  Tells(inbox'[tabSock[u]], sensors'[u], clients[idOf[tabSock[u]]].selected)
  <2>1. /\ tabSock[u] \in Socket
        /\ Tells(inbox[tabSock[u]], sensors[u], clients[idOf[tabSock[u]]].selected)
    BY <1>4, TabHasRecord
  <2>2. CASE u = t
    <3>1. inbox'[s] = Tail(q)
      BY <1>1 DEF RegistryInv, TypeOK
    <3>2. sensors'[t] = IF Head(q).type = "sensor" THEN Head(q).active ELSE sensors[t]
      BY <1>1 DEF RegistryInv, TypeOK
    <3>3. Tells(Tail(q), IF Head(q).type = "sensor" THEN Head(q).active ELSE sensors[t],
                clients[idOf[s]].selected)
      BY <1>1, <2>1, <2>2, TellsRead
    <3> QED BY <2>2, <3>1, <3>2, <3>3
  <2>3. CASE u # t
    <3>1. tabSock[u] # s
      BY <1>4, <2>3 DEF PageInv, PagesApart
    <3>2. inbox'[tabSock[u]] = inbox[tabSock[u]] /\ sensors'[u] = sensors[u]
      BY <1>1, <2>1, <2>3, <3>1 DEF RegistryInv, TypeOK
    <3> QED BY <2>1, <3>2
  <2> QED BY <2>2, <2>3
<1>5. ASSUME NEW u \in Tab
      PROVE  TabInv(u)'
  <2>1. TabInv(u)
    BY DEF PageInv
  <2> QED BY <1>2, <1>4, <2>1 DEF TabInv
<1>6. ASSUME NEW m \in Manager
      PROVE  ManagerInv(m)'
  <2>1. mgrSock[m] # s /\ ManagerInv(m)
    BY <1>1, NoneIsNothing DEF PageInv, PagesApart
  <2>2. mgrSock[m] \in Socket => inbox'[mgrSock[m]] = inbox[mgrSock[m]]
    BY <1>1, <2>1 DEF RegistryInv, TypeOK
  <2>3. Registers(m) => mgrSock[m] \in Socket
    BY DEF Registers, RegistryInv, TypeOK
  <2>4. Registers(m)' = Registers(m)
    BY <1>2 DEF Registers
  <2> QED BY <1>2, <2>1, <2>2, <2>3, <2>4 DEF ManagerInv
<1> QED BY <1>3, <1>5, <1>6 DEF PageInv

\* Handling the first message.
LEMMA ShowsRead ==
  ASSUME NEW q \in Seq(Message), q # <<>>, NEW v, NEW cl, Shows(q, v, cl)
  PROVE  Shows(Tail(q), Applied(v, Head(q)), cl)
<1> DEFINE l == List(GetAllClients(cl))
           r == Tail(q)
<1>1. q[Len(q)] = l
  BY DEF Shows
<1>2. Applied(v, l) = GetAllClients(cl)
  BY DEF Applied, List
<1>3. /\ r \in Seq(Message)
      /\ Len(q) \in Nat \ {0}
      /\ Head(q) = q[1]
      /\ Len(r) = Len(q) - 1
      /\ \A i \in 1..Len(r) : r[i] = q[i + 1]
  BY HeadTailProperties, LenProperties, EmptySeq
<1> HIDE DEF l, r
<1>4. CASE Len(q) = 1
  <2>1. r = <<>>
    BY <1>3, <1>4, EmptySeq
  <2> QED BY <1>1, <1>2, <1>3, <1>4, <2>1 DEF Shows, l, r
<1>5. CASE Len(q) # 1
  <2>1. Len(r) \in 1..Len(r) /\ Len(r) + 1 = Len(q)
    BY <1>3, <1>5
  <2>2. r # <<>> /\ r[Len(r)] = l
    BY <1>1, <1>3, <2>1, EmptySeq
  <2> QED BY <2>2 DEF Shows, l, r
<1> QED BY <1>4, <1>5

\* A manager applies a message of its own stream.
LEMMA ReceiveManagerPages ==
  ASSUME RegistryInv, PageInv, NEW m \in Manager, ReceiveManager(m)
  PROVE  PageInv'
<1> DEFINE s == mgrSock[m]
           q == inbox[s]
<1>1. /\ s \in Socket /\ q \in Seq(Message) /\ q # <<>>
      /\ inbox' = [inbox EXCEPT ![s] = Tail(q)]
      /\ view' = [view EXCEPT ![m] = Applied(view[m], Head(q))]
  BY DEF ReceiveManager, RegistryInv, TypeOK
<1>2. UNCHANGED <<clients, managers, idOf, conn, tabSock, sensors, mgrSock>>
  BY DEF ReceiveManager, serverVars, tabVars
<1>3. PagesApart'
  BY <1>2 DEF PageInv, PagesApart
<1>4. ASSUME NEW u \in Tab
      PROVE  TabInv(u)'
  <2>1. TabInv(u) /\ (tabSock[u] # None => tabSock[u] # s)
    BY DEF PageInv, PagesApart
  <2>2. tabSock[u] # None => inbox'[tabSock[u]] = inbox[tabSock[u]]
    BY <1>1, <2>1 DEF RegistryInv, TypeOK
  <2> QED BY <1>2, <2>1, <2>2 DEF TabInv
<1>5. ASSUME NEW n \in Manager, Registers(n)
      PROVE  Shows(inbox'[mgrSock[n]], view'[n], clients)
  <2>1. mgrSock[n] \in Socket /\ Shows(inbox[mgrSock[n]], view[n], clients)
    BY <1>5 DEF PageInv, ManagerInv, Registers, RegistryInv, TypeOK
  <2>2. CASE n = m
    <3>1. inbox'[s] = Tail(q) /\ view'[m] = Applied(view[m], Head(q))
      BY <1>1 DEF RegistryInv, TypeOK
    <3> QED BY <1>1, <2>1, <2>2, <3>1, ShowsRead
  <2>3. CASE n # m
    <3>1. mgrSock[n] # s
      BY <1>5, <2>3 DEF PageInv, PagesApart, Registers
    <3>2. inbox'[mgrSock[n]] = inbox[mgrSock[n]] /\ view'[n] = view[n]
      BY <1>1, <2>1, <2>3, <3>1 DEF RegistryInv, TypeOK
    <3> QED BY <2>1, <3>2
  <2> QED BY <2>2, <2>3
<1>6. \A n \in Manager : ManagerInv(n)'
  BY <1>2, <1>5 DEF ManagerInv, Registers
<1> QED BY <1>3, <1>4, <1>6 DEF PageInv

\* A change of the records that is broadcast, and that leaves the selection of
\* the connected ones.
LEMMA BroadcastPages ==
  ASSUME RegistryInv, PageInv, NEW notice \in Seq(Message),
         \A i \in 1..Len(notice) : notice[i].type # "sensor",
         clients' \in [ClientId -> ConnectionInfo \cup {None}],
         inbox' = Broadcast(inbox, clients', managers, notice),
         UNCHANGED <<managers, tabSock, sensors, mgrSock, view>>,
         \A r \in Socket : conn'[r] = "open" =>
           /\ conn[r] = "open" /\ idOf'[r] = idOf[r]
           /\ idOf[r] \in ClientId => clients'[idOf[r]] = clients[idOf[r]]
  PROVE  PageInv'
<1>1. PagesApart'
  BY DEF PageInv, PagesApart
<1>2. inbox \in [Socket -> Seq(Message)]
  BY DEF RegistryInv, TypeOK
<1>3. ASSUME NEW t \in Tab, tabSock[t] # None, conn'[tabSock[t]] = "open"
      PROVE  /\ idOf'[tabSock[t]] \in ClientId
             /\ Tells(inbox'[tabSock[t]], sensors[t], clients'[idOf'[tabSock[t]]].selected)
  <2> DEFINE r == tabSock[t]
  <2>1. r \in Socket /\ conn[r] = "open" /\ idOf'[r] = idOf[r]
    BY <1>3 DEF RegistryInv, TypeOK
  <2>2. idOf[r] \in ClientId /\ Tells(inbox[r], sensors[t], clients[idOf[r]].selected)
    BY <1>3, <2>1, TabHasRecord
  <2>3. Tells(inbox'[r], sensors[t], clients[idOf[r]].selected)
    BY <1>2, <2>1, <2>2, BroadcastTells
  <2> QED BY <1>3, <2>1, <2>2, <2>3
<1>4. \A t \in Tab : TabInv(t)'
  BY <1>3 DEF TabInv
<1>5. ASSUME NEW m \in Manager, Registers(m)'
      PROVE  ManagerInv(m)'
  <2>1. mgrSock[m] \in Socket
    BY <1>5 DEF Registers, RegistryInv, TypeOK
  <2>2. Registers(m)
    BY <1>5, <2>1 DEF Registers
  <2> QED BY <1>2, <2>2, ManagerTold
<1>6. \A m \in Manager : ManagerInv(m)'
  BY <1>5 DEF ManagerInv
<1> QED BY <1>1, <1>4, <1>6 DEF PageInv

\* A manager connects: it is sent the list on its own, and so is everybody.
LEMMA ConnectManagerPages ==
  ASSUME RegistryInv, PageInv, NEW m \in Manager, NEW s \in Socket, NEW i \in ManagerId,
         ConnectManager(m, s, i)
  PROVE  PageInv'
<1> DEFINE ms   == [managers EXCEPT ![i] = s]
           told == Broadcast(inbox, clients, ms, <<>>)
           l    == List(GetAllClients(clients))
<1>1. /\ mgrSock[m] = None /\ Unreferenced(s)
      /\ managers' = ms
      /\ idOf' = [idOf EXCEPT ![s] = i]
      /\ conn' = [conn EXCEPT ![s] = "open"]
      /\ mgrSock' = [mgrSock EXCEPT ![m] = s]
      /\ inbox' = [told EXCEPT ![s] = <<l>>]
      /\ clients' = clients /\ tabSock' = tabSock /\ sensors' = sensors /\ view' = view
  BY DEF ConnectManager, tabVars
<1>2. /\ inbox \in [Socket -> Seq(Message)]
      /\ clients \in [ClientId -> ConnectionInfo \cup {None}]
      /\ told \in [Socket -> Seq(Message)]
  BY QuietNotices, BroadcastTyped DEF RegistryInv, TypeOK
<1> HIDE DEF told, l
<1>3. inbox'[s] = <<l>> /\ \A r \in Socket \ {s} : inbox'[r] = told[r]
  BY <1>1, <1>2
<1>4. PagesApart'
  BY <1>1, NoneIsNothing DEF PageInv, PagesApart, Unreferenced, RegistryInv, TypeOK
<1>5. ASSUME NEW t \in Tab, tabSock[t] # None, conn'[tabSock[t]] = "open"
      PROVE  /\ idOf'[tabSock[t]] \in ClientId
             /\ Tells(inbox'[tabSock[t]], sensors[t], clients[idOf'[tabSock[t]]].selected)
  <2> DEFINE r == tabSock[t]
  <2>1. r \in Socket \ {s} /\ conn[r] = "open" /\ idOf'[r] = idOf[r]
    BY <1>1, <1>5 DEF Unreferenced, RegistryInv, TypeOK
  <2>2. idOf[r] \in ClientId /\ Tells(inbox[r], sensors[t], clients[idOf[r]].selected)
    BY <1>5, <2>1, TabHasRecord
  <2>3. Tells(told[r], sensors[t], clients[idOf[r]].selected)
    BY <1>2, <2>1, <2>2, QuietNotices, BroadcastTells DEF told
  <2> QED BY <1>3, <2>1, <2>2, <2>3
<1>6. \A t \in Tab : TabInv(t)'
  BY <1>1, <1>5 DEF TabInv
<1>7. ASSUME NEW n \in Manager, Registers(n)'
      PROVE  Shows(inbox'[mgrSock'[n]], view'[n], clients)
  <2>1. CASE n = m
    <3>1. mgrSock'[n] = s
      BY <1>1, <2>1 DEF RegistryInv, TypeOK
    <3>2. <<l>> # <<>> /\ Len(<<l>>) = 1 /\ <<l>>[1] = l
      OBVIOUS
    <3> QED BY <1>3, <3>1, <3>2 DEF Shows, l
  <2>2. CASE n # m
    <3> DEFINE r == mgrSock[n]
    <3>1. mgrSock'[n] = r /\ r \in Socket \ {s}
      BY <1>1, <1>7, <2>2 DEF Registers, Unreferenced, RegistryInv, TypeOK
    <3>2. conn[r] = "open" /\ idOf[r] \in ManagerId /\ ms[idOf[r]] = r
      BY <1>1, <1>7, <3>1 DEF Registers, RegistryInv, TypeOK
    <3>3. r \in GetAllManagerSocketIds(ms)
      BY <3>1, <3>2, NoneIsNothing DEF GetAllManagerSocketIds
    <3>4. Shows(told[r], view[n], clients)
      BY <1>2, <3>1, <3>2, <3>3, QuietNotices, BroadcastShows DEF told
    <3> QED BY <1>1, <1>3, <3>1, <3>4
  <2> QED BY <2>1, <2>2
<1>8. \A n \in Manager : ManagerInv(n)'
  BY <1>1, <1>7 DEF ManagerInv
<1> QED BY <1>4, <1>6, <1>8 DEF PageInv

\* A selection is told to every connected client whose flag changes, and to no
\* other; the broadcast that follows gives every manager the list.
LEMMA SelectPages ==
  ASSUME RegistryInv, PageInv, NEW m \in Manager, NEW ids \in SUBSET ClientId,
         SelectClients(m, ids)
  PROVE  PageInv'
<1> DEFINE before == {c \in ClientId : clients[c] # None /\ clients[c].selected}
           cl     == [c \in ClientId |-> IF clients[c] = None THEN None
                        ELSE [clients[c] EXCEPT !.selected = c \in ids]]
           started == GetSocketIds(clients, ids \ before)
           stopped == GetSocketIds(clients, before \ ids)
           on     == Emit(inbox, started, <<SensorState(TRUE)>>)
           off    == Emit(on, stopped, <<SensorState(FALSE)>>)
           told   == Broadcast(off, cl, managers, <<>>)
<1>1. cl \in [ClientId -> ConnectionInfo \cup {None}]
  <2>1. ASSUME NEW c \in ClientId, clients[c] # None
        PROVE  [clients[c] EXCEPT !.selected = c \in ids] \in ConnectionInfo
    <3>1. clients[c] \in ConnectionInfo /\ (c \in ids) \in BOOLEAN
      BY <2>1 DEF RegistryInv, TypeOK
    <3> QED BY <3>1 DEF ConnectionInfo
  <2> QED BY <2>1
<1>2. \A c \in ClientId : clients[c] # None => cl[c].selected = (c \in ids)
  <2> SUFFICES ASSUME NEW c \in ClientId, clients[c] # None
               PROVE  cl[c].selected = (c \in ids)
    OBVIOUS
  <2>1. clients[c] \in ConnectionInfo /\ (c \in ids) \in BOOLEAN
    BY DEF RegistryInv, TypeOK
  <2>2. cl[c] = [clients[c] EXCEPT !.selected = c \in ids]
    OBVIOUS
  <2> QED BY <2>1, <2>2 DEF ConnectionInfo
<1>3. /\ clients' = cl /\ inbox' = told
      /\ UNCHANGED <<managers, idOf, conn, tabSock, sensors, mgrSock, view>>
  BY DEF SelectClients, tabVars, mgrVars
<1>4. /\ <<SensorState(TRUE)>> \in Seq(Message)
      /\ <<SensorState(FALSE)>> \in Seq(Message)
  BY NoticesTyped, ShortSeqs
<1>5. /\ inbox \in [Socket -> Seq(Message)]
      /\ on \in [Socket -> Seq(Message)]
  BY <1>4, EmitTyped DEF RegistryInv, TypeOK
<1>6. off \in [Socket -> Seq(Message)]
  <2> HIDE DEF on
  <2> QED BY <1>4, <1>5, EmitTyped
<1> HIDE DEF cl
<1>7. PagesApart'
  BY <1>3 DEF PageInv, PagesApart
<1>8. ASSUME NEW t \in Tab, tabSock[t] # None, conn[tabSock[t]] = "open"
      PROVE  /\ idOf[tabSock[t]] \in ClientId
             /\ Tells(inbox'[tabSock[t]], sensors[t], cl[idOf[tabSock[t]]].selected)
  <2> DEFINE r == tabSock[t]
             d == idOf[r]
  <2>1. /\ r \in Socket /\ d \in ClientId /\ clients[d] # None
        /\ clients[d] \in ConnectionInfo
        /\ clients[d].sock = r /\ clients[d].connected
        /\ Tells(inbox[r], sensors[t], clients[d].selected)
    BY <1>8, TabHasRecord
  <2>2. \A S \in SUBSET ClientId : r \in GetSocketIds(clients, S) <=> d \in S
    BY <2>1 DEF GetSocketIds, RegistryInv, UniqueSockets
  <2>3. ids \ before \in SUBSET ClientId /\ before \ ids \in SUBSET ClientId
    OBVIOUS
  <2>4. (r \in started <=> d \in ids \ before) /\ (r \in stopped <=> d \in before \ ids)
    BY <2>2, <2>3
  <2>5. d \in before <=> clients[d].selected
    BY <2>1
  <2>6. cl[d].selected = (d \in ids) /\ clients[d].selected \in BOOLEAN
    BY <1>2, <2>1 DEF ConnectionInfo
  <2>7. on[r] = IF r \in started THEN inbox[r] \o <<SensorState(TRUE)>> ELSE inbox[r]
    BY <1>8, <2>1 DEF Emit
  <2>8. off[r] = IF r \in stopped THEN on[r] \o <<SensorState(FALSE)>> ELSE on[r]
    BY <1>8, <2>1 DEF Emit
  <2>9. on[r] \in Seq(Message) /\ inbox[r] \in Seq(Message)
    BY <1>5, <2>1
  <2> HIDE DEF started, stopped, before, on, off, r, d
  <2>10. Tells(off[r], sensors[t], cl[d].selected)
    <3>1. CASE d \in ids \ before
      <4>1. off[r] = inbox[r] \o <<SensorState(TRUE)>>
        BY <3>1, <2>4, <2>7, <2>8
      <4>2. Tells(off[r], sensors[t], TRUE)
        BY <2>9, <4>1, TellsLast
      <4> QED BY <2>6, <3>1, <4>2
    <3>2. CASE d \in before \ ids
      <4>1. off[r] = on[r] \o <<SensorState(FALSE)>>
        BY <3>2, <2>4, <2>8
      <4>2. Tells(off[r], sensors[t], FALSE)
        BY <2>9, <4>1, TellsLast
      <4>3. (d \in ids) = FALSE
        BY <3>2
      <4>4. cl[d].selected = FALSE
        BY <2>6, <4>3
      <4> QED BY <4>2, <4>4
    <3>3. CASE d \notin ids \ before /\ d \notin before \ ids
      <4>1. off[r] = inbox[r]
        BY <3>3, <2>4, <2>7, <2>8
      <4>2. cl[d].selected = clients[d].selected
        BY <2>5, <2>6, <3>3
      <4> QED BY <2>1, <4>1, <4>2
    <3> QED BY <3>1, <3>2, <3>3
  <2>11. Tells(told[r], sensors[t], cl[d].selected)
    BY <1>1, <1>6, <2>1, <2>10, QuietNotices, BroadcastTells DEF r
  <2> QED BY <1>3, <2>1, <2>11 DEF r, d
<1>9. \A t \in Tab : TabInv(t)'
  BY <1>3, <1>8 DEF TabInv
<1>10. ASSUME NEW n \in Manager, Registers(n)
       PROVE  ManagerInv(n)'
  <2> HIDE DEF off
  <2> QED BY <1>1, <1>3, <1>6, <1>10, ManagerTold, QuietNotices
<1>11. \A n \in Manager : ManagerInv(n)'
  BY <1>3, <1>10 DEF ManagerInv, Registers
<1> QED BY <1>7, <1>9, <1>11 DEF PageInv

\* A client's socket is gone: its record is marked or purged, and the managers
\* are told.
LEMMA DisconnectPages ==
  ASSUME RegistryInv, PageInv, NEW s \in Socket, DisconnectClient(s)
  PROVE  PageInv'
<1> DEFINE c    == idOf[s]
           cl   == IF Grace THEN [clients EXCEPT ![c].connected = FALSE] ELSE Purge(clients, c)
           note == IF Grace THEN <<>> ELSE <<Left(c), List(GetAllClients(cl))>>
<1>1. /\ c \in ClientId /\ conn[s] = "lost" /\ clients[c].sock = s
      /\ clients' = cl
      /\ inbox' = Broadcast(inbox, cl, managers, note)
      /\ conn' = [conn EXCEPT ![s] = "closed"]
      /\ idOf' = [idOf EXCEPT ![s] = None]
      /\ UNCHANGED <<managers, tabSock, sensors, mgrSock, view>>
  BY DEF DisconnectClient, RegistryInv, SocketsMatchRecords, tabVars, mgrVars
<1>2. clients' \in [ClientId -> ConnectionInfo \cup {None}]
  BY StepTyped DEF RegistryInv, TypeOK, Next, Disconnect
<1>3. \A b \in ClientId \ {c} : cl[b] = clients[b]
  BY DEF Purge, RegistryInv, TypeOK
<1> HIDE DEF cl
<1>4. note \in Seq(Message) /\ \A i \in 1..Len(note) : note[i].type # "sensor"
  <2>1. CASE Grace
    BY <2>1, QuietNotices
  <2>2. CASE ~Grace
    <3> DEFINE l == List(GetAllClients(cl))
    <3>1. l \in Message /\ l.type # "sensor" /\ Left(c) \in Message /\ Left(c).type # "sensor"
      BY <1>1, <1>2, ListTyped, NoticesTyped, NoSensor
    <3>2. note = <<Left(c), l>>
      BY <2>2
    <3> HIDE DEF l, note
    <3> QED BY <3>1, <3>2
  <2> QED BY <2>1, <2>2
<1>5. ASSUME NEW r \in Socket, conn'[r] = "open"
      PROVE  /\ conn[r] = "open" /\ idOf'[r] = idOf[r]
             /\ idOf[r] \in ClientId => clients'[idOf[r]] = clients[idOf[r]]
  <2>1. r # s /\ conn[r] = "open" /\ idOf'[r] = idOf[r]
    BY <1>1, <1>5 DEF RegistryInv, TypeOK
  <2>2. idOf[r] \in ClientId => idOf[r] # c
    BY <1>1, <2>1 DEF RegistryInv, SocketsMatchRecords
  <2> QED BY <1>1, <1>3, <2>1, <2>2
<1> HIDE DEF note
<1> QED BY <1>1, <1>2, <1>4, <1>5, BroadcastPages

\* The grace timer purges a record whose connection is down.
LEMMA GracePages ==
  ASSUME RegistryInv, PageInv, NEW c \in ClientId, GraceExpires(c)
  PROVE  PageInv'
<1>1. /\ clients[c] # None /\ ~clients[c].connected
      /\ clients' = [clients EXCEPT ![c] = None]
      /\ inbox' = Broadcast(inbox, clients', managers, <<Left(c)>>)
      /\ UNCHANGED <<managers, idOf, conn, tabSock, sensors, mgrSock, view>>
  BY DEF GraceExpires, Purge, RegistryInv, TimersMatchGrace, tabVars, mgrVars
<1>2. clients' \in [ClientId -> ConnectionInfo \cup {None}]
  BY <1>1 DEF RegistryInv, TypeOK
<1>3. ASSUME NEW r \in Socket, idOf[r] \in ClientId
      PROVE  clients'[idOf[r]] = clients[idOf[r]]
  <2>1. clients[idOf[r]].connected
    BY <1>3 DEF RegistryInv, SocketsMatchRecords
  <2> QED BY <1>1, <1>3, <2>1 DEF RegistryInv, TypeOK
<1> QED BY <1>1, <1>2, <1>3, QuietNotices, BroadcastPages

\* A restart leaves no connection open.
LEMMA RestartPages ==
  ASSUME RegistryInv, PageInv, ServerRestart
  PROVE  PageInv'
<1>1. /\ tabSock' = tabSock /\ mgrSock' = mgrSock
      /\ \A s \in Socket : conn'[s] # "open"
  BY DEF ServerRestart, tabVars, mgrVars
<1>2. PagesApart'
  BY <1>1 DEF PageInv, PagesApart
<1>3. ASSUME NEW t \in Tab
      PROVE  TabInv(t)'
  <2>1. tabSock[t] \in Socket \cup {None}
    BY DEF RegistryInv, TypeOK
  <2> QED BY <1>1, <2>1 DEF TabInv
<1>4. ASSUME NEW m \in Manager
      PROVE  ManagerInv(m)'
  <2>1. mgrSock[m] \in Socket \cup {None}
    BY DEF RegistryInv, TypeOK
  <2> QED BY <1>1, <2>1 DEF ManagerInv, Registers
<1> QED BY <1>2, <1>3, <1>4 DEF PageInv

LEMMA InitPages == Init => PageInv
BY DEF Init, PageInv, PagesApart, TabInv, ManagerInv, Registers

\* Every step keeps what the pages know.
LEMMA StepPages == RegistryInv /\ PageInv /\ [Next]_vars => PageInv'
<1> SUFFICES ASSUME RegistryInv, PageInv, [Next]_vars PROVE PageInv'
  OBVIOUS
<1>1. ASSUME NEW t \in Tab, NEW s \in Socket, ConnectNew(t, s)
      PROVE  PageInv'
  <2>1. PICK c \in ClientId : clients[c] = None /\ RegisterAs(t, s, c)
    <3>1. CASE \E c \in FreshIds : RegisterAs(t, s, c)
      BY <3>1 DEF FreshIds, ClientId, IsClientIdInUse
    <3>2. CASE DeviceOf[t] # None /\ ~IsClientIdInUse(stored[t]) /\ RegisterAs(t, s, stored[t])
      <4>1. stored[t] \in ClientId
        BY <3>2 DEF RegistryInv, TypeOK
      <4> QED BY <3>2, <4>1 DEF IsClientIdInUse
    <3>3. CASE DeviceOf[t] # None /\ \E c \in AllocateClientId(DeviceOf[t]) : RegisterAs(t, s, c)
      <4>1. DeviceOf[t] \in Device
        BY <3>3, RegistryAssumption DEF RegistryAssumption
      <4> QED BY <3>3, <4>1, AllocatedIsFree
    <3> QED BY <1>1, <3>1, <3>2, <3>3 DEF ConnectNew
  <2>2. tabSock[t] = None /\ Unreferenced(s)
    BY <1>1 DEF ConnectNew
  <2> QED BY <2>1, <2>2, RegisterPages
<1>2. ASSUME NEW t \in Tab, NEW s \in Socket, TakeOver(t, s)
      PROVE  PageInv'
  BY <1>2, TakeOverPages
<1>3. ASSUME NEW s \in Socket, Cut(s)
      PROVE  PageInv'
  <2>1. \A r \in Socket : conn'[r] = "open" => conn[r] = "open" /\ inbox'[r] = inbox[r]
    BY <1>3 DEF Cut, RegistryInv, TypeOK
  <2> QED BY <1>3, <2>1, QuietPages DEF Cut, serverVars, tabVars, mgrVars
<1>4. ASSUME NEW t \in Tab, Reload(t)
      PROVE  PageInv'
  <2>1. \A r \in Socket : conn'[r] = "open" => conn[r] = "open" /\ inbox'[r] = inbox[r]
    BY <1>4 DEF Reload, RegistryInv, TypeOK
  <2>2. \A u \in Tab : /\ tabSock'[u] \in {tabSock[u], None}
                       /\ tabSock'[u] # None => sensors'[u] = sensors[u]
    BY <1>4 DEF Reload, RegistryInv, TypeOK
  <2> QED BY <1>4, <2>1, <2>2, QuietPages DEF Reload, serverVars, mgrVars
<1>5. ASSUME NEW t \in Tab, NoticeClosed(t)
      PROVE  PageInv'
  <2>1. \A r \in Socket : conn[r] = "open" => inbox'[r] = inbox[r]
    BY <1>5 DEF NoticeClosed, RegistryInv, TypeOK
  <2>2. \A u \in Tab : tabSock'[u] \in {tabSock[u], None}
    BY <1>5 DEF NoticeClosed, RegistryInv, TypeOK
  <2> QED BY <1>5, <2>1, <2>2, QuietPages DEF NoticeClosed, serverVars, mgrVars
<1>6. ASSUME NEW t \in Tab, ReceiveTab(t)
      PROVE  PageInv'
  BY <1>6, ReceiveTabPages
<1>7. ASSUME NEW s \in Socket, DisconnectClient(s)
      PROVE  PageInv'
  BY <1>7, DisconnectPages
<1>8. ASSUME NEW s \in Socket, DisconnectManager(s)
      PROVE  PageInv'
  <2>1. \A r \in Socket : conn'[r] = "open" => conn[r] = "open" /\ idOf'[r] = idOf[r]
    BY <1>8 DEF DisconnectManager, RegistryInv, TypeOK
  <2>2. \A i \in ManagerId : managers'[i] \in {managers[i], None}
    BY <1>8 DEF DisconnectManager, RegistryInv, TypeOK
  <2> QED BY <1>8, <2>1, <2>2, QuietPages DEF DisconnectManager, tabVars, mgrVars
<1>9. ASSUME NEW s \in Socket, DisconnectUnmapped(s)
      PROVE  PageInv'
  <2>1. \A r \in Socket : conn'[r] = "open" => conn[r] = "open"
    BY <1>9 DEF DisconnectUnmapped, RegistryInv, TypeOK
  <2> QED BY <1>9, <2>1, QuietPages DEF DisconnectUnmapped, serverVars, tabVars, mgrVars
<1>10. ASSUME NEW c \in ClientId, GraceExpires(c)
       PROVE  PageInv'
  BY <1>10, GracePages
<1>11. ASSUME ServerRestart
       PROVE  PageInv'
  BY <1>11, RestartPages
<1>12. ASSUME NEW m \in Manager, NEW s \in Socket, NEW i \in ManagerId, ConnectManager(m, s, i)
       PROVE  PageInv'
  BY <1>12, ConnectManagerPages
<1>13. ASSUME NEW m \in Manager, NoticeManagerClosed(m)
       PROVE  PageInv'
  <2>1. \A r \in Socket : conn[r] = "open" => inbox'[r] = inbox[r]
    BY <1>13 DEF NoticeManagerClosed, RegistryInv, TypeOK
  <2>2. \A n \in Manager : mgrSock'[n] \in {mgrSock[n], None}
    BY <1>13 DEF NoticeManagerClosed, RegistryInv, TypeOK
  <2> QED BY <1>13, <2>1, <2>2, QuietPages DEF NoticeManagerClosed, serverVars, tabVars
<1>14. ASSUME NEW m \in Manager, ReceiveManager(m)
       PROVE  PageInv'
  BY <1>14, ReceiveManagerPages
<1>15. ASSUME NEW m \in Manager, NEW ids \in SUBSET ClientId, SelectClients(m, ids)
       PROVE  PageInv'
  BY <1>15, SelectPages
<1>16. CASE UNCHANGED vars
  BY <1>16, QuietPages DEF vars, serverVars, tabVars, mgrVars
<1> QED
  BY <1>1, <1>2, <1>3, <1>4, <1>5, <1>6, <1>7, <1>8, <1>9, <1>10, <1>11, <1>12, <1>13, <1>14,
     <1>15, <1>16
  DEF Next, Connect, Fail, Disconnect, TabStep, ManagerStep

\* What every page holds, together with what is on its way to it, is what the
\* registry says.
LEMMA PagesAgree == Spec => [](RegistryInv /\ PageInv)
BY InitRegistry, StepRegistry, InitPages, StepPages, PTL DEF Spec

\* A tab that has read its stream runs its sensors exactly when its own record
\* is selected, through reloads, takeovers, restarts and selections made while
\* it was away, for any number of tabs and managers.
THEOREM SelectedTabsSend == Spec => []SensorsFollowSelection
<1>1. RegistryInv /\ PageInv => SensorsFollowSelection
  <2> SUFFICES ASSUME RegistryInv, PageInv, NEW t \in Tab, tabSock[t] # None,
                      conn[tabSock[t]] = "open", inbox[tabSock[t]] = <<>>
               PROVE  /\ idOf[tabSock[t]] \in ClientId
                      /\ sensors[t] = clients[idOf[tabSock[t]]].selected
    BY DEF SensorsFollowSelection
  <2>1. \A i \in 1..Len(inbox[tabSock[t]]) : FALSE
    BY EmptySeq
  <2> QED BY <2>1, TabHasRecord DEF Tells
<1> QED BY <1>1, PagesAgree, PTL

\* A manager the server knows shows the registry as it is once it has read its
\* stream: every change of presence or selection is broadcast, in order.
THEOREM ManagersSeeRegistry == Spec => []ViewsConverge
<1>1. RegistryInv /\ PageInv => ViewsConverge
  BY DEF ViewsConverge, PageInv, ManagerInv, Registers, Shows
<1> QED BY <1>1, PagesAgree, PTL
=============================================================================
