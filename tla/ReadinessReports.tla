-------------------------- MODULE ReadinessReports --------------------------
(***************************************************************************)
(* What the page of a client reports of itself: how far its assets are     *)
(* loaded and what its browser permits.  Changes are reported when they    *)
(* happen, unless the last change reported was the same; every update of   *)
(* the state of the SDK, each answer to a time ping among them, reports    *)
(* all again.  The server keeps the permissions with the record of the     *)
(* client and only passes readiness on, so that a manager that opens later *)
(* depends on the repetition.                                              *)
(***************************************************************************)
EXTENDS Naturals, Sequences

CONSTANTS
  Viewer,        \* pages of managers
  RepChanges,    \* bound: changes of the page's own state
  RepLosses,     \* bound: times the client is cut off
  RepOpenings,   \* bound: connections of managers
  RepBacklog,    \* bound: messages on their way to the server or a manager
  RepNone

Readiness == [status : {"idle", "connected", "loading", "ready", "error"}, manifest : Nat]
Record == [mic : BOOLEAN \cup {RepNone}]

ASSUME ReportAssumption ==
  /\ RepChanges \in Nat /\ RepLosses \in Nat /\ RepOpenings \in Nat /\ RepBacklog \in Nat
  /\ RepNone \notin Readiness /\ RepNone \notin Record

VARIABLES
  repLink,       \* the client: down, up, or registered (it knows its id)
  repPage,       \* its preload status and whether the microphone is granted
  repLast,       \* lastReported: the last status sent on a change
  repLastMic,    \* lastReportedPermissions
  repToServer,   \* reports on their way
  repRecord,     \* the server's record: none, or the permission in it
  repViewers,    \* managers the server knows
  repToViewer,   \* messages on their way to each
  repView,       \* what each shows of the client
  repTold,       \* managers that were there at the last update of the state
  repUsed        \* changes, losses and openings so far

repClient == <<repLink, repPage, repLast, repLastMic>>
repServer == <<repRecord, repViewers>>
repVars == <<repClient, repToServer, repServer, repToViewer, repView, repTold, repUsed>>

\* A status of the n-th manifest; a manager shows a new client as connected.
Of(status, n) == [status |-> status, manifest |-> n]
Unknown == [mic |-> RepNone, ready |-> RepNone]
NewPage == [preload |-> Of("idle", 0), mic |-> FALSE]

ReportInit ==
  /\ repLink = "down" /\ repPage = NewPage /\ repLast = RepNone /\ repLastMic = RepNone
  /\ repToServer = <<>> /\ repRecord = RepNone
  /\ repViewers = {} /\ repToViewer = [m \in Viewer |-> <<>>]
  /\ repView = [m \in Viewer |-> Unknown] /\ repTold = {}
  /\ repUsed = [changes |-> 0, losses |-> 0, openings |-> 0]

Uses(what, bound) == repUsed[what] < bound /\ repUsed' = [repUsed EXCEPT ![what] = @ + 1]

Preload(s) == [kind |-> "preload", is |-> s]
Permissions(g) == [kind |-> "permissions", is |-> g]
ClientList(r) == [kind |-> "list", is |-> r]

-----------------------------------------------------------------------------
(* The page *)

\* Seeded fault: the listener reports readiness only when it changed.
OnlyNews ==
  <<Permissions(repPage.mic)>> \o
  IF repPage.preload = repLast THEN <<>> ELSE <<Preload(repPage.preload)>>

\* The listener of the SDK's state: once registered it reports everything.
StateReports == <<Permissions(repPage.mic), Preload(repPage.preload)>>

StateChanges ==
  /\ repLastMic' = repPage.mic
  /\ repToServer' = repToServer \o StateReports
  /\ repTold' = repViewers

\* clientRegistered arrives.
Registered ==
  /\ repLink = "up" /\ repLink' = "registered"
  /\ StateChanges
  /\ UNCHANGED <<repPage, repLast, repServer, repToViewer, repView, repUsed>>

\* A time pong arrives.
Pong ==
  /\ repLink = "registered" /\ Len(repToServer) + 2 <= RepBacklog
  /\ StateChanges
  /\ UNCHANGED <<repLink, repPage, repLast, repServer, repToViewer, repView, repUsed>>

\* What a subscription sends, and what it then notes as sent.
SendsChange(isNew, message) ==
  repToServer' = IF repLink = "registered" /\ isNew
                 THEN Append(repToServer, message) ELSE repToServer
Notes(last, value) == IF repLink = "registered" THEN value ELSE last

\* A manifest without assets is ready at once, a bad one is an error.
NextPreload(now) ==
  {Of(s, now.manifest + 1) : s \in {"loading", "ready", "error"}}
    \cup (IF now.status = "loading" THEN {Of(s, now.manifest) : s \in {"ready", "error"}} ELSE {})

\* The core's state changes.
PreloadChanges ==
  /\ Uses("changes", RepChanges) /\ Len(repToServer) < RepBacklog
  /\ \E s \in NextPreload(repPage.preload) :
       /\ repPage' = [repPage EXCEPT !.preload = s]
       /\ SendsChange(s # repLast, Preload(s))
       /\ repLast' = Notes(repLast, s)
  /\ UNCHANGED <<repLink, repLastMic, repServer, repToViewer, repView, repTold>>

\* The browser grants the microphone or takes it back.
PermissionsChange ==
  /\ Uses("changes", RepChanges) /\ Len(repToServer) < RepBacklog
  /\ repPage' = [repPage EXCEPT !.mic = ~ @]
  /\ SendsChange((~ repPage.mic) # repLastMic, Permissions(~ repPage.mic))
  /\ repLastMic' = Notes(repLastMic, ~ repPage.mic)
  /\ UNCHANGED <<repLink, repLast, repServer, repToViewer, repView, repTold>>

-----------------------------------------------------------------------------
(* The server *)

Room == \A m \in Viewer : Len(repToViewer[m]) < RepBacklog
Forward(message, to) ==
  [m \in Viewer |-> IF m \in to THEN Append(repToViewer[m], message) ELSE repToViewer[m]]

\* handleConnection of a client: what its old socket still had to say is lost.
ClientConnects ==
  /\ repLink = "down" /\ repLink' = "up" /\ Room
  /\ repToServer' = <<>>
  /\ repRecord' = IF repRecord = RepNone THEN [mic |-> RepNone] ELSE repRecord
  /\ repToViewer' = Forward(ClientList(repRecord'), repViewers)
  /\ UNCHANGED <<repPage, repLast, repLastMic, repViewers, repView, repTold, repUsed>>

ServerReads ==
  /\ repToServer # <<>> /\ repToServer' = Tail(repToServer) /\ Room
  /\ LET message == Head(repToServer)
     IN \/ /\ message.kind = "permissions"
           /\ repRecord' = [mic |-> message.is]
           /\ repToViewer' = Forward(ClientList(repRecord'), repViewers)
        \/ /\ message.kind = "preload"
           /\ repToViewer' = Forward(message, repViewers) /\ UNCHANGED repRecord
  /\ UNCHANGED <<repClient, repViewers, repView, repTold, repUsed>>

\* The grace of a lost client runs out.
ClientExpires ==
  /\ repLink = "down" /\ repRecord # RepNone /\ Room
  /\ repRecord' = RepNone /\ repToServer' = <<>>
  /\ repToViewer' = Forward(ClientList(RepNone), repViewers)
  /\ UNCHANGED <<repClient, repViewers, repView, repTold, repUsed>>

\* handleConnection of a manager, whose page is new or has kept its stores.
ManagerConnects ==
  /\ Uses("openings", RepOpenings) /\ Room
  /\ \E m \in Viewer \ repViewers : \E view \in {Unknown, repView[m]} :
       /\ repViewers' = repViewers \cup {m}
       /\ repToViewer' = Forward(ClientList(repRecord), repViewers')
       /\ repView' = [repView EXCEPT ![m] = view]
  /\ UNCHANGED <<repClient, repToServer, repRecord, repTold>>

-----------------------------------------------------------------------------
(* The stores of a manager *)

\* applyClientPresence and the list itself, or applyReadinessPayload.
Seen(view) == IF view.ready = RepNone THEN Of("connected", 0) ELSE view.ready
Applied(view, message) ==
  IF message.kind = "list"
  THEN IF message.is = RepNone THEN Unknown ELSE [mic |-> message.is.mic, ready |-> Seen(view)]
  ELSE [view EXCEPT !.ready = IF message.is.status = "idle" THEN Seen(view) ELSE message.is]

ManagerReads(m) ==
  /\ repToViewer[m] # <<>>
  /\ repToViewer' = [repToViewer EXCEPT ![m] = Tail(@)]
  /\ repView' = [repView EXCEPT ![m] = Applied(@, Head(repToViewer[m]))]
  /\ UNCHANGED <<repClient, repToServer, repServer, repTold, repUsed>>

-----------------------------------------------------------------------------
(* Losses *)

\* The client's connection is lost; the server may still read what it sent.
ClientLoses ==
  /\ Uses("losses", RepLosses)
  /\ repLink # "down" /\ repLink' = "down"
  /\ \/ UNCHANGED <<repPage, repLast, repLastMic>>
     \/ repPage' = NewPage /\ repLast' = RepNone /\ repLastMic' = RepNone
  /\ \E n \in 0..Len(repToServer) : repToServer' = SubSeq(repToServer, 1, n)
  /\ UNCHANGED <<repServer, repToViewer, repView, repTold>>

ManagerLoses ==
  /\ \E m \in repViewers :
       /\ repViewers' = repViewers \ {m} /\ repTold' = repTold \ {m}
       /\ repToViewer' = [repToViewer EXCEPT ![m] = <<>>]
  /\ UNCHANGED <<repClient, repToServer, repRecord, repView, repUsed>>

ServerRestarts ==
  /\ Uses("losses", RepLosses)
  /\ repLink' = "down" /\ repToServer' = <<>> /\ repRecord' = RepNone
  /\ repViewers' = {} /\ repToViewer' = [m \in Viewer |-> <<>>] /\ repTold' = {}
  /\ UNCHANGED <<repPage, repLast, repLastMic, repView>>

RepNext ==
  \/ ClientConnects \/ Registered \/ Pong \/ PreloadChanges \/ PermissionsChange \/ ServerReads
  \/ ClientExpires \/ ManagerConnects \/ (\E m \in Viewer : ManagerReads(m))
  \/ ClientLoses \/ ManagerLoses \/ ServerRestarts

RepSpec == ReportInit /\ [][RepNext]_repVars

-----------------------------------------------------------------------------
(* Once everything is read, a manager shows the permissions the client has, *)
(* and the readiness too if it was there at the client's last update:       *)
(* through losses on either side, restarts and reloads, with no more than   *)
(* the repetition (onStateChange in client-runtime.ts, manager.ts).         *)
ManagersInformed ==
  repLink = "registered" /\ repToServer = <<>> =>
    \A m \in repViewers : repToViewer[m] = <<>> =>
      /\ repView[m].mic = repPage.mic
      /\ m \in repTold /\ repPage.preload.status # "idle" => repView[m].ready = repPage.preload
=============================================================================
