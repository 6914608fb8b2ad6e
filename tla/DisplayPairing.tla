--------------------------- MODULE DisplayPairing ---------------------------
(***************************************************************************)
(* A manager opens a display window and pairs with it over a message port: *)
(* it offers ports until the display says that it is ready, and the        *)
(* display takes the first offer it hears.  Controls go over the port, and *)
(* over the server as well as long as the display is not ready.  The       *)
(* display falls back to the server if no offer comes in time, may be      *)
(* reloaded, and may be paired anew by hand.                               *)
(***************************************************************************)
EXTENDS Naturals, Sequences, FiniteSets

CONSTANTS
  PairRetries,   \* LOCAL_DISPLAY_PAIR_RETRY_DELAYS_MS.length
  PairByHand,    \* bound: Reconnect is pressed
  PairReloads,   \* bound: the display is reloaded
  PairControls   \* bound: controls sent

ASSUME PairAssumption ==
  /\ PairRetries \in Nat \ {0} /\ PairByHand \in Nat
  /\ PairReloads \in Nat /\ PairControls \in Nat

VARIABLES
  pairStatus,    \* displayBridgeState.status
  pairReady,     \* displayBridgeState.ready
  pairPort,      \* controlPort, numbered by its offer; or 0
  pairLeft,      \* retries, presses and reloads that may still come
  pairOffers,    \* offers that are posted and not yet heard
  pairSaid,      \* ports on which "ready" is under way
  pairKnown,     \* the display is in the manager's list of clients
  pairPage,      \* transportDecision, or "unloaded"
  pairTaken,     \* localPort, or 0
  pairLoaded,    \* readySent: the display has its assets
  pairPresent,   \* the display is connected to the server
  pairFlight,    \* controls under way, and over what
  pairSent,      \* for each control: was it due, did it arrive
  pairStale      \* "ready" is not true of the port the manager holds

pairVars == <<pairStatus, pairReady, pairPort, pairLeft, pairOffers, pairSaid, pairKnown, pairPage,
              pairTaken, pairLoaded, pairPresent, pairFlight, pairSent, pairStale>>

managerSide == <<pairStatus, pairReady, pairPort, pairKnown>>
displaySide == <<pairPage, pairTaken, pairLoaded, pairPresent>>

PairInit ==
  /\ pairStatus = "idle" /\ pairReady = FALSE /\ pairPort = 0
  /\ pairLeft = [timers |-> 0, presses |-> PairByHand, reloads |-> PairReloads]
  /\ pairOffers = {} /\ pairSaid = {} /\ pairKnown = FALSE
  /\ pairPage = "unloaded" /\ pairTaken = 0 /\ pairLoaded = FALSE /\ pairPresent = FALSE
  /\ pairFlight = {} /\ pairSent = <<>> /\ pairStale = FALSE

-----------------------------------------------------------------------------
(* Manager *)

OpenDisplay ==
  /\ pairStatus = "idle"
  /\ pairStatus' = "opening"
  /\ pairLeft' = [pairLeft EXCEPT !.timers = PairRetries]
  /\ UNCHANGED <<pairReady, pairPort, pairKnown, displaySide, pairOffers, pairSaid, pairFlight, pairSent, pairStale>>

\* pairDisplay: the port held before is closed, "ready" stays as it was.
PairDisplay ==
  /\ pairPort' = pairPort + 1
  /\ pairOffers' = pairOffers \cup {pairPort'}
  /\ pairStatus' = "connected"
  /\ UNCHANGED <<pairReady, pairKnown, displaySide, pairSaid, pairFlight, pairSent>>

\* Seeded fault: timers go on when the display is ready.
AnyTimer == TRUE

TimerPairs == ~pairReady

PairTimerFires ==
  /\ pairLeft.timers > 0
  /\ pairLeft' = [pairLeft EXCEPT !.timers = @ - 1]
  /\ IF TimerPairs
     THEN PairDisplay /\ UNCHANGED pairStale
     ELSE UNCHANGED <<managerSide, displaySide, pairOffers, pairSaid, pairFlight, pairSent, pairStale>>

\* The Reconnect button.  Pressed while the display is paired and ready it
\* offers a port the display ignores, and "ready" is no longer true.
Reconnect ==
  /\ pairStatus # "idle" /\ pairLeft.presses > 0
  /\ pairLeft' = [pairLeft EXCEPT !.presses = @ - 1]
  /\ PairDisplay
  /\ pairStale' = (pairStale \/ pairReady)

\* handlePortMessage, on the port that is held; the others are closed.
HearReady(p) ==
  /\ p \in pairSaid
  /\ pairSaid' = pairSaid \ {p}
  /\ pairReady' = (pairReady \/ p = pairPort)
  /\ pairStale' = (pairStale \/ (p = pairPort /\ pairTaken # p))
  /\ UNCHANGED <<pairStatus, pairPort, pairKnown, displaySide, pairLeft, pairOffers, pairFlight, pairSent>>

HearDisplays ==
  /\ pairKnown # pairPresent
  /\ pairKnown' = pairPresent
  /\ UNCHANGED <<pairStatus, pairReady, pairPort, displaySide, pairLeft, pairOffers, pairSaid, pairFlight, pairSent, pairStale>>

Listens == pairPage \in {"local", "server"}

\* displayTransport.sendControl: over the port if there is one, and over the
\* server unless the display at the port is ready.  It is due if the display
\* has settled for a transport and can be reached.
SendControl ==
  LET local == pairStatus = "connected"
      ready == local /\ pairReady
      id == Len(pairSent) + 1
  IN /\ Len(pairSent) < PairControls
     /\ pairFlight' = pairFlight
          \cup (IF local THEN {[id |-> id, over |-> pairPort]} ELSE {})
          \cup (IF ~ready /\ pairKnown THEN {[id |-> id, over |-> 0]} ELSE {})
     /\ pairSent' = Append(pairSent,
          [due |-> Listens /\ ~pairStale /\ (ready \/ (pairKnown /\ pairPresent)), arrived |-> FALSE])
     /\ UNCHANGED <<managerSide, displaySide, pairLeft, pairOffers, pairSaid, pairStale>>

-----------------------------------------------------------------------------
(* Display *)

\* reportReadyIfPossible, over a port just taken or with assets just loaded.
SaysReady(taken, loaded) == pairSaid' = IF loaded /\ taken # 0 THEN pairSaid \cup {taken} ELSE pairSaid

InitializeDisplay ==
  /\ pairPage = "unloaded" /\ pairStatus # "idle"
  /\ pairPage' = "pending"
  /\ UNCHANGED <<managerSide, pairTaken, pairLoaded, pairPresent, pairLeft, pairOffers, pairSaid, pairFlight, pairSent, pairStale>>

PresenceConnects ==
  /\ pairPage # "unloaded" /\ ~pairPresent
  /\ pairPresent' = TRUE
  /\ UNCHANGED <<managerSide, pairPage, pairTaken, pairLoaded, pairLeft, pairOffers, pairSaid, pairFlight, pairSent, pairStale>>

PairTimesOut ==
  /\ pairPage = "pending"
  /\ pairPage' = "server"
  /\ UNCHANGED <<managerSide, pairTaken, pairLoaded, pairPresent, pairLeft, pairOffers, pairSaid, pairFlight, pairSent, pairStale>>

\* windowPairListener and enterLocalMode; the offer is lost on a page that is
\* not loaded, and nobody listens any more once one is taken.
OfferArrives(p) ==
  /\ p \in pairOffers /\ \A q \in pairOffers : p <= q
  /\ pairOffers' = pairOffers \ {p}
  /\ IF pairPage \in {"pending", "server"}
     THEN /\ pairPage' = "local" /\ pairTaken' = p
          /\ SaysReady(p, pairLoaded)
          /\ pairStale' = (pairStale /\ p # pairPort)
     ELSE UNCHANGED <<pairPage, pairTaken, pairSaid, pairStale>>
  /\ UNCHANGED <<managerSide, pairLoaded, pairPresent, pairLeft, pairFlight, pairSent>>

AssetsLoaded ==
  /\ pairPage # "unloaded" /\ ~pairLoaded
  /\ pairLoaded' = TRUE
  /\ SaysReady(pairTaken, TRUE)
  /\ UNCHANGED <<managerSide, pairPage, pairTaken, pairPresent, pairLeft, pairOffers, pairFlight, pairSent, pairStale>>

\* onLocalPortMessage, or a message of the server, which a display that still
\* waits for an offer ignores.
ControlArrives(c) ==
  /\ c \in pairFlight
  /\ IF c.over = 0 THEN pairPage # "unloaded" ELSE c.over = pairTaken
  /\ pairFlight' = pairFlight \ {c}
  /\ pairSent' = IF Listens THEN [pairSent EXCEPT ![c.id].arrived = TRUE] ELSE pairSent
  /\ UNCHANGED <<managerSide, displaySide, pairLeft, pairOffers, pairSaid, pairStale>>

\* What was under way to the old page is gone, and no longer due.
ReloadDisplay ==
  /\ pairPage # "unloaded" /\ pairLeft.reloads > 0
  /\ pairLeft' = [pairLeft EXCEPT !.reloads = @ - 1]
  /\ pairPage' = "unloaded" /\ pairTaken' = 0 /\ pairLoaded' = FALSE /\ pairPresent' = FALSE
  /\ pairFlight' = {}
  /\ pairSent' = [i \in DOMAIN pairSent |-> [pairSent[i] EXCEPT !.due = FALSE]]
  /\ pairStale' = (pairStale \/ pairReady)
  /\ UNCHANGED <<managerSide, pairOffers, pairSaid>>

PairNext ==
  \/ OpenDisplay \/ PairTimerFires \/ Reconnect \/ HearDisplays \/ SendControl
  \/ \E p \in pairSaid : HearReady(p)
  \/ InitializeDisplay \/ PresenceConnects \/ PairTimesOut \/ AssetsLoaded \/ ReloadDisplay
  \/ \E p \in pairOffers : OfferArrives(p)
  \/ \E c \in pairFlight : ControlArrives(c)

PairSpec == PairInit /\ [][PairNext]_pairVars

-----------------------------------------------------------------------------
(* Properties *)

\* Whatever the order of retries, offers, time-out and the answer of the
\* display, a control sent to a display that listens is executed or on its way
\* to it.  A manager that takes the display for ready sends it over the port
\* alone, so that port must be the one the display took.  The exception is a
\* display that was reloaded, or paired anew by hand, after it was ready, until
\* it takes an offer again.
ControlsReach ==
  \A i \in DOMAIN pairSent :
    pairSent[i].due =>
      \/ pairSent[i].arrived
      \/ \E c \in pairFlight : c.id = i /\ (c.over = 0 \/ c.over = pairTaken)
=============================================================================
