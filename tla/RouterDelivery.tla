--------------------------- MODULE RouterDelivery ---------------------------
(***************************************************************************)
(* How MessageRouterService on the server routes control messages to       *)
(* clients: latest-state controls to a large audience are held back to one *)
(* per interval and key, the newest one replacing the one held, and a      *)
(* timer replays what is held.                                             *)
(*                                                                         *)
(* Time is kept relative to now: age is the time since a key's last        *)
(* broadcast and wait the time left to a due time, both capped.  A timer   *)
(* may run late, behind other callbacks of the server's event loop.        *)
(***************************************************************************)
EXTENDS Integers, Sequences, FiniteSets

CONSTANTS
  Target,        \* target selectors: all, a group, a list of clients
  Action,        \* latest-state actions
  Interval,      \* minBroadcastIntervalMs
  Threshold,     \* only a larger audience is throttled (50)
  Audiences,     \* numbers of client sockets a target can resolve to
  MaxValue,      \* bound: values routed per key
  None

\* latestStateKey
Key == Target \X Action

ASSUME DeliveryAssumption ==
  /\ Interval \in Nat \ {0} /\ Threshold \in Nat /\ MaxValue \in Nat
  /\ Audiences \subseteq Nat
  /\ None \notin [value : Nat, wait : 0..Interval]

VARIABLES
  steady,        \* TRUE: timers run on time, no batches, no audience that
                 \* is small without being empty; chosen at the start
  audience,      \* resolveTargetSocketIds(target).length
  age,           \* Date.now() - lastBroadcastTime, at most Interval
  pending,       \* pendingLatestStateByKey
  timers,        \* replay timers that have not fired
  routed,        \* the newest value routed for each key
  log            \* the values emitted for each key, in order

vars == <<steady, audience, age, pending, timers, routed, log>>

Large(t) == audience[t] > Threshold

Due(k) == pending[k] # None /\ pending[k].wait = 0

\* The event loop of a server that is not busy runs a due timer before the
\* next message.
LoopFree == steady => \A r \in timers : r.wait > 0

Steady(n) == n = 0 \/ n > Threshold

Init ==
  /\ steady \in BOOLEAN
  /\ audience \in [Target -> Audiences]
  /\ steady => \A t \in Target : Steady(audience[t])
  /\ age = [k \in Key |-> Interval]
  /\ pending = [k \in Key |-> None]
  /\ timers = {}
  /\ routed = [k \in Key |-> 0]
  /\ log = [k \in Key |-> <<>>]

-----------------------------------------------------------------------------
(* Emitting *)

\* Seeded fault: a flushed entry stays in the pending map.
KeepFlushed(ks) == UNCHANGED pending

\* The flushed keys leave the pending map, whether they were delivered or had
\* no audience left.
DropPending(ks) == pending' = [k \in Key |-> IF k \in ks THEN None ELSE pending[k]]

ClearTimers(ks) == timers' = {r \in timers : r.key \notin ks}

\* lastBroadcastTime of the throttled broadcasts and of the replays.
Stamp(stamped, flushed) ==
  age' = [k \in Key |-> IF k \in stamped \cup flushed THEN 0 ELSE age[k]]

\* emitToSockets of the message that carries the newest value of the keys
\* sent, and then of every entry in flush that still has an audience.
Emit(sent, flush, stamped) ==
  LET heard == {k \in flush : audience[k[1]] > 0}
  IN /\ log' = [k \in Key |->
            log[k] \o (IF k \in sent THEN <<routed'[k]>> ELSE <<>>)
                   \o (IF k \in heard THEN <<pending[k].value>> ELSE <<>>)]
     /\ Stamp(stamped, heard)
     /\ DropPending(flush)
     /\ ClearTimers(flush)

\* flushDueLatestState, which every routed control ends with.
DueKeys == {k \in Key : Due(k)}

\* Seeded fault: a held key keeps its first value.
KeepFirst(k, entry) ==
  pending' = [pending EXCEPT ![k] = IF @ = None THEN entry ELSE @]

Hold(k, entry) == pending' = [pending EXCEPT ![k] = entry]

\* Seeded fault: the timer replaced is not armed again.
NoRearm(k, wait) == timers' = {r \in timers : r.key # k}

\* clearTimeout of the timer replaced and setTimeout of the new one.
Rearm(k, wait) ==
  timers' = {r \in timers : r.key # k} \cup {[key |-> k, wait |-> wait]}

\* queueLatestStateReplay: the newest value replaces the one held.
QueueLatestStateReplay(k) ==
  LET wait == Interval - age[k]
  IN /\ Hold(k, [value |-> routed'[k], wait |-> wait])
     /\ Rearm(k, wait)
     /\ UNCHANGED <<age, log>>

-----------------------------------------------------------------------------
(* The handlers *)

NewValues(ks) ==
  /\ \A k \in ks : routed[k] < MaxValue
  /\ routed' = [k \in Key |-> IF k \in ks THEN routed[k] + 1 ELSE routed[k]]

\* routeControlMessage of a latest-state control.  Without an audience the
\* message is rejected and nothing changes.
RouteLatestState(k) ==
  LET t == k[1]
  IN /\ LoopFree
     /\ audience[t] > 0
     /\ NewValues({k})
     /\ IF Large(t) /\ age[k] < Interval
        THEN QueueLatestStateReplay(k)
        ELSE Emit({k}, DueKeys, IF Large(t) THEN {k} ELSE {})
     /\ UNCHANGED <<steady, audience>>

\* routeControlMessage of a control batch, a custom action: a reliable
\* command that carries values of several keys past the throttle.
RouteBatch(t, as) ==
  /\ ~steady
  /\ audience[t] > 0
  /\ NewValues({<<t, a>> : a \in as})
  /\ Emit({<<t, a>> : a \in as}, DueKeys, {})
  /\ UNCHANGED <<steady, audience>>

\* The replay timer's callback.
ReplayTimer(r) ==
  /\ r \in timers /\ r.wait = 0
  /\ IF pending[r.key] = None
     THEN timers' = timers \ {r} /\ UNCHANGED <<pending, age, log>>
     ELSE Emit({}, {r.key}, {})
  /\ UNCHANGED <<steady, audience, routed>>

\* Clients join, leave and change groups.
AudienceChanges(t, n) ==
  /\ n # audience[t]
  /\ steady => Steady(n)
  /\ audience' = [audience EXCEPT ![t] = n]
  /\ UNCHANGED <<steady, age, pending, timers, routed, log>>

Less(n) == IF n = 0 THEN 0 ELSE n - 1

Tick ==
  /\ LoopFree
  /\ age' = [k \in Key |-> IF age[k] < Interval THEN age[k] + 1 ELSE Interval]
  /\ pending' = [k \in Key |-> IF pending[k] = None THEN None
                               ELSE [pending[k] EXCEPT !.wait = Less(@)]]
  /\ timers' = {[r EXCEPT !.wait = Less(@)] : r \in timers}
  /\ UNCHANGED <<steady, audience, routed, log>>

Timer(k) == \E r \in timers : r.key = k /\ ReplayTimer(r)

Next ==
  \/ \E k \in Key : RouteLatestState(k)
  \/ \E t \in Target, as \in SUBSET Action : as # {} /\ RouteBatch(t, as)
  \/ \E k \in Key : Timer(k)
  \/ \E t \in Target, n \in Audiences : AudienceChanges(t, n)
  \/ Tick

Spec == Init /\ [][Next]_vars

\* Time passes and a due timer runs in the end.
FairSpec == Spec /\ WF_vars(Tick) /\ \A k \in Key : WF_vars(Timer(k))

-----------------------------------------------------------------------------
(* Properties *)

\* docs/harness/PLAN.md:135 "no dead pending map": every entry held has the
\* one timer that will replay it, at the time it is due, and every timer has
\* its entry (queueLatestStateReplay, flushDueLatestState).
NoDeadPending ==
  /\ \A k \in Key : pending[k] # None => [key |-> k, wait |-> pending[k].wait] \in timers
  /\ \A r \in timers : pending[r.key] # None /\ pending[r.key].wait = r.wait

\* Whatever the timers, the batches and the audience do, a value is emitted
\* at most once, and one that is held has not been emitted: its replay is
\* not a repetition.
Values(s) == {s[i] : i \in 1..Len(s)}
EmittedOnce ==
  \A k \in Key :
    /\ \A i, j \in 1..Len(log[k]) : log[k][i] = log[k][j] => i = j
    /\ pending[k] # None => pending[k].value \notin Values(log[k])

\* The contract of a latest-state key: increasing values, none twice, as long
\* as the server is steady.
Abstract ==
  INSTANCE LatestValue WITH
    accepted <- [k \in Key |-> IF steady THEN routed[k] ELSE 0],
    log <- [k \in Key |-> IF steady THEN log[k] ELSE <<>>]
DeliversInOrder == Abstract!Spec

\* Every entry held is replayed or removed without a later command.
HeldIsReplayed == \A k \in Key : pending[k] # None ~> pending[k] = None

\* A value that is held reaches the audience, unless a newer one replaces it
\* or nobody is left: message-router.service.spec.ts:675 "replays the
\* final latest-state value without a later command".
Last(s) == IF s = <<>> THEN 0 ELSE s[Len(s)]
LastValueArrives ==
  \A k \in Key : \A n \in 1..MaxValue :
    (steady /\ pending[k] # None /\ routed[k] = n)
      ~> (Last(log[k]) = n \/ routed[k] > n \/ audience[k[1]] = 0)
=============================================================================
