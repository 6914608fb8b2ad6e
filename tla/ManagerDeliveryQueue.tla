------------------------ MODULE ManagerDeliveryQueue ------------------------
(***************************************************************************)
(* How ManagerSDK sends controls: ManagerDeliveryQueue collects what one   *)
(* task sends and flushes it in a microtask, holds back throttled          *)
(* latest-state actions while many clients are connected, and replays the  *)
(* last one of each key from a timer.                                      *)
(*                                                                         *)
(* age and wait are times relative to now, as in RouterDelivery.  A browser *)
(* runs the microtask before any other task; a timer may run late.         *)
(***************************************************************************)
EXTENDS Integers, Sequences, SequencesExt

CONSTANTS
  Target,        \* target selectors, told apart by targetKey
  Latest,        \* LATEST_STATE_ACTIONS
  Throttled,     \* THROTTLED_ACTIONS
  Reliable,      \* other actions
  Throttle,      \* highFreqThrottleMs > 0
  Scheduling,    \* TRUE: controls with an executeAt are sent, too
  MaxValue,      \* bound: values sent per key
  None

Action == Latest \cup Reliable
Key == Target \X Action

\* A control: its value (payload), numbered per key, and whether it has an
\* executeAt.
Item == [action : Action, value : 1..MaxValue, at : BOOLEAN]

ASSUME QueueAssumption ==
  /\ Throttled \subseteq Latest /\ Latest \cap Reliable = {}
  /\ Throttle \in Nat \ {0} /\ MaxValue \in Nat
  /\ Scheduling \in BOOLEAN
  /\ None \notin [item : Item, wait : 0..Throttle]

VARIABLES
  online,        \* socket.connected
  crowded,       \* state.clients.length > 10
  age,           \* Date.now() - lastSentByAction, at most Throttle
  pending,       \* pendingLatestStateByKey
  timers,        \* replay timers that have not fired
  queue,         \* pendingControlByTargetKey, in insertion order
  scheduled,     \* pendingControlFlushScheduled
  sent,          \* the newest value sent for each key
  wire,          \* every control emitted to the server, in order
  disturbed      \* history: a timer was late or the crowd fell under a held value

vars == <<online, crowded, age, pending, timers, queue, scheduled, sent, wire, disturbed>>

TimerDue == \E r \in timers : r.wait = 0

\* Anything but more sends of the same task waits for the microtask.
TaskOver == ~scheduled

Init ==
  /\ online = TRUE
  /\ crowded \in BOOLEAN
  /\ age = [a \in Action |-> Throttle]
  /\ pending = [k \in Key |-> None]
  /\ timers = {}
  /\ queue = <<>>
  /\ scheduled = FALSE
  /\ sent = [k \in Key |-> 0]
  /\ wire = <<>>
  /\ disturbed = FALSE

-----------------------------------------------------------------------------
(* The microtask queue (enqueueControl) *)

\* Seeded fault: a reliable control coalesces, too.
CoalescesReliable(item) == ~item.at

\* classifyDelivery: a latest-state control without executeAt coalesces.
Coalesces(item) == item.action \in Latest /\ ~item.at

\* The first queued item with the same action takes the new payload and keeps
\* its own executeAt.
Merge(items, item) ==
  LET i == CHOOSE j \in 1..Len(items) :
             /\ items[j].action = item.action
             /\ \A l \in 1..(j - 1) : items[l].action # item.action
  IN [items EXCEPT ![i].value = item.value]

AddItem(items, item) ==
  IF Coalesces(item) /\ \E j \in 1..Len(items) : items[j].action = item.action
  THEN Merge(items, item)
  ELSE Append(items, item)

\* Seeded fault: the flush is not scheduled for a replayed value.
NoMicrotask == UNCHANGED scheduled

ScheduleFlush == scheduled' = TRUE

EnqueueControl(t, item) ==
  /\ queue' =
       IF \E i \in 1..Len(queue) : queue[i].target = t
       THEN [i \in 1..Len(queue) |->
               IF queue[i].target = t
               THEN [target |-> t, items |-> AddItem(queue[i].items, item)]
               ELSE queue[i]]
       ELSE Append(queue, [target |-> t, items |-> <<item>>])
  /\ ScheduleFlush

Hold(k, entry) == pending' = [pending EXCEPT ![k] = entry]

\* Seeded fault: the timer replaced stays armed with its old item.
LeaveTimer(k, wait, item) ==
  timers' = timers \cup {[key |-> k, wait |-> wait, item |-> item]}

\* Seeded fault: the timer replaced is cleared and none armed.
NoRearm(k, wait, item) == timers' = {r \in timers : r.key # k}

\* clearTimeout of the timer replaced and setTimeout of the new one, whose
\* callback sends the item it was created with.
Rearm(k, wait, item) ==
  timers' = {r \in timers : r.key # k} \cup {[key |-> k, wait |-> wait, item |-> item]}

QueueLatestStateReplay(k, item) ==
  LET wait == Throttle - age[item.action]
  IN /\ Hold(k, [item |-> item, wait |-> wait])
     /\ Rearm(k, wait, item)
     /\ UNCHANGED <<age, queue, scheduled>>

Stamp(a) == age' = [age EXCEPT ![a] = 0]

-----------------------------------------------------------------------------
(* The operations *)

NewValue(k) == sent[k] < MaxValue /\ sent' = [sent EXCEPT ![k] = @ + 1]

\* sendControl and queueControl of a latest-state control.
SendLatest(t, a) ==
  LET k    == <<t, a>>
      item == [action |-> a, value |-> sent[k] + 1, at |-> FALSE]
  IN /\ online
     /\ NewValue(k)
     /\ disturbed' = (disturbed \/ TimerDue)
     /\ \/ /\ a \in Throttled /\ crowded /\ age[a] < Throttle
           /\ QueueLatestStateReplay(k, item)
        \/ /\ a \in Throttled /\ crowded /\ age[a] = Throttle
           /\ Stamp(a)
           /\ EnqueueControl(t, item)
           /\ UNCHANGED <<pending, timers>>
        \/ /\ ~(a \in Throttled /\ crowded)
           /\ EnqueueControl(t, item)
           /\ UNCHANGED <<age, pending, timers>>
     /\ UNCHANGED <<online, crowded, wire>>

\* sendControl of a reliable control, or of any control with an executeAt.
SendPlain(t, a, at) ==
  /\ online
  /\ a \in Reliable \/ at
  /\ at => Scheduling
  /\ NewValue(<<t, a>>)
  /\ EnqueueControl(t, [action |-> a, value |-> sent[<<t, a>>] + 1, at |-> at])
  /\ UNCHANGED <<online, crowded, age, pending, timers, wire, disturbed>>

Labelled(entry) ==
  [i \in 1..Len(entry.items) |-> [target |-> entry.target, item |-> entry.items[i]]]

\* The controls a queue holds, in the order a flush emits them.
Emission(q) == FlattenSeq([i \in 1..Len(q) |-> Labelled(q[i])])

\* Seeded fault: the flush leaves the queue as it is.
LeaveQueue == UNCHANGED queue

ClearQueue == queue' = <<>>

\* flushQueuedControls: one message or batch per target, in insertion order;
\* everything is dropped when the socket is gone.
FlushQueuedControls ==
  /\ scheduled
  /\ scheduled' = FALSE
  /\ ClearQueue
  /\ wire' = IF online THEN wire \o Emission(queue) ELSE wire
  /\ UNCHANGED <<online, crowded, age, pending, timers, sent, disturbed>>

\* The replay timer's callback.
ReplayTimer(r) ==
  /\ r \in timers /\ r.wait = 0 /\ TaskOver
  /\ timers' = timers \ {r}
  /\ pending' = [pending EXCEPT ![r.key] = None]
  /\ IF online
     THEN Stamp(r.item.action) /\ EnqueueControl(r.key[1], r.item)
     ELSE UNCHANGED <<age, queue, scheduled>>
  /\ UNCHANGED <<online, crowded, sent, wire, disturbed>>

\* The connection is lost and comes back.
SocketChanges ==
  /\ TaskOver
  /\ online' = ~online
  /\ UNCHANGED <<crowded, age, pending, timers, queue, scheduled, sent, wire, disturbed>>

\* ManagerSDK.disconnect, possibly in a task that has just sent something:
\* what is held is forgotten and the client list is cleared.
Disconnect ==
  /\ online
  /\ online' = FALSE
  /\ crowded' = FALSE
  /\ pending' = [k \in Key |-> None]
  /\ timers' = {}
  /\ UNCHANGED <<age, queue, scheduled, sent, wire, disturbed>>

\* A client list arrives.
CrowdChanges ==
  /\ TaskOver
  /\ crowded' = ~crowded
  /\ disturbed' = (disturbed \/ (crowded /\ timers # {}))
  /\ UNCHANGED <<online, age, pending, timers, queue, scheduled, sent, wire>>

Less(n) == IF n = 0 THEN 0 ELSE n - 1

Tick ==
  /\ TaskOver
  /\ age' = [a \in Action |-> IF age[a] < Throttle THEN age[a] + 1 ELSE Throttle]
  /\ pending' = [k \in Key |-> IF pending[k] = None THEN None
                               ELSE [pending[k] EXCEPT !.wait = Less(@)]]
  /\ timers' = {[r EXCEPT !.wait = Less(@)] : r \in timers}
  /\ UNCHANGED <<online, crowded, queue, scheduled, sent, wire, disturbed>>

Timer(k) == \E r \in timers : r.key = k /\ ReplayTimer(r)

Next ==
  \/ \E t \in Target, a \in Latest : SendLatest(t, a)
  \/ \E t \in Target, a \in Action, at \in BOOLEAN : SendPlain(t, a, at)
  \/ FlushQueuedControls
  \/ \E k \in Key : Timer(k)
  \/ SocketChanges
  \/ Disconnect
  \/ CrowdChanges
  \/ Tick

Spec == Init /\ [][Next]_vars

\* Microtasks and due timers run, and time passes.
FairSpec ==
  Spec /\ WF_vars(FlushQueuedControls) /\ WF_vars(Tick) /\ \A k \in Key : WF_vars(Timer(k))

-----------------------------------------------------------------------------
(* Properties *)

\* docs/harness/PLAN.md:135 "no dead pending map": what is held and the timers
\* correspond one to one, through replacement, replay, loss of the connection
\* and disconnect.
NoDeadPending ==
  timers = {[key |-> k, wait |-> pending[k].wait, item |-> pending[k].item] :
              k \in {l \in Key : pending[l] # None}}

\* A queued control never waits for a later send: the microtask is pending
\* exactly while something is queued, one entry per target.
FlushIsScheduled ==
  /\ scheduled <=> queue # <<>>
  /\ \A i, j \in 1..Len(queue) : queue[i].target = queue[j].target => i = j

\* A control to t with action a, with or without an executeAt.
Fits(w, t, a, at) == w.target = t /\ w.item.action = a /\ w.item.at = at

\* The values of such controls in a stream, in order.
ValuesIn(stream, t, a, at) ==
  LET values[n \in 0..Len(stream)] ==
        IF n = 0 THEN <<>>
        ELSE IF Fits(stream[n], t, a, at)
             THEN Append(values[n - 1], stream[n].item.value)
             ELSE values[n - 1]
  IN values[Len(stream)]

\* What went out and what a flush would add.
Flow(t, a) == ValuesIn(wire \o Emission(queue), t, a, FALSE)

\* Coalescing and throttling neither drop, repeat nor reorder the reliable
\* commands to a target: what went out and what is queued is what was sent,
\* as long as the socket stays up (enqueueControl, flushQueuedControls).
ReliableKept ==
  [][online' => \A t \in Target, a \in Reliable :
       Flow(t, a)' \in {Flow(t, a), Append(Flow(t, a), sent'[<<t, a>>])}]_vars

\* manager-sdk.spec.ts:434 "coalesces latest-state controls and flushes the
\* last value after throttle": the values of a key go out in order and none
\* twice, unless something was sent while a timer was late or the number of
\* clients fell while a value was held.
SameLatest(w, x) ==
  /\ w.target = x.target /\ w.item.action = x.item.action
  /\ w.item.action \in Latest /\ ~w.item.at /\ ~x.item.at

InOrder ==
  LET out == wire \o Emission(queue)
  IN  disturbed \/ \A i, j \in 1..Len(out) :
        i < j /\ SameLatest(out[i], out[j]) => out[i].item.value < out[j].item.value

\* A value held is replayed or forgotten without a later send.
HeldIsReplayed == \A k \in Key : pending[k] # None ~> pending[k] = None

\* delivery-contract.ts:48-53, scheduled commands do not coalesce, and
\* manager-sdk.spec.ts:462 "does not let latest-state throttling silently drop
\* reliable or scheduled commands": a queued scheduled control is not altered
\* by what is sent after it.
ScheduledKept ==
  [][\A i \in 1..Len(queue) : queue'  # <<>> =>
       \A j \in 1..Len(queue[i].items) :
         queue[i].items[j].at => queue'[i].items[j] = queue[i].items[j]]_vars
=============================================================================
