--------------------- MODULE ManagerDeliveryQueueProofs ---------------------
(***************************************************************************)
(* Proofs about ManagerDeliveryQueue for every set of targets and actions  *)
(* and every throttle: what is held has its one timer, what is queued has  *)
(* its microtask, the values of a key leave in the order of the sends, no  *)
(* reliable control is lost, repeated or overtaken, and an undisturbed     *)
(* queue keeps the contract of a latest-state key.                         *)
(***************************************************************************)
EXTENDS ManagerDeliveryQueue, SequenceLemmas

-----------------------------------------------------------------------------
(* The inductive invariant *)

Held  == [item : Item, wait : 0..Throttle]
Queued == [target : Target, items : Seq(Item)]

\* A control on the wire.
Out == [target : Target, item : Item]

TypeOK ==
  /\ online \in BOOLEAN /\ crowded \in BOOLEAN
  /\ scheduled \in BOOLEAN /\ disturbed \in BOOLEAN
  /\ age \in [Action -> 0..Throttle]
  /\ pending \in [Key -> Held \cup {None}]
  /\ queue \in Seq(Queued)
  /\ wire \in Seq(Out)
  /\ sent \in [Key -> 0..MaxValue]

\* The timer of an entry held for k.
TimerOf(k, held) == [key |-> k, wait |-> held.wait, item |-> held.item]

Inv == TypeOK /\ NoDeadPending /\ FlushIsScheduled

LEMMA NoneIsNotHeld == None \notin Held
BY QueueAssumption DEF QueueAssumption, Held

LEMMA TimersPointwise ==
  NoDeadPending <=>
    \A r : r \in timers <=> \E k \in Key : pending[k] # None /\ r = TimerOf(k, pending[k])
BY DEF NoDeadPending, TimerOf

LEMMA Types ==
  /\ Throttle \in Nat \ {0} /\ MaxValue \in Nat
  /\ \A t \in Target, a \in Action : <<t, a>> \in Key
  /\ \A k \in Key : k[1] \in Target /\ k[2] \in Action
  /\ Latest \subseteq Action /\ Reliable \subseteq Action
BY QueueAssumption DEF QueueAssumption, Key, Action

-----------------------------------------------------------------------------
(* Sequences made of sequences *)

\* The function FlattenSeq computes: the first n parts, one after the other.
Flattens(f, s, n) == f = [i \in 1..n |-> IF i = 1 THEN s[i] ELSE f[i - 1] \o s[i]]

\* It exists for every n.
LEMMA FlattenExists ==
  ASSUME NEW s, NEW n \in Nat
  PROVE  \E f : Flattens(f, s, n)
<1> DEFINE K == {m \in Nat : \E f : Flattens(f, s, m)}
<1>1. 0 \in K
  <2>1. Flattens([i \in 1..0 |-> s[i]], s, 0)
    BY DEF Flattens
  <2> QED BY <2>1
<1>2. ASSUME NEW m \in K PROVE m + 1 \in K
  <2>1. PICK f : Flattens(f, s, m)
    OBVIOUS
  <2> DEFINE g == [i \in 1..(m + 1) |-> IF i = 1 THEN s[i] ELSE f[i - 1] \o s[i]]
  <2>2. \A i \in 1..m : g[i] = f[i]
    <3>1. m \in Nat /\ \A i \in 1..m : f[i] = IF i = 1 THEN s[i] ELSE f[i - 1] \o s[i]
      BY <2>1 DEF Flattens
    <3> QED BY <3>1
  <2>3. \A i \in 1..(m + 1) : i # 1 => i - 1 \in 1..m
    OBVIOUS
  <2>4. g = [i \in 1..(m + 1) |-> IF i = 1 THEN s[i] ELSE g[i - 1] \o s[i]]
    BY <2>2, <2>3
  <2>5. Flattens(g, s, m + 1)
    BY <2>4 DEF Flattens
  <2> QED BY <2>5
<1> HIDE DEF K
<1>3. K = Nat
  BY <1>1, <1>2, SetInduction DEF K
<1> QED BY <1>3 DEF K

\* FlattenSeq satisfies its recursion.
LEMMA FlattenSeqValue ==
  ASSUME NEW s, Len(s) \in Nat \ {0}
  PROVE  \E f : Flattens(f, s, Len(s)) /\ FlattenSeq(s) = f[Len(s)]
<1> DEFINE f == CHOOSE f : Flattens(f, s, Len(s))
<1>1. Flattens(f, s, Len(s))
  BY FlattenExists
<1>2. FlattenSeq(s) = f[Len(s)]
  BY DEF FlattenSeq, Flattens
<1> QED BY <1>1, <1>2

\* An element of the flattened sequence is an element of one of its parts,
\* and two of them are ordered as their parts and their places in them.
Placed(flat, s, n) ==
  /\ \A p \in 1..Len(flat) : \E i \in 1..n : \E j \in 1..Len(s[i]) : flat[p] = s[i][j]
  /\ \A p, q \in 1..Len(flat) : p < q =>
       \E i, l \in 1..n : \E j \in 1..Len(s[i]), m \in 1..Len(s[l]) :
         /\ flat[p] = s[i][j] /\ flat[q] = s[l][m]
         /\ i < l \/ (i = l /\ j < m)

\* One more part keeps the order.
LEMMA PlacedFollows ==
  ASSUME NEW S, NEW s \in Seq(Seq(S)), NEW n \in Nat, n + 1 \in 1..Len(s),
         NEW flat \in Seq(S), Placed(flat, s, n)
  PROVE  flat \o s[n + 1] \in Seq(S) /\ Placed(flat \o s[n + 1], s, n + 1)
<1> DEFINE last == s[n + 1]
           new  == flat \o last
           N == Len(flat)
<1>1. last \in Seq(S)
  BY ElementOfSeq
<1>2. /\ new \in Seq(S) /\ Len(new) = N + Len(last) /\ N \in Nat /\ Len(last) \in Nat
      /\ \A i \in 1..Len(new) : new[i] = IF i <= N THEN flat[i] ELSE last[i - N]
  BY <1>1, ConcatProperties, LenProperties
<1> HIDE DEF new, N
<1>3. ASSUME NEW p \in 1..Len(new)
      PROVE  \/ p \in 1..N /\ new[p] = flat[p]
             \/ p - N \in 1..Len(last) /\ new[p] = last[p - N]
  <2>1. p \in Nat /\ 1 <= p /\ p <= N + Len(last) /\ new[p] = IF p <= N THEN flat[p] ELSE last[p - N]
    BY <1>2
  <2> HIDE DEF last
  <2> QED BY <1>2, <2>1
<1>4. ASSUME NEW p \in 1..Len(new)
      PROVE  \E i \in 1..(n + 1) : \E j \in 1..Len(s[i]) : new[p] = s[i][j]
  <2>1. CASE p \in 1..N /\ new[p] = flat[p]
    <3>1. PICK i \in 1..n : \E j \in 1..Len(s[i]) : flat[p] = s[i][j]
      BY <2>1 DEF Placed, N
    <3> QED BY <2>1, <3>1
  <2>2. CASE p - N \in 1..Len(last) /\ new[p] = last[p - N]
    <3>1. n + 1 \in 1..(n + 1)
      OBVIOUS
    <3> QED BY <2>2, <3>1
  <2> QED BY <1>3, <2>1, <2>2
<1>5. ASSUME NEW p \in 1..Len(new), NEW q \in 1..Len(new), p < q
      PROVE  \E i, l \in 1..(n + 1) : \E j \in 1..Len(s[i]), m \in 1..Len(s[l]) :
               /\ new[p] = s[i][j] /\ new[q] = s[l][m]
               /\ i < l \/ (i = l /\ j < m)
  <2>0. n + 1 \in 1..(n + 1) /\ \A i \in 1..n : i \in 1..(n + 1) /\ i < n + 1
    OBVIOUS
  <2>1. CASE q \in 1..N /\ new[q] = flat[q]
    <3>1. p \in 1..N /\ new[p] = flat[p]
      <4>1. p \in Nat /\ p < q /\ 1 <= p /\ q <= N
        BY <1>2, <1>5, <2>1
      <4>2. p \in 1..N
        BY <1>2, <4>1
      <4> QED BY <1>2, <1>5, <4>2
    <3>2. PICK i \in 1..n, l \in 1..n : \E j \in 1..Len(s[i]), m \in 1..Len(s[l]) :
             /\ flat[p] = s[i][j] /\ flat[q] = s[l][m]
             /\ i < l \/ (i = l /\ j < m)
      <4>1. \A a, b \in 1..N : a < b =>
              \E i \in 1..n, l \in 1..n : \E j \in 1..Len(s[i]), m \in 1..Len(s[l]) :
                /\ flat[a] = s[i][j] /\ flat[b] = s[l][m]
                /\ i < l \/ (i = l /\ j < m)
        BY DEF Placed, N
      <4> QED BY <1>5, <2>1, <3>1, <4>1
    <3>3. i \in 1..(n + 1) /\ l \in 1..(n + 1)
      BY <2>0
    <3> QED BY <2>1, <3>1, <3>2, <3>3
  <2>2. CASE q - N \in 1..Len(last) /\ new[q] = last[q - N]
    <3>1. CASE p \in 1..N /\ new[p] = flat[p]
      <4>1. PICK i \in 1..n : \E j \in 1..Len(s[i]) : flat[p] = s[i][j]
        BY <3>1 DEF Placed, N
      <4> QED BY <2>0, <2>2, <3>1, <4>1
    <3>2. CASE p - N \in 1..Len(last) /\ new[p] = last[p - N]
      <4>1. p - N < q - N
        BY <1>2, <1>5
      <4> QED BY <2>0, <2>2, <3>2, <4>1
    <3> QED BY <1>3, <3>1, <3>2
  <2> QED BY <1>3, <2>1, <2>2
<1> QED BY <1>2, <1>4, <1>5 DEF Placed, new

\* FlattenSeq orders the elements of its parts.
LEMMA FlattenPlaced ==
  ASSUME NEW S, NEW s \in Seq(Seq(S))
  PROVE  FlattenSeq(s) \in Seq(S) /\ Placed(FlattenSeq(s), s, Len(s))
<1>1. Len(s) \in Nat
  BY LenProperties
<1>2. CASE Len(s) = 0
  <2>1. s = <<>> /\ FlattenSeq(s) = s
    BY <1>2, EmptySeq DEF FlattenSeq
  <2>2. \A n : Placed(<<>>, s, n)
    BY EmptySeq DEF Placed
  <2> QED BY <2>1, <2>2, EmptySeq
<1>3. CASE Len(s) # 0
  <2>1. PICK f : Flattens(f, s, Len(s)) /\ FlattenSeq(s) = f[Len(s)]
    BY <1>1, <1>3, FlattenSeqValue
  <2>2. /\ f[1] = s[1]
        /\ \A n \in 1..(Len(s) - 1) : f[n + 1] = f[n] \o s[n + 1]
    <3>1. \A i \in 1..Len(s) : f[i] = IF i = 1 THEN s[i] ELSE f[i - 1] \o s[i]
      BY <2>1, Zenon DEF Flattens
    <3>2. /\ 1 \in 1..Len(s)
          /\ \A n \in 1..(Len(s) - 1) : n + 1 \in 1..Len(s) /\ n + 1 # 1 /\ (n + 1) - 1 = n
      BY <1>1, <1>3
    <3>3. \A n \in 1..(Len(s) - 1) : f[n + 1] = f[(n + 1) - 1] \o s[n + 1]
      BY <3>1, <3>2, Zenon
    <3> QED BY <3>1, <3>2, <3>3
  <2> DEFINE K == {n \in Nat : n + 1 <= Len(s) => f[n + 1] \in Seq(S) /\ Placed(f[n + 1], s, n + 1)}
  <2>3. 0 \in K
    <3>1. 1 \in 1..Len(s) /\ f[1] \in Seq(S)
      BY <1>1, <1>3, <2>2, ElementOfSeq
    <3>2. Len(f[1]) \in Nat
      BY <3>1, LenProperties
    <3>3. Placed(f[1], s, 1)
      BY <2>2, <3>1, <3>2 DEF Placed
    <3> QED BY <3>1, <3>3
  <2>4. ASSUME NEW n \in K PROVE n + 1 \in K
    <3> SUFFICES ASSUME (n + 1) + 1 <= Len(s)
                 PROVE  f[(n + 1) + 1] \in Seq(S) /\ Placed(f[(n + 1) + 1], s, (n + 1) + 1)
      OBVIOUS
    <3>1. /\ n \in Nat /\ n + 1 \in Nat /\ (n + 1) + 1 \in 1..Len(s)
          /\ n + 1 \in 1..(Len(s) - 1) /\ n + 1 <= Len(s)
      BY <1>1
    <3>2. f[n + 1] \in Seq(S) /\ Placed(f[n + 1], s, n + 1)
      BY <3>1
    <3>3. f[(n + 1) + 1] = f[n + 1] \o s[(n + 1) + 1]
      BY <2>2, <3>1
    <3> HIDE DEF K
    <3> QED BY <3>1, <3>2, <3>3, PlacedFollows
  <2> HIDE DEF K
  <2>5. K = Nat
    BY <2>3, <2>4, SetInduction DEF K
  <2>6. Len(s) - 1 \in K /\ (Len(s) - 1) + 1 = Len(s)
    BY <1>1, <1>3, <2>5
  <2> QED BY <1>1, <2>1, <2>6 DEF K
<1> QED BY <1>2, <1>3

-----------------------------------------------------------------------------
(* What a flush emits *)

LEMMA PartsTyped ==
  ASSUME NEW q \in Seq(Queued)
  PROVE  /\ [i \in 1..Len(q) |-> Labelled(q[i])] \in Seq(Seq(Out))
         /\ Len([i \in 1..Len(q) |-> Labelled(q[i])]) = Len(q)
         /\ \A i \in 1..Len(q) : q[i] \in Queued /\ Len(Labelled(q[i])) = Len(q[i].items)
<1>1. ASSUME NEW i \in 1..Len(q)
      PROVE  /\ q[i] \in Queued /\ Labelled(q[i]) \in Seq(Out)
             /\ Len(Labelled(q[i])) = Len(q[i].items)
  <2>0. q[i] \in Queued
    BY ElementOfSeq
  <2>1. q[i] \in Queued /\ q[i].items \in Seq(Item) /\ q[i].target \in Target
    BY <2>0 DEF Queued
  <2>2. \A j \in 1..Len(q[i].items) : q[i].items[j] \in Item
    BY <2>1, ElementOfSeq
  <2>3. Len(q[i].items) \in Nat
    BY <2>1, LenProperties
  <2> QED BY <2>1, <2>2, <2>3 DEF Labelled, Out
<1>2. Len(q) \in Nat
  BY LenProperties
<1> QED BY <1>1, <1>2

\* The controls queued, as a set.
On(q) ==
  {w \in Out : \E i \in 1..Len(q) : \E j \in 1..Len(q[i].items) :
                 w = [target |-> q[i].target, item |-> q[i].items[j]]}

\* An entry holds one coalescing control of an action.
OneLatest(items) ==
  \A j, l \in 1..Len(items) :
    /\ items[j].action = items[l].action /\ items[j].action \in Latest
    /\ ~items[j].at /\ ~items[l].at
    => j = l

\* A flush emits what is queued, and at most one coalescing control of a key.
LEMMA EmissionOrder ==
  ASSUME NEW q \in Seq(Queued),
         \A i, l \in 1..Len(q) : q[i].target = q[l].target => i = l,
         \A i \in 1..Len(q) : OneLatest(q[i].items)
  PROVE  /\ Emission(q) \in Seq(Out)
         /\ \A p \in 1..Len(Emission(q)) : Emission(q)[p] \in On(q)
         /\ \A p, r \in 1..Len(Emission(q)) :
              p < r => ~SameLatest(Emission(q)[p], Emission(q)[r])
<1> DEFINE parts == [i \in 1..Len(q) |-> Labelled(q[i])]
           flat  == Emission(q)
<1>1. /\ parts \in Seq(Seq(Out)) /\ Len(parts) = Len(q)
      /\ \A i \in 1..Len(q) : q[i] \in Queued /\ Len(parts[i]) = Len(q[i].items)
  BY PartsTyped
<1>2. flat \in Seq(Out) /\ Placed(flat, parts, Len(q))
  BY <1>1, FlattenPlaced DEF Emission
<1>3. \A i \in 1..Len(q) : \A j \in 1..Len(q[i].items) :
        parts[i][j] = [target |-> q[i].target, item |-> q[i].items[j]]
  BY DEF Labelled
<1> HIDE DEF parts, flat
<1>4. ASSUME NEW p \in 1..Len(flat) PROVE flat[p] \in On(q)
  <2>1. PICK i \in 1..Len(q) : \E j \in 1..Len(parts[i]) : flat[p] = parts[i][j]
    BY <1>2 DEF Placed
  <2>2. PICK j \in 1..Len(q[i].items) : flat[p] = parts[i][j]
    BY <1>1, <2>1
  <2>3. flat[p] = [target |-> q[i].target, item |-> q[i].items[j]]
    BY <1>3, <2>2
  <2>4. flat[p] \in Out
    BY <1>2, ElementOfSeq
  <2> QED BY <2>3, <2>4 DEF On
<1>5. ASSUME NEW p \in 1..Len(flat), NEW r \in 1..Len(flat), p < r, SameLatest(flat[p], flat[r])
      PROVE  FALSE
  <2>1. PICK i \in 1..Len(q), l \in 1..Len(q) :
           \E j \in 1..Len(parts[i]), m \in 1..Len(parts[l]) :
             /\ flat[p] = parts[i][j] /\ flat[r] = parts[l][m]
             /\ i < l \/ (i = l /\ j < m)
    BY <1>2, <1>5 DEF Placed
  <2>2. PICK j \in 1..Len(q[i].items), m \in 1..Len(q[l].items) :
             /\ flat[p] = [target |-> q[i].target, item |-> q[i].items[j]]
             /\ flat[r] = [target |-> q[l].target, item |-> q[l].items[m]]
             /\ i < l \/ (i = l /\ j < m)
    BY <1>1, <1>3, <2>1
  <2>3. i = l /\ j < m
    BY <1>5, <2>2 DEF SameLatest
  <2> QED BY <1>5, <2>2, <2>3 DEF SameLatest, OneLatest
<1> QED BY <1>2, <1>4, <1>5 DEF flat

-----------------------------------------------------------------------------
(* The microtask queue *)

\* Queueing keeps the items well typed, whether it merges or appends.
LEMMA AddItemTyped ==
  ASSUME NEW items \in Seq(Item), NEW item \in Item
  PROVE  AddItem(items, item) \in Seq(Item)
<1>1. ASSUME NEW i PROVE [items EXCEPT ![i].value = item.value] \in Seq(Item)
  <2>1. ASSUME NEW x \in Item PROVE [x EXCEPT !.value = item.value] \in Item
    BY DEF Item
  <2>2. CASE i \in 1..Len(items)
    <3>1. [items[i] EXCEPT !.value = item.value] \in Item
      BY <2>1, <2>2, ElementOfSeq DEF Item
    <3>2. [items EXCEPT ![i] = [items[i] EXCEPT !.value = item.value]] \in Seq(Item)
      BY <2>2, <3>1, ExceptSeq
    <3> QED BY <3>2
  <2>3. CASE i \notin 1..Len(items)
    <3>1. [items EXCEPT ![i].value = item.value] = items
      BY <2>3, LenProperties
    <3> QED BY <3>1
  <2> QED BY <2>2, <2>3
<1>2. Merge(items, item) \in Seq(Item)
  BY <1>1 DEF Merge
<1>3. Append(items, item) \in Seq(Item)
  BY AppendProperties
<1> QED BY <1>2, <1>3 DEF AddItem

\* Queueing schedules the flush, and a target has one entry.
LEMMA EnqueueScheduled ==
  ASSUME TypeOK, FlushIsScheduled, NEW t \in Target, NEW item \in Item,
         EnqueueControl(t, item)
  PROVE  queue' \in Seq(Queued) /\ scheduled' \in BOOLEAN /\ FlushIsScheduled'
<1>1. scheduled' = TRUE /\ queue \in Seq(Queued) /\ Len(queue) \in Nat
  BY LenProperties DEF EnqueueControl, ScheduleFlush, TypeOK
<1>2. \A i \in 1..Len(queue) : queue[i] \in Queued
  BY <1>1, ElementOfSeq
<1>3. CASE \E i \in 1..Len(queue) : queue[i].target = t
  <2> DEFINE entry(i) == IF queue[i].target = t
                         THEN [target |-> t, items |-> AddItem(queue[i].items, item)]
                         ELSE queue[i]
  <2>1. queue' = [i \in 1..Len(queue) |-> entry(i)]
    BY <1>3 DEF EnqueueControl
  <2>2. ASSUME NEW i \in 1..Len(queue)
        PROVE  entry(i) \in Queued /\ entry(i).target = queue[i].target
    BY <1>2, AddItemTyped DEF Queued
  <2> HIDE DEF entry
  <2>3. queue' \in Seq(Queued) /\ Len(queue') = Len(queue)
    BY <1>1, <2>1, <2>2
  <2>4. queue' # <<>>
    BY <1>1, <1>3, <2>3
  <2>5. \A i, j \in 1..Len(queue') : queue'[i].target = queue'[j].target => i = j
    BY <2>1, <2>2, <2>3 DEF FlushIsScheduled
  <2> QED BY <1>1, <2>3, <2>4, <2>5 DEF FlushIsScheduled
<1>4. CASE ~\E i \in 1..Len(queue) : queue[i].target = t
  <2> DEFINE entry == [target |-> t, items |-> <<item>>]
  <2>1. entry \in Queued
    BY DEF Queued
  <2>2. queue' = Append(queue, entry)
    BY <1>4 DEF EnqueueControl
  <2>3. queue' \in Seq(Queued) /\ queue' # <<>> /\ Len(queue') = Len(queue) + 1
    BY <1>1, <2>1, <2>2, AppendProperties
  <2>4. /\ \A i \in 1..Len(queue) : queue'[i] = queue[i]
        /\ queue'[Len(queue) + 1].target = t
    BY <1>1, <2>1, <2>2, AppendProperties
  <2>5. \A i, j \in 1..Len(queue') : queue'[i].target = queue'[j].target => i = j
    BY <1>1, <1>4, <2>3, <2>4 DEF FlushIsScheduled
  <2> QED BY <1>1, <2>3, <2>5 DEF FlushIsScheduled
<1> QED BY <1>3, <1>4

-----------------------------------------------------------------------------
(* Holding, replaying, waiting *)

\* A value that is held gets its timer, and the one it replaces loses its own.
LEMMA HoldTimed ==
  ASSUME TypeOK, NoDeadPending, NEW k \in Key, NEW item \in Item,
         age[item.action] < Throttle, QueueLatestStateReplay(k, item)
  PROVE  pending' \in [Key -> Held \cup {None}] /\ NoDeadPending'
<1> DEFINE wait == Throttle - age[item.action]
           held == [item |-> item, wait |-> wait]
<1>1. held \in Held
  <2>1. age[item.action] \in 0..Throttle
    BY DEF TypeOK, Item
  <2> QED BY <2>1, Types DEF Held
<1>2. /\ pending' = [pending EXCEPT ![k] = held]
      /\ timers' = {r \in timers : r.key # k} \cup {TimerOf(k, held)}
  BY DEF QueueLatestStateReplay, Hold, Rearm, TimerOf
<1> HIDE DEF held, wait
<1>3. /\ pending'[k] = held /\ held # None
      /\ \A l \in Key : l # k => pending'[l] = pending[l]
  BY <1>1, <1>2, NoneIsNotHeld DEF TypeOK
<1>4. \A r : r \in timers' <=> \E l \in Key : pending'[l] # None /\ r = TimerOf(l, pending'[l])
  <2> TAKE r
  <2>1. \A l \in Key : TimerOf(l, pending[l]).key = l
    BY DEF TimerOf
  <2>2. r \in timers /\ r.key # k
          <=> \E l \in Key : l # k /\ pending[l] # None /\ r = TimerOf(l, pending[l])
    BY <2>1, TimersPointwise
  <2> QED BY <1>2, <1>3, <2>2
<1> QED BY <1>1, <1>2, <1>4 DEF TypeOK, NoDeadPending, TimerOf

\* A timer that runs takes its own entry.
LEMMA ReplayTimed ==
  ASSUME TypeOK, NoDeadPending, NEW r \in timers, ReplayTimer(r)
  PROVE  /\ r.key \in Key /\ r.item \in Item
         /\ pending' \in [Key -> Held \cup {None}] /\ NoDeadPending'
<1>1. PICK k \in Key : pending[k] # None /\ r = TimerOf(k, pending[k])
  BY TimersPointwise
<1>2. r.key = k /\ r.item \in Item
  BY <1>1 DEF TypeOK, Held, TimerOf
<1>3. pending' = [pending EXCEPT ![k] = None] /\ timers' = timers \ {r}
  BY <1>2 DEF ReplayTimer
<1>4. pending'[k] = None /\ \A l \in Key : l # k => pending'[l] = pending[l]
  BY <1>3 DEF TypeOK
<1>5. \A q : q \in timers' <=> \E l \in Key : pending'[l] # None /\ q = TimerOf(l, pending'[l])
  <2> TAKE q
  <2>1. \A l \in Key : TimerOf(l, pending[l]).key = l
    BY DEF TimerOf
  <2>2. q \in timers /\ q # r
          <=> \E l \in Key : l # k /\ pending[l] # None /\ q = TimerOf(l, pending[l])
    BY <1>1, <2>1, TimersPointwise
  <2> QED BY <1>3, <1>4, <2>2
<1> QED BY <1>2, <1>3, <1>5 DEF TypeOK, NoDeadPending, TimerOf

\* Time passes for the entries and their timers alike.
LEMMA TickTimed ==
  ASSUME TypeOK, NoDeadPending, Tick
  PROVE  /\ age' \in [Action -> 0..Throttle]
         /\ pending' \in [Key -> Held \cup {None}] /\ NoDeadPending'
<1>1. age' \in [Action -> 0..Throttle]
  BY Types DEF Tick, TypeOK
<1>2. \A n \in 0..Throttle : Less(n) \in 0..Throttle
  BY Types DEF Less
<1> DEFINE older(h) == [h EXCEPT !.wait = Less(@)]
<1>3. ASSUME NEW h \in Held, NEW k
      PROVE  older(h) \in Held /\ [TimerOf(k, h) EXCEPT !.wait = Less(@)] = TimerOf(k, older(h))
  BY <1>2 DEF Held, TimerOf
<1>4. \A k \in Key : pending'[k] = IF pending[k] = None THEN None ELSE older(pending[k])
  BY DEF Tick
<1>5. timers' = {[r EXCEPT !.wait = Less(@)] : r \in timers}
  BY DEF Tick
<1> HIDE DEF older
<1>6. \A k \in Key : pending[k] # None => pending[k] \in Held /\ older(pending[k]) # None
  BY <1>3, NoneIsNotHeld DEF TypeOK
<1>7. pending' \in [Key -> Held \cup {None}]
  <2>1. \A k \in Key : pending'[k] \in Held \cup {None}
    BY <1>3, <1>4, <1>6
  <2> QED BY <2>1 DEF Tick
<1>8. \A q : q \in timers' <=> \E l \in Key : pending'[l] # None /\ q = TimerOf(l, pending'[l])
  <2> TAKE q
  <2>1. q \in timers' <=> \E l \in Key : /\ pending[l] # None
                                         /\ q = [TimerOf(l, pending[l]) EXCEPT !.wait = Less(@)]
    BY <1>5, TimersPointwise
  <2> QED BY <1>3, <1>4, <1>6, <2>1
<1> QED BY <1>1, <1>7, <1>8 DEF NoDeadPending, TimerOf

-----------------------------------------------------------------------------
(* The invariant *)

LEMMA InitInv == Init => Inv
<1> SUFFICES ASSUME Init PROVE Inv
  OBVIOUS
<1>1. TypeOK
  <2>1. 0 \in 0..MaxValue /\ Throttle \in 0..Throttle /\ <<>> \in Seq(Queued) /\ <<>> \in Seq(Out)
    BY Types, EmptySeq
  <2> QED BY <2>1 DEF Init, TypeOK
<1>2. NoDeadPending
  BY DEF Init, NoDeadPending
<1>3. FlushIsScheduled
  BY EmptySeq DEF Init, FlushIsScheduled
<1> QED BY <1>1, <1>2, <1>3 DEF Inv

LEMMA StampTyped ==
  ASSUME TypeOK, NEW a, Stamp(a) PROVE age' \in [Action -> 0..Throttle]
<1>1. 0 \in 0..Throttle
  BY Types
<1> QED BY <1>1 DEF Stamp, TypeOK

LEMMA NextInv == Inv /\ [Next]_vars => Inv'
<1> SUFFICES ASSUME Inv, [Next]_vars PROVE Inv'
  OBVIOUS
<1> USE DEF Inv
<1>1. ASSUME NEW t \in Target, NEW a \in Latest, SendLatest(t, a) PROVE Inv'
  <2> DEFINE k    == <<t, a>>
             item == [action |-> a, value |-> sent[k] + 1, at |-> FALSE]
  <2>1. k \in Key /\ sent[k] \in 0..MaxValue /\ sent[k] < MaxValue /\ a \in Action
    BY <1>1, Types DEF SendLatest, NewValue, TypeOK
  <2>2. item \in Item
    BY <2>1, Types DEF Item
  <2>3. sent' \in [Key -> 0..MaxValue] /\ disturbed' \in BOOLEAN
    BY <1>1, <2>1, Types DEF SendLatest, NewValue, TypeOK
  <2>4. online' = online /\ crowded' = crowded /\ wire' = wire
    BY <1>1 DEF SendLatest
  <2>5. ASSUME age[a] < Throttle, QueueLatestStateReplay(k, item) PROVE Inv'
    <3>1. pending' \in [Key -> Held \cup {None}] /\ NoDeadPending'
      BY <2>1, <2>2, <2>5, HoldTimed
    <3>2. age' = age /\ queue' = queue /\ scheduled' = scheduled
      BY <2>5 DEF QueueLatestStateReplay
    <3> QED BY <2>3, <2>4, <3>1, <3>2 DEF TypeOK, FlushIsScheduled
  <2>6. ASSUME Stamp(a) \/ age' = age, EnqueueControl(t, item),
               pending' = pending, timers' = timers
        PROVE  Inv'
    <3>1. queue' \in Seq(Queued) /\ scheduled' \in BOOLEAN /\ FlushIsScheduled'
      BY <2>2, <2>6, EnqueueScheduled
    <3>2. age' \in [Action -> 0..Throttle]
      BY <2>6, StampTyped DEF TypeOK
    <3> QED BY <2>3, <2>4, <2>6, <3>1, <3>2 DEF TypeOK, NoDeadPending
  <2> QED BY <1>1, <2>5, <2>6 DEF SendLatest
<1>2. ASSUME NEW t \in Target, NEW a \in Action, NEW at \in BOOLEAN, SendPlain(t, a, at)
      PROVE  Inv'
  <2> DEFINE item == [action |-> a, value |-> sent[<<t, a>>] + 1, at |-> at]
  <2>1. <<t, a>> \in Key /\ sent[<<t, a>>] \in 0..MaxValue /\ sent[<<t, a>>] < MaxValue
    BY <1>2, Types DEF SendPlain, NewValue, TypeOK
  <2>2. item \in Item
    BY <2>1, Types DEF Item
  <2>3. EnqueueControl(t, item)
    BY <1>2 DEF SendPlain
  <2>4. queue' \in Seq(Queued) /\ scheduled' \in BOOLEAN /\ FlushIsScheduled'
    BY <2>2, <2>3, EnqueueScheduled
  <2>5. sent' \in [Key -> 0..MaxValue]
    BY <1>2, <2>1, Types DEF SendPlain, NewValue, TypeOK
  <2> QED BY <1>2, <2>4, <2>5 DEF SendPlain, TypeOK, NoDeadPending
<1>3. CASE FlushQueuedControls
  <2>1. queue' = <<>> /\ scheduled' = FALSE /\ Len(queue') = 0 /\ queue' \in Seq(Queued)
    BY <1>3, EmptySeq DEF FlushQueuedControls, ClearQueue
  <2>2. Emission(queue) \in Seq(Out)
    BY PartsTyped, FlattenPlaced DEF TypeOK, Emission
  <2>3. wire' \in Seq(Out)
    BY <1>3, <2>2, ConcatProperties DEF FlushQueuedControls, TypeOK
  <2>4. TypeOK'
    BY <1>3, <2>1, <2>3 DEF FlushQueuedControls, TypeOK
  <2>5. FlushIsScheduled'
    BY <2>1 DEF FlushIsScheduled
  <2>6. NoDeadPending'
    BY <1>3 DEF FlushQueuedControls, NoDeadPending
  <2> QED BY <2>4, <2>5, <2>6
<1>4. ASSUME NEW r \in timers, ReplayTimer(r) PROVE Inv'
  <2>1. /\ r.key \in Key /\ r.key[1] \in Target /\ r.item \in Item
        /\ pending' \in [Key -> Held \cup {None}] /\ NoDeadPending'
    BY <1>4, ReplayTimed, Types
  <2>2. /\ queue' \in Seq(Queued) /\ scheduled' \in BOOLEAN /\ FlushIsScheduled'
        /\ age' \in [Action -> 0..Throttle]
    <3>1. CASE online
      BY <1>4, <2>1, <3>1, EnqueueScheduled, StampTyped DEF ReplayTimer
    <3>2. CASE ~online
      BY <1>4, <3>2 DEF ReplayTimer, TypeOK, FlushIsScheduled
    <3> QED BY <3>1, <3>2
  <2> QED BY <1>4, <2>1, <2>2 DEF ReplayTimer, TypeOK
<1>5. CASE Disconnect
  <2>1. /\ pending' \in [Key -> Held \cup {None}] /\ NoDeadPending'
    BY <1>5 DEF Disconnect, NoDeadPending
  <2> QED BY <1>5, <2>1 DEF Disconnect, TypeOK, FlushIsScheduled
<1>6. CASE SocketChanges \/ CrowdChanges
  <2>1. TypeOK'
    BY <1>6 DEF SocketChanges, CrowdChanges, TypeOK
  <2>2. NoDeadPending' /\ FlushIsScheduled'
    BY <1>6 DEF SocketChanges, CrowdChanges, NoDeadPending, FlushIsScheduled
  <2> QED BY <2>1, <2>2
<1>7. CASE Tick
  <2>1. /\ age' \in [Action -> 0..Throttle]
        /\ pending' \in [Key -> Held \cup {None}] /\ NoDeadPending'
    BY <1>7, TickTimed
  <2> QED BY <1>7, <2>1 DEF Tick, TypeOK, FlushIsScheduled
<1>8. CASE UNCHANGED vars
  BY <1>8 DEF vars, TypeOK, NoDeadPending, FlushIsScheduled
<1> QED BY <1>1, <1>2, <1>3, <1>4, <1>5, <1>6, <1>7, <1>8 DEF Next, Timer

\* The inductive invariant of enqueue, flush and the replay timers: types, one
\* timer for what is held, one microtask for what is queued.
THEOREM Invariance == Spec => []Inv
BY InitInv, NextInv, PTL DEF Spec

\* docs/harness/PLAN.md:135 "no dead pending map": whatever is sent, lost or
\* disconnected, what is held and the replay timers correspond one to one.
THEOREM HeldHasItsTimer == Spec => []NoDeadPending
BY Invariance, PTL DEF Inv

\* A queued control never waits for a later send.
THEOREM QueuedHasItsMicrotask == Spec => []FlushIsScheduled
BY Invariance, PTL DEF Inv

-----------------------------------------------------------------------------
(* Order *)

Shown(stream) == {stream[i] : i \in 1..Len(stream)}

KeyOf(w) == <<w.target, w.item.action>>

\* A coalescing control.
IsLatest(w) == w.item.action \in Latest /\ ~w.item.at

\* An entry holds a throttled control of its key, and falls due no later than
\* the interval since the last one of the action that was sent at once.
HeldInv ==
  \A k \in Key : pending[k] # None =>
    /\ pending[k].item.action = k[2] /\ k[2] \in Throttled /\ ~pending[k].item.at
    /\ pending[k].item.value <= sent[k]
    /\ pending[k].wait <= Throttle - age[k[2]]

CrowdInv == ~disturbed /\ timers # {} => crowded

OneInv == \A i \in 1..Len(queue) : OneLatest(queue[i].items)

\* Every coalescing control was sent.
SentInv == \A w \in Shown(wire) \cup On(queue) :
             IsLatest(w) => w.item.value <= sent[KeyOf(w)]

\* As long as nothing disturbs it: the wire is in order, what is queued is
\* newer than the wire, and what is held newer than both.
WireInv ==
  \A i, j \in 1..Len(wire) :
    i < j /\ SameLatest(wire[i], wire[j]) => wire[i].item.value < wire[j].item.value

QueueInv ==
  \A w \in Shown(wire), x \in On(queue) : SameLatest(w, x) => w.item.value < x.item.value

NewerInv ==
  \A w \in Shown(wire) \cup On(queue) :
    IsLatest(w) /\ pending[KeyOf(w)] # None
    => w.item.value < pending[KeyOf(w)].item.value

OrderInv ==
  /\ HeldInv /\ CrowdInv /\ OneInv /\ SentInv
  /\ ~disturbed => WireInv /\ QueueInv /\ NewerInv

\* The least index of an action, which Merge chooses, exists.
LEMMA MergePlace ==
  ASSUME NEW items \in Seq(Item), NEW a, \E j \in 1..Len(items) : items[j].action = a
  PROVE  \E j \in 1..Len(items) : /\ items[j].action = a
                                  /\ \A l \in 1..(j - 1) : items[l].action # a
<1> DEFINE T == {j \in 1..Len(items) : items[j].action = a}
<1>1. T \in SUBSET Nat /\ T # {} /\ Len(items) \in Nat
  BY LenProperties
<1>2. PICK j \in T : \A l \in T : j <= l
  BY <1>1, LeastExists
<1>3. \A l \in 1..(j - 1) : l \in 1..Len(items) /\ ~(j <= l)
  BY <1>1
<1> QED BY <1>2, <1>3

\* Queueing an item leaves the others alone; one that coalesces takes the
\* place of one with its action.
LEMMA AddItemEffect ==
  ASSUME NEW items \in Seq(Item), NEW item \in Item, OneLatest(items)
  PROVE  /\ OneLatest(AddItem(items, item))
         /\ \A j \in 1..Len(AddItem(items, item)) :
              LET x == AddItem(items, item)[j]
              IN \/ \E l \in 1..Len(items) : x = items[l]
                 \/ /\ x.action = item.action /\ x.value = item.value
                    /\ ~x.at => ~item.at
<1> DEFINE new == AddItem(items, item)
<1>0. Len(items) \in Nat /\ \A j \in 1..Len(items) : items[j] \in Item
  BY LenProperties, ElementOfSeq
<1>1. CASE Coalesces(item) /\ \E j \in 1..Len(items) : items[j].action = item.action
  <2>1. PICK i \in 1..Len(items) :
           items[i].action = item.action /\ new = [items EXCEPT ![i].value = item.value]
    BY <1>1, MergePlace DEF AddItem, Merge
  <2>2. ASSUME NEW x \in Item
        PROVE  /\ [x EXCEPT !.value = item.value].action = x.action
               /\ [x EXCEPT !.value = item.value].at = x.at
               /\ [x EXCEPT !.value = item.value].value = item.value
    BY DEF Item
  <2>3. /\ Len(new) = Len(items)
        /\ \A j \in 1..Len(items) : j # i => new[j] = items[j]
        /\ new[i] = [items[i] EXCEPT !.value = item.value]
    BY <1>0, <2>1, LenProperties
  <2>4. /\ new[i].action = items[i].action /\ new[i].at = items[i].at
        /\ new[i].value = item.value
    BY <1>0, <2>2, <2>3
  <2>5. OneLatest(new)
    <3> HIDE DEF new
    <3>1. \A j \in 1..Len(items) : new[j].action = items[j].action /\ (new[j].at <=> items[j].at)
      BY <2>3, <2>4
    <3> QED BY <2>3, <3>1 DEF OneLatest
  <2>6. ~item.at
    BY <1>1 DEF Coalesces
  <2> HIDE DEF new
  <2>7. \A j \in 1..Len(new) :
           \/ \E l \in 1..Len(items) : new[j] = items[l]
           \/ /\ new[j].action = item.action /\ new[j].value = item.value
              /\ ~new[j].at => ~item.at
    BY <2>1, <2>3, <2>4, <2>6
  <2> QED BY <2>5, <2>7 DEF new
<1>2. CASE ~(Coalesces(item) /\ \E j \in 1..Len(items) : items[j].action = item.action)
  <2>1. new = Append(items, item)
    BY <1>2 DEF AddItem
  <2>2. /\ Len(new) = Len(items) + 1 /\ new[Len(items) + 1] = item
        /\ \A j \in 1..Len(items) : new[j] = items[j]
    BY <2>1, AppendProperties
  <2> HIDE DEF new
  <2>3. OneLatest(new)
    <3>1. item.action \in Latest /\ ~item.at
            => \A j \in 1..Len(items) : items[j].action # item.action
      BY <1>2 DEF Coalesces
    <3>2. \A j \in 1..Len(new) : \/ j \in 1..Len(items) /\ new[j] = items[j]
                                 \/ j = Len(items) + 1 /\ new[j] = item
      BY <1>0, <2>2
    <3> QED BY <3>1, <3>2 DEF OneLatest
  <2>4. \A j \in 1..Len(new) :
           \/ \E l \in 1..Len(items) : new[j] = items[l]
           \/ /\ new[j].action = item.action /\ new[j].value = item.value
              /\ ~new[j].at => ~item.at
    BY <1>0, <2>2
  <2> QED BY <2>3, <2>4 DEF new
<1> QED BY <1>1, <1>2

\* What queueing an item adds to what is queued.
LEMMA EnqueueEffect ==
  ASSUME TypeOK, OneInv, NEW t \in Target, NEW item \in Item, EnqueueControl(t, item)
  PROVE  /\ OneInv'
         /\ \A w \in On(queue') :
              \/ w \in On(queue)
              \/ /\ w.target = t /\ w.item.action = item.action
                 /\ w.item.value = item.value
                 /\ ~w.item.at => ~item.at
<1>1. queue \in Seq(Queued) /\ Len(queue) \in Nat
  BY LenProperties DEF TypeOK
<1>2. \A i \in 1..Len(queue) : /\ queue[i] \in Queued /\ queue[i].items \in Seq(Item)
                               /\ OneLatest(queue[i].items)
  <2>1. \A i \in 1..Len(queue) : queue[i] \in Queued
    BY <1>1, ElementOfSeq
  <2> QED BY <2>1 DEF OneInv, Queued
<1> DEFINE Added(tt, x) == /\ tt = t /\ x.action = item.action /\ x.value = item.value
                           /\ ~x.at => ~item.at
<1>3. CASE \E i \in 1..Len(queue) : queue[i].target = t
  <2>1. queue' = [i \in 1..Len(queue) |->
                    IF queue[i].target = t
                    THEN [target |-> t, items |-> AddItem(queue[i].items, item)]
                    ELSE queue[i]]
    BY <1>3 DEF EnqueueControl
  <2>2. Len(queue') = Len(queue)
    BY <1>1, <2>1
  <2>3. ASSUME NEW i \in 1..Len(queue)
        PROVE  /\ OneLatest(queue'[i].items)
               /\ queue'[i].target = queue[i].target
               /\ \A j \in 1..Len(queue'[i].items) :
                    \/ \E l \in 1..Len(queue[i].items) : queue'[i].items[j] = queue[i].items[l]
                    \/ Added(queue[i].target, queue'[i].items[j])
    <3>1. CASE queue[i].target = t
      <4>1. queue'[i] = [target |-> t, items |-> AddItem(queue[i].items, item)]
        BY <2>1, <3>1
      <4>2. queue'[i].target = t /\ queue'[i].items = AddItem(queue[i].items, item)
        BY <4>1
      <4>3. PICK items \in Seq(Item) : items = queue[i].items /\ OneLatest(items)
        BY <1>2
      <4>4. /\ OneLatest(AddItem(items, item))
            /\ \A j \in 1..Len(AddItem(items, item)) :
                 LET x == AddItem(items, item)[j]
                 IN \/ \E l \in 1..Len(items) : x = items[l]
                    \/ /\ x.action = item.action /\ x.value = item.value
                       /\ ~x.at => ~item.at
        BY <4>3, AddItemEffect
      <4>5. queue'[i].items = AddItem(items, item)
        BY <4>2, <4>3
      <4> HIDE DEF Added
      <4>6. \A x : x.action = item.action /\ x.value = item.value /\ (~x.at => ~item.at) =>
                  Added(queue[i].target, x)
        BY <3>1 DEF Added
      <4> QED BY <3>1, <4>2, <4>3, <4>4, <4>5, <4>6
    <3>2. CASE queue[i].target # t
      <4>1. queue'[i] = queue[i]
        BY <2>1, <3>2
      <4> QED BY <1>2, <4>1
    <3> QED BY <3>1, <3>2
  <2>4. OneInv'
    BY <2>2, <2>3 DEF OneInv
  <2>5. ASSUME NEW w \in On(queue')
        PROVE  w \in On(queue) \/ Added(w.target, w.item)
    <3>1. PICK i \in 1..Len(queue) : \E j \in 1..Len(queue'[i].items) :
             w = [target |-> queue[i].target, item |-> queue'[i].items[j]]
      BY <2>2, <2>3, <2>5 DEF On
    <3>2. PICK j \in 1..Len(queue'[i].items) :
             w = [target |-> queue[i].target, item |-> queue'[i].items[j]]
      BY <3>1
    <3>3. w \in Out /\ w.target = queue[i].target /\ w.item = queue'[i].items[j]
      BY <2>5, <3>2 DEF On
    <3>4. CASE \E l \in 1..Len(queue[i].items) : queue'[i].items[j] = queue[i].items[l]
      BY <3>2, <3>3, <3>4 DEF On
    <3>5. CASE Added(queue[i].target, queue'[i].items[j])
      BY <3>3, <3>5
    <3> QED BY <2>3, <3>4, <3>5
  <2> QED BY <2>4, <2>5
<1>4. CASE ~\E i \in 1..Len(queue) : queue[i].target = t
  <2> DEFINE entry == [target |-> t, items |-> <<item>>]
  <2>1. entry \in Queued /\ queue' = Append(queue, entry)
    BY <1>4 DEF EnqueueControl, Queued
  <2>2. /\ Len(queue') = Len(queue) + 1 /\ queue'[Len(queue) + 1] = entry
        /\ \A i \in 1..Len(queue) : queue'[i] = queue[i]
    BY <1>1, <2>1, AppendProperties
  <2>3. /\ entry.target = t /\ Len(entry.items) = 1 /\ entry.items[1] = item
        /\ OneLatest(entry.items)
    BY DEF OneLatest
  <2> HIDE DEF entry
  <2>4. \A i \in 1..Len(queue') : \/ i \in 1..Len(queue) /\ queue'[i] = queue[i]
                                  \/ queue'[i] = entry
    BY <1>1, <2>2
  <2>5. OneInv'
    BY <1>2, <2>3, <2>4 DEF OneInv
  <2>6. ASSUME NEW w \in On(queue')
        PROVE  w \in On(queue) \/ Added(w.target, w.item)
    <3>1. PICK i \in 1..Len(queue') : \E j \in 1..Len(queue'[i].items) :
             w = [target |-> queue'[i].target, item |-> queue'[i].items[j]]
      BY <2>6 DEF On
    <3>2. w \in Out
      BY <2>6 DEF On
    <3>3. CASE i \in 1..Len(queue) /\ queue'[i] = queue[i]
      BY <3>1, <3>2, <3>3 DEF On
    <3>4. CASE queue'[i] = entry
      <4>1. w = [target |-> t, item |-> item]
        BY <2>3, <3>1, <3>4
      <4> QED BY <4>1
    <3> QED BY <2>4, <3>3, <3>4
  <2> QED BY <2>5, <2>6
<1> QED BY <1>3, <1>4

-----------------------------------------------------------------------------
(* Every step keeps the order *)

LEMMA OutTyped ==
  ASSUME TypeOK, NEW w \in Shown(wire) \cup On(queue)
  PROVE  w \in Out /\ KeyOf(w) \in Key
<1>1. w \in Out
  BY ElementOfSeq DEF Shown, On, TypeOK
<1> QED BY <1>1, Types DEF Out, Item, KeyOf

\* Of what is held, some timer knows.
LEMMA HeldHasTimer ==
  ASSUME NoDeadPending, NEW k \in Key, pending[k] # None
  PROVE  \E r \in timers : r = TimerOf(k, pending[k]) /\ r.wait = pending[k].wait
<1>1. TimerOf(k, pending[k]) \in timers
  BY TimersPointwise
<1>2. TimerOf(k, pending[k]).wait = pending[k].wait
  BY DEF TimerOf
<1> QED BY <1>1, <1>2

\* A control sent at once, on time, finds nothing of its key held.
LEMMA SentAtOnce ==
  ASSUME Inv, OrderInv, NEW k \in Key, ~disturbed, ~TimerDue,
         \/ k[2] \in Throttled /\ crowded /\ age[k[2]] = Throttle
         \/ ~(k[2] \in Throttled /\ crowded)
  PROVE  pending[k] = None
<1> SUFFICES ASSUME pending[k] # None PROVE FALSE
  OBVIOUS
<1>1. PICK r \in timers : r.wait = pending[k].wait
  BY HeldHasTimer DEF Inv
<1>2. crowded /\ k[2] \in Throttled
  BY <1>1 DEF OrderInv, CrowdInv, HeldInv
<1>3. pending[k].wait \in 0..Throttle /\ pending[k].wait <= Throttle - age[k[2]]
  BY DEF Inv, TypeOK, Held, OrderInv, HeldInv
<1>4. pending[k].wait = 0
  BY <1>2, <1>3, Types
<1> QED BY <1>1, <1>4 DEF TimerDue

\* The shared conjuncts of a send: the newest value of a key is larger than
\* all others, held or not.
LEMMA SendKeepsSent ==
  ASSUME TypeOK, SentInv, NEW k \in Key, NewValue(k)
  PROVE  /\ \A w \in Shown(wire) \cup On(queue) :
              IsLatest(w) => /\ w.item.value <= sent'[KeyOf(w)]
                             /\ KeyOf(w) = k => w.item.value < sent[k] + 1
         /\ \A l \in Key : sent[l] \in Nat /\ sent'[l] \in Nat /\ sent[l] <= sent'[l]
         /\ sent'[k] = sent[k] + 1
<1>1. \A l \in Key : sent[l] \in 0..MaxValue
  BY DEF TypeOK
<1>2. /\ sent'[k] = sent[k] + 1
      /\ \A l \in Key : sent[l] \in Nat /\ sent'[l] \in Nat /\ sent[l] <= sent'[l]
  BY <1>1, Types DEF NewValue, TypeOK
<1>3. ASSUME NEW w \in Shown(wire) \cup On(queue), IsLatest(w)
      PROVE  /\ w.item.value <= sent'[KeyOf(w)]
             /\ KeyOf(w) = k => w.item.value < sent[k] + 1
  <2>1. KeyOf(w) \in Key /\ w.item.value \in Nat
    BY OutTyped, Types DEF Out, Item
  <2>2. w.item.value <= sent[KeyOf(w)]
    BY <1>3 DEF SentInv
  <2>3. /\ sent[KeyOf(w)] \in Nat /\ sent'[KeyOf(w)] \in Nat
        /\ sent[KeyOf(w)] <= sent'[KeyOf(w)]
    BY <1>2, <2>1
  <2>4. w.item.value <= sent'[KeyOf(w)] /\ w.item.value < sent[KeyOf(w)] + 1
    BY <2>1, <2>2, <2>3
  <2> QED BY <2>4
<1> QED BY <1>2, <1>3

LEMMA HoldOrdered ==
  ASSUME Inv, OrderInv, NEW t \in Target, NEW a \in Latest, SendLatest(t, a),
         a \in Throttled, crowded, age[a] < Throttle,
         QueueLatestStateReplay(<<t, a>>, [action |-> a, value |-> sent[<<t, a>>] + 1, at |-> FALSE])
  PROVE  OrderInv'
<1> DEFINE k    == <<t, a>>
           item == [action |-> a, value |-> sent[k] + 1, at |-> FALSE]
           held == [item |-> item, wait |-> Throttle - age[a]]
<1>1. k \in Key /\ k[1] = t /\ k[2] = a
  BY Types
<1>2. /\ pending' = [pending EXCEPT ![k] = held]
      /\ age' = age /\ queue' = queue /\ wire' = wire /\ crowded' = crowded
      /\ disturbed' = (disturbed \/ TimerDue) /\ NewValue(k)
  BY DEF SendLatest, QueueLatestStateReplay, Hold
<1>3. pending'[k] = held /\ \A l \in Key : l # k => pending'[l] = pending[l]
  BY <1>1, <1>2 DEF Inv, TypeOK
<1>4. /\ held.item.action = a /\ held.item.value = sent[k] + 1 /\ ~held.item.at
      /\ held.wait = Throttle - age[a]
  OBVIOUS
<1>5. /\ \A w \in Shown(wire) \cup On(queue) :
           IsLatest(w) => /\ w.item.value <= sent'[KeyOf(w)]
                          /\ KeyOf(w) = k => w.item.value < sent[k] + 1
      /\ \A l \in Key : sent[l] \in Nat /\ sent'[l] \in Nat /\ sent[l] <= sent'[l]
      /\ sent'[k] = sent[k] + 1
  BY <1>1, <1>2, SendKeepsSent DEF Inv, OrderInv
<1> HIDE DEF k, held
<1>6. HeldInv'
  <2> SUFFICES ASSUME NEW l \in Key, pending'[l] # None
               PROVE  /\ pending'[l].item.action = l[2] /\ l[2] \in Throttled
                      /\ ~pending'[l].item.at
                      /\ pending'[l].item.value <= sent'[l]
                      /\ pending'[l].wait <= Throttle - age'[l[2]]
    BY DEF HeldInv
  <2>1. CASE l = k
    <3>1. age[a] \in 0..Throttle
      BY <1>1 DEF Inv, TypeOK, Action
    <3> QED BY <1>1, <1>2, <1>3, <1>4, <1>5, <2>1, <3>1, Types
  <2>2. CASE l # k
    <3>1. pending[l] \in Held /\ pending[l].item.value \in Nat
      BY <1>3, <2>2, Types DEF Inv, TypeOK, Held, Item
    <3>2. /\ pending[l].item.action = l[2] /\ l[2] \in Throttled /\ ~pending[l].item.at
          /\ pending[l].item.value <= sent[l]
          /\ pending[l].wait <= Throttle - age[l[2]]
      BY <1>3, <2>2 DEF OrderInv, HeldInv
    <3>3. pending[l].item.value <= sent'[l]
      BY <1>5, <3>1, <3>2
    <3> QED BY <1>2, <1>3, <2>2, <3>2, <3>3
  <2> QED BY <2>1, <2>2
<1>7. CrowdInv' /\ OneInv'
  BY <1>2 DEF OrderInv, CrowdInv, OneInv
<1>8. SentInv'
  BY <1>2, <1>5 DEF SentInv, IsLatest
<1>9. ASSUME ~disturbed' PROVE WireInv' /\ QueueInv' /\ NewerInv'
  <2>1. WireInv' /\ QueueInv'
    BY <1>2, <1>9 DEF OrderInv, WireInv, QueueInv
  <2>2. ASSUME NEW w \in Shown(wire) \cup On(queue), IsLatest(w), pending'[KeyOf(w)] # None
        PROVE  w.item.value < pending'[KeyOf(w)].item.value
    <3>1. KeyOf(w) \in Key
      BY OutTyped DEF Inv
    <3> QED BY <1>2, <1>3, <1>4, <1>5, <1>9, <2>2, <3>1 DEF OrderInv, NewerInv
  <2> QED BY <1>2, <2>1, <2>2 DEF NewerInv, IsLatest
<1> QED BY <1>6, <1>7, <1>8, <1>9 DEF OrderInv

\* What is held stays as it should be while nothing of it changes, values are
\* numbered upwards, and an action that is sent at once starts its interval.
LEMMA HeldKept ==
  ASSUME TypeOK, HeldInv, pending' = pending,
         \A l \in Key : sent[l] \in Nat /\ sent'[l] \in Nat /\ sent[l] <= sent'[l],
         \A a \in Action : age'[a] \in Nat /\ age'[a] <= age[a]
  PROVE  HeldInv'
<1> SUFFICES ASSUME NEW l \in Key, pending[l] # None
             PROVE  /\ pending[l].item.value <= sent'[l]
                    /\ pending[l].wait <= Throttle - age'[l[2]]
  BY DEF HeldInv
<1>1. /\ pending[l] \in Held /\ pending[l].item.value \in Nat /\ pending[l].wait \in Nat
      /\ l[2] \in Action /\ age[l[2]] \in Nat
  BY Types DEF TypeOK, Held, Item
<1>2. pending[l].item.value <= sent[l] /\ pending[l].wait <= Throttle - age[l[2]]
  BY DEF HeldInv
<1> QED BY <1>1, <1>2, Types

LEMMA StampLowers ==
  ASSUME TypeOK, NEW a, Stamp(a) \/ age' = age
  PROVE  \A b \in Action : age'[b] \in Nat /\ age'[b] <= age[b]
<1>1. \A b \in Action : age[b] \in Nat
  BY Types DEF TypeOK
<1>2. \A b \in Action : age'[b] = 0 \/ age'[b] = age[b]
  BY DEF TypeOK, Stamp
<1> QED BY <1>1, <1>2

LEMMA AtOnceOrdered ==
  ASSUME Inv, OrderInv, NEW t \in Target, NEW a \in Latest, SendLatest(t, a),
         \/ a \in Throttled /\ crowded /\ age[a] = Throttle
         \/ ~(a \in Throttled /\ crowded),
         Stamp(a) \/ age' = age, pending' = pending, timers' = timers,
         EnqueueControl(t, [action |-> a, value |-> sent[<<t, a>>] + 1, at |-> FALSE])
  PROVE  OrderInv'
<1> DEFINE k    == <<t, a>>
           item == [action |-> a, value |-> sent[k] + 1, at |-> FALSE]
<1>1. k \in Key /\ k[1] = t /\ k[2] = a
  BY Types
<1>2. /\ wire' = wire /\ crowded' = crowded
      /\ disturbed' = (disturbed \/ TimerDue) /\ NewValue(k)
  BY DEF SendLatest
<1>3. /\ \A w \in Shown(wire) \cup On(queue) :
           IsLatest(w) => /\ w.item.value <= sent'[KeyOf(w)]
                          /\ KeyOf(w) = k => w.item.value < sent[k] + 1
      /\ \A l \in Key : sent[l] \in Nat /\ sent'[l] \in Nat /\ sent[l] <= sent'[l]
      /\ sent'[k] = sent[k] + 1
  BY <1>1, <1>2, SendKeepsSent DEF Inv, OrderInv
<1>4. item \in Item /\ item.value = sent[k] + 1 /\ item.action = a
  BY <1>1, <1>2, Types DEF Item, NewValue, Inv, TypeOK
<1>5. /\ OneInv'
      /\ \A w \in On(queue') : \/ w \in On(queue)
                               \/ KeyOf(w) = k /\ w.item.value = sent[k] + 1
  BY <1>4, EnqueueEffect DEF Inv, OrderInv, KeyOf
<1> HIDE DEF k, item
<1>6. HeldInv'
  BY <1>3, HeldKept, StampLowers DEF Inv, OrderInv
<1>7. CrowdInv'
  BY <1>2 DEF OrderInv, CrowdInv
<1>8. SentInv'
  <2> SUFFICES ASSUME NEW w \in Shown(wire) \cup On(queue'), IsLatest(w)
               PROVE  w.item.value <= sent'[KeyOf(w)]
    BY <1>2 DEF SentInv, IsLatest
  <2>1. CASE w \in Shown(wire) \cup On(queue)
    BY <1>3, <2>1
  <2>2. CASE KeyOf(w) = k /\ w.item.value = sent[k] + 1
    BY <1>1, <1>3, <2>2
  <2> QED BY <1>5, <2>1, <2>2
<1>9. ASSUME ~disturbed' PROVE WireInv' /\ QueueInv' /\ NewerInv'
  <2>1. ~disturbed /\ ~TimerDue /\ WireInv /\ QueueInv /\ NewerInv
    BY <1>2, <1>9 DEF OrderInv
  <2>2. pending[k] = None
    BY <1>1, <2>1, SentAtOnce
  <2>3. WireInv'
    BY <1>2, <2>1 DEF WireInv
  <2>4. QueueInv'
    <3> SUFFICES ASSUME NEW w \in Shown(wire), NEW x \in On(queue'), SameLatest(w, x)
                 PROVE  w.item.value < x.item.value
      BY <1>2 DEF QueueInv
    <3>1. IsLatest(w) /\ KeyOf(w) = KeyOf(x)
      BY DEF SameLatest, IsLatest, KeyOf
    <3> QED BY <1>3, <1>5, <2>1, <3>1 DEF QueueInv
  <2>5. NewerInv'
    <3> SUFFICES ASSUME NEW w \in Shown(wire) \cup On(queue'), IsLatest(w),
                        pending[KeyOf(w)] # None
                 PROVE  w.item.value < pending[KeyOf(w)].item.value
      BY <1>2 DEF NewerInv, IsLatest
    <3> QED BY <1>5, <2>1, <2>2 DEF NewerInv
  <2> QED BY <2>3, <2>4, <2>5
<1> QED BY <1>5, <1>6, <1>7, <1>8, <1>9 DEF OrderInv

\* A reliable or scheduled control is not one of those the order is about.
LEMMA PlainOrdered ==
  ASSUME Inv, OrderInv, NEW t \in Target, NEW a \in Action, NEW at \in BOOLEAN,
         SendPlain(t, a, at)
  PROVE  OrderInv'
<1> DEFINE k    == <<t, a>>
           item == [action |-> a, value |-> sent[k] + 1, at |-> at]
<1>1. k \in Key
  BY Types
<1>2. /\ wire' = wire /\ crowded' = crowded /\ pending' = pending /\ timers' = timers
      /\ age' = age /\ disturbed' = disturbed /\ NewValue(k) /\ EnqueueControl(t, item)
      /\ a \in Latest => at
  BY QueueAssumption DEF SendPlain, QueueAssumption
<1>3. /\ \A w \in Shown(wire) \cup On(queue) : IsLatest(w) => w.item.value <= sent'[KeyOf(w)]
      /\ \A l \in Key : sent[l] \in Nat /\ sent'[l] \in Nat /\ sent[l] <= sent'[l]
  BY <1>1, <1>2, SendKeepsSent DEF Inv, OrderInv
<1>4. item \in Item /\ item.action = a /\ item.at = at
  BY <1>1, <1>2, Types DEF Item, NewValue, Inv, TypeOK
<1> HIDE DEF k, item
<1>5. OneInv' /\ \A w \in On(queue') : w \in On(queue) \/ ~IsLatest(w)
  BY <1>2, <1>4, EnqueueEffect DEF Inv, OrderInv, IsLatest
<1>6. HeldInv'
  BY <1>2, <1>3, HeldKept, StampLowers DEF Inv, OrderInv
<1>7. CrowdInv'
  BY <1>2 DEF OrderInv, CrowdInv
<1>8. SentInv'
  <2> SUFFICES ASSUME NEW w \in Shown(wire) \cup On(queue'), IsLatest(w)
               PROVE  w.item.value <= sent'[KeyOf(w)]
    BY <1>2 DEF SentInv, IsLatest
  <2> QED BY <1>3, <1>5
<1>9. ASSUME ~disturbed' PROVE WireInv' /\ QueueInv' /\ NewerInv'
  <2>1. WireInv /\ QueueInv /\ NewerInv
    BY <1>2, <1>9 DEF OrderInv
  <2>2. WireInv'
    BY <1>2, <2>1 DEF WireInv
  <2>3. QueueInv'
    <3> SUFFICES ASSUME NEW w \in Shown(wire), NEW x \in On(queue'), SameLatest(w, x)
                 PROVE  w.item.value < x.item.value
      BY <1>2 DEF QueueInv
    <3>1. IsLatest(x)
      BY DEF SameLatest, IsLatest
    <3> QED BY <1>5, <2>1, <3>1 DEF QueueInv
  <2>4. NewerInv'
    <3> SUFFICES ASSUME NEW w \in Shown(wire) \cup On(queue'), IsLatest(w),
                        pending[KeyOf(w)] # None
                 PROVE  w.item.value < pending[KeyOf(w)].item.value
      BY <1>2 DEF NewerInv, IsLatest
    <3> QED BY <1>5, <2>1 DEF NewerInv
  <2> QED BY <2>2, <2>3, <2>4
<1> QED BY <1>5, <1>6, <1>7, <1>8, <1>9 DEF OrderInv

\* A flush appends what is queued, newer than the wire and in order.
LEMMA FlushOrdered ==
  ASSUME Inv, OrderInv, FlushQueuedControls
  PROVE  OrderInv'
<1> DEFINE out == Emission(queue)
<1>1. /\ queue' = <<>> /\ wire' = IF online THEN wire \o out ELSE wire
      /\ crowded' = crowded /\ age' = age /\ pending' = pending /\ timers' = timers
      /\ sent' = sent /\ disturbed' = disturbed
  BY DEF FlushQueuedControls, ClearQueue
<1>2. /\ out \in Seq(Out)
      /\ \A p \in 1..Len(out) : out[p] \in On(queue)
      /\ \A p, r \in 1..Len(out) : p < r => ~SameLatest(out[p], out[r])
  BY EmissionOrder DEF Inv, TypeOK, FlushIsScheduled, OrderInv, OneInv
<1>3. wire \in Seq(Out) /\ Len(wire) \in Nat /\ Len(out) \in Nat
  BY <1>2, LenProperties DEF Inv, TypeOK
<1> HIDE DEF out
<1>4. \A i \in 1..Len(wire') : \/ i \in 1..Len(wire) /\ wire'[i] = wire[i]
                               \/ /\ i - Len(wire) \in 1..Len(out)
                                  /\ wire'[i] = out[i - Len(wire)]
  <2>1. CASE online
    <3>1. /\ Len(wire') = Len(wire) + Len(out)
          /\ \A i \in 1..(Len(wire) + Len(out)) :
               wire'[i] = IF i <= Len(wire) THEN wire[i] ELSE out[i - Len(wire)]
      BY <1>1, <1>2, <1>3, <2>1, ConcatProperties
    <3> QED BY <1>3, <3>1
  <2>2. CASE ~online
    BY <1>1, <2>2
  <2> QED BY <2>1, <2>2
<1>5. On(queue') = {} /\ Len(queue') = 0
  BY <1>1, EmptySeq DEF On
<1>6. Shown(wire') \subseteq Shown(wire) \cup On(queue)
  BY <1>2, <1>4 DEF Shown
<1>7. HeldInv' /\ CrowdInv' /\ OneInv'
  BY <1>1, <1>5 DEF OrderInv, HeldInv, CrowdInv, OneInv
<1>8. SentInv'
  BY <1>1, <1>5, <1>6 DEF OrderInv, SentInv, IsLatest
<1>9. ASSUME ~disturbed' PROVE WireInv' /\ QueueInv' /\ NewerInv'
  <2>1. WireInv /\ QueueInv /\ NewerInv
    BY <1>1, <1>9 DEF OrderInv
  <2>2. WireInv'
    <3> SUFFICES ASSUME NEW i \in 1..Len(wire'), NEW j \in 1..Len(wire'), i < j,
                        SameLatest(wire'[i], wire'[j])
                 PROVE  wire'[i].item.value < wire'[j].item.value
      BY DEF WireInv, SameLatest
    <3>1. CASE j \in 1..Len(wire) /\ wire'[j] = wire[j]
      <4>1. i \in 1..Len(wire) /\ wire'[i] = wire[i]
        BY <1>3, <1>4, <3>1
      <4> QED BY <2>1, <3>1, <4>1 DEF WireInv
    <3>2. CASE j - Len(wire) \in 1..Len(out) /\ wire'[j] = out[j - Len(wire)]
      <4>1. CASE i \in 1..Len(wire) /\ wire'[i] = wire[i]
        BY <1>2, <2>1, <3>2, <4>1 DEF QueueInv, Shown
      <4>2. CASE i - Len(wire) \in 1..Len(out) /\ wire'[i] = out[i - Len(wire)]
        <5>1. i - Len(wire) < j - Len(wire)
          BY <1>3
        <5> QED BY <1>2, <3>2, <4>2, <5>1
      <4> QED BY <1>4, <4>1, <4>2
    <3> QED BY <1>4, <3>1, <3>2
  <2>3. QueueInv' /\ NewerInv'
    BY <1>1, <1>5, <1>6, <2>1 DEF QueueInv, NewerInv, IsLatest
  <2> QED BY <2>2, <2>3
<1> QED BY <1>7, <1>8, <1>9 DEF OrderInv

\* The timer's value is newer than the wire, and nothing is queued when it runs.
LEMMA ReplayOrdered ==
  ASSUME Inv, OrderInv, NEW r \in timers, ReplayTimer(r)
  PROVE  OrderInv'
<1>1. PICK k \in Key : pending[k] # None /\ r = TimerOf(k, pending[k])
  BY TimersPointwise DEF Inv
<1>2. /\ r.key = k /\ r.item = pending[k].item /\ r.item \in Item
      /\ r.item.action = k[2] /\ r.item.value <= sent[k] /\ ~r.item.at
      /\ k[1] \in Target /\ k[2] \in Action /\ k = <<k[1], k[2]>>
  <2>1. r.key = k /\ r.item = pending[k].item
    BY <1>1 DEF TimerOf
  <2> QED BY <1>1, <2>1, Types DEF Inv, TypeOK, Held, OrderInv, HeldInv, Key
<1>3. /\ wire' = wire /\ crowded' = crowded /\ sent' = sent /\ disturbed' = disturbed
      /\ timers' \subseteq timers
      /\ pending' = [pending EXCEPT ![k] = None]
  BY <1>2 DEF ReplayTimer
<1>4. pending'[k] = None /\ \A l \in Key : l # k => pending'[l] = pending[l]
  BY <1>3 DEF Inv, TypeOK
<1>5. On(queue) = {}
  <2>1. queue = <<>> /\ Len(queue) = 0
    BY EmptySeq DEF ReplayTimer, TaskOver, Inv, FlushIsScheduled
  <2> QED BY <2>1 DEF On
<1>6. /\ OneInv'
      /\ \A w \in On(queue') : KeyOf(w) = k /\ w.item.value = r.item.value
      /\ Stamp(r.item.action) \/ age' = age
  <2>1. CASE online
    <3>1. EnqueueControl(k[1], r.item) /\ Stamp(r.item.action)
      BY <1>2, <2>1 DEF ReplayTimer
    <3> QED BY <1>2, <1>5, <3>1, EnqueueEffect DEF Inv, OrderInv, KeyOf
  <2>2. CASE ~online
    BY <1>5, <2>2 DEF ReplayTimer, OrderInv, OneInv
  <2> QED BY <2>1, <2>2
<1>7. HeldInv'
  <2> SUFFICES ASSUME NEW l \in Key, pending[l] # None
               PROVE  pending[l].wait <= Throttle - age'[l[2]]
    BY <1>3, <1>4 DEF OrderInv, HeldInv
  <2>1. pending[l].wait <= Throttle - age[l[2]] /\ pending[l].wait \in Nat
    BY Types DEF OrderInv, HeldInv, Inv, TypeOK, Held
  <2>2. l[2] \in Action /\ age[l[2]] \in Nat
    BY Types DEF Inv, TypeOK
  <2>3. age'[l[2]] \in Nat /\ age'[l[2]] <= age[l[2]]
    BY <1>6, <2>2, StampLowers DEF Inv
  <2> QED BY <2>1, <2>2, <2>3, Types
<1>8. CrowdInv'
  BY <1>3 DEF OrderInv, CrowdInv
<1>9. SentInv'
  BY <1>2, <1>3, <1>6 DEF OrderInv, SentInv, IsLatest
<1>10. ASSUME ~disturbed' PROVE WireInv' /\ QueueInv' /\ NewerInv'
  <2>1. WireInv /\ NewerInv
    BY <1>3, <1>10 DEF OrderInv
  <2>2. WireInv'
    BY <1>3, <2>1 DEF WireInv
  <2>3. QueueInv'
    <3> SUFFICES ASSUME NEW w \in Shown(wire), NEW x \in On(queue'), SameLatest(w, x)
                 PROVE  w.item.value < x.item.value
      BY <1>3 DEF QueueInv
    <3>1. IsLatest(w) /\ KeyOf(w) = KeyOf(x)
      BY DEF SameLatest, IsLatest, KeyOf
    <3> QED BY <1>1, <1>2, <1>6, <2>1, <3>1 DEF NewerInv
  <2>4. NewerInv'
    <3> SUFFICES ASSUME NEW w \in Shown(wire) \cup On(queue'), IsLatest(w),
                        pending'[KeyOf(w)] # None
                 PROVE  w.item.value < pending'[KeyOf(w)].item.value
      BY <1>3 DEF NewerInv, IsLatest
    <3>1. w \in Shown(wire)
      BY <1>4, <1>6
    <3>2. KeyOf(w) \in Key
      BY <3>1, OutTyped DEF Inv
    <3> QED BY <1>4, <2>1, <3>1, <3>2 DEF NewerInv
  <2> QED BY <2>2, <2>3, <2>4
<1> QED BY <1>6, <1>7, <1>8, <1>9, <1>10 DEF OrderInv

\* The due time comes no slower than the interval ends.
LEMMA TickOrdered ==
  ASSUME Inv, OrderInv, Tick
  PROVE  OrderInv'
<1>1. /\ wire' = wire /\ queue' = queue /\ crowded' = crowded /\ sent' = sent
      /\ disturbed' = disturbed
  BY DEF Tick
<1>2. \A k \in Key : pending'[k] # None =>
        /\ pending[k] # None /\ pending'[k].item = pending[k].item
        /\ pending'[k].wait = Less(pending[k].wait)
  <2> TAKE k \in Key
  <2>1. pending'[k] = IF pending[k] = None THEN None
                      ELSE [pending[k] EXCEPT !.wait = Less(@)]
    BY DEF Tick
  <2>2. ASSUME NEW h \in Held
        PROVE  /\ [h EXCEPT !.wait = Less(@)].item = h.item
               /\ [h EXCEPT !.wait = Less(@)].wait = Less(h.wait)
    BY DEF Held
  <2>3. pending[k] \in Held \cup {None}
    BY DEF Inv, TypeOK
  <2> QED BY <2>1, <2>2, <2>3
<1>3. timers' # {} => timers # {}
  BY DEF Tick
<1>4. HeldInv'
  <2> SUFFICES ASSUME NEW k \in Key, pending'[k] # None
               PROVE  pending'[k].wait <= Throttle - age'[k[2]]
    BY <1>1, <1>2 DEF OrderInv, HeldInv
  <2>1. /\ pending[k].wait <= Throttle - age[k[2]] /\ pending[k].wait \in Nat
        /\ pending'[k].wait = IF pending[k].wait = 0 THEN 0 ELSE pending[k].wait - 1
    BY <1>2, Types DEF OrderInv, HeldInv, Inv, TypeOK, Held, Less
  <2>2. /\ k[2] \in Action /\ age[k[2]] \in 0..Throttle
        /\ age'[k[2]] = IF age[k[2]] < Throttle THEN age[k[2]] + 1 ELSE Throttle
    BY Types DEF Inv, TypeOK, Tick
  <2> QED BY <2>1, <2>2, Types
<1>5. CrowdInv' /\ OneInv'
  BY <1>1, <1>3 DEF OrderInv, CrowdInv, OneInv
<1>6. SentInv'
  BY <1>1 DEF OrderInv, SentInv, IsLatest
<1>7. ASSUME ~disturbed' PROVE WireInv' /\ QueueInv' /\ NewerInv'
  <2>1. WireInv' /\ QueueInv'
    BY <1>1, <1>7 DEF OrderInv, WireInv, QueueInv
  <2>2. NewerInv'
    <3> SUFFICES ASSUME NEW w \in Shown(wire) \cup On(queue), IsLatest(w),
                        pending'[KeyOf(w)] # None
                 PROVE  w.item.value < pending'[KeyOf(w)].item.value
      BY <1>1 DEF NewerInv, IsLatest
    <3>1. KeyOf(w) \in Key
      BY OutTyped DEF Inv
    <3> QED BY <1>1, <1>2, <1>7, <3>1 DEF OrderInv, NewerInv
  <2> QED BY <2>1, <2>2
<1> QED BY <1>4, <1>5, <1>6, <1>7 DEF OrderInv

LEMMA InitOrder == Init => OrderInv
<1> SUFFICES ASSUME Init PROVE OrderInv
  OBVIOUS
<1>1. Len(wire) = 0 /\ Len(queue) = 0
  BY EmptySeq DEF Init
<1>2. Shown(wire) = {} /\ On(queue) = {}
  BY <1>1 DEF Shown, On
<1>3. HeldInv /\ CrowdInv /\ OneInv
  BY <1>1 DEF Init, HeldInv, CrowdInv, OneInv
<1> QED BY <1>1, <1>2, <1>3 DEF OrderInv, SentInv, WireInv, QueueInv, NewerInv

LEMMA NextOrder == Inv /\ OrderInv /\ [Next]_vars => OrderInv'
<1> SUFFICES ASSUME Inv, OrderInv, [Next]_vars PROVE OrderInv'
  OBVIOUS
<1>1. ASSUME NEW t \in Target, NEW a \in Latest, SendLatest(t, a) PROVE OrderInv'
  <2> DEFINE item == [action |-> a, value |-> sent[<<t, a>>] + 1, at |-> FALSE]
  <2>1. \/ /\ a \in Throttled /\ crowded /\ age[a] < Throttle
           /\ QueueLatestStateReplay(<<t, a>>, item)
        \/ /\ \/ a \in Throttled /\ crowded /\ age[a] = Throttle
              \/ ~(a \in Throttled /\ crowded)
           /\ Stamp(a) \/ age' = age
           /\ EnqueueControl(t, item) /\ pending' = pending /\ timers' = timers
    BY <1>1 DEF SendLatest
  <2> QED BY <1>1, <2>1, HoldOrdered, AtOnceOrdered
<1>2. ASSUME NEW t \in Target, NEW a \in Action, NEW at \in BOOLEAN, SendPlain(t, a, at)
      PROVE  OrderInv'
  BY <1>2, PlainOrdered
<1>3. CASE FlushQueuedControls
  BY <1>3, FlushOrdered
<1>4. ASSUME NEW r \in timers, ReplayTimer(r) PROVE OrderInv'
  BY <1>4, ReplayOrdered
<1>5. CASE Disconnect
  <2>1. /\ wire' = wire /\ queue' = queue /\ sent' = sent /\ disturbed' = disturbed
        /\ timers' = {} /\ pending' = [k \in Key |-> None]
    BY <1>5 DEF Disconnect
  <2>2. HeldInv' /\ CrowdInv' /\ OneInv' /\ SentInv'
    BY <2>1 DEF OrderInv, HeldInv, CrowdInv, OneInv, SentInv, IsLatest
  <2>3. ASSUME ~disturbed' PROVE WireInv' /\ QueueInv'
    BY <2>1, <2>3 DEF OrderInv, WireInv, QueueInv
  <2>4. NewerInv'
    <3>1. \A w \in Shown(wire) \cup On(queue) : pending'[KeyOf(w)] = None
      BY <2>1, OutTyped DEF Inv
    <3> QED BY <2>1, <3>1 DEF NewerInv
  <2> QED BY <2>2, <2>3, <2>4 DEF OrderInv
<1>6. CASE SocketChanges \/ CrowdChanges
  <2>1. /\ wire' = wire /\ queue' = queue /\ sent' = sent /\ age' = age
        /\ timers' = timers /\ pending' = pending
    BY <1>6 DEF SocketChanges, CrowdChanges
  <2>5. ~disturbed' => ~disturbed
    BY <1>6 DEF SocketChanges, CrowdChanges
  <2>2. CrowdInv'
    BY <1>6 DEF SocketChanges, CrowdChanges, OrderInv, CrowdInv
  <2>3. HeldInv' /\ OneInv' /\ SentInv'
    BY <2>1 DEF OrderInv, HeldInv, OneInv, SentInv, IsLatest
  <2>4. ASSUME ~disturbed' PROVE WireInv' /\ QueueInv' /\ NewerInv'
    BY <2>1, <2>4, <2>5 DEF OrderInv, WireInv, QueueInv, NewerInv, IsLatest
  <2> QED BY <2>2, <2>3, <2>4 DEF OrderInv
<1>7. CASE Tick
  BY <1>7, TickOrdered
<1>8. CASE UNCHANGED vars
  BY <1>8 DEF vars, OrderInv, HeldInv, CrowdInv, OneInv, SentInv, WireInv, QueueInv,
              NewerInv, IsLatest
<1> QED BY <1>1, <1>2, <1>3, <1>4, <1>5, <1>6, <1>7, <1>8 DEF Next, Timer

\* What went out and what a flush would add are in order together.
LEMMA OrderInvInOrder == Inv /\ OrderInv => InOrder
<1> SUFFICES ASSUME Inv, OrderInv, ~disturbed,
                    NEW i \in 1..Len(wire \o Emission(queue)),
                    NEW j \in 1..Len(wire \o Emission(queue)), i < j,
                    SameLatest((wire \o Emission(queue))[i], (wire \o Emission(queue))[j])
             PROVE  (wire \o Emission(queue))[i].item.value
                      < (wire \o Emission(queue))[j].item.value
  BY DEF InOrder
<1> DEFINE out == Emission(queue)
           all == wire \o out
<1>1. /\ out \in Seq(Out)
      /\ \A p \in 1..Len(out) : out[p] \in On(queue)
      /\ \A p, r \in 1..Len(out) : p < r => ~SameLatest(out[p], out[r])
  BY EmissionOrder DEF Inv, TypeOK, FlushIsScheduled, OrderInv, OneInv
<1>2. wire \in Seq(Out) /\ Len(wire) \in Nat /\ Len(out) \in Nat
  BY <1>1, LenProperties DEF Inv, TypeOK
<1> HIDE DEF out
<1>3. /\ Len(all) = Len(wire) + Len(out)
      /\ \A p \in 1..(Len(wire) + Len(out)) :
           all[p] = IF p <= Len(wire) THEN wire[p] ELSE out[p - Len(wire)]
  BY <1>1, <1>2, ConcatProperties
<1>4. /\ i \in 1..Len(all) /\ j \in 1..Len(all) /\ SameLatest(all[i], all[j])
      /\ WireInv /\ QueueInv
  BY DEF out, OrderInv
<1> HIDE DEF all
<1>5. CASE j <= Len(wire)
  <2>1. /\ i \in 1..Len(wire) /\ all[i] = wire[i]
        /\ j \in 1..Len(wire) /\ all[j] = wire[j]
    BY <1>2, <1>3, <1>4, <1>5
  <2>2. wire[i].item.value < wire[j].item.value
    BY <1>4, <2>1 DEF WireInv
  <2> QED BY <2>1, <2>2 DEF all, out
<1>6. CASE ~(j <= Len(wire)) /\ i <= Len(wire)
  <2>1. /\ i \in 1..Len(wire) /\ all[i] = wire[i]
        /\ j - Len(wire) \in 1..Len(out) /\ all[j] = out[j - Len(wire)]
    BY <1>2, <1>3, <1>4, <1>6
  <2>2. all[i].item.value < all[j].item.value
    BY <1>1, <1>4, <2>1 DEF QueueInv, Shown
  <2> QED BY <2>2 DEF all, out
<1>7. CASE ~(j <= Len(wire)) /\ ~(i <= Len(wire))
  <2>1. /\ i - Len(wire) \in 1..Len(out) /\ all[i] = out[i - Len(wire)]
        /\ j - Len(wire) \in 1..Len(out) /\ all[j] = out[j - Len(wire)]
        /\ i - Len(wire) < j - Len(wire)
    BY <1>2, <1>3, <1>4, <1>7
  <2> QED BY <1>1, <1>4, <2>1
<1> QED BY <1>5, <1>6, <1>7

\* manager-sdk.spec.ts:434 "coalesces latest-state controls and flushes the
\* last value after throttle": the values of a key leave in the order in which
\* they were sent, each once, unless a timer was late or the crowd fell.
THEOREM LatestValuesInOrder == Spec => []InOrder
<1>1. Init => Inv /\ OrderInv
  BY InitInv, InitOrder
<1>2. (Inv /\ OrderInv) /\ [Next]_vars => (Inv /\ OrderInv)'
  BY NextInv, NextOrder
<1> QED BY <1>1, <1>2, OrderInvInOrder, PTL DEF Spec

-----------------------------------------------------------------------------
(* The values in a stream *)

\* The function ValuesIn computes: the values in the first n controls.
Collects(f, s, n, t, a, at) ==
  f = [i \in 0..n |-> IF i = 0 THEN <<>>
                      ELSE IF Fits(s[i], t, a, at) THEN Append(f[i - 1], s[i].item.value)
                      ELSE f[i - 1]]

\* It exists for every n.
LEMMA CollectExists ==
  ASSUME NEW s, NEW t, NEW a, NEW at, NEW n \in Nat
  PROVE  \E f : Collects(f, s, n, t, a, at)
<1> DEFINE K == {m \in Nat : \E f : Collects(f, s, m, t, a, at)}
           next(f, i) == IF Fits(s[i], t, a, at) THEN Append(f[i - 1], s[i].item.value)
                         ELSE f[i - 1]
<1>1. 0 \in K
  <2> DEFINE f == [i \in 0..0 |-> <<>>]
  <2>1. f = [i \in 0..0 |-> IF i = 0 THEN <<>> ELSE next(f, i)]
    <3>1. \A i \in 0..0 : i = 0
      OBVIOUS
    <3> QED BY <3>1
  <2>2. Collects(f, s, 0, t, a, at)
    BY <2>1 DEF Collects
  <2> QED BY <2>2
<1>2. ASSUME NEW m \in K PROVE m + 1 \in K
  <2>1. PICK f : Collects(f, s, m, t, a, at)
    OBVIOUS
  <2>2. m \in Nat /\ f = [i \in 0..m |-> IF i = 0 THEN <<>> ELSE next(f, i)]
    BY <2>1 DEF Collects
  <2> DEFINE g == [i \in 0..(m + 1) |-> IF i = 0 THEN <<>> ELSE next(f, i)]
  <2>3. \A i \in 0..m : g[i] = f[i]
    <3> HIDE DEF next
    <3>1. \A i \in 0..m : f[i] = IF i = 0 THEN <<>> ELSE next(f, i)
      BY <2>2
    <3>2. \A i \in 0..m : i \in 0..(m + 1)
      BY <2>2
    <3> QED BY <3>1, <3>2
  <2>4. ASSUME NEW i \in 0..(m + 1), i # 0 PROVE next(f, i) = next(g, i)
    <3>1. i - 1 \in 0..m
      BY <2>2, <2>4
    <3>2. g[i - 1] = f[i - 1]
      BY <2>3, <3>1
    <3> HIDE DEF g
    <3> QED BY <3>2
  <2>5. g = [i \in 0..(m + 1) |-> IF i = 0 THEN <<>> ELSE next(g, i)]
    <3> HIDE DEF next
    <3> QED BY <2>4
  <2>6. Collects(g, s, m + 1, t, a, at)
    BY <2>5 DEF Collects
  <2> QED BY <2>2, <2>6
<1> HIDE DEF K
<1>3. K = Nat
  BY <1>1, <1>2, SetInduction DEF K
<1> QED BY <1>3 DEF K

\* ValuesIn satisfies its recursion.
LEMMA ValuesInValue ==
  ASSUME NEW s, Len(s) \in Nat, NEW t, NEW a, NEW at
  PROVE  \E f : Collects(f, s, Len(s), t, a, at) /\ ValuesIn(s, t, a, at) = f[Len(s)]
<1> DEFINE f == CHOOSE f : Collects(f, s, Len(s), t, a, at)
<1>1. Collects(f, s, Len(s), t, a, at)
  BY CollectExists
<1>2. ValuesIn(s, t, a, at) = f[Len(s)]
  BY DEF ValuesIn, Collects
<1> QED BY <1>1, <1>2

\* What it computes at a place.
LEMMA CollectsAt ==
  ASSUME NEW f, NEW s, NEW n \in Nat, NEW t, NEW a, NEW at, Collects(f, s, n, t, a, at)
  PROVE  /\ f[0] = <<>>
         /\ \A i \in 0..n : i # 0 =>
              f[i] = IF Fits(s[i], t, a, at) THEN Append(f[i - 1], s[i].item.value) ELSE f[i - 1]
<1> DEFINE next(i) == IF Fits(s[i], t, a, at) THEN Append(f[i - 1], s[i].item.value)
                      ELSE f[i - 1]
<1>1. f = [i \in 0..n |-> IF i = 0 THEN <<>> ELSE next(i)]
  BY DEF Collects
<1> HIDE DEF next
<1>2. \A i \in 0..n : f[i] = IF i = 0 THEN <<>> ELSE next(i)
  BY <1>1
<1>3. 0 \in 0..n
  OBVIOUS
<1> QED BY <1>2, <1>3 DEF next

\* Streams that agree on the controls that fit, place by place.
Alike(s, r, n, t, a, at) ==
  \A i \in 1..n : /\ Fits(s[i], t, a, at) <=> Fits(r[i], t, a, at)
                  /\ Fits(s[i], t, a, at) => s[i].item.value = r[i].item.value

LEMMA CollectsAlike ==
  ASSUME NEW f, NEW g, NEW s, NEW r, NEW n \in Nat, NEW k \in Nat, n <= k,
         NEW t, NEW a, NEW at,
         Collects(f, s, n, t, a, at), Collects(g, r, k, t, a, at),
         Alike(s, r, n, t, a, at)
  PROVE  f[n] = g[n]
<1> DEFINE K == {m \in Nat : m <= n => f[m] = g[m]}
<1>1. 0 \in K
  BY CollectsAt
<1>2. ASSUME NEW m \in K PROVE m + 1 \in K
  <2> SUFFICES ASSUME m + 1 <= n PROVE f[m + 1] = g[m + 1]
    OBVIOUS
  <2>1. /\ m \in Nat /\ m + 1 \in 0..n /\ m + 1 \in 0..k /\ m + 1 \in 1..n
        /\ m + 1 # 0 /\ (m + 1) - 1 = m /\ m <= n
    OBVIOUS
  <2>2. f[m] = g[m]
    BY <2>1
  <2>3. /\ f[m + 1] = IF Fits(s[m + 1], t, a, at) THEN Append(f[m], s[m + 1].item.value) ELSE f[m]
        /\ g[m + 1] = IF Fits(r[m + 1], t, a, at) THEN Append(g[m], r[m + 1].item.value) ELSE g[m]
    <3>1. /\ \A i \in 0..n : i # 0 =>
               f[i] = IF Fits(s[i], t, a, at) THEN Append(f[i - 1], s[i].item.value) ELSE f[i - 1]
          /\ \A i \in 0..k : i # 0 =>
               g[i] = IF Fits(r[i], t, a, at) THEN Append(g[i - 1], r[i].item.value) ELSE g[i - 1]
      BY CollectsAt
    <3> HIDE DEF K
    <3> QED BY <2>1, <3>1
  <2>4. /\ Fits(s[m + 1], t, a, at) <=> Fits(r[m + 1], t, a, at)
        /\ Fits(s[m + 1], t, a, at) => s[m + 1].item.value = r[m + 1].item.value
    BY <2>1 DEF Alike
  <2> HIDE DEF K
  <2> QED BY <2>2, <2>3, <2>4
<1> HIDE DEF K
<1>3. K = Nat
  BY <1>1, <1>2, SetInduction DEF K
<1> QED BY <1>3 DEF K

\* Only the controls that fit count.
LEMMA ValuesAlike ==
  ASSUME NEW s \in Seq(Out), NEW r \in Seq(Out), Len(s) = Len(r),
         NEW t, NEW a, NEW at, Alike(s, r, Len(s), t, a, at)
  PROVE  ValuesIn(s, t, a, at) = ValuesIn(r, t, a, at)
<1>1. Len(s) \in Nat
  BY LenProperties
<1>2. PICK f : Collects(f, s, Len(s), t, a, at) /\ ValuesIn(s, t, a, at) = f[Len(s)]
  BY <1>1, ValuesInValue
<1>3. PICK g : Collects(g, r, Len(s), t, a, at) /\ ValuesIn(r, t, a, at) = g[Len(s)]
  BY <1>1, ValuesInValue
<1> QED BY <1>1, <1>2, <1>3, CollectsAlike

\* The last control adds its value when it fits.
LEMMA ValuesOfAppend ==
  ASSUME NEW s \in Seq(Out), NEW w \in Out, NEW t, NEW a, NEW at
  PROVE  ValuesIn(Append(s, w), t, a, at) =
           IF Fits(w, t, a, at) THEN Append(ValuesIn(s, t, a, at), w.item.value)
           ELSE ValuesIn(s, t, a, at)
<1> DEFINE r == Append(s, w)
           n == Len(s)
<1>1. /\ n \in Nat /\ Len(r) = n + 1 /\ r[n + 1] = w
      /\ \A i \in 1..n : r[i] = s[i]
  BY LenProperties, AppendProperties
<1>2. PICK f : Collects(f, s, n, t, a, at) /\ ValuesIn(s, t, a, at) = f[n]
  BY <1>1, ValuesInValue
<1> HIDE DEF r, n
<1>3. PICK g : Collects(g, r, n + 1, t, a, at) /\ ValuesIn(r, t, a, at) = g[n + 1]
  BY <1>1, ValuesInValue
<1>4. Alike(s, r, n, t, a, at)
  BY <1>1 DEF Alike
<1>5. n <= n + 1 /\ n + 1 \in Nat /\ n + 1 \in 0..(n + 1) /\ n + 1 # 0 /\ (n + 1) - 1 = n
  BY <1>1
<1>6. f[n] = g[n]
  BY <1>1, <1>2, <1>3, <1>4, <1>5, CollectsAlike
<1>7. g[n + 1] = IF Fits(r[n + 1], t, a, at) THEN Append(g[n], r[n + 1].item.value) ELSE g[n]
  <2>1. \A i \in 0..(n + 1) : i # 0 =>
          g[i] = IF Fits(r[i], t, a, at) THEN Append(g[i - 1], r[i].item.value) ELSE g[i - 1]
    BY <1>3, <1>5, CollectsAt
  <2> QED BY <1>5, <2>1
<1>8. ValuesIn(r, t, a, at) = IF Fits(w, t, a, at) THEN Append(ValuesIn(s, t, a, at), w.item.value)
                              ELSE ValuesIn(s, t, a, at)
  BY <1>1, <1>2, <1>3, <1>6, <1>7
<1> QED BY <1>8 DEF r

LEMMA ValuesOfEmpty ==
  ASSUME NEW t, NEW a, NEW at
  PROVE  ValuesIn(<<>>, t, a, at) = <<>>
<1>1. Len(<<>>) = 0
  BY EmptySeq
<1>2. PICK f : Collects(f, <<>>, 0, t, a, at) /\ ValuesIn(<<>>, t, a, at) = f[0]
  BY <1>1, ValuesInValue
<1> QED BY <1>2, CollectsAt

\* Values are numbers.
Numbers == Seq(1..MaxValue)

LEMMA ValuesTyped ==
  ASSUME NEW s \in Seq(Out), NEW t, NEW a, NEW at
  PROVE  ValuesIn(s, t, a, at) \in Numbers
<1> DEFINE K == {r \in Seq(Out) : ValuesIn(r, t, a, at) \in Numbers}
<1>1. <<>> \in K
  BY ValuesOfEmpty, EmptySeq DEF Numbers
<1>2. ASSUME NEW r \in K, NEW w \in Out PROVE Append(r, w) \in K
  <2>1. w.item.value \in 1..MaxValue
    BY DEF Out, Item
  <2>2. Append(ValuesIn(r, t, a, at), w.item.value) \in Numbers
    BY <2>1, AppendProperties DEF Numbers
  <2>3. Append(r, w) \in Seq(Out)
    BY AppendProperties
  <2>4. ValuesIn(Append(r, w), t, a, at) \in Numbers
    <3>1. r \in Seq(Out) /\ ValuesIn(r, t, a, at) \in Numbers
      OBVIOUS
    <3> HIDE DEF K
    <3>2. ValuesIn(Append(r, w), t, a, at) =
            IF Fits(w, t, a, at) THEN Append(ValuesIn(r, t, a, at), w.item.value)
            ELSE ValuesIn(r, t, a, at)
      BY <3>1, ValuesOfAppend
    <3> QED BY <2>2, <3>1, <3>2
  <2> QED BY <2>3, <2>4
<1> HIDE DEF K
<1>3. K = Seq(Out)
  BY <1>1, <1>2, AppendInduction DEF K
<1> QED BY <1>3 DEF K

\* The values of two streams, one after the other.
LEMMA ValuesOfConcat ==
  ASSUME NEW s \in Seq(Out), NEW r \in Seq(Out), NEW t, NEW a, NEW at
  PROVE  ValuesIn(s \o r, t, a, at) = ValuesIn(s, t, a, at) \o ValuesIn(r, t, a, at)
<1> DEFINE V(x) == ValuesIn(x, t, a, at)
           K == {x \in Seq(Out) : V(s \o x) = V(s) \o V(x)}
<1>0. \A x \in Seq(Out) : V(x) \in Numbers
  BY ValuesTyped
<1>1. <<>> \in K
  <2>1. s \o <<>> = s /\ V(s) \o <<>> = V(s)
    BY <1>0, ConcatEmptySeq DEF Numbers
  <2> QED BY <2>1, ValuesOfEmpty, EmptySeq
<1>2. ASSUME NEW x \in K, NEW w \in Out PROVE Append(x, w) \in K
  <2>1. /\ x \in Seq(Out) /\ s \o x \in Seq(Out) /\ Append(x, w) \in Seq(Out)
        /\ V(s \o x) = V(s) \o V(x)
    BY ConcatProperties, AppendProperties
  <2>2. s \o Append(x, w) = Append(s \o x, w)
    BY <2>1, ConcatAppend
  <2>3. V(Append(s \o x, w)) = IF Fits(w, t, a, at) THEN Append(V(s \o x), w.item.value)
                               ELSE V(s \o x)
    <3>1. PICK y \in Seq(Out) : y = s \o x
      BY <2>1
    <3>2. V(Append(y, w)) = IF Fits(w, t, a, at) THEN Append(V(y), w.item.value) ELSE V(y)
      BY ValuesOfAppend
    <3> QED BY <3>1, <3>2
  <2>4. V(Append(x, w)) = IF Fits(w, t, a, at) THEN Append(V(x), w.item.value) ELSE V(x)
    BY <2>1, ValuesOfAppend
  <2>5. V(s) \in Numbers /\ V(x) \in Numbers /\ w.item.value \in 1..MaxValue
    BY <1>0, <2>1 DEF Out, Item
  <2>6. V(s) \o Append(V(x), w.item.value) = Append(V(s) \o V(x), w.item.value)
    <3>1. PICK c \in Numbers, d \in Numbers, n \in 1..MaxValue :
             c = V(s) /\ d = V(x) /\ n = w.item.value
      BY <2>5
    <3>2. c \o Append(d, n) = Append(c \o d, n)
      BY ConcatAppend DEF Numbers
    <3> QED BY <3>1, <3>2
  <2>7. V(s \o Append(x, w)) = V(s) \o V(Append(x, w))
    <3> HIDE DEF V
    <3> QED BY <2>1, <2>2, <2>3, <2>4, <2>6
  <2> QED BY <2>1, <2>7
<1> HIDE DEF K
<1>3. K = Seq(Out)
  BY <1>1, <1>2, AppendInduction DEF K
<1> QED BY <1>3 DEF K

\* The same as a relation, which the provers apply more readily.
Joins(v, s, r) == v = s \o r

LEMMA ValuesJoin ==
  \A v, s, r : s \in Seq(Out) /\ r \in Seq(Out) /\ Joins(v, s, r) =>
    \A t, a, at : Joins(ValuesIn(v, t, a, at), ValuesIn(s, t, a, at), ValuesIn(r, t, a, at))
BY ValuesOfConcat DEF Joins

\* A stream in which nothing fits has no values.
LEMMA NothingFits ==
  ASSUME NEW s \in Seq(Out), NEW t, NEW a, NEW at,
         \A i \in 1..Len(s) : ~Fits(s[i], t, a, at)
  PROVE  ValuesIn(s, t, a, at) = <<>>
<1> DEFINE K == {r \in Seq(Out) : (\A i \in 1..Len(r) : ~Fits(r[i], t, a, at))
                                  => ValuesIn(r, t, a, at) = <<>>}
<1>1. <<>> \in K
  BY ValuesOfEmpty, EmptySeq
<1>2. ASSUME NEW r \in K, NEW w \in Out PROVE Append(r, w) \in K
  <2>0. Append(r, w) \in Seq(Out)
    BY AppendProperties
  <2>1. ASSUME \A i \in 1..Len(Append(r, w)) : ~Fits(Append(r, w)[i], t, a, at)
        PROVE  ValuesIn(Append(r, w), t, a, at) = <<>>
    <3>1. /\ Len(r) \in Nat /\ Len(Append(r, w)) = Len(r) + 1
          /\ \A i \in 1..Len(r) : Append(r, w)[i] = r[i]
          /\ Append(r, w)[Len(r) + 1] = w
      BY LenProperties, AppendProperties
    <3>2. /\ Len(r) + 1 \in 1..(Len(r) + 1)
          /\ \A i \in 1..Len(r) : i \in 1..(Len(r) + 1)
      BY <3>1
    <3>3. ~Fits(w, t, a, at) /\ \A i \in 1..Len(r) : ~Fits(r[i], t, a, at)
      BY <2>1, <3>1, <3>2
    <3> QED BY <3>3, ValuesOfAppend
  <2> QED BY <2>0, <2>1
<1> HIDE DEF K
<1>3. K = Seq(Out)
  BY <1>1, <1>2, AppendInduction DEF K
<1> QED BY <1>3 DEF K

\* When the values of a kind are all in one part, they are that part's.
LEMMA ValuesOfFlatten ==
  ASSUME NEW s \in Seq(Seq(Out)), NEW i \in 1..Len(s), NEW t, NEW a, NEW at,
         \A j \in 1..Len(s) : j # i => ValuesIn(s[j], t, a, at) = <<>>
  PROVE  ValuesIn(FlattenSeq(s), t, a, at) = ValuesIn(s[i], t, a, at)
<1> DEFINE V(x) == ValuesIn(x, t, a, at)
<1>0. /\ Len(s) \in Nat \ {0} /\ i \in Nat /\ 1 <= i /\ i <= Len(s)
      /\ \A j \in 1..Len(s) : s[j] \in Seq(Out) /\ V(s[j]) \in Numbers
  <2>1. Len(s) \in Nat \ {0} /\ i \in Nat /\ 1 <= i /\ i <= Len(s)
    BY LenProperties
  <2> QED BY <2>1, ElementOfSeq, ValuesTyped
<1>1. PICK f : Flattens(f, s, Len(s)) /\ FlattenSeq(s) = f[Len(s)]
  BY <1>0, FlattenSeqValue
<1>2. f[1] = s[1] /\ \A n \in 1..(Len(s) - 1) : f[n + 1] = f[n] \o s[n + 1]
  <2>1. \A j \in 1..Len(s) : f[j] = IF j = 1 THEN s[j] ELSE f[j - 1] \o s[j]
    BY <1>1, Zenon DEF Flattens
  <2>2. /\ 1 \in 1..Len(s)
        /\ \A n \in 1..(Len(s) - 1) : n + 1 \in 1..Len(s) /\ n + 1 # 1 /\ (n + 1) - 1 = n
    BY <1>0
  <2>3. \A n \in 1..(Len(s) - 1) : f[n + 1] = f[(n + 1) - 1] \o s[n + 1]
    BY <2>1, <2>2, Zenon
  <2> QED BY <2>1, <2>2, <2>3
<1> DEFINE Upto(n) == f[n] \in Seq(Out) /\ V(f[n]) = IF n < i THEN <<>> ELSE V(s[i])
           K == {n \in Nat : n + 1 <= Len(s) => Upto(n + 1)}
<1>3. 0 \in K
  <2>1. 1 \in 1..Len(s) /\ 0 + 1 = 1
    BY <1>0
  <2>2. 1 < i => V(s[1]) = <<>>
    BY <2>1
  <2>3. ~(1 < i) => i = 1
    BY <1>0
  <2>4. Upto(1)
    <3> HIDE DEF V
    <3> QED BY <1>0, <1>2, <2>1, <2>2, <2>3
  <2> HIDE DEF Upto
  <2> QED BY <2>1, <2>4
<1>4. ASSUME NEW n \in K PROVE n + 1 \in K
  <2> SUFFICES ASSUME (n + 1) + 1 <= Len(s) PROVE Upto((n + 1) + 1)
    OBVIOUS
  <2>1. /\ n + 1 \in Nat /\ (n + 1) + 1 \in 1..Len(s) /\ n + 1 \in 1..(Len(s) - 1)
        /\ n + 1 <= Len(s)
    BY <1>0
  <2>2. Upto(n + 1)
    BY <2>1
  <2> HIDE DEF K
  <2> DEFINE m == n + 1
  <2>3. m \in Nat /\ f[m + 1] = f[m] \o s[m + 1] /\ s[m + 1] \in Seq(Out) /\ V(s[m + 1]) \in Numbers
    BY <1>0, <1>2, <2>1
  <2> HIDE DEF m
  <2>4. f[m] \in Seq(Out) /\ V(f[m]) = IF m < i THEN <<>> ELSE V(s[i])
    BY <2>2 DEF m
  <2>5. f[m + 1] \in Seq(Out) /\ V(f[m + 1]) = V(f[m]) \o V(s[m + 1])
    <3>1. PICK x \in Seq(Out), y \in Seq(Out) : x = f[m] /\ y = s[m + 1]
      BY <2>3, <2>4
    <3>2. x \o y \in Seq(Out)
      BY ConcatProperties
    <3>3. PICK v : Joins(v, x, y)
      BY DEF Joins
    <3>4. Joins(V(v), V(x), V(y))
      BY <3>3, ValuesJoin, Zenon
    <3> HIDE DEF V
    <3> QED BY <2>3, <3>1, <3>2, <3>3, <3>4 DEF Joins
  <2>6. m + 1 # i => V(s[m + 1]) = <<>>
    BY <2>1 DEF m
  <2>7. /\ V(s[i]) \in Numbers /\ V(s[i]) \o <<>> = V(s[i]) /\ <<>> \o <<>> = <<>>
        /\ <<>> \o V(s[i]) = V(s[i])
    <3>1. V(s[i]) \in Numbers
      BY <1>0
    <3> QED BY <3>1, ConcatEmptySeq, EmptySeq DEF Numbers
  <2> HIDE DEF V
  <2>8. CASE m + 1 < i
    <3>1. m < i /\ m + 1 # i
      BY <1>0, <2>3, <2>8
    <3> QED BY <2>4, <2>5, <2>6, <2>7, <2>8, <3>1 DEF m
  <2>9. CASE m + 1 = i
    <3>1. m < i /\ ~(m + 1 < i)
      BY <1>0, <2>3, <2>9
    <3> QED BY <2>4, <2>5, <2>7, <2>9, <3>1 DEF m
  <2>10. CASE i < m + 1
    <3>1. ~(m < i) /\ m + 1 # i /\ ~(m + 1 < i)
      BY <1>0, <2>3, <2>10
    <3> QED BY <2>4, <2>5, <2>6, <2>7, <3>1 DEF m
  <2> QED BY <1>0, <2>3, <2>8, <2>9, <2>10
<1> HIDE DEF K, Upto
<1>5. K = Nat
  BY <1>3, <1>4, SetInduction DEF K
<1>6. Len(s) - 1 \in K /\ (Len(s) - 1) + 1 = Len(s) /\ Len(s) <= Len(s) /\ ~(Len(s) < i)
  BY <1>0, <1>5
<1>7. Upto(Len(s))
  BY <1>6 DEF K
<1> QED BY <1>1, <1>6, <1>7 DEF Upto

\* A flush emits the values of a key from its target's entry.
LEMMA EmissionOfEntry ==
  ASSUME NEW q \in Seq(Queued), NEW i \in 1..Len(q), NEW a, NEW at,
         \A j \in 1..Len(q) : q[j].target = q[i].target => j = i
  PROVE  ValuesIn(Emission(q), q[i].target, a, at)
           = ValuesIn(Labelled(q[i]), q[i].target, a, at)
<1> DEFINE parts == [j \in 1..Len(q) |-> Labelled(q[j])]
           t == q[i].target
<1>1. parts \in Seq(Seq(Out)) /\ Len(parts) = Len(q)
  BY PartsTyped
<1>2. ASSUME NEW j \in 1..Len(q), j # i PROVE ValuesIn(parts[j], t, a, at) = <<>>
  <2>1. parts[j] \in Seq(Out)
    BY <1>1, ElementOfSeq
  <2>2. Len(parts[j]) = Len(q[j].items) /\ q[j].target # t
    BY <1>2, PartsTyped
  <2>3. \A l \in 1..Len(q[j].items) : parts[j][l].target = q[j].target
    BY DEF Labelled
  <2>4. \A l \in 1..Len(parts[j]) : ~Fits(parts[j][l], t, a, at)
    BY <2>2, <2>3 DEF Fits
  <2> QED BY <2>1, <2>4, NothingFits
<1>3. parts[i] = Labelled(q[i])
  OBVIOUS
<1> HIDE DEF parts
<1>4. ValuesIn(FlattenSeq(parts), t, a, at) = ValuesIn(parts[i], t, a, at)
  BY <1>1, <1>2, ValuesOfFlatten
<1> QED BY <1>3, <1>4 DEF Emission, parts

LEMMA EmissionOfNone ==
  ASSUME NEW q \in Seq(Queued), NEW t, NEW a, NEW at,
         \A j \in 1..Len(q) : q[j].target # t
  PROVE  ValuesIn(Emission(q), t, a, at) = <<>>
<1> DEFINE parts == [j \in 1..Len(q) |-> Labelled(q[j])]
<1>1. /\ parts \in Seq(Seq(Out)) /\ Len(parts) = Len(q)
      /\ \A j \in 1..Len(q) : Len(parts[j]) = Len(q[j].items)
  BY PartsTyped
<1>2. \A j \in 1..Len(q) : \A l \in 1..Len(q[j].items) : parts[j][l].target = q[j].target
  BY DEF Labelled
<1> HIDE DEF parts
<1>3. FlattenSeq(parts) \in Seq(Out) /\ Placed(FlattenSeq(parts), parts, Len(q))
  BY <1>1, FlattenPlaced
<1>4. ASSUME NEW p \in 1..Len(FlattenSeq(parts)) PROVE ~Fits(FlattenSeq(parts)[p], t, a, at)
  <2>1. PICK j \in 1..Len(q) : \E l \in 1..Len(parts[j]) : FlattenSeq(parts)[p] = parts[j][l]
    BY <1>3 DEF Placed
  <2>2. PICK l \in 1..Len(q[j].items) : FlattenSeq(parts)[p] = parts[j][l]
    BY <1>1, <2>1
  <2> QED BY <1>2, <2>2 DEF Fits
<1>5. ValuesIn(FlattenSeq(parts), t, a, at) = <<>>
  BY <1>3, <1>4, NothingFits
<1> QED BY <1>5 DEF Emission, parts

-----------------------------------------------------------------------------
(* Reliable controls *)

\* What an entry emits of a reliable action, before and after a control is
\* added to it.
Extended(before, after, fits, value) == after = IF fits THEN Append(before, value) ELSE before

LEMMA LabelledTyped ==
  ASSUME NEW t \in Target, NEW items \in Seq(Item)
  PROVE  /\ Labelled([target |-> t, items |-> items]) \in Seq(Out)
         /\ Len(Labelled([target |-> t, items |-> items])) = Len(items)
         /\ \A i \in 1..Len(items) :
              Labelled([target |-> t, items |-> items])[i] = [target |-> t, item |-> items[i]]
<1>1. Len(items) \in Nat /\ \A i \in 1..Len(items) : items[i] \in Item
  BY LenProperties, ElementOfSeq
<1>2. Labelled([target |-> t, items |-> items])
        = [i \in 1..Len(items) |-> [target |-> t, item |-> items[i]]]
  BY DEF Labelled
<1>3. \A i \in 1..Len(items) : [target |-> t, item |-> items[i]] \in Out
  BY <1>1 DEF Out
<1>4. [i \in 1..Len(items) |-> [target |-> t, item |-> items[i]]] \in Seq(Out)
  BY <1>1, <1>3
<1> QED BY <1>1, <1>2, <1>4

LEMMA EntryExtended ==
  ASSUME NEW t \in Target, NEW items \in Seq(Item), NEW item \in Item,
         NEW a \in Reliable, NEW at
  PROVE  Extended(ValuesIn(Labelled([target |-> t, items |-> items]), t, a, at),
                  ValuesIn(Labelled([target |-> t, items |-> AddItem(items, item)]), t, a, at),
                  item.action = a /\ item.at = at, item.value)
<1> DEFINE Of(x) == Labelled([target |-> t, items |-> x])
<1>0. Len(items) \in Nat
  BY LenProperties
<1>1. CASE Coalesces(item) /\ \E j \in 1..Len(items) : items[j].action = item.action
  <2>1. AddItem(items, item) = Merge(items, item)
    BY <1>1 DEF AddItem
  <2>2. PICK i \in 1..Len(items) :
          /\ items[i].action = item.action
          /\ Merge(items, item) = [items EXCEPT ![i].value = item.value]
    <3> DEFINE i == CHOOSE j \in 1..Len(items) :
                      /\ items[j].action = item.action
                      /\ \A l \in 1..(j - 1) : items[l].action # item.action
    <3>1. i \in 1..Len(items) /\ items[i].action = item.action
      BY <1>1, MergePlace
    <3> QED BY <3>1 DEF Merge
  <2>3. item.action # a
    BY <1>1, QueueAssumption DEF QueueAssumption, Coalesces
  <2> DEFINE new == Merge(items, item)
  <2>4. new \in Seq(Item) /\ Len(new) = Len(items)
    <3>1. new \in Seq(Item)
      BY <2>1, AddItemTyped
    <3>2. DOMAIN new = DOMAIN items
      BY <2>2
    <3>3. Len(new) = Len(items)
      BY <1>0, <3>1, <3>2, LenProperties
    <3> QED BY <3>1, <3>3
  <2>5. /\ new[i].action = item.action
        /\ \A j \in 1..Len(items) : j # i => new[j] = items[j]
    <3>1. items \in [1..Len(items) -> Item]
      BY LenProperties
    <3>2. items[i] \in Item
      BY <3>1
    <3>3. new[i] = [items[i] EXCEPT !.value = item.value]
      BY <2>2, <3>1
    <3>4. new[i].action = items[i].action
      BY <3>2, <3>3 DEF Item
    <3> QED BY <2>2, <3>1, <3>4
  <2> HIDE DEF new
  <2>6. /\ Of(items) \in Seq(Out) /\ Len(Of(items)) = Len(items)
        /\ Of(new) \in Seq(Out) /\ Len(Of(new)) = Len(items)
        /\ \A j \in 1..Len(items) : /\ Of(items)[j] = [target |-> t, item |-> items[j]]
                                    /\ Of(new)[j] = [target |-> t, item |-> new[j]]
    BY <2>4, LabelledTyped
  <2> HIDE DEF Of
  <2>7. Alike(Of(items), Of(new), Len(items), t, a, at)
    <3>1. ASSUME NEW j \in 1..Len(items)
          PROVE  /\ Fits(Of(items)[j], t, a, at) <=> Fits(Of(new)[j], t, a, at)
                 /\ Fits(Of(items)[j], t, a, at)
                      => Of(items)[j].item.value = Of(new)[j].item.value
      <4>1. CASE j = i
        <5>1. items[j].action # a /\ new[j].action # a
          BY <2>2, <2>3, <2>5, <4>1
        <5>2. Of(items)[j].item = items[j] /\ Of(new)[j].item = new[j]
          <6>1. /\ Of(items)[j] = [target |-> t, item |-> items[j]]
                /\ Of(new)[j] = [target |-> t, item |-> new[j]]
            BY <2>6
          <6> QED BY <6>1
        <5>3. ~Fits(Of(items)[j], t, a, at) /\ ~Fits(Of(new)[j], t, a, at)
          BY <5>1, <5>2 DEF Fits
        <5> QED BY <5>3
      <4>2. CASE j # i
        <5>1. Of(items)[j] = Of(new)[j]
          BY <2>5, <2>6, <4>2
        <5> QED BY <5>1
      <4> QED BY <4>1, <4>2
    <3> QED BY <3>1 DEF Alike
  <2>8. ValuesIn(Of(items), t, a, at) = ValuesIn(Of(new), t, a, at)
    <3>1. PICK o \in Seq(Out), p \in Seq(Out) : o = Of(items) /\ p = Of(new)
      BY <2>6
    <3>2. Len(o) = Len(p) /\ Alike(o, p, Len(o), t, a, at)
      BY <2>6, <2>7, <3>1
    <3>3. ValuesIn(o, t, a, at) = ValuesIn(p, t, a, at)
      BY <3>2, ValuesAlike
    <3> QED BY <3>1, <3>3
  <2> QED BY <2>1, <2>3, <2>8 DEF Extended, Of, new
<1>2. CASE ~(Coalesces(item) /\ \E j \in 1..Len(items) : items[j].action = item.action)
  <2> DEFINE new == Append(items, item)
             w   == [target |-> t, item |-> item]
  <2>1. AddItem(items, item) = new
    BY <1>2 DEF AddItem
  <2>2. /\ new \in Seq(Item) /\ Len(new) = Len(items) + 1
        /\ \A j \in 1..Len(items) : new[j] = items[j]
        /\ new[Len(items) + 1] = item
    BY AppendProperties
  <2> HIDE DEF new
  <2>3. /\ Of(items) \in Seq(Out) /\ Len(Of(items)) = Len(items)
        /\ Of(new) \in Seq(Out) /\ Len(Of(new)) = Len(new)
        /\ \A j \in 1..Len(items) : Of(items)[j] = [target |-> t, item |-> items[j]]
        /\ \A j \in 1..Len(new) : Of(new)[j] = [target |-> t, item |-> new[j]]
    BY <2>2, LabelledTyped
  <2>4. w \in Out
    BY DEF Out
  <2> HIDE DEF Of, w
  <2>5. /\ Append(Of(items), w) \in Seq(Out) /\ Len(Append(Of(items), w)) = Len(items) + 1
        /\ \A j \in 1..Len(items) : Append(Of(items), w)[j] = Of(items)[j]
        /\ Append(Of(items), w)[Len(items) + 1] = w
    <3>1. PICK o \in Seq(Out) : o = Of(items)
      BY <2>3
    <3>2. /\ Append(o, w) \in Seq(Out) /\ Len(Append(o, w)) = Len(o) + 1
          /\ \A j \in 1..Len(o) : Append(o, w)[j] = o[j]
          /\ Append(o, w)[Len(o) + 1] = w
      BY <2>4, AppendProperties
    <3> QED BY <2>3, <3>1, <3>2
  <2>6. \A j \in 1..(Len(items) + 1) : Of(new)[j] = Append(Of(items), w)[j]
    <3> TAKE j \in 1..(Len(items) + 1)
    <3>1. CASE j \in 1..Len(items)
      <4>1. j \in 1..Len(new) /\ new[j] = items[j]
        BY <1>0, <2>2, <3>1
      <4>2. Of(new)[j] = Of(items)[j]
        BY <2>3, <3>1, <4>1
      <4> QED BY <2>5, <3>1, <4>2
    <3>2. CASE j = Len(items) + 1
      <4>1. j \in 1..Len(new) /\ new[j] = item
        BY <1>0, <2>2, <3>2
      <4>2. Of(new)[j] = [target |-> t, item |-> item]
        BY <2>3, <4>1
      <4>3. Append(Of(items), w)[j] = w
        BY <2>5, <3>2
      <4>4. w = [target |-> t, item |-> item]
        BY DEF w
      <4> QED BY <4>2, <4>3, <4>4, Zenon
    <3>3. j \in 1..Len(items) \/ j = Len(items) + 1
      BY <1>0
    <3> QED BY <3>1, <3>2, <3>3, Zenon
  <2>7. Of(new) = Append(Of(items), w)
    BY <2>2, <2>3, <2>5, <2>6, SeqEqual
  <2>8. ValuesIn(Append(Of(items), w), t, a, at) =
          IF Fits(w, t, a, at) THEN Append(ValuesIn(Of(items), t, a, at), w.item.value)
          ELSE ValuesIn(Of(items), t, a, at)
    <3>1. PICK o \in Seq(Out) : o = Of(items)
      BY <2>3
    <3>2. ValuesIn(Append(o, w), t, a, at) =
            IF Fits(w, t, a, at) THEN Append(ValuesIn(o, t, a, at), w.item.value)
            ELSE ValuesIn(o, t, a, at)
      BY <2>4, ValuesOfAppend
    <3> QED BY <3>1, <3>2
  <2>9. (Fits(w, t, a, at) <=> item.action = a /\ item.at = at) /\ w.item.value = item.value
    BY DEF Fits, w, Item
  <2> QED BY <2>1, <2>7, <2>8, <2>9 DEF Extended, Of
<1> QED BY <1>1, <1>2

LEMMA EmissionTyped ==
  ASSUME NEW q \in Seq(Queued)
  PROVE  Emission(q) \in Seq(Out)
BY PartsTyped, FlattenPlaced DEF Emission

\* Queueing a control adds its value to what a flush would send of a reliable
\* action, and disturbs the values of no other.
LEMMA EnqueueExtends ==
  ASSUME TypeOK, FlushIsScheduled, NEW t \in Target, NEW item \in Item,
         EnqueueControl(t, item), NEW u \in Target, NEW a \in Reliable, NEW at
  PROVE  /\ queue' \in Seq(Queued)
         /\ Extended(ValuesIn(Emission(queue), u, a, at),
                     ValuesIn(Emission(queue'), u, a, at),
                     t = u /\ item.action = a /\ item.at = at, item.value)
<1> DEFINE V(x) == ValuesIn(x, u, a, at)
           new  == queue'
<1>1. /\ queue \in Seq(Queued) /\ Len(queue) \in Nat
      /\ \A i \in 1..Len(queue) : /\ queue[i].target \in Target /\ queue[i].items \in Seq(Item)
                                  /\ queue[i] = [target |-> queue[i].target,
                                                 items |-> queue[i].items]
  <2>1. queue \in Seq(Queued) /\ Len(queue) \in Nat
    BY LenProperties DEF TypeOK
  <2>2. \A i \in 1..Len(queue) : queue[i] \in Queued
    BY <2>1, ElementOfSeq
  <2> QED BY <2>1, <2>2 DEF Queued
<1>2. new \in Seq(Queued) /\ FlushIsScheduled'
  BY EnqueueScheduled
<1>3. ASSUME NEW i \in 1..Len(queue), queue[i].target = u
      PROVE  V(Emission(queue)) = V(Labelled(queue[i]))
  <2>1. \A j \in 1..Len(queue) : queue[j].target = queue[i].target => j = i
    BY DEF FlushIsScheduled
  <2> QED BY <1>1, <1>3, <2>1, EmissionOfEntry
<1>4. ASSUME NEW i \in 1..Len(new), new[i].target = u
      PROVE  V(Emission(new)) = V(Labelled(new[i]))
  <2>1. \A j \in 1..Len(new) : new[j].target = new[i].target => j = i
    BY <1>2 DEF FlushIsScheduled
  <2> HIDE DEF new
  <2> QED BY <1>2, <1>4, <2>1, EmissionOfEntry
<1>5. (\A i \in 1..Len(queue) : queue[i].target # u) => V(Emission(queue)) = <<>>
  BY <1>1, EmissionOfNone
<1>6. (\A i \in 1..Len(new) : new[i].target # u) => V(Emission(new)) = <<>>
  BY <1>2, EmissionOfNone
<1> DEFINE fits == item.action = a /\ item.at = at
           Goal == Extended(V(Emission(queue)), V(Emission(new)), t = u /\ fits, item.value)
<1>7. ASSUME \E i \in 1..Len(queue) : queue[i].target = t PROVE Goal
  <2> DEFINE entry(i) == IF queue[i].target = t
                         THEN [target |-> t, items |-> AddItem(queue[i].items, item)]
                         ELSE queue[i]
  <2>1. new = [i \in 1..Len(queue) |-> entry(i)]
    BY <1>7 DEF EnqueueControl
  <2>2. \A i \in 1..Len(queue) : entry(i).target = queue[i].target
    OBVIOUS
  <2>3. Len(new) = Len(queue) /\ \A i \in 1..Len(queue) : new[i] = entry(i)
    <3> HIDE DEF entry, new
    <3> QED BY <1>1, <2>1
  <2> HIDE DEF new
  <2>4. CASE \E i \in 1..Len(queue) : queue[i].target = u
    <3>1. PICK i \in 1..Len(queue) : queue[i].target = u
      BY <2>4
    <3>2. new[i] = entry(i) /\ i \in 1..Len(new) /\ new[i].target = u
      BY <2>2, <2>3, <3>1
    <3>3. V(Emission(queue)) = V(Labelled(queue[i])) /\ V(Emission(new)) = V(Labelled(new[i]))
      BY <1>3, <1>4, <3>1, <3>2
    <3>4. CASE t = u
      <4> DEFINE items == queue[i].items
      <4>1. /\ queue[i] = [target |-> u, items |-> items] /\ items \in Seq(Item)
            /\ new[i] = [target |-> u, items |-> AddItem(items, item)]
        BY <1>1, <3>1, <3>2, <3>4
      <4> HIDE DEF items
      <4>2. Extended(V(Labelled([target |-> u, items |-> items])),
                     V(Labelled([target |-> u, items |-> AddItem(items, item)])),
                     fits, item.value)
        BY <4>1, EntryExtended
      <4> QED BY <3>3, <3>4, <4>1, <4>2 DEF Extended, fits
    <3>5. CASE t # u
      <4>1. new[i] = queue[i]
        BY <3>1, <3>2, <3>5
      <4> QED BY <3>3, <3>5, <4>1 DEF Extended
    <3> QED BY <3>4, <3>5
  <2>5. CASE ~\E i \in 1..Len(queue) : queue[i].target = u
    <3>1. \A i \in 1..Len(new) : new[i].target # u
      BY <2>2, <2>3, <2>5
    <3>2. t # u
      BY <1>7, <2>5
    <3> QED BY <1>5, <1>6, <2>5, <3>1, <3>2 DEF Extended
  <2> QED BY <2>4, <2>5
<1>8. ASSUME ~\E i \in 1..Len(queue) : queue[i].target = t PROVE Goal
  <2> DEFINE entry == [target |-> t, items |-> <<item>>]
  <2>1. entry \in Queued
    BY DEF Queued
  <2>2. new = Append(queue, entry)
    BY <1>8 DEF EnqueueControl
  <2>3. /\ Len(new) = Len(queue) + 1 /\ new[Len(queue) + 1] = entry
        /\ \A i \in 1..Len(queue) : new[i] = queue[i]
    BY <1>1, <2>1, <2>2, AppendProperties
  <2> HIDE DEF new, entry
  <2>4. CASE t = u
    <3>1. V(Emission(queue)) = <<>>
      BY <1>5, <1>8, <2>4
    <3>2. Len(queue) + 1 \in 1..Len(new) /\ new[Len(queue) + 1].target = u
      BY <1>1, <2>3, <2>4 DEF entry
    <3>3. V(Emission(new)) = V(Labelled(entry))
      BY <1>4, <2>3, <3>2
    <3>4. PICK w \in Out : w = [target |-> t, item |-> item]
      BY DEF Out
    <3>5. Labelled(entry) = Append(<<>>, w)
      <4>1. Len(<<item>>) = 1 /\ <<item>>[1] = item /\ <<item>> \in Seq(Item)
        OBVIOUS
      <4>2. /\ Labelled(entry) \in Seq(Out) /\ Len(Labelled(entry)) = 1
            /\ Labelled(entry)[1] = w
        <5>1. PICK items \in Seq(Item) : items = <<item>>
          BY <4>1
        <5>2. /\ Labelled(entry) \in Seq(Out) /\ Len(Labelled(entry)) = Len(items)
              /\ \A i \in 1..Len(items) : Labelled(entry)[i] = [target |-> t, item |-> items[i]]
          BY <5>1, LabelledTyped, Zenon DEF entry
        <5>3. Len(items) = 1 /\ items[1] = item /\ 1 \in 1..1
          BY <4>1, <5>1
        <5> QED BY <3>4, <5>2, <5>3
      <4>3. /\ Append(<<>>, w) \in Seq(Out) /\ Len(Append(<<>>, w)) = 1
            /\ Append(<<>>, w)[1] = w
        BY EmptySeq, AppendProperties
      <4>4. \A i \in 1..1 : i = 1
        OBVIOUS
      <4> QED BY <4>2, <4>3, <4>4, SeqEqual
    <3>6. V(Append(<<>>, w)) = IF Fits(w, u, a, at) THEN Append(V(<<>>), w.item.value)
                               ELSE V(<<>>)
      <4>1. <<>> \in Seq(Out)
        BY EmptySeq
      <4>2. PICK e \in Seq(Out) : e = <<>>
        BY <4>1
      <4>3. V(Append(e, w)) = IF Fits(w, u, a, at) THEN Append(V(e), w.item.value) ELSE V(e)
        BY ValuesOfAppend
      <4> QED BY <4>2, <4>3
    <3>7. V(<<>>) = <<>>
      BY ValuesOfEmpty
    <3>8. (Fits(w, u, a, at) <=> fits) /\ w.item.value = item.value
      BY <2>4, <3>4 DEF Fits, Item
    <3> HIDE DEF V, fits
    <3> QED BY <2>4, <3>1, <3>3, <3>5, <3>6, <3>7, <3>8 DEF Extended, V, fits
  <2>5. CASE t # u
    <3>1. CASE \E i \in 1..Len(queue) : queue[i].target = u
      <4>1. PICK i \in 1..Len(queue) : queue[i].target = u
        BY <3>1
      <4>2. i \in 1..Len(new) /\ new[i] = queue[i]
        BY <1>1, <2>3
      <4>3. V(Emission(queue)) = V(Labelled(queue[i])) /\ V(Emission(new)) = V(Labelled(new[i]))
        BY <1>3, <1>4, <4>1, <4>2
      <4> QED BY <2>5, <4>2, <4>3 DEF Extended
    <3>2. CASE ~\E i \in 1..Len(queue) : queue[i].target = u
      <4>1. \A i \in 1..Len(new) : new[i].target # u
        <5>1. \A i \in 1..Len(new) : i \in 1..Len(queue) \/ i = Len(queue) + 1
          BY <1>1, <2>3
        <5> QED BY <2>3, <2>5, <3>2, <5>1 DEF entry
      <4> QED BY <1>5, <1>6, <2>5, <3>2, <4>1 DEF Extended
    <3> QED BY <3>1, <3>2
  <2> QED BY <2>4, <2>5
<1> QED BY <1>2, <1>7, <1>8 DEF Goal

\* What went out and what is queued, before and after a control is queued.
LEMMA EnqueueFlows ==
  ASSUME Inv, NEW t \in Target, NEW item \in Item, EnqueueControl(t, item), wire' = wire,
         NEW u \in Target, NEW a \in Reliable
  PROVE  Extended(Flow(u, a), Flow(u, a)', t = u /\ item.action = a /\ ~item.at, item.value)
<1> DEFINE at   == FALSE
           V(x) == ValuesIn(x, u, a, at)
           fits == t = u /\ item.action = a /\ item.at = at
<1>0. fits <=> t = u /\ item.action = a /\ ~item.at
  BY DEF Item
<1>8. /\ Flow(u, a) = V(wire \o Emission(queue))
      /\ Flow(u, a)' = V(wire \o Emission(queue'))
  BY DEF Flow
<1> HIDE DEF at
<1>1. /\ queue' \in Seq(Queued)
      /\ Extended(V(Emission(queue)), V(Emission(queue')), fits, item.value)
  BY EnqueueExtends DEF Inv
<1>2. /\ wire \in Seq(Out) /\ queue \in Seq(Queued)
      /\ Emission(queue) \in Seq(Out) /\ Emission(queue') \in Seq(Out)
  BY <1>1, EmissionTyped DEF Inv, TypeOK
<1>3. PICK o \in Seq(Out), p \in Seq(Out) : o = Emission(queue) /\ p = Emission(queue')
  BY <1>2
<1>4. PICK x, y : Joins(x, wire, o) /\ Joins(y, wire, p)
  BY DEF Joins
<1>5. Joins(V(x), V(wire), V(o)) /\ Joins(V(y), V(wire), V(p))
  BY <1>2, <1>4, ValuesJoin, Zenon
<1>9. Flow(u, a) = V(x) /\ Flow(u, a)' = V(y)
  BY <1>3, <1>4, <1>8 DEF Joins
<1>6. V(wire) \in Numbers /\ V(o) \in Numbers /\ item.value \in 1..MaxValue
  BY <1>2, ValuesTyped DEF Item
<1> HIDE DEF V
<1>7. V(wire) \o Append(V(o), item.value) = Append(V(wire) \o V(o), item.value)
  BY <1>6, ConcatAppend DEF Numbers
<1> QED BY <1>0, <1>1, <1>3, <1>5, <1>7, <1>9 DEF Extended, Joins

\* What a step does to the reliable commands to a target, when the socket is up
\* after it: they stay as they are, or the newest one joins them.
KeptFlow(t, a) == Flow(t, a)' \in {Flow(t, a), Append(Flow(t, a), sent'[<<t, a>>])}

\* A control of another kind leaves them alone.
LEMMA OthersKept ==
  ASSUME Inv, NEW t \in Target, NEW item \in Item, item.action \notin Reliable \/ item.at,
         EnqueueControl(t, item), wire' = wire, NEW u \in Target, NEW a \in Reliable
  PROVE  KeptFlow(u, a)
<1>1. ~(t = u /\ item.action = a /\ ~item.at)
  OBVIOUS
<1>2. Extended(Flow(u, a), Flow(u, a)', t = u /\ item.action = a /\ ~item.at, item.value)
  BY EnqueueFlows
<1> QED BY <1>1, <1>2 DEF Extended, KeptFlow

LEMMA PlainKept ==
  ASSUME Inv, NEW t \in Target, NEW b \in Action, NEW at \in BOOLEAN, SendPlain(t, b, at),
         NEW u \in Target, NEW a \in Reliable
  PROVE  KeptFlow(u, a)
<1> DEFINE item == [action |-> b, value |-> sent[<<t, b>>] + 1, at |-> at]
<1>1. sent[<<t, b>>] \in 0..MaxValue /\ sent[<<t, b>>] < MaxValue
      /\ sent' = [sent EXCEPT ![<<t, b>>] = @ + 1]
  BY Types DEF SendPlain, NewValue, Inv, TypeOK
<1>2. item \in Item /\ sent'[<<t, b>>] = item.value
  <2>1. sent[<<t, b>>] + 1 \in 1..MaxValue
    BY <1>1, Types
  <2>2. sent'[<<t, b>>] = sent[<<t, b>>] + 1
    BY <1>1, Types DEF Inv, TypeOK
  <2> QED BY <2>1, <2>2 DEF Item
<1>3. EnqueueControl(t, item) /\ wire' = wire
  BY DEF SendPlain
<1>4. item.action = b
  OBVIOUS
<1> HIDE DEF item
<1>5. Extended(Flow(u, a), Flow(u, a)', t = u /\ item.action = a /\ ~item.at, item.value)
  BY <1>2, <1>3, EnqueueFlows
<1>6. CASE t = u /\ item.action = a /\ ~item.at
  <2>1. item.value = sent'[<<u, a>>]
    BY <1>2, <1>4, <1>6
  <2> QED BY <1>5, <1>6, <2>1 DEF Extended, KeptFlow
<1>7. CASE ~(t = u /\ item.action = a /\ ~item.at)
  BY <1>5, <1>7 DEF Extended, KeptFlow
<1> QED BY <1>6, <1>7

\* A flush moves what is queued to the wire.
LEMMA FlushKept ==
  ASSUME Inv, FlushQueuedControls, online', NEW u \in Target, NEW a \in Reliable
  PROVE  KeptFlow(u, a)
<1>1. wire' = wire \o Emission(queue) /\ queue' = <<>>
  BY DEF FlushQueuedControls, ClearQueue
<1>2. wire \in Seq(Out) /\ queue \in Seq(Queued)
  BY DEF Inv, TypeOK
<1>3. PICK x \in Seq(Out) : x = wire \o Emission(queue)
  <2>1. Emission(queue) \in Seq(Out)
    BY <1>2, EmissionTyped
  <2> QED BY <1>2, <2>1, ConcatProperties
<1>4. Emission(queue') = <<>>
  <2>1. Len(queue') = 0
    BY <1>1, EmptySeq
  <2>2. [i \in 1..Len(queue') |-> Labelled(queue'[i])] = <<>>
    BY <2>1
  <2> QED BY <2>2, EmptySeq DEF Emission, FlattenSeq
<1>5. wire' \o Emission(queue') = x
  BY <1>1, <1>3, <1>4, ConcatEmptySeq
<1>6. Flow(u, a)' = Flow(u, a)
  <2>1. Flow(u, a)' = ValuesIn(wire' \o Emission(queue'), u, a, FALSE)
    BY DEF Flow
  <2> QED BY <1>3, <1>5, <2>1 DEF Flow
<1> QED BY <1>6 DEF KeptFlow

LEMMA NextKept ==
  ASSUME Inv, OrderInv, [Next]_vars, online', NEW u \in Target, NEW a \in Reliable
  PROVE  KeptFlow(u, a)
<1>0. ASSUME wire' = wire, queue' = queue PROVE KeptFlow(u, a)
  BY <1>0 DEF KeptFlow, Flow
<1>1. ASSUME NEW t \in Target, NEW b \in Latest, SendLatest(t, b) PROVE KeptFlow(u, a)
  <2> DEFINE item == [action |-> b, value |-> sent[<<t, b>>] + 1, at |-> FALSE]
  <2>1. \/ wire' = wire /\ queue' = queue
        \/ wire' = wire /\ EnqueueControl(t, item)
    BY <1>1 DEF SendLatest, QueueLatestStateReplay
  <2>2. item \in Item /\ item.action \notin Reliable
    <3>1. sent[<<t, b>>] \in 0..MaxValue /\ sent[<<t, b>>] < MaxValue
      BY <1>1, Types DEF SendLatest, NewValue, Inv, TypeOK
    <3>2. sent[<<t, b>>] + 1 \in 1..MaxValue
      BY <3>1, Types
    <3> QED BY <3>2, Types, QueueAssumption DEF Item, QueueAssumption
  <2> HIDE DEF item
  <2> QED BY <1>0, <2>1, <2>2, OthersKept
<1>2. ASSUME NEW t \in Target, NEW b \in Action, NEW at \in BOOLEAN, SendPlain(t, b, at)
      PROVE  KeptFlow(u, a)
  BY <1>2, PlainKept
<1>3. CASE FlushQueuedControls
  BY <1>3, FlushKept
<1>4. ASSUME NEW r \in timers, ReplayTimer(r) PROVE KeptFlow(u, a)
  <2>1. PICK k \in Key : pending[k] # None /\ r = TimerOf(k, pending[k])
    BY <1>4, TimersPointwise DEF Inv
  <2>2. r.key = k /\ r.item = pending[k].item /\ r.item \in Item /\ k[1] \in Target
    BY <1>4, <2>1, ReplayTimed, Types DEF Inv, TimerOf
  <2>3. r.item.action \notin Reliable
    <3>1. r.item.action \in Throttled
      BY <2>1, <2>2 DEF OrderInv, HeldInv
    <3> QED BY <3>1, QueueAssumption DEF QueueAssumption
  <2>4. \/ wire' = wire /\ queue' = queue
        \/ wire' = wire /\ EnqueueControl(k[1], r.item)
    BY <1>4, <2>2 DEF ReplayTimer
  <2> QED BY <1>0, <2>2, <2>3, <2>4, OthersKept
<1>5. CASE SocketChanges \/ Disconnect \/ CrowdChanges \/ Tick \/ UNCHANGED vars
  <2>1. wire' = wire /\ queue' = queue
    BY <1>5 DEF SocketChanges, Disconnect, CrowdChanges, Tick, vars
  <2> QED BY <1>0, <2>1
<1> QED BY <1>1, <1>2, <1>3, <1>4, <1>5 DEF Next, Timer

\* manager-sdk.spec.ts:462 "does not let latest-state throttling silently drop
\* reliable or scheduled commands": while the socket is up, what was queued for
\* a target and what went out to it are the reliable commands that were sent,
\* in their order, none lost and none twice, whatever else coalesces, is
\* throttled or replayed in between.
THEOREM ReliableControlsKept == Spec => ReliableKept
<1>1. Init => Inv /\ OrderInv
  BY InitInv, InitOrder
<1>2. (Inv /\ OrderInv) /\ [Next]_vars => (Inv /\ OrderInv)'
  BY NextInv, NextOrder
<1>3. (Inv /\ OrderInv) /\ [Next]_vars
        => [online' => \A t \in Target, a \in Reliable :
              Flow(t, a)' \in {Flow(t, a), Append(Flow(t, a), sent'[<<t, a>>])}]_vars
  BY NextKept DEF KeptFlow
<1> QED BY <1>1, <1>2, <1>3, PTL DEF Spec, ReliableKept

-----------------------------------------------------------------------------
(* The contract of a latest-state key *)

LatestKey == Target \X Latest

\* What LatestValue speaks of: the values sent for a latest-state key, and
\* those that went out of it without an executeAt.
Contract ==
  INSTANCE LatestValue WITH
    Key <- LatestKey,
    accepted <- [k \in LatestKey |-> sent[k]],
    log <- [k \in LatestKey |-> ValuesIn(wire, k[1], k[2], FALSE)]

\* A value is that of a control that fits.
LEMMA ValuesFrom ==
  ASSUME NEW s \in Seq(Out), NEW t, NEW a, NEW at
  PROVE  \A i \in 1..Len(ValuesIn(s, t, a, at)) :
           \E p \in 1..Len(s) : Fits(s[p], t, a, at) /\ ValuesIn(s, t, a, at)[i] = s[p].item.value
<1> DEFINE V(x) == ValuesIn(x, t, a, at)
           From(x) == \A i \in 1..Len(V(x)) :
                        \E p \in 1..Len(x) : Fits(x[p], t, a, at) /\ V(x)[i] = x[p].item.value
           K == {x \in Seq(Out) : From(x)}
<1>1. <<>> \in K
  <2>1. V(<<>>) = <<>> /\ Len(<<>>) = 0
    BY ValuesOfEmpty, EmptySeq
  <2>2. \A i \in 1..Len(V(<<>>)) : FALSE
    BY <2>1
  <2> QED BY <2>2, EmptySeq
<1>2. ASSUME NEW x \in K, NEW w \in Out PROVE Append(x, w) \in K
  <2> DEFINE y == Append(x, w)
  <2>1. x \in Seq(Out) /\ From(x)
    OBVIOUS
  <2> HIDE DEF K
  <2>2. /\ y \in Seq(Out) /\ Len(y) = Len(x) + 1 /\ Len(x) \in Nat
        /\ \A p \in 1..Len(x) : p \in 1..Len(y) /\ y[p] = x[p]
        /\ Len(x) + 1 \in 1..Len(y) /\ y[Len(x) + 1] = w
    <3>1. /\ y \in Seq(Out) /\ Len(y) = Len(x) + 1 /\ Len(x) \in Nat
          /\ \A p \in 1..Len(x) : y[p] = x[p]
          /\ y[Len(x) + 1] = w
      BY <2>1, LenProperties, AppendProperties
    <3> HIDE DEF y
    <3> QED BY <3>1
  <2>3. V(y) = IF Fits(w, t, a, at) THEN Append(V(x), w.item.value) ELSE V(x)
    BY <2>1, ValuesOfAppend
  <2>4. V(x) \in Numbers /\ w.item.value \in 1..MaxValue
    BY <2>1, ValuesTyped DEF Out, Item
  <2> HIDE DEF y, V
  <2>5. ASSUME NEW i \in 1..Len(V(y))
        PROVE  \E p \in 1..Len(y) : Fits(y[p], t, a, at) /\ V(y)[i] = y[p].item.value
    <3>1. CASE i \in 1..Len(V(x)) /\ V(y)[i] = V(x)[i]
      <4>1. PICK p \in 1..Len(x) : Fits(x[p], t, a, at) /\ V(x)[i] = x[p].item.value
        BY <2>1, <3>1
      <4> QED BY <2>2, <3>1, <4>1
    <3>2. CASE Fits(w, t, a, at) /\ V(y)[i] = w.item.value
      BY <2>2, <3>2
    <3>3. \/ i \in 1..Len(V(x)) /\ V(y)[i] = V(x)[i]
          \/ Fits(w, t, a, at) /\ V(y)[i] = w.item.value
      <4>1. CASE Fits(w, t, a, at)
        <5>1. PICK c \in Numbers, n \in 1..MaxValue : c = V(x) /\ n = w.item.value
          BY <2>4
        <5>2. /\ Len(Append(c, n)) = Len(c) + 1 /\ Len(c) \in Nat
              /\ \A j \in 1..Len(c) : Append(c, n)[j] = c[j]
              /\ Append(c, n)[Len(c) + 1] = n
          BY AppendProperties, LenProperties DEF Numbers
        <5>3. V(y) = Append(c, n)
          BY <2>3, <4>1, <5>1
        <5>4. i \in 1..Len(c) \/ i = Len(c) + 1
          BY <5>2, <5>3
        <5> QED BY <4>1, <5>1, <5>2, <5>3, <5>4
      <4>2. CASE ~Fits(w, t, a, at)
        BY <2>3, <4>2
      <4> QED BY <4>1, <4>2
    <3> QED BY <3>1, <3>2, <3>3
  <2> QED BY <2>2, <2>5 DEF K, y
<1> HIDE DEF K, From
<1>3. K = Seq(Out)
  BY <1>1, <1>2, AppendInduction DEF K
<1>4. From(s)
  BY <1>3 DEF K
<1> QED BY <1>4 DEF From

\* Controls that fit in order have their values in order.
InPlace(s, n, t, a, at) ==
  /\ \A p, q \in 1..Len(s) :
       p < q /\ Fits(s[p], t, a, at) /\ Fits(s[q], t, a, at) => s[p].item.value < s[q].item.value
  /\ \A p \in 1..Len(s) : Fits(s[p], t, a, at) => s[p].item.value <= n

LEMMA ValuesIncrease ==
  ASSUME NEW s \in Seq(Out), NEW n \in Nat, NEW t, NEW a, NEW at, InPlace(s, n, t, a, at)
  PROVE  Contract!Increasing(ValuesIn(s, t, a, at), n)
<1> DEFINE V(x) == ValuesIn(x, t, a, at)
           Good(x) == InPlace(x, n, t, a, at) => Contract!Increasing(V(x), n)
           K == {x \in Seq(Out) : Good(x)}
<1>1. <<>> \in K
  <2>1. V(<<>>) = <<>> /\ Len(<<>>) = 0
    BY ValuesOfEmpty, EmptySeq
  <2>2. \A i \in 1..Len(V(<<>>)) : FALSE
    BY <2>1
  <2>3. Contract!Increasing(V(<<>>), n)
    BY <2>2 DEF Contract!Increasing
  <2> QED BY <2>3, EmptySeq
<1>2. ASSUME NEW x \in K, NEW w \in Out PROVE Append(x, w) \in K
  <2> DEFINE y == Append(x, w)
  <2>1. x \in Seq(Out) /\ Good(x)
    OBVIOUS
  <2> HIDE DEF K
  <2>2. /\ y \in Seq(Out) /\ Len(y) = Len(x) + 1 /\ Len(x) \in Nat
        /\ \A p \in 1..Len(x) : p \in 1..Len(y) /\ y[p] = x[p] /\ p < Len(x) + 1
        /\ Len(x) + 1 \in 1..Len(y) /\ y[Len(x) + 1] = w
    <3>1. /\ y \in Seq(Out) /\ Len(y) = Len(x) + 1 /\ Len(x) \in Nat
          /\ \A p \in 1..Len(x) : y[p] = x[p]
          /\ y[Len(x) + 1] = w
      BY <2>1, LenProperties, AppendProperties
    <3> HIDE DEF y
    <3> QED BY <3>1
  <2>3. V(y) = IF Fits(w, t, a, at) THEN Append(V(x), w.item.value) ELSE V(x)
    BY <2>1, ValuesOfAppend
  <2>4. V(x) \in Numbers /\ w.item.value \in 1..MaxValue
    BY <2>1, ValuesTyped DEF Out, Item
  <2>5. \A i \in 1..Len(V(x)) : \E p \in 1..Len(x) : Fits(x[p], t, a, at) /\ V(x)[i] = x[p].item.value
    BY <2>1, ValuesFrom
  <2> HIDE DEF y, V
  <2>6. ASSUME InPlace(y, n, t, a, at) PROVE Contract!Increasing(V(y), n)
    <3>1. InPlace(x, n, t, a, at)
      <4>1. \A p, q \in 1..Len(x) :
              p < q /\ Fits(x[p], t, a, at) /\ Fits(x[q], t, a, at)
              => x[p].item.value < x[q].item.value
        BY <2>2, <2>6 DEF InPlace
      <4>2. \A p \in 1..Len(x) : Fits(x[p], t, a, at) => x[p].item.value <= n
        BY <2>2, <2>6 DEF InPlace
      <4> QED BY <4>1, <4>2 DEF InPlace
    <3>2. Contract!Increasing(V(x), n)
      BY <2>1, <3>1
    <3>3. CASE ~Fits(w, t, a, at)
      BY <2>3, <3>2, <3>3
    <3>4. CASE Fits(w, t, a, at)
      <4>1. PICK c \in Numbers, v \in 1..MaxValue : c = V(x) /\ v = w.item.value
        BY <2>4
      <4>2. /\ Len(Append(c, v)) = Len(c) + 1 /\ Len(c) \in Nat
            /\ \A j \in 1..Len(c) : Append(c, v)[j] = c[j]
            /\ Append(c, v)[Len(c) + 1] = v
        BY AppendProperties, LenProperties DEF Numbers
      <4>3. V(y) = Append(c, v)
        BY <2>3, <3>4, <4>1
      <4>4. v \in 1..n
        <5>1. w.item.value <= n
          BY <2>2, <2>6, <3>4 DEF InPlace
        <5> QED BY <4>1, <5>1
      <4>5. \A j \in 1..Len(c) : c[j] < v
        <5> TAKE j \in 1..Len(c)
        <5>1. PICK p \in 1..Len(x) : Fits(x[p], t, a, at) /\ c[j] = x[p].item.value
          BY <2>5, <4>1
        <5>2. y[p].item.value < y[Len(x) + 1].item.value
          BY <2>2, <2>6, <3>4, <5>1 DEF InPlace
        <5> QED BY <2>2, <4>1, <5>1, <5>2
      <4>6. \A i \in 1..Len(c) : c[i] \in 1..n /\ (i > 1 => c[i - 1] < c[i])
        BY <3>2, <4>1 DEF Contract!Increasing
      <4>7. ASSUME NEW i \in 1..(Len(c) + 1)
            PROVE  /\ Append(c, v)[i] \in 1..n
                   /\ i > 1 => Append(c, v)[i - 1] < Append(c, v)[i]
        <5>1. CASE i \in 1..Len(c)
          <6>1. i > 1 => i - 1 \in 1..Len(c)
            BY <4>2, <5>1
          <6> QED BY <4>2, <4>6, <5>1, <6>1
        <5>2. CASE i = Len(c) + 1
          <6>1. i > 1 => i - 1 \in 1..Len(c)
            BY <4>2, <5>2
          <6> QED BY <4>2, <4>4, <4>5, <5>2, <6>1
        <5> QED BY <4>2, <5>1, <5>2
      <4>8. \A i \in 1..Len(V(y)) : V(y)[i] \in 1..n /\ (i > 1 => V(y)[i - 1] < V(y)[i])
        BY <4>2, <4>3, <4>7
      <4> QED BY <4>8 DEF Contract!Increasing
    <3> QED BY <3>3, <3>4
  <2> QED BY <2>2, <2>6 DEF K, y
<1> HIDE DEF K, Good
<1>3. K = Seq(Out)
  BY <1>1, <1>2, AppendInduction DEF K
<1>4. Good(s)
  BY <1>3 DEF K
<1> QED BY <1>4 DEF Good

\* What went out of a latest-state key without an executeAt.
Went(k) == ValuesIn(wire, k[1], k[2], FALSE)

\* In a queue that nothing disturbed, what went out of a latest-state key is in
\* order, and nothing of it was not sent.
LEMMA WireInPlace ==
  ASSUME Inv, OrderInv, ~disturbed, NEW k \in LatestKey
  PROVE  Contract!Increasing(Went(k), sent[k])
<1>1. /\ wire \in Seq(Out) /\ k \in Key /\ k[1] \in Target /\ k[2] \in Latest
      /\ k = <<k[1], k[2]>> /\ sent[k] \in Nat
  <2>1. k \in Key /\ k[1] \in Target /\ k[2] \in Latest /\ k = <<k[1], k[2]>>
    BY Types DEF LatestKey, Key
  <2>2. sent[k] \in 0..MaxValue /\ wire \in Seq(Out)
    BY <2>1 DEF Inv, TypeOK
  <2> QED BY <2>1, <2>2, Types
<1>2. \A p \in 1..Len(wire) : wire[p] \in Out /\ wire[p] \in Shown(wire)
  BY <1>1, ElementOfSeq DEF Shown
<1> DEFINE fits(w) == Fits(w, k[1], k[2], FALSE)
<1>3. ASSUME NEW p \in 1..Len(wire), NEW q \in 1..Len(wire), p < q,
             fits(wire[p]), fits(wire[q])
      PROVE  wire[p].item.value < wire[q].item.value
  <2>1. SameLatest(wire[p], wire[q])
    BY <1>1, <1>3 DEF Fits, SameLatest
  <2> QED BY <1>3, <2>1 DEF OrderInv, WireInv
<1>4. ASSUME NEW p \in 1..Len(wire), fits(wire[p])
      PROVE  wire[p].item.value <= sent[k]
  <2>1. IsLatest(wire[p]) /\ KeyOf(wire[p]) = k
    BY <1>1, <1>4 DEF Fits, IsLatest, KeyOf
  <2> QED BY <1>2, <2>1 DEF OrderInv, SentInv
<1>5. InPlace(wire, sent[k], k[1], k[2], FALSE)
  BY <1>3, <1>4 DEF InPlace
<1> QED BY <1>1, <1>5, ValuesIncrease DEF Went

\* Nothing that went out is taken back.
LEMMA WireStays ==
  ASSUME Inv, [Next]_vars, NEW t, NEW a, NEW at
  PROVE  /\ Len(ValuesIn(wire, t, a, at)) <= Len(ValuesIn(wire', t, a, at))
         /\ \A i \in 1..Len(ValuesIn(wire, t, a, at)) :
              ValuesIn(wire', t, a, at)[i] = ValuesIn(wire, t, a, at)[i]
<1> DEFINE V(x) == ValuesIn(x, t, a, at)
<1>0. wire \in Seq(Out) /\ queue \in Seq(Queued) /\ V(wire) \in Numbers /\ Len(V(wire)) \in Nat
  <2>1. wire \in Seq(Out) /\ queue \in Seq(Queued)
    BY DEF Inv, TypeOK
  <2>2. V(wire) \in Numbers
    BY <2>1, ValuesTyped
  <2> QED BY <2>1, <2>2, LenProperties DEF Numbers
<1>1. wire' = wire \/ Joins(wire', wire, Emission(queue))
  BY DEF Next, vars, SendLatest, SendPlain, FlushQueuedControls, Timer, ReplayTimer,
         SocketChanges, Disconnect, CrowdChanges, Tick, Joins
<1>2. CASE wire' = wire
  BY <1>0, <1>2
<1>3. CASE Joins(wire', wire, Emission(queue))
  <2>1. PICK o \in Seq(Out) : o = Emission(queue)
    BY <1>0, EmissionTyped
  <2>2. Joins(V(wire'), V(wire), V(o))
    BY <1>0, <1>3, <2>1, ValuesJoin, Zenon
  <2>3. V(o) \in Numbers
    BY ValuesTyped
  <2>4. PICK c \in Numbers, d \in Numbers : c = V(wire) /\ d = V(o)
    BY <1>0, <2>3
  <2>5. /\ Len(c \o d) = Len(c) + Len(d) /\ Len(c) \in Nat /\ Len(d) \in Nat
        /\ \A i \in 1..(Len(c) + Len(d)) : (c \o d)[i] = IF i <= Len(c) THEN c[i] ELSE d[i - Len(c)]
    BY ConcatProperties, LenProperties DEF Numbers
  <2>6. V(wire') = c \o d
    BY <2>2, <2>4 DEF Joins
  <2>7. Len(c) <= Len(c \o d) /\ \A i \in 1..Len(c) : (c \o d)[i] = c[i]
    BY <2>5
  <2> HIDE DEF V
  <2>8. Len(V(wire)) <= Len(V(wire')) /\ \A i \in 1..Len(V(wire)) : V(wire')[i] = V(wire)[i]
    BY <2>4, <2>6, <2>7
  <2> QED BY <2>8 DEF V
<1> QED BY <1>1, <1>2, <1>3

\* A step sends at most one more value of a key.
LEMMA SentGrows ==
  ASSUME Inv, [Next]_vars, NEW k \in Key
  PROVE  sent'[k] \in {sent[k], sent[k] + 1}
<1>1. \/ sent' = sent
      \/ \E l \in Key : sent' = [sent EXCEPT ![l] = @ + 1]
  <2>1. ASSUME NEW t \in Target, NEW a \in Latest, SendLatest(t, a)
        PROVE  \E l \in Key : sent' = [sent EXCEPT ![l] = @ + 1]
    BY <2>1, Types DEF SendLatest, NewValue
  <2>2. ASSUME NEW t \in Target, NEW a \in Action, NEW at \in BOOLEAN, SendPlain(t, a, at)
        PROVE  \E l \in Key : sent' = [sent EXCEPT ![l] = @ + 1]
    BY <2>2, Types DEF SendPlain, NewValue
  <2>3. CASE FlushQueuedControls \/ SocketChanges \/ Disconnect \/ CrowdChanges \/ Tick
             \/ UNCHANGED vars \/ \E r \in timers : ReplayTimer(r)
    BY <2>3 DEF FlushQueuedControls, SocketChanges, Disconnect, CrowdChanges, Tick, vars, ReplayTimer
  <2> QED BY <2>1, <2>2, <2>3 DEF Next, Timer
<1>2. sent \in [Key -> 0..MaxValue]
  BY DEF Inv, TypeOK
<1> QED BY <1>1, <1>2

\* What WireInPlace says of every key.
ContractInv == \A k \in LatestKey : Contract!Increasing(Went(k), sent[k])

LEMMA StepKeepsContract ==
  ASSUME Inv, ContractInv', [Next]_vars
  PROVE  Contract!Next
<1>1. ASSUME NEW k \in LatestKey
      PROVE  /\ sent'[k] \in {sent[k], sent[k] + 1}
             /\ Len(Went(k)) <= Len(Went(k)')
             /\ \A i \in 1..Len(Went(k)) : Went(k)'[i] = Went(k)[i]
             /\ Contract!Increasing(Went(k)', sent'[k])
  <2>1. k \in Key
    BY Types DEF LatestKey, Key
  <2>2. sent'[k] \in {sent[k], sent[k] + 1}
    BY <2>1, SentGrows
  <2>3. PICK at : at = FALSE
    OBVIOUS
  <2>4. Went(k) = ValuesIn(wire, k[1], k[2], at) /\ Went(k)' = ValuesIn(wire', k[1], k[2], at)
    BY <2>3 DEF Went
  <2>5. /\ Len(Went(k)) <= Len(Went(k)')
        /\ \A i \in 1..Len(Went(k)) : Went(k)'[i] = Went(k)[i]
    BY <2>4, WireStays
  <2>6. Contract!Increasing(Went(k)', sent'[k])
    BY DEF ContractInv, Contract!Increasing
  <2> QED BY <2>2, <2>5, <2>6
<1> QED BY <1>1 DEF Contract!Next, Contract!Increasing, Went

LEMMA InitContract == Init => Contract!Init
<1> SUFFICES ASSUME Init PROVE Contract!Init
  OBVIOUS
<1>1. wire = <<>> /\ \A k \in LatestKey : sent[k] = 0
  BY Types DEF Init, LatestKey, Key
<1>2. \A k \in LatestKey : ValuesIn(wire, k[1], k[2], FALSE) = <<>>
  BY <1>1, ValuesOfEmpty
<1> QED BY <1>1, <1>2 DEF Contract!Init

\* A queue that nothing disturbs (no late timer meets a send, the crowd does not
\* fall while a value is held) keeps the contract of a latest-state key, the one
\* that the router keeps: it implements LatestValue.
THEOREM QueueRefinesLatestValue == Spec /\ []~disturbed => Contract!Spec
<1>1. Init => Inv /\ OrderInv
  BY InitInv, InitOrder
<1>2. (Inv /\ OrderInv) /\ [Next]_vars => (Inv /\ OrderInv)'
  BY NextInv, NextOrder
<1>3. Inv /\ OrderInv /\ ~disturbed => ContractInv
  BY WireInPlace DEF ContractInv
<1>4. Inv /\ ContractInv' /\ [Next]_vars => [Contract!Next]_(Contract!vars)
  BY StepKeepsContract
<1> QED BY <1>1, <1>2, <1>3, <1>4, InitContract, PTL DEF Spec, Contract!Spec

-----------------------------------------------------------------------------
(* Scheduled controls *)

\* A queued scheduled control of a reliable action is not altered by what is
\* sent after it.  Of a latest-state action it may be: see ScheduledKept.
ReliableScheduled ==
  \A i \in 1..Len(queue) : queue' # <<>> =>
    \A j \in 1..Len(queue[i].items) :
      queue[i].items[j].at /\ queue[i].items[j].action \in Reliable
      => queue'[i].items[j] = queue[i].items[j]

\* Adding an item alters none of a reliable action.
LEMMA AddItemKeeps ==
  ASSUME NEW items \in Seq(Item), NEW item \in Item,
         NEW j \in 1..Len(items), items[j].action \in Reliable
  PROVE  AddItem(items, item)[j] = items[j]
<1>1. CASE Coalesces(item) /\ \E l \in 1..Len(items) : items[l].action = item.action
  <2> DEFINE i == CHOOSE l \in 1..Len(items) :
                    /\ items[l].action = item.action
                    /\ \A m \in 1..(l - 1) : items[m].action # item.action
  <2>1. i \in 1..Len(items) /\ items[i].action = item.action
    BY <1>1, MergePlace
  <2>2. AddItem(items, item) = [items EXCEPT ![i].value = item.value]
    BY <1>1 DEF AddItem, Merge
  <2> HIDE DEF i
  <2>3. item.action \notin Reliable
    BY <1>1, QueueAssumption DEF QueueAssumption, Coalesces
  <2>4. i # j
    BY <2>1, <2>3
  <2> QED BY <2>2, <2>4, LenProperties
<1>2. CASE ~(Coalesces(item) /\ \E l \in 1..Len(items) : items[l].action = item.action)
  BY <1>2, AppendProperties DEF AddItem
<1> QED BY <1>1, <1>2

LEMMA EnqueueKeepsScheduled ==
  ASSUME Inv, NEW t \in Target, NEW item \in Item, EnqueueControl(t, item)
  PROVE  ReliableScheduled
<1>1. /\ queue \in Seq(Queued) /\ Len(queue) \in Nat
      /\ \A i \in 1..Len(queue) : queue[i] \in Queued /\ queue[i].items \in Seq(Item)
  <2>1. queue \in Seq(Queued) /\ Len(queue) \in Nat
    BY LenProperties DEF Inv, TypeOK
  <2>2. \A i \in 1..Len(queue) : queue[i] \in Queued
    BY <2>1, ElementOfSeq
  <2> QED BY <2>1, <2>2 DEF Queued
<1>2. ASSUME NEW i \in 1..Len(queue), NEW j \in 1..Len(queue[i].items),
             queue[i].items[j].action \in Reliable
      PROVE  queue'[i].items[j] = queue[i].items[j]
  <2>1. CASE \E l \in 1..Len(queue) : queue[l].target = t
    <3>1. queue'[i] = IF queue[i].target = t
                      THEN [target |-> t, items |-> AddItem(queue[i].items, item)]
                      ELSE queue[i]
      BY <2>1 DEF EnqueueControl
    <3>2. AddItem(queue[i].items, item)[j] = queue[i].items[j]
      <4>1. PICK items \in Seq(Item) : items = queue[i].items
        BY <1>1
      <4> QED BY <1>2, <4>1, AddItemKeeps
    <3> QED BY <3>1, <3>2
  <2>2. CASE ~\E l \in 1..Len(queue) : queue[l].target = t
    <3> DEFINE entry == [target |-> t, items |-> <<item>>]
    <3>1. entry \in Queued
      BY DEF Queued
    <3>2. queue' = Append(queue, entry)
      BY <2>2 DEF EnqueueControl
    <3>3. queue'[i] = queue[i]
      BY <1>1, <3>1, <3>2, AppendProperties
    <3> QED BY <3>3
  <2> QED BY <2>1, <2>2
<1> QED BY <1>2 DEF ReliableScheduled

LEMMA NextKeepsScheduled ==
  ASSUME Inv, [Next]_vars
  PROVE  ReliableScheduled \/ UNCHANGED vars
<1>0. ASSUME queue' = queue \/ queue' = <<>> PROVE ReliableScheduled
  BY <1>0 DEF ReliableScheduled
<1>1. ASSUME NEW t \in Target, NEW a \in Latest, SendLatest(t, a) PROVE ReliableScheduled
  <2> DEFINE item == [action |-> a, value |-> sent[<<t, a>>] + 1, at |-> FALSE]
  <2>1. queue' = queue \/ EnqueueControl(t, item)
    BY <1>1 DEF SendLatest, QueueLatestStateReplay
  <2>2. item \in Item
    <3>1. sent[<<t, a>>] \in 0..MaxValue /\ sent[<<t, a>>] < MaxValue
      BY <1>1, Types DEF SendLatest, NewValue, Inv, TypeOK
    <3>2. sent[<<t, a>>] + 1 \in 1..MaxValue
      BY <3>1, Types
    <3> QED BY <3>2, Types DEF Item
  <2> HIDE DEF item
  <2> QED BY <1>0, <2>1, <2>2, EnqueueKeepsScheduled
<1>2. ASSUME NEW t \in Target, NEW a \in Action, NEW at \in BOOLEAN, SendPlain(t, a, at)
      PROVE  ReliableScheduled
  <2> DEFINE item == [action |-> a, value |-> sent[<<t, a>>] + 1, at |-> at]
  <2>1. EnqueueControl(t, item)
    BY <1>2 DEF SendPlain
  <2>2. item \in Item
    <3>1. sent[<<t, a>>] \in 0..MaxValue /\ sent[<<t, a>>] < MaxValue
      BY <1>2, Types DEF SendPlain, NewValue, Inv, TypeOK
    <3>2. sent[<<t, a>>] + 1 \in 1..MaxValue
      BY <3>1, Types
    <3> QED BY <3>2 DEF Item
  <2> HIDE DEF item
  <2> QED BY <2>1, <2>2, EnqueueKeepsScheduled
<1>3. CASE FlushQueuedControls \/ SocketChanges \/ Disconnect \/ CrowdChanges \/ Tick
  BY <1>0, <1>3 DEF FlushQueuedControls, ClearQueue, SocketChanges, Disconnect, CrowdChanges, Tick
<1>4. ASSUME NEW r \in timers, ReplayTimer(r) PROVE ReliableScheduled
  <2>1. r.key \in Key /\ r.item \in Item /\ r.key[1] \in Target
    BY <1>4, ReplayTimed, Types DEF Inv
  <2>2. queue' = queue \/ EnqueueControl(r.key[1], r.item)
    BY <1>4 DEF ReplayTimer
  <2> QED BY <1>0, <2>1, <2>2, EnqueueKeepsScheduled
<1> QED BY <1>1, <1>2, <1>3, <1>4 DEF Next, Timer

\* manager-sdk.spec.ts:462 "does not let latest-state throttling silently drop
\* reliable or scheduled commands", as far as the code keeps it: a scheduled
\* command of a reliable action waits in the queue as it was sent.
THEOREM ScheduledCommandsKept == Spec => [][ReliableScheduled]_vars
<1>1. Inv /\ [Next]_vars => [ReliableScheduled]_vars
  BY NextKeepsScheduled
<1> QED BY <1>1, Invariance, PTL DEF Spec
=============================================================================
