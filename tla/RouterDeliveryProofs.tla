------------------------ MODULE RouterDeliveryProofs ------------------------
(***************************************************************************)
(* Proofs about RouterDelivery for every set of targets and actions, every *)
(* interval, threshold and audience: nothing held is forgotten, nothing is *)
(* emitted twice, and a steady server implements LatestValue.              *)
(***************************************************************************)
EXTENDS RouterDelivery, SequenceTheorems, TLAPS

-----------------------------------------------------------------------------
(* The inductive invariant *)

Entry == [value : Nat, wait : 0..Interval]

TypeOK ==
  /\ steady \in BOOLEAN
  /\ audience \in [Target -> Audiences]
  /\ age \in [Key -> 0..Interval]
  /\ pending \in [Key -> Entry \cup {None}]
  /\ timers \in SUBSET [key : Key, wait : 0..Interval]
  /\ routed \in [Key -> Nat]
  /\ log \in [Key -> Seq(Nat)]

\* A stream shows values from 1 to n, each at most once.
Selection(s, n) ==
  /\ \A i \in 1..Len(s) : s[i] \in 1..n
  /\ \A i, j \in 1..Len(s) : s[i] = s[j] => i = j

\* A value that has been given out and is not in the stream.
Unseen(v, s, n) == v \in 1..n /\ v \notin Values(s)

KeyInv(k) ==
  /\ Selection(log[k], routed[k])
  /\ pending[k] # None => Unseen(pending[k].value, log[k], routed[k])

Increasing(s) == \A i \in 2..Len(s) : s[i - 1] < s[i]

Above(v, s) == \A i \in 1..Len(s) : s[i] < v

\* On a steady server what is held falls due the moment the interval since
\* the last broadcast is over, and it is newer than all that was shown.
SteadyKey(k) ==
  /\ Increasing(log[k])
  /\ pending[k] # None => /\ pending[k].wait = Interval - age[k]
                          /\ Above(pending[k].value, log[k])

SteadyInv ==
  steady => /\ \A t \in Target : Steady(audience[t])
            /\ \A k \in Key : SteadyKey(k)

Inv == TypeOK /\ NoDeadPending /\ (\A k \in Key : KeyInv(k)) /\ SteadyInv

-----------------------------------------------------------------------------
(* Streams that grow by one value *)

LEMMA NoneIsNoEntry == None \notin Entry
BY DeliveryAssumption DEF DeliveryAssumption, Entry

LEMMA GrownStream ==
  ASSUME NEW s \in Seq(Nat), NEW v \in Nat
  PROVE  /\ s \o <<v>> \in Seq(Nat)
         /\ Len(s \o <<v>>) = Len(s) + 1
         /\ \A i \in 1..Len(s) : (s \o <<v>>)[i] = s[i]
         /\ (s \o <<v>>)[Len(s) + 1] = v
<1>1. <<v>> \in Seq(Nat) /\ Len(<<v>>) = 1 /\ <<v>>[1] = v
  OBVIOUS
<1> QED BY <1>1, ConcatProperties, LenProperties

\* A value not yet in the stream may follow it.
LEMMA UnseenFollows ==
  ASSUME NEW s \in Seq(Nat), NEW n \in Nat, NEW v, Selection(s, n), Unseen(v, s, n)
  PROVE  Selection(s \o <<v>>, n)
<1>1. v \in Nat /\ v \in 1..n /\ Len(s) \in Nat
  BY LenProperties DEF Unseen
<1>2. \A i \in 1..Len(s) : s[i] # v
  BY DEF Unseen, Values
<1>3. PICK t : t = s \o <<v>>
  OBVIOUS
<1>4. Len(t) = Len(s) + 1 /\ (\A i \in 1..Len(s) : t[i] = s[i]) /\ t[Len(s) + 1] = v
  BY <1>1, <1>3, GrownStream
<1>5. \A i \in 1..Len(t) : i \in 1..Len(s) \/ i = Len(s) + 1
  BY <1>1, <1>4
<1>6. \A i \in 1..Len(s) : s[i] \in 1..n
  BY DEF Selection
<1>7. \A i \in 1..Len(t) : t[i] \in 1..n
  BY <1>1, <1>4, <1>5, <1>6
<1>8. \A i, j \in 1..Len(t) : t[i] = t[j] => i = j
  <2>1. \A i, j \in 1..Len(s) : s[i] = s[j] => i = j
    BY DEF Selection
  <2>2. ASSUME NEW i \in 1..Len(t), NEW j \in 1..Len(t), t[i] = t[j] PROVE i = j
    <3>1. CASE i \in 1..Len(s) /\ j \in 1..Len(s)
      BY <1>4, <2>1, <2>2, <3>1
    <3>2. CASE i \in 1..Len(s) /\ j = Len(s) + 1
      BY <1>2, <1>4, <2>2, <3>2
    <3>3. CASE i = Len(s) + 1 /\ j \in 1..Len(s)
      BY <1>2, <1>4, <2>2, <3>3
    <3> QED BY <1>5, <3>1, <3>2, <3>3
  <2> QED BY <2>2
<1>9. Selection(t, n)
  BY <1>7, <1>8 DEF Selection
<1> QED BY <1>3, <1>9

\* The value given out next is in no stream.
LEMMA NextIsUnseen ==
  ASSUME NEW s \in Seq(Nat), NEW n \in Nat, Selection(s, n)
  PROVE  Selection(s, n + 1) /\ Unseen(n + 1, s, n + 1)
BY DEF Selection, Unseen, Values

\* It does not make a held one seen.
LEMMA StaysUnseen ==
  ASSUME NEW s \in Seq(Nat), NEW n \in Nat, NEW v, Unseen(v, s, n)
  PROVE  Unseen(v, s \o <<n + 1>>, n + 1)
<1>1. v \in 1..n /\ \A i \in 1..Len(s) : s[i] # v
  BY DEF Unseen, Values
<1>2. Len(s) \in Nat
  BY LenProperties
<1>3. PICK t : t = s \o <<n + 1>>
  OBVIOUS
<1>4. Len(t) = Len(s) + 1 /\ (\A i \in 1..Len(s) : t[i] = s[i]) /\ t[Len(s) + 1] = n + 1
  BY <1>3, GrownStream
<1>5. \A i \in 1..Len(t) : t[i] # v
  <2>1. \A i \in 1..Len(t) : i \in 1..Len(s) \/ i = Len(s) + 1
    BY <1>2, <1>4
  <2>2. \A i \in 1..Len(s) : t[i] # v
    BY <1>1, <1>4
  <2>3. n + 1 # v
    BY <1>1
  <2> QED BY <1>4, <2>1, <2>2, <2>3
<1> QED BY <1>1, <1>3, <1>5 DEF Unseen, Values

\* Above what was shown, order is kept.
LEMMA AboveFollows ==
  ASSUME NEW s \in Seq(Nat), NEW v \in Nat, Increasing(s), Above(v, s)
  PROVE  Increasing(s \o <<v>>)
<1>1. Len(s) \in Nat
  BY LenProperties
<1>2. PICK t : t = s \o <<v>>
  OBVIOUS
<1>3. Len(t) = Len(s) + 1 /\ (\A i \in 1..Len(s) : t[i] = s[i]) /\ t[Len(s) + 1] = v
  BY <1>2, GrownStream
<1>4. ASSUME NEW i \in 2..Len(t) PROVE t[i - 1] < t[i]
  <2>1. i - 1 \in 1..Len(s) /\ i \in Nat
    BY <1>1, <1>3, <1>4
  <2>2. CASE i \in 2..Len(s)
    <3>1. i \in 1..Len(s)
      BY <1>1, <2>2
    <3>2. t[i] = s[i] /\ t[i - 1] = s[i - 1]
      BY <1>3, <2>1, <3>1
    <3>3. s[i - 1] < s[i]
      BY <2>2 DEF Increasing
    <3> QED BY <3>2, <3>3
  <2>3. CASE i = Len(s) + 1
    <3>1. t[i] = v /\ t[i - 1] = s[i - 1]
      BY <1>3, <2>1, <2>3
    <3> QED BY <2>1, <3>1 DEF Above
  <2> QED BY <1>1, <1>3, <1>4, <2>2, <2>3
<1>5. Increasing(t)
  BY <1>4 DEF Increasing
<1> QED BY <1>2, <1>5

-----------------------------------------------------------------------------
(* Emitting *)

\* What emitting does to the stream of one key.
LEMMA EmittedStream ==
  ASSUME TypeOK, NEW k \in Key, KeyInv(k),
         NEW sent \in SUBSET Key, NEW flush \in SUBSET Key, NEW stamped,
         k \in flush => pending[k] # None,
         routed'[k] = IF k \in sent THEN routed[k] + 1 ELSE routed[k],
         Emit(sent, flush, stamped)
  PROVE  log'[k] \in Seq(Nat) /\ KeyInv(k)'
<1> DEFINE new    == IF k \in sent THEN <<routed'[k]>> ELSE <<>>
           heard  == k \in flush /\ audience[k[1]] > 0
           middle == log[k] \o new
<1>1. log'[k] = middle \o (IF heard THEN <<pending[k].value>> ELSE <<>>)
  BY DEF Emit
<1>2. pending'[k] = IF k \in flush THEN None ELSE pending[k]
  BY DEF Emit, DropPending
<1>3. log[k] \in Seq(Nat) /\ routed[k] \in Nat /\ routed'[k] \in Nat
  BY DEF TypeOK
<1>4. /\ middle \in Seq(Nat)
      /\ Selection(middle, routed'[k])
      /\ pending[k] # None => Unseen(pending[k].value, middle, routed'[k])
  <2>1. CASE k \in sent
    <3>1. middle = log[k] \o <<routed[k] + 1>> /\ routed'[k] = routed[k] + 1
      BY <2>1
    <3>2. Selection(middle, routed'[k])
      BY <1>3, <3>1, NextIsUnseen, UnseenFollows DEF KeyInv
    <3> QED BY <1>3, <3>1, <3>2, GrownStream, StaysUnseen DEF KeyInv
  <2>2. CASE k \notin sent
    BY <1>3, <2>2, ConcatEmptySeq DEF KeyInv
  <2> QED BY <2>1, <2>2
<1> HIDE DEF middle
<1>5. CASE heard
  <2>1. Unseen(pending[k].value, middle, routed'[k]) /\ pending[k].value \in Nat
    BY <1>3, <1>4, <1>5 DEF Unseen
  <2>2. log'[k] \in Seq(Nat) /\ Selection(log'[k], routed'[k])
    BY <1>1, <1>3, <1>4, <1>5, <2>1, UnseenFollows, GrownStream
  <2> QED BY <1>2, <1>5, <2>2 DEF KeyInv
<1>6. CASE ~heard
  <2>1. log'[k] = middle
    BY <1>1, <1>4, <1>6, ConcatEmptySeq
  <2> QED BY <1>2, <1>4, <2>1 DEF KeyInv
<1> QED BY <1>5, <1>6

\* Emitting keeps the types, and takes the timer of every entry it takes.
LEMMA EmitTyped ==
  ASSUME Inv, NEW sent \in SUBSET Key, NEW flush \in SUBSET Key, NEW stamped,
         \A k \in flush : pending[k] # None,
         routed' \in [Key -> Nat],
         \A k \in Key : routed'[k] = IF k \in sent THEN routed[k] + 1 ELSE routed[k],
         Emit(sent, flush, stamped), UNCHANGED <<steady>>,
         audience' \in [Target -> Audiences]
  PROVE  TypeOK' /\ NoDeadPending' /\ \A k \in Key : KeyInv(k)'
<1>1. \A k \in Key : log'[k] \in Seq(Nat) /\ KeyInv(k)'
  BY EmittedStream DEF Inv
<1>2. log' \in [Key -> Seq(Nat)]
  <2>1. log' = [k \in Key |-> log'[k]]
    BY DEF Emit
  <2> QED BY <1>1, <2>1
<1>3. age' \in [Key -> 0..Interval]
  BY DeliveryAssumption DEF Emit, Stamp, Inv, TypeOK, DeliveryAssumption
<1>4. /\ pending' = [k \in Key |-> IF k \in flush THEN None ELSE pending[k]]
      /\ timers' = {r \in timers : r.key \notin flush}
  BY DEF Emit, DropPending, ClearTimers
<1>5. pending' \in [Key -> Entry \cup {None}] /\ timers' \subseteq timers
  BY <1>4 DEF Inv, TypeOK
<1>6. TypeOK'
  BY <1>2, <1>3, <1>5 DEF Inv, TypeOK
<1>7. NoDeadPending'
  <2>1. ASSUME NEW k \in Key, pending'[k] # None
        PROVE  [key |-> k, wait |-> pending'[k].wait] \in timers'
    BY <1>4, <2>1 DEF Inv, NoDeadPending
  <2>2. ASSUME NEW r \in timers'
        PROVE  pending'[r.key] # None /\ pending'[r.key].wait = r.wait
    BY <1>4, <2>2 DEF Inv, NoDeadPending, TypeOK
  <2> QED BY <2>1, <2>2 DEF NoDeadPending
<1> QED BY <1>1, <1>6, <1>7

-----------------------------------------------------------------------------
(* Safety of every step *)

\* Holding keeps the types, gives the entry its timer, and the value is new.
LEMMA HoldSafe ==
  ASSUME Inv, NEW k \in Key, NewValues({k}), age[k] < Interval,
         QueueLatestStateReplay(k), UNCHANGED <<steady, audience>>
  PROVE  TypeOK' /\ NoDeadPending' /\ \A l \in Key : KeyInv(l)'
<1> DEFINE wait == Interval - age[k]
           entry == [value |-> routed'[k], wait |-> wait]
<1>1. wait \in 0..Interval /\ routed'[k] = routed[k] + 1 /\ routed[k] \in Nat
  BY DeliveryAssumption DEF Inv, TypeOK, NewValues, DeliveryAssumption
<1>2. entry \in Entry
  BY <1>1 DEF Entry
<1>3. /\ pending' = [pending EXCEPT ![k] = entry]
      /\ timers' = {r \in timers : r.key # k} \cup {[key |-> k, wait |-> wait]}
      /\ UNCHANGED <<age, log>>
  BY DEF QueueLatestStateReplay, Hold, Rearm
<1>4. TypeOK'
  <2>1. pending' \in [Key -> Entry \cup {None}]
    BY <1>2, <1>3 DEF Inv, TypeOK
  <2>2. timers' \in SUBSET [key : Key, wait : 0..Interval]
    BY <1>1, <1>3 DEF Inv, TypeOK
  <2>3. routed' \in [Key -> Nat]
    BY DEF NewValues, Inv, TypeOK
  <2> QED BY <1>3, <2>1, <2>2, <2>3 DEF Inv, TypeOK
<1>5. NoDeadPending'
  <2>1. pending'[k] = entry /\ entry # None /\ entry.wait = wait
    BY <1>2, <1>3, NoneIsNoEntry DEF Inv, TypeOK
  <2>2. \A l \in Key : l # k => pending'[l] = pending[l]
    BY <1>3 DEF Inv, TypeOK
  <2>3. ASSUME NEW l \in Key, pending'[l] # None
        PROVE  [key |-> l, wait |-> pending'[l].wait] \in timers'
    BY <1>3, <2>1, <2>2, <2>3 DEF Inv, NoDeadPending
  <2>4. ASSUME NEW r \in timers'
        PROVE  pending'[r.key] # None /\ pending'[r.key].wait = r.wait
    <3>1. CASE r = [key |-> k, wait |-> wait]
      BY <2>1, <3>1
    <3>2. CASE r \in timers /\ r.key # k
      BY <2>2, <3>2 DEF Inv, NoDeadPending, TypeOK
    <3> QED BY <1>3, <3>1, <3>2
  <2> QED BY <2>3, <2>4 DEF NoDeadPending
<1>6. ASSUME NEW l \in Key PROVE KeyInv(l)'
  <2>1. log[l] \in Seq(Nat) /\ routed[l] \in Nat /\ KeyInv(l) /\ log'[l] = log[l]
    BY <1>3 DEF Inv, TypeOK
  <2>2. CASE l = k
    <3>1. routed'[l] = routed[l] + 1 /\ pending'[l].value = routed[l] + 1
      BY <1>1, <1>3, <2>2 DEF Inv, TypeOK
    <3> QED BY <2>1, <3>1, NextIsUnseen DEF KeyInv
  <2>3. CASE l # k
    <3>1. routed'[l] = routed[l] /\ pending'[l] = pending[l]
      BY <1>3, <2>3 DEF NewValues, Inv, TypeOK
    <3> QED BY <2>1, <3>1 DEF KeyInv
  <2> QED BY <2>2, <2>3
<1> QED BY <1>4, <1>5, <1>6

LEMMA TickSafe ==
  ASSUME Inv, Tick
  PROVE  TypeOK' /\ NoDeadPending' /\ \A k \in Key : KeyInv(k)'
<1>1. \A n \in 0..Interval : Less(n) \in 0..Interval
  BY DeliveryAssumption DEF Less, DeliveryAssumption
<1>2. ASSUME NEW k \in Key
      PROVE  /\ pending'[k] \in Entry \cup {None}
             /\ pending[k] = None <=> pending'[k] = None
             /\ pending[k] # None => /\ pending[k] \in Entry
                                     /\ pending'[k].value = pending[k].value
                                     /\ pending'[k].wait = Less(pending[k].wait)
  <2>1. CASE pending[k] = None
    BY <2>1 DEF Tick
  <2>2. CASE pending[k] # None
    <3>1. pending[k] \in Entry /\ pending'[k] = [pending[k] EXCEPT !.wait = Less(@)]
      BY <2>2 DEF Inv, TypeOK, Tick
    <3>2. /\ pending'[k] \in Entry
          /\ pending'[k].value = pending[k].value
          /\ pending'[k].wait = Less(pending[k].wait)
      BY <1>1, <3>1 DEF Entry
    <3> QED BY <2>2, <3>1, <3>2, NoneIsNoEntry
  <2> QED BY <2>1, <2>2
<1>3. ASSUME NEW r \in timers
      PROVE  /\ [r EXCEPT !.wait = Less(@)] \in [key : Key, wait : 0..Interval]
             /\ [r EXCEPT !.wait = Less(@)].key = r.key
             /\ [r EXCEPT !.wait = Less(@)].wait = Less(r.wait)
             /\ r.key \in Key
  BY <1>1 DEF Inv, TypeOK
<1>4. timers' = {[r EXCEPT !.wait = Less(@)] : r \in timers}
  BY DEF Tick
<1>5. TypeOK'
  <2>1. pending' \in [Key -> Entry \cup {None}]
    BY <1>2 DEF Tick
  <2>2. timers' \in SUBSET [key : Key, wait : 0..Interval]
    BY <1>3, <1>4
  <2>3. age' \in [Key -> 0..Interval]
    BY DeliveryAssumption DEF Tick, Inv, TypeOK, DeliveryAssumption
  <2> QED BY <2>1, <2>2, <2>3 DEF Inv, TypeOK, Tick
<1>6. ASSUME NEW k \in Key, pending'[k] # None
      PROVE  [key |-> k, wait |-> pending'[k].wait] \in timers'
  <2>1. PICK r \in timers : r = [key |-> k, wait |-> pending[k].wait]
    BY <1>2, <1>6 DEF Inv, NoDeadPending
  <2>2. [r EXCEPT !.wait = Less(@)] = [key |-> k, wait |-> pending'[k].wait]
    BY <1>2, <1>6, <2>1
  <2> QED BY <1>4, <2>2
<1>7. ASSUME NEW r \in timers'
      PROVE  pending'[r.key] # None /\ pending'[r.key].wait = r.wait
  <2>1. PICK q \in timers : r = [q EXCEPT !.wait = Less(@)]
    BY <1>4
  <2>2. r.key = q.key /\ r.wait = Less(q.wait) /\ q.key \in Key
    BY <1>3, <2>1
  <2>3. pending[q.key] # None /\ pending[q.key].wait = q.wait
    BY DEF Inv, NoDeadPending
  <2> QED BY <1>2, <2>2, <2>3
<1>8. \A k \in Key : KeyInv(k)'
  BY <1>2 DEF Inv, KeyInv, Tick
<1> QED BY <1>5, <1>6, <1>7, <1>8 DEF NoDeadPending

-----------------------------------------------------------------------------
(* The steady server *)

\* On a steady server a control that is sent at once finds nothing of its key
\* held, and nothing is due: what is held falls due with the interval, and
\* LoopFree says that its timer has run.
LEMMA SentAtOnce ==
  ASSUME Inv, steady, LoopFree, NEW k \in Key, audience[k[1]] > 0,
         ~(Large(k[1]) /\ age[k] < Interval)
  PROVE  DueKeys = {} /\ pending[k] = None
<1>1. ASSUME NEW l \in Key, pending[l] # None PROVE pending[l].wait > 0
  BY <1>1 DEF Inv, NoDeadPending, LoopFree
<1>2. k[1] \in Target /\ audience[k[1]] \in Nat /\ age[k] \in 0..Interval
  BY DeliveryAssumption DEF Key, Inv, TypeOK, DeliveryAssumption
<1>3. Large(k[1])
  BY <1>2, DeliveryAssumption DEF Inv, SteadyInv, Steady, Large, DeliveryAssumption
<1>4. age[k] = Interval
  BY <1>2, <1>3, DeliveryAssumption DEF DeliveryAssumption
<1>5. pending[k] = None
  BY <1>1, <1>4, DeliveryAssumption DEF Inv, SteadyInv, SteadyKey, DeliveryAssumption
<1> QED BY <1>1, <1>5 DEF DueKeys, Due

\* Emitting one value v of k that is above what was shown, with nothing of k
\* held any more, keeps every key's order.
LEMMA SteadyEmission ==
  ASSUME Inv, steady, NEW k \in Key, NEW v \in Nat, Above(v, log[k]),
         \A l \in Key : log'[l] = IF l = k THEN log[k] \o <<v>> ELSE log[l],
         pending'[k] = None,
         \A l \in Key : l # k => pending'[l] = pending[l] /\ age'[l] = age[l]
  PROVE  \A l \in Key : SteadyKey(l)'
<1> TAKE l \in Key
<1>1. SteadyKey(l) /\ log[l] \in Seq(Nat)
  BY DEF Inv, SteadyInv, TypeOK
<1>2. CASE l = k
  BY <1>1, <1>2, AboveFollows DEF SteadyKey
<1>3. CASE l # k
  BY <1>1, <1>3 DEF SteadyKey
<1> QED BY <1>2, <1>3

LEMMA SteadyRoute ==
  ASSUME Inv, steady, NEW k \in Key, RouteLatestState(k)
  PROVE  \A l \in Key : SteadyKey(l)'
<1>1. /\ Selection(log[k], routed[k]) /\ routed[k] \in Nat /\ log[k] \in Seq(Nat)
      /\ routed'[k] = routed[k] + 1
  BY DEF Inv, KeyInv, TypeOK, RouteLatestState, NewValues
<1>2. Above(routed[k] + 1, log[k])
  <2>1. PICK n \in Nat : n = routed[k]
    BY <1>1
  <2>2. \A i \in 1..Len(log[k]) : log[k][i] \in 1..n
    BY <1>1, <2>1 DEF Selection
  <2>3. \A i \in 1..Len(log[k]) : log[k][i] < n + 1
    BY <2>1, <2>2
  <2> QED BY <2>1, <2>3 DEF Above
<1>3. CASE Large(k[1]) /\ age[k] < Interval
  <2>1. QueueLatestStateReplay(k)
    BY <1>3 DEF RouteLatestState
  <2>2. /\ pending' = [pending EXCEPT ![k] = [value |-> routed'[k],
                                              wait  |-> Interval - age[k]]]
        /\ UNCHANGED <<age, log>>
    BY <2>1 DEF QueueLatestStateReplay, Hold
  <2>3. pending'[k].wait = Interval - age'[k] /\ pending'[k].value = routed[k] + 1
    BY <1>1, <2>2 DEF Inv, TypeOK
  <2>4. \A l \in Key : l # k => pending'[l] = pending[l]
    BY <2>2 DEF Inv, TypeOK
  <2> QED BY <1>2, <2>2, <2>3, <2>4 DEF Inv, SteadyInv, SteadyKey
<1>4. CASE ~(Large(k[1]) /\ age[k] < Interval)
  <2>1. DueKeys = {} /\ pending[k] = None
    BY <1>4, SentAtOnce DEF RouteLatestState
  <2>2. PICK stamped \in {{k}, {}} : Emit({k}, {}, stamped)
    BY <1>4, <2>1 DEF RouteLatestState
  <2>3. ASSUME NEW l \in Key
        PROVE  /\ log'[l] = IF l = k THEN log[k] \o <<routed[k] + 1>> ELSE log[l]
               /\ pending'[l] = pending[l]
               /\ l # k => age'[l] = age[l]
    <3>1. log'[l] = log[l] \o (IF l = k THEN <<routed'[l]>> ELSE <<>>) \o <<>>
      BY <2>2 DEF Emit
    <3>2. log[l] \in Seq(Nat) /\ log[l] \o <<>> = log[l]
      BY ConcatEmptySeq DEF Inv, TypeOK
    <3>3. log[k] \o <<routed[k] + 1>> \o <<>> = log[k] \o <<routed[k] + 1>>
      BY <1>1, GrownStream, ConcatEmptySeq
    <3> QED BY <1>1, <2>2, <3>1, <3>2, <3>3 DEF Emit, Stamp, DropPending
  <2> QED BY <1>1, <1>2, <2>1, <2>3, SteadyEmission
<1> QED BY <1>3, <1>4

LEMMA SteadyReplay ==
  ASSUME Inv, steady, NEW r, ReplayTimer(r)
  PROVE  \A l \in Key : SteadyKey(l)'
<1>1. r \in timers /\ r.key \in Key /\ pending[r.key] # None
  BY DEF ReplayTimer, Inv, NoDeadPending, TypeOK
<1> DEFINE k == r.key
           v == pending[k].value
<1>2. pending[k] \in Entry /\ v \in Nat /\ log[k] \in Seq(Nat) /\ Above(v, log[k])
  BY <1>1 DEF Inv, TypeOK, Entry, SteadyInv, SteadyKey
<1>3. Emit({}, {k}, {})
  BY <1>1 DEF ReplayTimer
<1>4. pending'[k] = None /\ \A l \in Key : l # k => pending'[l] = pending[l] /\ age'[l] = age[l]
  BY <1>1, <1>3 DEF Emit, DropPending, Stamp
<1>5. \A l \in Key : log[l] \in Seq(Nat) /\ log[l] \o <<>> \o <<>> = log[l]
  BY ConcatEmptySeq DEF Inv, TypeOK
<1>6. CASE audience[k[1]] > 0
  <2>1. log[k] \o <<>> \o <<v>> = log[k] \o <<v>>
    BY <1>2, ConcatEmptySeq
  <2>2. \A l \in Key : log'[l] = IF l = k THEN log[k] \o <<v>> ELSE log[l]
    BY <1>1, <1>3, <1>5, <1>6, <2>1 DEF Emit
  <2> HIDE DEF v, k
  <2> QED BY <1>1, <1>2, <1>4, <2>2, SteadyEmission DEF k
<1>7. CASE ~(audience[k[1]] > 0)
  <2>1. \A l \in Key : log'[l] = log[l]
    BY <1>3, <1>5, <1>7 DEF Emit
  <2> QED BY <1>4, <2>1 DEF Inv, SteadyInv, SteadyKey
<1> QED BY <1>6, <1>7

\* Time passes for what is held and for the interval alike.
LEMMA SteadyTick ==
  ASSUME Inv, steady, Tick
  PROVE  \A l \in Key : SteadyKey(l)'
<1> TAKE l \in Key
<1>1. log'[l] = log[l] /\ SteadyKey(l) /\ age[l] \in 0..Interval
  BY DEF Tick, Inv, SteadyInv, TypeOK
<1>2. CASE pending[l] = None
  BY <1>1, <1>2 DEF Tick, SteadyKey
<1>3. CASE pending[l] # None
  <2>1. pending[l].wait \in 1..Interval
    <3>1. [key |-> l, wait |-> pending[l].wait] \in timers
      BY <1>3 DEF Inv, NoDeadPending
    <3>2. [key |-> l, wait |-> pending[l].wait].wait > 0
      BY <3>1 DEF Tick, LoopFree
    <3>3. pending[l].wait \in 0..Interval
      BY <1>3 DEF Inv, TypeOK, Entry
    <3> QED BY <3>2, <3>3, DeliveryAssumption DEF DeliveryAssumption
  <2>2. age'[l] = age[l] + 1
    BY <1>1, <1>3, <2>1, DeliveryAssumption DEF Tick, SteadyKey, DeliveryAssumption
  <2>3. pending[l] \in Entry /\ pending'[l] = [pending[l] EXCEPT !.wait = Less(@)]
    BY <1>3 DEF Tick, Inv, TypeOK
  <2>4. pending'[l].value = pending[l].value /\ pending'[l].wait = pending[l].wait - 1
    BY <2>1, <2>3 DEF Less, Entry
  <2> QED BY <1>1, <1>3, <2>1, <2>2, <2>4, DeliveryAssumption DEF SteadyKey, DeliveryAssumption
<1> QED BY <1>2, <1>3

-----------------------------------------------------------------------------
(* The invariant *)

LEMMA InitInv == Init => Inv
<1> SUFFICES ASSUME Init PROVE Inv
  OBVIOUS
<1>1. \A k \in Key : pending[k] = None /\ log[k] = <<>> /\ Len(log[k]) = 0
  BY EmptySeq DEF Init
<1>2. TypeOK
  BY EmptySeq, DeliveryAssumption DEF Init, TypeOK, DeliveryAssumption
<1>3. NoDeadPending
  BY <1>1 DEF Init, NoDeadPending
<1>4. \A k \in Key : KeyInv(k) /\ SteadyKey(k)
  BY <1>1 DEF KeyInv, Selection, SteadyKey, Increasing
<1> QED BY <1>2, <1>3, <1>4 DEF Inv, SteadyInv, Init

\* One step per action: the types and the safety of each key first, then the
\* order that a steady server keeps.
LEMMA NextInv == Inv /\ [Next]_vars => Inv'
<1> SUFFICES ASSUME Inv, [Next]_vars PROVE Inv'
  OBVIOUS
<1> DEFINE Safe == TypeOK' /\ NoDeadPending' /\ \A k \in Key : KeyInv(k)'
<1>1. ASSUME NEW k \in Key, RouteLatestState(k) PROVE Inv'
  <2>1. NewValues({k}) /\ UNCHANGED <<steady, audience>>
    BY <1>1 DEF RouteLatestState
  <2>2. ASSUME Large(k[1]), age[k] < Interval PROVE Safe
    BY <1>1, <2>1, <2>2, HoldSafe DEF RouteLatestState
  <2>3. ASSUME ~(Large(k[1]) /\ age[k] < Interval) PROVE Safe
    <3>1. PICK stamped : Emit({k}, DueKeys, stamped)
      BY <1>1, <2>3 DEF RouteLatestState
    <3>2. DueKeys \in SUBSET Key /\ \A l \in DueKeys : pending[l] # None
      BY DEF DueKeys, Due
    <3>3. /\ routed' \in [Key -> Nat]
          /\ \A l \in Key : routed'[l] = IF l \in {k} THEN routed[l] + 1 ELSE routed[l]
          /\ audience' \in [Target -> Audiences]
      BY <2>1 DEF NewValues, Inv, TypeOK
    <3> QED BY <2>1, <3>1, <3>2, <3>3, EmitTyped
  <2>4. Safe
    BY <2>2, <2>3
  <2>5. SteadyInv'
    BY <1>1, <2>1, SteadyRoute DEF Inv, SteadyInv, Steady
  <2> QED BY <2>4, <2>5 DEF Inv
<1>2. ASSUME NEW t \in Target, NEW as \in SUBSET Action, RouteBatch(t, as) PROVE Inv'
  <2> DEFINE ks == {<<t, a>> : a \in as}
  <2>1. ks \in SUBSET Key
    <3>1. \A a \in as : <<t, a>> \in Key
      BY DEF Key
    <3> QED BY <3>1
  <2>2. NewValues(ks) /\ Emit(ks, DueKeys, {}) /\ UNCHANGED <<steady, audience>> /\ ~steady
    BY <1>2 DEF RouteBatch
  <2>3. DueKeys \in SUBSET Key /\ \A l \in DueKeys : pending[l] # None
    BY DEF DueKeys, Due
  <2> HIDE DEF ks
  <2>4. /\ routed' \in [Key -> Nat]
        /\ \A l \in Key : routed'[l] = IF l \in ks THEN routed[l] + 1 ELSE routed[l]
        /\ audience' \in [Target -> Audiences]
    BY <2>2 DEF NewValues, Inv, TypeOK
  <2>5. Safe
    BY <2>1, <2>2, <2>3, <2>4, EmitTyped
  <2> QED BY <2>2, <2>5 DEF Inv, SteadyInv
<1>3. ASSUME NEW k \in Key, Timer(k) PROVE Inv'
  <2>1. PICK r \in timers : ReplayTimer(r)
    BY <1>3 DEF Timer
  <2>2. r.key \in Key /\ pending[r.key] # None /\ UNCHANGED <<steady, audience, routed>>
    BY <2>1 DEF ReplayTimer, Inv, NoDeadPending, TypeOK
  <2>3. Emit({}, {r.key}, {})
    BY <2>1, <2>2 DEF ReplayTimer
  <2>4. /\ routed' \in [Key -> Nat] /\ audience' \in [Target -> Audiences]
        /\ \A l \in Key : routed'[l] = IF l \in {} THEN routed[l] + 1 ELSE routed[l]
    BY <2>2 DEF Inv, TypeOK
  <2>5. Safe
    BY <2>2, <2>3, <2>4, EmitTyped
  <2>6. SteadyInv'
    BY <2>1, <2>2, SteadyReplay DEF Inv, SteadyInv, Steady
  <2> QED BY <2>5, <2>6 DEF Inv
<1>4. ASSUME NEW t \in Target, NEW n \in Audiences, AudienceChanges(t, n) PROVE Inv'
  <2>1. /\ audience' = [audience EXCEPT ![t] = n]
        /\ steady => Steady(n)
        /\ steady' = steady /\ age' = age /\ pending' = pending
        /\ timers' = timers /\ routed' = routed /\ log' = log
    BY <1>4 DEF AudienceChanges
  <2>2. TypeOK'
    <3>1. audience' \in [Target -> Audiences]
      BY <2>1 DEF Inv, TypeOK
    <3> QED BY <2>1, <3>1 DEF Inv, TypeOK
  <2>3. NoDeadPending' /\ \A k \in Key : KeyInv(k)'
    BY <2>1 DEF Inv, NoDeadPending, KeyInv
  <2>4. \A k \in Key : SteadyKey(k) => SteadyKey(k)'
    BY <2>1 DEF SteadyKey
  <2>5. steady => \A s \in Target : Steady(audience'[s])
    <3>1. \A s \in Target : audience'[s] = IF s = t THEN n ELSE audience[s]
      BY <2>1 DEF Inv, TypeOK
    <3> QED BY <2>1, <3>1 DEF Inv, SteadyInv
  <2> QED BY <2>1, <2>2, <2>3, <2>4, <2>5 DEF Inv, SteadyInv
<1>5. CASE Tick
  <2>1. SteadyInv'
    BY <1>5, SteadyTick DEF Inv, SteadyInv, Steady, Tick
  <2> QED BY <1>5, <2>1, TickSafe DEF Inv
<1>6. CASE UNCHANGED vars
  BY <1>6 DEF vars, Inv, TypeOK, NoDeadPending, KeyInv, SteadyInv, SteadyKey, Steady
<1> QED BY <1>1, <1>2, <1>3, <1>4, <1>5, <1>6 DEF Next

\* The inductive invariant of routeControl, flush and replay: types, one timer
\* for what is held, and for a steady server what LatestValue asks of a key.
THEOREM Invariance == Spec => []Inv
BY InitInv, NextInv, PTL DEF Spec

-----------------------------------------------------------------------------
(* The results *)

\* docs/harness/PLAN.md:135 "no dead pending map": whatever is routed, and
\* however clients come and go, what is held has the one timer that replays
\* it when it is due.
THEOREM NothingHeldIsForgotten == Spec => []NoDeadPending
BY Invariance, PTL DEF Inv

\* A value is emitted at most once, also when its timer is late, when another
\* key's control flushes it, and when a batch overtakes it.
THEOREM NothingIsRepeated == Spec => []EmittedOnce
<1>1. Inv => EmittedOnce
  BY DEF Inv, KeyInv, Selection, Unseen, EmittedOnce
<1> QED BY <1>1, Invariance, PTL

\* The streams of a steady server, as LatestValue states them.
LEMMA SelectionInOrder ==
  ASSUME NEW s \in Seq(Nat), NEW n \in Nat, Selection(s, n), Increasing(s)
  PROVE  Abstract!Increasing(s, n)
<1>1. Len(s) \in Nat
  BY LenProperties
<1> QED BY <1>1 DEF Selection, Increasing, Abstract!Increasing

LEMMA InitRefines == Init => Abstract!Init
BY DEF Init, Abstract!Init

\* No step takes back anything that was shown.
Continues(old, new) ==
  Len(old) <= Len(new) /\ \A i \in 1..Len(old) : new[i] = old[i]

LEMMA ContinuesTransitive ==
  ASSUME NEW a \in Seq(Nat), NEW b \in Seq(Nat), NEW c \in Seq(Nat),
         Continues(a, b), Continues(b, c)
  PROVE  Continues(a, c)
<1>1. Len(a) \in Nat /\ Len(b) \in Nat /\ Len(c) \in Nat
  BY LenProperties
<1>2. \A i \in 1..Len(a) : i \in 1..Len(b) /\ b[i] = a[i]
  BY <1>1 DEF Continues
<1> QED BY <1>1, <1>2 DEF Continues

LEMMA EmittedContinues ==
  ASSUME Inv, NEW k \in Key, NEW sent, NEW flush \in SUBSET Key, NEW stamped,
         \A l \in flush : pending[l] # None,
         routed'[k] \in Nat, Emit(sent, flush, stamped)
  PROVE  Continues(log[k], log'[k])
<1> DEFINE new    == IF k \in sent THEN <<routed'[k]>> ELSE <<>>
           replay == IF k \in flush /\ audience[k[1]] > 0 THEN <<pending[k].value>> ELSE <<>>
<1>1. log'[k] = log[k] \o new \o replay
  BY DEF Emit
<1>2. log[k] \in Seq(Nat) /\ new \in Seq(Nat)
  BY DEF Inv, TypeOK
<1>3. replay \in Seq(Nat)
  <2>1. k \in flush => pending[k].value \in Nat
    BY DEF Inv, TypeOK, Entry
  <2> QED BY <2>1
<1> HIDE DEF new, replay
<1>4. log[k] \o new \in Seq(Nat) /\ Continues(log[k], log[k] \o new)
  BY <1>2, ConcatProperties, LenProperties DEF Continues
<1>5. Continues(log[k] \o new, log'[k])
  BY <1>1, <1>3, <1>4, ConcatProperties, LenProperties DEF Continues
<1>6. log'[k] \in Seq(Nat)
  BY <1>1, <1>3, <1>4, ConcatProperties
<1> QED BY <1>2, <1>4, <1>5, <1>6, ContinuesTransitive

\* What a step does to one key, seen from outside.
LEMMA StepOutside ==
  ASSUME Inv, Next, NEW k \in Key
  PROVE  /\ steady' = steady
         /\ routed'[k] \in {routed[k], routed[k] + 1}
         /\ Continues(log[k], log'[k])
<1> DEFINE Outside == /\ steady' = steady
                      /\ routed'[k] \in {routed[k], routed[k] + 1}
                      /\ Continues(log[k], log'[k])
<1>1. routed[k] \in Nat /\ log[k] \in Seq(Nat) /\ Len(log[k]) \in Nat
  BY LenProperties DEF Inv, TypeOK
<1>2. ASSUME log' = log PROVE Continues(log[k], log'[k])
  BY <1>1, <1>2 DEF Continues
<1>3. ASSUME NEW ks, NewValues(ks)
      PROVE  routed'[k] \in {routed[k], routed[k] + 1} /\ routed'[k] \in Nat
  BY <1>1, <1>3 DEF NewValues
<1>4. DueKeys \in SUBSET Key /\ \A l \in DueKeys : pending[l] # None
  BY DEF DueKeys, Due
<1>5. ASSUME NEW l \in Key, RouteLatestState(l) PROVE Outside
  <2>1. steady' = steady /\ NewValues({l})
    BY <1>5 DEF RouteLatestState
  <2>2. log' = log \/ \E stamped : Emit({l}, DueKeys, stamped)
    BY <1>5 DEF RouteLatestState, QueueLatestStateReplay
  <2> QED BY <1>2, <1>3, <1>4, <2>1, <2>2, EmittedContinues
<1>6. ASSUME NEW t \in Target, NEW as \in SUBSET Action, RouteBatch(t, as) PROVE Outside
  <2>1. PICK ks : NewValues(ks) /\ Emit(ks, DueKeys, {}) /\ steady' = steady
    BY <1>6 DEF RouteBatch
  <2> QED BY <1>3, <1>4, <2>1, EmittedContinues
<1>7. ASSUME NEW r \in timers, ReplayTimer(r) PROVE Outside
  <2>1. /\ r.key \in Key /\ pending[r.key] # None /\ Emit({}, {r.key}, {})
        /\ steady' = steady /\ routed' = routed
    BY <1>7 DEF ReplayTimer, Inv, NoDeadPending, TypeOK
  <2> QED BY <1>1, <2>1, EmittedContinues
<1>8. CASE Tick \/ \E t \in Target, n \in Audiences : AudienceChanges(t, n)
  BY <1>1, <1>2, <1>8 DEF Tick, AudienceChanges
<1> QED BY <1>5, <1>6, <1>7, <1>8 DEF Next, Timer

\* Every step gives each key at most one more value and extends what it has
\* shown by an increasing selection, or changes nothing.
LEMMA StepRefines == Inv /\ Inv' /\ [Next]_vars => [Abstract!Next]_(Abstract!vars)
<1> SUFFICES ASSUME Inv, Inv', [Next]_vars
             PROVE  Abstract!Next \/ UNCHANGED Abstract!vars
  OBVIOUS
<1>1. CASE UNCHANGED vars
  BY <1>1 DEF vars, Abstract!vars
<1>2. CASE Next /\ steady
  <2>1. ASSUME NEW k \in Key
        PROVE  /\ steady' /\ routed'[k] \in {routed[k], routed[k] + 1}
               /\ Continues(log[k], log'[k])
               /\ Abstract!Increasing(log'[k], routed'[k])
    <3>1. /\ steady' /\ routed'[k] \in {routed[k], routed[k] + 1}
          /\ Continues(log[k], log'[k])
      BY <1>2, StepOutside
    <3>2. log'[k] \in Seq(Nat) /\ routed'[k] \in Nat
          /\ Selection(log'[k], routed'[k]) /\ Increasing(log'[k])
      BY <3>1 DEF Inv, TypeOK, KeyInv, SteadyInv, SteadyKey
    <3> QED BY <3>1, <3>2, SelectionInOrder
  <2> QED BY <1>2, <2>1, StepOutside DEF Abstract!Next, Continues
<1>3. CASE Next /\ ~steady
  BY <1>3, StepOutside DEF Abstract!Next, Abstract!Increasing
<1> QED BY <1>1, <1>2, <1>3

\* A steady server delivers in order: increasing values, none twice, none
\* taken back, for every key.  It implements LatestValue.
THEOREM DeliveryRefinesLatestValue == Spec => DeliversInOrder
BY InitRefines, StepRefines, Invariance, PTL DEF Spec, DeliversInOrder, Abstract!Spec
=============================================================================
