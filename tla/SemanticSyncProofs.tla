------------------------- MODULE SemanticSyncProofs -------------------------
(***************************************************************************)
(* Proofs about SemanticSync, for any managers, nodes and bounds: what is  *)
(* confirmed is durable, what is pending settles, and the copies of the    *)
(* managers agree with the server's graph when nothing is under way.       *)
(***************************************************************************)
EXTENDS SemanticSync, SequenceLemmas

-----------------------------------------------------------------------------
(* Commands and graphs *)

\* The commands a manager tracks.
Edits == {"add", "set", "remove"}

LEMMA Constants ==
  /\ MaxCommands \in Nat /\ MaxOutages \in Nat /\ Turns \in Nat \ {0}
  /\ Project \subseteq Node /\ 0 \in Value /\ Value \subseteq Nat
  /\ None \notin Nat /\ None \notin Node /\ None \notin Value
BY SyncAssumption DEF SyncAssumption, Value

LEMMA ApplyGraph ==
  ASSUME NEW g \in Graph, NEW c \in Command
  PROVE  Apply(g, c) \in Graph
<1>1. c.value \in Value /\ 0 \in Value
  BY Constants DEF Command
<1>2. CASE c.kind = "add"
  BY <1>1, <1>2 DEF Apply, Graph
<1>3. CASE c.kind = "set"
  BY <1>1, <1>3 DEF Apply, Graph
<1>4. CASE c.kind = "remove"
  BY <1>1, <1>4 DEF Apply, Graph
<1>5. CASE c.kind = "replace"
  BY <1>1, <1>5 DEF Apply, Graph
<1>6. CASE c.kind = "snapshot"
  BY <1>6 DEF Apply
<1> QED BY <1>2, <1>3, <1>4, <1>5, <1>6 DEF Command

\* A command leaves a node out that was out, unless it adds it or replaces all.
LEMMA ApplyKeepsOut ==
  ASSUME NEW g \in Graph, NEW c \in Command, NEW n \in Node, g[n] = None,
         c.kind = "add" => c.node # n,
         c.kind = "replace" => n \notin Project
  PROVE  Apply(g, c)[n] = None
BY DEF Apply, Graph, Command

LEMMA ApplyRemoves ==
  ASSUME NEW g \in Graph, NEW c \in Command, c.kind = "remove", c.node \in Node
  PROVE  Apply(g, c)[c.node] = None
BY DEF Apply, Graph, Command

LEMMA AppliedSnapshot ==
  ASSUME memory \in Snapshot, NEW c \in Command
  PROVE  Applied(c) \in Snapshot /\ Applied(c).revision = memory.revision + 1
BY ApplyGraph DEF Applied, Snapshot, Revision

-----------------------------------------------------------------------------
(* Laying pending commands over a graph *)

\* The function the fold of Overlay computes, on subsets of 1..n.
FoldsTo(f, g, cs, n) ==
  f = [s \in SUBSET (1..n) |-> IF s = {} THEN g ELSE Apply(f[s \ {Max(s)}], cs[Max(s)])]

LEMMA FoldExists ==
  ASSUME NEW g, NEW cs, NEW n \in Nat
  PROVE  \E f : FoldsTo(f, g, cs, n)
<1> DEFINE K == {k \in Nat : \E f : FoldsTo(f, g, cs, k)}
<1>1. 0 \in K
  <2>1. SUBSET (1..0) = {{}}
    OBVIOUS
  <2>2. FoldsTo([s \in SUBSET (1..0) |-> g], g, cs, 0)
    BY <2>1 DEF FoldsTo
  <2> QED BY <2>2
<1>2. ASSUME NEW k \in K PROVE k + 1 \in K
  <2>1. PICK f : FoldsTo(f, g, cs, k)
    OBVIOUS
  <2>2. k \in Nat
    OBVIOUS
  <2> DEFINE h == [s \in SUBSET (1..(k + 1)) |->
                     IF k + 1 \in s THEN Apply(f[s \ {k + 1}], cs[k + 1]) ELSE f[s]]
  <2>3. \A s \in SUBSET (1..(k + 1)) : k + 1 \notin s => s \in SUBSET (1..k)
    BY <2>2
  <2>4. \A s \in SUBSET (1..k) : s \in SUBSET (1..(k + 1)) /\ k + 1 \notin s
    BY <2>2
  <2>5. \A s \in SUBSET (1..k) : h[s] = f[s]
    BY <2>4
  <2>6. ASSUME NEW s \in SUBSET (1..(k + 1))
        PROVE  h[s] = IF s = {} THEN g ELSE Apply(h[s \ {Max(s)}], cs[Max(s)])
    <3>1. CASE k + 1 \in s
      <4>1. Max(s) = k + 1
        BY <2>2, <3>1, MaxOfInitial
      <4>2. s \ {k + 1} \in SUBSET (1..k)
        BY <2>2
      <4>3. h[s] = Apply(f[s \ {k + 1}], cs[k + 1])
        BY <3>1
      <4>4. h[s \ {k + 1}] = f[s \ {k + 1}]
        BY <2>5, <4>2
      <4> QED BY <3>1, <4>1, <4>3, <4>4
    <3>2. CASE k + 1 \notin s
      <4>1. s \in SUBSET (1..k) /\ s \ {Max(s)} \in SUBSET (1..k)
        BY <2>3, <3>2
      <4>2. f[s] = IF s = {} THEN g ELSE Apply(f[s \ {Max(s)}], cs[Max(s)])
        BY <2>1, <4>1 DEF FoldsTo
      <4> QED BY <2>5, <4>1, <4>2
    <3> QED BY <3>1, <3>2
  <2> HIDE DEF h
  <2>7. h = [s \in SUBSET (1..(k + 1)) |-> h[s]]
    BY DEF h
  <2>8. FoldsTo(h, g, cs, k + 1)
    BY <2>6, <2>7 DEF FoldsTo
  <2> QED BY <2>2, <2>8
<1> HIDE DEF K
<1>3. K = Nat
  BY <1>1, <1>2, SetInduction DEF K
<1> QED BY <1>3 DEF K

\* The graphs after each of the commands laid over it.
Laid(after, g, cs) ==
  /\ after[0] = g
  /\ \A i \in 1..Len(cs) : after[i] = Apply(after[i - 1], cs[i])

LEMMA OverlaySteps ==
  ASSUME NEW g, NEW cs \in Seq(Command)
  PROVE  \E after : Laid(after, g, cs) /\ Overlay(g, cs) = after[Len(cs)]
<1> DEFINE f == CHOOSE f : FoldsTo(f, g, cs, Len(cs))
<1>1. Len(cs) \in Nat /\ DOMAIN cs = 1..Len(cs)
  BY LenProperties
<1>2. FoldsTo(f, g, cs, Len(cs))
  BY <1>1, FoldExists
<1>3. Overlay(g, cs) = f[1..Len(cs)]
  BY <1>1 DEF Overlay, FoldLeft, MapThenFoldSet, FoldsTo
<1> HIDE DEF f
<1> DEFINE after == [i \in 0..Len(cs) |-> f[1..i]]
<1>4. after[0] = g
  <2>1. 1..0 = {} /\ 0 \in 0..Len(cs) /\ {} \in SUBSET (1..Len(cs))
    BY <1>1
  <2>2. f[{}] = g
    BY <1>2, <2>1 DEF FoldsTo
  <2> QED BY <2>1, <2>2
<1>5. ASSUME NEW i \in 1..Len(cs) PROVE after[i] = Apply(after[i - 1], cs[i])
  <2>1. /\ i \in Nat \ {0} /\ 1..i \in SUBSET (1..Len(cs)) /\ i \in 1..i
        /\ i \in 0..Len(cs) /\ i - 1 \in 0..Len(cs)
        /\ (1..i) \ {i} = 1..(i - 1)
    BY <1>1
  <2>2. Max(1..i) = i
    BY <2>1, MaxOfInitial
  <2>3. f[1..i] = Apply(f[(1..i) \ {Max(1..i)}], cs[Max(1..i)])
    BY <1>2, <2>1 DEF FoldsTo
  <2> QED BY <2>1, <2>2, <2>3
<1>6. after[Len(cs)] = f[1..Len(cs)]
  BY <1>1
<1> HIDE DEF after
<1> QED BY <1>3, <1>4, <1>5, <1>6 DEF Laid

LEMMA OverlayNothing == ASSUME NEW g PROVE Overlay(g, <<>>) = g
<1>1. <<>> \in Seq(Command) /\ Len(<<>>) = 0
  BY EmptySeq
<1>2. PICK after : Laid(after, g, <<>>) /\ Overlay(g, <<>>) = after[Len(<<>>)]
  BY <1>1, OverlaySteps
<1> QED BY <1>1, <1>2 DEF Laid

LEMMA OverlayGraph ==
  ASSUME NEW g \in Graph, NEW cs \in Seq(Command)
  PROVE  Overlay(g, cs) \in Graph
<1>1. PICK after : Laid(after, g, cs) /\ Overlay(g, cs) = after[Len(cs)]
  BY OverlaySteps
<1> DEFINE K == {i \in Nat : i <= Len(cs) => after[i] \in Graph}
<1>2. Len(cs) \in Nat /\ \A i \in 1..Len(cs) : cs[i] \in Command
  BY LenProperties, ElementOfSeq
<1>3. 0 \in K
  BY <1>1 DEF Laid
<1>4. ASSUME NEW i \in K PROVE i + 1 \in K
  <2>1. ASSUME i + 1 <= Len(cs) PROVE after[i + 1] \in Graph
    <3>1. i \in Nat /\ i + 1 \in 1..Len(cs) /\ (i + 1) - 1 = i /\ after[i] \in Graph
      BY <1>2, <2>1
    <3>2. after[i + 1] = Apply(after[i], cs[i + 1])
      BY <1>1, <3>1 DEF Laid
    <3> QED BY <1>2, <3>1, <3>2, ApplyGraph
  <2> QED BY <2>1
<1> HIDE DEF K
<1>5. K = Nat
  BY <1>3, <1>4, SetInduction DEF K
<1> QED BY <1>1, <1>2, <1>5 DEF K

\* A node that is out after the k-th command, or before the first, stays out
\* unless a later one adds it.
LEMMA OverlayOut ==
  ASSUME NEW g \in Graph, NEW cs \in Seq(Command), NEW n \in Node, NEW k \in 0..Len(cs),
         k = 0 => g[n] = None,
         k # 0 => cs[k].kind = "remove" /\ cs[k].node = n,
         \A i \in (k + 1)..Len(cs) :
           cs[i].kind # "replace" /\ (cs[i].kind = "add" => cs[i].node # n)
  PROVE  Overlay(g, cs)[n] = None
<1>1. PICK after : Laid(after, g, cs) /\ Overlay(g, cs) = after[Len(cs)]
  BY OverlaySteps
<1> DEFINE K == {i \in Nat : i <= Len(cs) =>
                   after[i] \in Graph /\ (k <= i => after[i][n] = None)}
<1>2. Len(cs) \in Nat /\ k \in Nat /\ \A i \in 1..Len(cs) : cs[i] \in Command
  BY LenProperties, ElementOfSeq
<1>3. 0 \in K
  BY <1>1, <1>2 DEF Laid
<1>4. ASSUME NEW i \in K PROVE i + 1 \in K
  <2>1. ASSUME i + 1 <= Len(cs)
        PROVE  after[i + 1] \in Graph /\ (k <= i + 1 => after[i + 1][n] = None)
    <3>1. /\ i \in Nat /\ i + 1 \in 1..Len(cs) /\ (i + 1) - 1 = i
          /\ after[i] \in Graph /\ (k <= i => after[i][n] = None)
      BY <1>2, <2>1
    <3>2. after[i + 1] = Apply(after[i], cs[i + 1]) /\ cs[i + 1] \in Command
      BY <1>1, <1>2, <3>1 DEF Laid
    <3>3. ASSUME k = i + 1 PROVE after[i + 1][n] = None
      BY <3>1, <3>2, <3>3, ApplyRemoves
    <3>4. ASSUME k <= i PROVE after[i + 1][n] = None
      <4>1. i + 1 \in (k + 1)..Len(cs)
        BY <1>2, <3>1, <3>4
      <4> QED BY <3>1, <3>2, <3>4, <4>1, ApplyKeepsOut
    <3>5. k <= i + 1 => k = i + 1 \/ k <= i
      BY <1>2, <3>1
    <3> QED BY <3>1, <3>2, <3>3, <3>4, <3>5, ApplyGraph
  <2> QED BY <2>1
<1> HIDE DEF K
<1>5. K = Nat
  BY <1>3, <1>4, SetInduction DEF K
<1> QED BY <1>1, <1>2, <1>5 DEF K

-----------------------------------------------------------------------------
(* Messages *)

\* A message that brings a graph, and one that refuses a command.
Carries(x) == x.type = "snapshot" \/ (x.type = "result" /\ x.ok)
Rejects(x) == x.type = "result" /\ ~x.ok

LEMMA MessageKinds ==
  ASSUME NEW x \in Message
  PROVE  \/ /\ x.type = "snapshot" /\ Carries(x) /\ ~Rejects(x) /\ x.snap \in Snapshot
         \/ /\ x.type = "result" /\ x.ok = TRUE /\ Carries(x) /\ ~Rejects(x)
            /\ x.snap \in Snapshot
         \/ /\ x.type = "result" /\ x.ok = FALSE /\ ~Carries(x) /\ Rejects(x)
BY DEF Message, Carries, Rejects

LEMMA ResultMessage ==
  ASSUME NEW c \in Command, NEW snap
  PROVE  /\ snap \in Snapshot => Result(c, TRUE, snap) \in Message
         /\ Carries(Result(c, TRUE, snap)) /\ Result(c, TRUE, snap).snap = snap
         /\ Result(c, FALSE, None) \in Message /\ Rejects(Result(c, FALSE, None))
         /\ ~Carries(Result(c, FALSE, None))
         /\ \A ok \in BOOLEAN : /\ Result(c, ok, snap).type = "result"
                                /\ Result(c, ok, snap).id = RequestId(c)
BY DEF Result, Message, Carries, Rejects

LEMMA BroadcastMessages ==
  ASSUME NEW snaps \in Seq(Snapshot)
  PROVE  /\ Broadcast(snaps) \in Seq(Message)
         /\ \A x \in ToSet(Broadcast(snaps)) :
              x.type = "snapshot" /\ Carries(x) /\ x.snap \in ToSet(snaps)
         /\ \A s \in ToSet(snaps) : \E x \in ToSet(Broadcast(snaps)) : Carries(x) /\ x.snap = s
<1>1. Len(snaps) \in Nat /\ \A i \in 1..Len(snaps) : snaps[i] \in Snapshot
  BY LenProperties, ElementOfSeq
<1> DEFINE B == Broadcast(snaps)
<1>2. /\ B = [i \in 1..Len(snaps) |-> [type |-> "snapshot", snap |-> snaps[i]]]
      /\ \A i \in 1..Len(snaps) : [type |-> "snapshot", snap |-> snaps[i]] \in Message
  BY <1>1 DEF Broadcast, Message
<1>3. B \in Seq(Message) /\ Len(B) = Len(snaps)
  BY <1>1, <1>2
<1>4. \A i \in 1..Len(snaps) : B[i].type = "snapshot" /\ B[i].snap = snaps[i] /\ Carries(B[i])
  BY <1>2 DEF Carries
<1> HIDE DEF B
<1>5. \A x : x \in ToSet(B) <=> \E i \in 1..Len(snaps) : x = B[i]
  <2>1. \A x : x \in ToSet(B) <=> \E i \in 1..Len(B) : x = B[i]
    BY <1>3, InPlaces
  <2> QED BY <1>3, <2>1
<1>6. \A x : x \in ToSet(snaps) <=> \E i \in 1..Len(snaps) : x = snaps[i]
  BY InPlaces
<1> QED BY <1>3, <1>4, <1>5, <1>6 DEF B

\* What Send adds to the queue of a manager.
Added(ms, msgs, m) == IF m \in ms THEN msgs ELSE <<>>

LEMMA SendAdds ==
  ASSUME NEW queues \in [Manager -> Seq(Message)], NEW ms, NEW msgs \in Seq(Message)
  PROVE  /\ Send(queues, ms, msgs) \in [Manager -> Seq(Message)]
         /\ \A m \in Manager : /\ Added(ms, msgs, m) \in Seq(Message)
                               /\ Send(queues, ms, msgs)[m] = queues[m] \o Added(ms, msgs, m)
<1>1. \A m \in Manager : queues[m] \in Seq(Message) /\ queues[m] \o msgs \in Seq(Message)
  BY ConcatProperties
<1>2. \A m \in Manager : queues[m] \o <<>> = queues[m]
  BY <1>1, ConcatEmptySeq
<1>3. <<>> \in Seq(Message)
  BY EmptySeq
<1> QED BY <1>1, <1>2, <1>3 DEF Send, Added

-----------------------------------------------------------------------------
(* The types *)

\* An edit names a node.
WellFormed(c) == c.kind \in Edits => c.node \in Node

Types ==
  /\ TypeOK
  /\ \A m \in Manager : /\ \A c \in ToSet(up[m]) : WellFormed(c)
                        /\ \A c \in ToSet(pending[m]) : c.kind \in Edits /\ WellFormed(c)

\* An update takes the place of the one it replaces, other edits queue up.
LEMMA TrackEffect ==
  ASSUME NEW cs \in Seq(Command), NEW c \in Command
  PROVE  /\ Track(cs, c) \in Seq(Command)
         /\ \A x \in ToSet(Track(cs, c)) : x = c \/ x \in ToSet(cs)
         /\ \/ /\ Len(Track(cs, c)) = Len(cs) + 1
               /\ \A i \in 1..Len(cs) : Track(cs, c)[i] = cs[i]
               /\ Track(cs, c)[Len(cs) + 1] = c
               /\ c.kind = "set" => \A i \in 1..Len(cs) : RequestId(cs[i]) # RequestId(c)
            \/ /\ c.kind = "set" /\ Len(Track(cs, c)) = Len(cs)
               /\ \A i \in 1..Len(cs) : RequestId(Track(cs, c)[i]) = RequestId(cs[i])
<1>1. Len(cs) \in Nat /\ \A i \in 1..Len(cs) : cs[i] \in Command
  BY LenProperties, ElementOfSeq
<1>2. CASE c.kind = "set" /\ \E i \in 1..Len(cs) : RequestId(cs[i]) = RequestId(c)
  <2>1. Track(cs, c) = [i \in 1..Len(cs) |->
                          IF RequestId(cs[i]) = RequestId(c) THEN c ELSE cs[i]]
    BY <1>2 DEF Track
  <2>2. Track(cs, c) \in Seq(Command) /\ Len(Track(cs, c)) = Len(cs)
    BY <1>1, <2>1
  <2>3. \A i \in 1..Len(cs) :
          /\ Track(cs, c)[i] = c \/ Track(cs, c)[i] = cs[i]
          /\ RequestId(Track(cs, c)[i]) = RequestId(cs[i])
    BY <2>1
  <2>4. \A x \in ToSet(Track(cs, c)) : x = c \/ x \in ToSet(cs)
    <3>1. \A x \in ToSet(Track(cs, c)) : \E i \in 1..Len(cs) : x = Track(cs, c)[i]
      BY <2>2, InPlaces
    <3> QED BY <2>3, <3>1, InPlaces
  <2> QED BY <1>2, <2>2, <2>3, <2>4
<1>3. CASE ~(c.kind = "set" /\ \E i \in 1..Len(cs) : RequestId(cs[i]) = RequestId(c))
  <2>1. Track(cs, c) = Append(cs, c)
    BY <1>3 DEF Track
  <2>2. ToSet(Append(cs, c)) = ToSet(cs) \cup {c}
    BY InAppend
  <2> QED BY <1>3, <2>1, <2>2, AppendProperties
<1> QED BY <1>2, <1>3

\* What RemoveAt leaves of the tracked commands: the others, in their order.
LeavesOut(left, cs, i) ==
  /\ Len(left) = Len(cs) - 1
  /\ \A j \in 1..Len(left) : left[j] = IF j < i THEN cs[j] ELSE cs[j + 1]

LEMMA LeftIn ==
  ASSUME NEW cs \in Seq(Command), NEW left \in Seq(Command), NEW i \in 1..Len(cs),
         LeavesOut(left, cs, i)
  PROVE  ToSet(left) \subseteq ToSet(cs)
<1>1. Len(cs) \in Nat
  BY LenProperties
<1>2. ASSUME NEW x \in ToSet(left) PROVE x \in ToSet(cs)
  <2>1. PICK j \in 1..Len(left) : x = left[j]
    BY <1>2, InPlaces
  <2>2. \E l \in 1..Len(cs) : x = cs[l]
    BY <1>1, <2>1 DEF LeavesOut
  <2> QED BY <2>2, InPlaces
<1> QED BY <1>2

\* The first command of a request is settled.
LEMMA SettleEffect ==
  ASSUME NEW cs \in Seq(Command), NEW id, NEW ok
  PROVE  /\ Settle(cs, id, ok) \in Seq(Command)
         /\ ToSet(Settle(cs, id, ok)) \subseteq ToSet(cs)
         /\ \/ /\ Settle(cs, id, ok) = cs
               /\ \A i \in 1..Len(cs) : RequestId(cs[i]) # id
            \/ \E i \in 1..Len(cs) :
                 RequestId(cs[i]) = id /\ LeavesOut(Settle(cs, id, ok), cs, i)
<1>1. CASE \E i \in 1..Len(cs) : RequestId(cs[i]) = id
  <2> DEFINE T == {i \in 1..Len(cs) : RequestId(cs[i]) = id}
             P(i) == RequestId(cs[i]) = id /\ \A j \in 1..(i - 1) : RequestId(cs[j]) # id
             first == CHOOSE i \in 1..Len(cs) : P(i)
  <2>1. Len(cs) \in Nat /\ T \in SUBSET Nat /\ T # {}
    BY <1>1, LenProperties
  <2>2. PICK i \in T : \A j \in T : i <= j
    BY <2>1, LeastExists
  <2>3. \A j \in 1..(i - 1) : j \in 1..Len(cs) /\ ~(i <= j)
    BY <2>1
  <2>4. i \in 1..Len(cs) /\ P(i)
    BY <2>2, <2>3
  <2>5. first \in 1..Len(cs) /\ P(first)
    BY <2>4
  <2>6. Settle(cs, id, ok) = RemoveAt(cs, first)
    BY <1>1 DEF Settle, SettleAccepted
  <2> HIDE DEF first
  <2>7. Settle(cs, id, ok) \in Seq(Command) /\ LeavesOut(Settle(cs, id, ok), cs, first)
    <3>1. PICK i0 \in 1..Len(cs) : i0 = first
      BY <2>5
    <3>2. PICK left : left = RemoveAt(cs, i0)
      OBVIOUS
    <3>3. /\ left \in Seq(Command) /\ Len(left) = Len(cs) - 1
          /\ \A j \in 1..Len(left) : left[j] = IF j < i0 THEN cs[j] ELSE cs[j + 1]
      BY <3>2, RemoveAtProperties
    <3>4. LeavesOut(left, cs, i0)
      BY <3>3 DEF LeavesOut
    <3> QED BY <2>6, <3>1, <3>2, <3>3, <3>4
  <2> QED BY <2>5, <2>7, LeftIn
<1>2. CASE ~ \E i \in 1..Len(cs) : RequestId(cs[i]) = id
  BY <1>2 DEF Settle, SettleAccepted
<1> QED BY <1>1, <1>2

\* The oldest pending command expires.
LEMMA ExpireEffect ==
  ASSUME NEW m \in Manager, pending[m] \in Seq(Command), Expire(m),
         pending \in [Manager -> Seq(Command)]
  PROVE  /\ pending' = [pending EXCEPT ![m] = pending'[m]]
         /\ pending'[m] \in Seq(Command)
         /\ ToSet(pending'[m]) \subseteq ToSet(pending[m])
         /\ \E i \in 1..Len(pending[m]) : LeavesOut(pending'[m], pending[m], i)
<1> DEFINE cs == pending[m]
           T == {cs[i].value : i \in 1..Len(cs)}
           oldest == CHOOSE i \in 1..Len(cs) : \A j \in 1..Len(cs) : cs[i].value <= cs[j].value
<1>1. Len(cs) \in Nat \ {0} /\ \A i \in 1..Len(cs) : cs[i] \in Command
  BY EmptySeq, ElementOfSeq DEF Expire
<1>2. 1 \in 1..Len(cs) /\ \A i \in 1..Len(cs) : cs[i].value \in Nat
  <2>1. \A c \in Command : c.value \in Nat
    BY Constants DEF Command
  <2> HIDE DEF cs
  <2> QED BY <1>1, <2>1
<1>3. T \in SUBSET Nat /\ T # {}
  BY <1>2
<1>4. PICK v \in T : \A w \in T : v <= w
  BY <1>3, LeastExists
<1>5. \E i \in 1..Len(cs) : \A j \in 1..Len(cs) : cs[i].value <= cs[j].value
  BY <1>4
<1>6. oldest \in 1..Len(cs)
  BY <1>5
<1>7. pending' = [pending EXCEPT ![m] = RemoveAt(cs, oldest)]
  BY DEF Expire
<1> HIDE DEF oldest, T
<1>8. pending'[m] = RemoveAt(cs, oldest)
  BY <1>7
<1>9. pending'[m] \in Seq(Command) /\ LeavesOut(pending'[m], cs, oldest)
  BY <1>6, <1>8, RemoveAtProperties DEF LeavesOut
<1> QED BY <1>6, <1>7, <1>8, <1>9, LeftIn

LEMMA InitTypes == Init => Types
<1> SUFFICES ASSUME Init PROVE Types
  OBVIOUS
<1>1. \A S : <<>> \in Seq(S) /\ Len(<<>>) = 0
  BY EmptySeq
<1>2. ToSet(<<>>) = {}
  BY <1>1, InPlaces
<1>3. memory \in Snapshot
  BY Constants DEF Init, Snapshot, Revision, Graph
<1> QED BY <1>1, <1>2, <1>3, Constants DEF Init, Types, TypeOK, Value, Graph, Revision

\* The parts of the types.
LEMMA TypesOf ==
  ASSUME Types, NEW m \in Manager
  PROVE  /\ memory \in Snapshot /\ disk \in Snapshot /\ held \in Seq(Snapshot)
         /\ memory.revision \in Nat /\ memory.graph \in Graph
         /\ up \in [Manager -> Seq(Command)] /\ up[m] \in Seq(Command)
         /\ pending \in [Manager -> Seq(Command)] /\ pending[m] \in Seq(Command)
         /\ down \in [Manager -> Seq(Message)] /\ down[m] \in Seq(Message)
         /\ view \in [Manager -> Graph] /\ view[m] \in Graph
         /\ latest \in [Manager -> Nat \cup {None}] /\ latest[m] \in Nat \cup {None}
         /\ ToSet(up[m]) \subseteq Command /\ ToSet(pending[m]) \subseteq Command
         /\ ToSet(down[m]) \subseteq Message
BY InPlaces DEF Types, TypeOK, Snapshot, Revision

\* A queue loses its head.
LEMMA HeadOfUp ==
  ASSUME Types, NEW m \in Manager, up[m] # <<>>, up' = [up EXCEPT ![m] = Tail(@)]
  PROVE  /\ Head(up[m]) \in Command /\ WellFormed(Head(up[m]))
         /\ Head(up[m]) \in ToSet(up[m])
         /\ up' \in [Manager -> Seq(Command)]
         /\ ToSet(up[m]) = {Head(up[m])} \cup ToSet(up'[m])
         /\ \A k \in Manager : ToSet(up'[k]) \subseteq ToSet(up[k])
<1>1. up[m] \in Seq(Command) /\ up \in [Manager -> Seq(Command)]
  BY TypesOf
<1>2. Head(up[m]) \in Command /\ Tail(up[m]) \in Seq(Command)
  BY <1>1, HeadTailProperties
<1>3. ToSet(up[m]) = {Head(up[m])} \cup ToSet(Tail(up[m]))
  BY <1>1, InTail
<1> QED BY <1>1, <1>2, <1>3 DEF Types

LEMMA HeadOfDown ==
  ASSUME Types, NEW m \in Manager, down[m] # <<>>, down' = [down EXCEPT ![m] = Tail(@)]
  PROVE  /\ Head(down[m]) \in Message /\ Head(down[m]) \in ToSet(down[m])
         /\ Head(down[m]) = down[m][1]
         /\ down' \in [Manager -> Seq(Message)]
         /\ ToSet(down[m]) = {Head(down[m])} \cup ToSet(down'[m])
         /\ Len(down[m]) \in Nat \ {0} /\ Len(down'[m]) = Len(down[m]) - 1
         /\ \A i \in 1..Len(down'[m]) : down'[m][i] = down[m][i + 1]
         /\ \A k \in Manager : k # m => down'[k] = down[k]
<1>1. down[m] \in Seq(Message) /\ down \in [Manager -> Seq(Message)]
  BY TypesOf
<1>2. /\ Head(down[m]) \in Message /\ Tail(down[m]) \in Seq(Message)
      /\ Len(Tail(down[m])) = Len(down[m]) - 1
      /\ \A i \in 1..Len(Tail(down[m])) : Tail(down[m])[i] = down[m][i + 1]
  BY <1>1, HeadTailProperties
<1>3. ToSet(down[m]) = {Head(down[m])} \cup ToSet(Tail(down[m]))
  BY <1>1, InTail
<1>4. Len(down[m]) \in Nat \ {0} /\ Head(down[m]) = down[m][1]
  BY <1>1, EmptySeq
<1> QED BY <1>1, <1>2, <1>3, <1>4

\* An edit, a request or an import goes to the server.
LEMMA AppendToUp ==
  ASSUME Types, NEW m \in Manager, NEW c \in Command, WellFormed(c),
         up' = [up EXCEPT ![m] = Append(@, c)]
  PROVE  /\ up' \in [Manager -> Seq(Command)] /\ up'[m] # <<>>
         /\ ToSet(up'[m]) = ToSet(up[m]) \cup {c}
         /\ \A k \in Manager : k # m => up'[k] = up[k]
         /\ \A k \in Manager : \A x \in ToSet(up'[k]) : WellFormed(x)
<1>1. up[m] \in Seq(Command) /\ up \in [Manager -> Seq(Command)]
  BY TypesOf
<1>2. /\ Append(up[m], c) \in Seq(Command) /\ Append(up[m], c) # <<>>
      /\ ToSet(Append(up[m], c)) = ToSet(up[m]) \cup {c}
  BY <1>1, AppendProperties, InAppend
<1> QED BY <1>1, <1>2 DEF Types

LEMMA RequestsTyped ==
  /\ SnapshotRequest \in Command /\ WellFormed(SnapshotRequest)
  /\ ImportCommand \in Command /\ WellFormed(ImportCommand)
BY Constants DEF SnapshotRequest, ImportCommand, Command, WellFormed, Edits

LEMMA ShowTyped ==
  ASSUME Types, NEW m \in Manager, NEW snap \in Snapshot, NEW cs \in Seq(Command),
         Show(m, snap, cs)
  PROVE  /\ latest' \in [Manager -> Revision \cup {None}] /\ view' \in [Manager -> Graph]
         /\ up' \in [Manager -> Seq(Command)] /\ imported' \subseteq Manager
         /\ \A k \in Manager : \A x \in ToSet(up'[k]) : WellFormed(x)
<1>1. snap.revision \in Revision /\ snap.graph \in Graph
  BY DEF Snapshot
<1>2. Overlay(snap.graph, cs) \in Graph
  BY <1>1, OverlayGraph
<1>3. /\ latest \in [Manager -> Revision \cup {None}] /\ view \in [Manager -> Graph]
      /\ up \in [Manager -> Seq(Command)] /\ imported \subseteq Manager
      /\ \A k \in Manager : \A x \in ToSet(up[k]) : WellFormed(x)
  BY DEF Types, TypeOK
<1>4. CASE Fresh(m, snap) /\ ImportsAt(m, snap)
  <2>1. /\ latest' = [latest EXCEPT ![m] = snap.revision]
        /\ view' = [view EXCEPT ![m] = Overlay(snap.graph, cs)]
        /\ up' = [up EXCEPT ![m] = Append(@, ImportCommand)] /\ imported' = imported \cup {m}
    BY <1>4 DEF Show
  <2>2. /\ up' \in [Manager -> Seq(Command)]
        /\ \A k \in Manager : \A x \in ToSet(up'[k]) : WellFormed(x)
    BY <2>1, AppendToUp, RequestsTyped
  <2> QED BY <1>1, <1>2, <1>3, <2>1, <2>2
<1>5. CASE Fresh(m, snap) /\ ~ImportsAt(m, snap)
  BY <1>1, <1>2, <1>3, <1>5 DEF Show
<1>6. CASE ~Fresh(m, snap)
  BY <1>3, <1>6 DEF Show
<1> QED BY <1>4, <1>5, <1>6

\* The AI's command.
AiEdit(n, v) == [kind |-> "set", node |-> n, value |-> v]

LEMMA AiTyped ==
  ASSUME Types, NEW n \in Node, AiCommand(n)
  PROVE  /\ AiEdit(n, commands') \in Command /\ commands' \in Value
         /\ memory' = Applied(AiEdit(n, commands')) /\ memory' \in Snapshot
         /\ memory'.revision = memory.revision + 1 /\ memory' # memory
<1>1. commands' \in Value
  BY Constants DEF AiCommand, Types, TypeOK, Value
<1>2. AiEdit(n, commands') \in Command
  BY <1>1 DEF AiEdit, Command
<1>3. memory' = Applied(AiEdit(n, commands'))
  BY DEF AiCommand, AiEdit
<1>4. memory \in Snapshot /\ memory.revision \in Nat
  BY DEF Types, TypeOK, Snapshot, Revision
<1>5. memory' \in Snapshot /\ memory'.revision = memory.revision + 1
  BY <1>2, <1>3, <1>4, AppliedSnapshot
<1>6. memory' # memory
  BY <1>4, <1>5
<1> QED BY <1>1, <1>2, <1>3, <1>5, <1>6

\* The server adds messages to what is on its way to the managers.
Grows(more) ==
  /\ more \in [Manager -> Seq(Message)]
  /\ down' \in [Manager -> Seq(Message)]
  /\ \A k \in Manager : down'[k] = down[k] \o more[k]

LEMMA GrowsIn ==
  ASSUME Types, NEW more, Grows(more), NEW k \in Manager
  PROVE  /\ ToSet(down'[k]) = ToSet(down[k]) \cup ToSet(more[k])
         /\ ToSet(more[k]) \subseteq Message
<1>1. down[k] \in Seq(Message) /\ more[k] \in Seq(Message)
  BY TypesOf DEF Grows
<1>2. ToSet(down[k] \o more[k]) = ToSet(down[k]) \cup ToSet(more[k])
  BY <1>1, InConcat
<1>3. ToSet(more[k]) \subseteq Message
  BY <1>1, InPlaces
<1> QED BY <1>2, <1>3 DEF Grows

LEMMA OneElement ==
  ASSUME NEW S, NEW x \in S
  PROVE  <<x>> \in Seq(S) /\ ToSet(<<x>>) = {x}
<1>1. PICK s : s = <<x>>
  OBVIOUS
<1>2. s \in Seq(S) /\ Len(s) = 1 /\ s[1] = x
  BY <1>1
<1>3. \A y : y \in ToSet(s) <=> \E i \in 1..Len(s) : y = s[i]
  BY <1>2, InPlaces
<1>4. 1 \in 1..1 /\ \A i \in 1..1 : i = 1
  OBVIOUS
<1>5. \A y : y \in ToSet(s) <=> y = x
  BY <1>2, <1>3, <1>4
<1> QED BY <1>1, <1>2, <1>5

\* A command that is refused, or only asks, is answered; nothing else changes.
ServeAnswers(m, more) ==
  /\ UNCHANGED <<memory, disk, acked, gap>>
  /\ \A k \in Manager : k # m => more[k] = <<>>
  /\ \E x \in ToSet(more[m]) :
       /\ ToSet(more[m]) = {x}
       /\ x.type = "result" /\ x.id = RequestId(Head(up[m]))
       /\ Carries(x) => x.snap = memory

\* An accepted one is answered, and every manager is told.
ServeAccepts(m, more) ==
  /\ memory' = Applied(Head(up[m])) /\ memory' \in Snapshot
  /\ memory'.revision = memory.revision + 1
  /\ Persist /\ acked' = memory'.revision
  /\ gap' = IF gap = "failed" THEN gap ELSE "none"
  /\ \E x \in ToSet(more[m]) : x.type = "result" /\ x.id = RequestId(Head(up[m]))
  /\ \A k \in Manager : \A x \in ToSet(more[k]) : Carries(x) /\ x.snap = memory'
  /\ \A k \in online : \E x \in ToSet(more[k]) : Carries(x)
  /\ \A k \in Manager \ (online \cup {m}) : more[k] = <<>>

LEMMA ServeEffect ==
  ASSUME Types, NEW m \in Manager, Serve(m)
  PROVE  \E more : Grows(more) /\ (ServeAnswers(m, more) \/ ServeAccepts(m, more))
<1> DEFINE c == Head(up[m])
<1>1. c \in Command /\ memory \in Snapshot /\ down \in [Manager -> Seq(Message)]
  BY HeadOfUp, TypesOf DEF Serve
<1>2. ASSUME NEW ok \in BOOLEAN, NEW snap, Result(c, ok, snap) \in Message,
             Carries(Result(c, ok, snap)) => Result(c, ok, snap).snap = memory,
             down' = Send(down, {m}, <<Result(c, ok, snap)>>),
             UNCHANGED <<memory, disk, acked, gap>>
      PROVE  \E more : Grows(more) /\ ServeAnswers(m, more)
  <2> DEFINE x == Result(c, ok, snap)
             more == [k \in Manager |-> Added({m}, <<x>>, k)]
  <2>1. <<x>> \in Seq(Message) /\ ToSet(<<x>>) = {x}
    BY <1>2, OneElement
  <2>2. Grows(more)
    BY <1>1, <1>2, <2>1, SendAdds DEF Grows
  <2>3. more[m] = <<x>> /\ \A k \in Manager : k # m => more[k] = <<>>
    BY DEF Added
  <2>4. x.type = "result" /\ x.id = RequestId(c)
    BY <1>1, ResultMessage
  <2> HIDE DEF x, more
  <2>5. ServeAnswers(m, more)
    BY <1>2, <2>1, <2>3, <2>4 DEF ServeAnswers, x
  <2> QED BY <2>2, <2>5
<1>3. CASE /\ down' = Send(down, {m}, <<Result(c, FALSE, None)>>)
           /\ UNCHANGED <<memory, disk, acked, gap>>
  BY <1>1, <1>2, <1>3, ResultMessage
<1>4. CASE /\ down' = Send(down, {m}, <<Result(c, TRUE, memory)>>)
           /\ UNCHANGED <<memory, disk, acked, gap>>
  BY <1>1, <1>2, <1>4, ResultMessage
<1>5. CASE /\ memory' = Applied(c) /\ Persist
           /\ down' = Send(Send(down, {m}, <<Result(c, TRUE, memory')>>),
                           online, Broadcast(<<memory'>>))
           /\ acked' = memory'.revision
           /\ gap' = IF gap = "failed" THEN gap ELSE "none"
  <2> DEFINE x == Result(c, TRUE, memory')
             mid == Send(down, {m}, <<x>>)
             cast == Broadcast(<<memory'>>)
             more == [k \in Manager |-> Added({m}, <<x>>, k) \o Added(online, cast, k)]
  <2>1. memory' \in Snapshot /\ memory'.revision = memory.revision + 1
    BY <1>1, <1>5, AppliedSnapshot
  <2>2. /\ x \in Message /\ Carries(x) /\ x.snap = memory'
        /\ x.type = "result" /\ x.id = RequestId(c)
    BY <1>1, <2>1, ResultMessage
  <2>3. <<x>> \in Seq(Message) /\ ToSet(<<x>>) = {x}
    BY <2>2, OneElement
  <2>4. <<memory'>> \in Seq(Snapshot) /\ ToSet(<<memory'>>) = {memory'}
    <3>1. PICK snap \in Snapshot : snap = memory'
      BY <2>1
    <3>2. <<snap>> \in Seq(Snapshot) /\ ToSet(<<snap>>) = {snap}
      BY OneElement
    <3> QED BY <3>1, <3>2
  <2>5. /\ cast \in Seq(Message)
        /\ \A y \in ToSet(cast) : Carries(y) /\ y.snap = memory'
        /\ \E y \in ToSet(cast) : Carries(y)
    BY <2>4, BroadcastMessages
  <2> HIDE DEF x, cast
  <2>6. /\ mid \in [Manager -> Seq(Message)]
        /\ \A k \in Manager : /\ Added({m}, <<x>>, k) \in Seq(Message)
                              /\ mid[k] = down[k] \o Added({m}, <<x>>, k)
    BY <1>1, <2>3, SendAdds
  <2>7. down' = Send(mid, online, cast)
    BY <1>5 DEF x, cast
  <2> HIDE DEF mid
  <2>8. /\ down' \in [Manager -> Seq(Message)]
        /\ \A k \in Manager : /\ Added(online, cast, k) \in Seq(Message)
                              /\ down'[k] = mid[k] \o Added(online, cast, k)
    <3>1. \A ms : /\ Send(mid, ms, cast) \in [Manager -> Seq(Message)]
                  /\ \A k \in Manager :
                       /\ Added(ms, cast, k) \in Seq(Message)
                       /\ Send(mid, ms, cast)[k] = mid[k] \o Added(ms, cast, k)
      <4>1. PICK queues \in [Manager -> Seq(Message)], msgs \in Seq(Message) : queues = mid /\ msgs = cast
        BY <2>5, <2>6
      <4>2. \A ms : /\ Send(queues, ms, msgs) \in [Manager -> Seq(Message)]
                    /\ \A k \in Manager :
                         /\ Added(ms, msgs, k) \in Seq(Message)
                         /\ Send(queues, ms, msgs)[k] = queues[k] \o Added(ms, msgs, k)
        BY SendAdds
      <4> QED BY <4>1, <4>2
    <3> QED BY <2>7, <3>1
  <2>9. ASSUME NEW k \in Manager
        PROVE  /\ more[k] \in Seq(Message) /\ down'[k] = down[k] \o more[k]
               /\ ToSet(more[k]) = ToSet(Added({m}, <<x>>, k)) \cup ToSet(Added(online, cast, k))
    <3> DEFINE a == Added({m}, <<x>>, k)
               b == Added(online, cast, k)
    <3>1. down[k] \in Seq(Message) /\ a \in Seq(Message) /\ b \in Seq(Message)
      BY <1>1, <2>6, <2>8
    <3>2. down'[k] = (down[k] \o a) \o b /\ more[k] = a \o b
      BY <2>6, <2>8
    <3> HIDE DEF a, b, more
    <3>3. (down[k] \o a) \o b = down[k] \o (a \o b)
      <4>1. \A p, q, r \in Seq(Message) : (p \o q) \o r = p \o (q \o r)
        BY ConcatAssociative
      <4> QED BY <3>1, <4>1, Zenon
    <3>4. a \o b \in Seq(Message) /\ ToSet(a \o b) = ToSet(a) \cup ToSet(b)
      BY <3>1, ConcatProperties, InConcat
    <3> QED BY <3>2, <3>3, <3>4 DEF a, b
  <2>10. Grows(more)
    BY <2>8, <2>9 DEF Grows
  <2>11. ToSet(<<>>) = {} /\ <<>> \o <<>> = <<>>
    <3>1. <<>> \in Seq(Message)
      BY EmptySeq
    <3> QED BY <3>1, InPlaces, ConcatEmptySeq
  <2>12. /\ x \in ToSet(more[m])
         /\ \A k \in Manager : \A y \in ToSet(more[k]) : y = x \/ y \in ToSet(cast)
         /\ \A k \in online : k \in Manager /\ ToSet(cast) \subseteq ToSet(more[k])
         /\ \A k \in Manager \ (online \cup {m}) : more[k] = <<>>
    <3>1. online \subseteq Manager
      BY DEF Types, TypeOK
    <3> QED BY <2>3, <2>9, <2>11, <3>1 DEF Added
  <2> HIDE DEF more
  <2>13. ServeAccepts(m, more)
    BY <1>5, <2>1, <2>2, <2>5, <2>12 DEF ServeAccepts
  <2> QED BY <2>10, <2>13
<1> QED BY <1>3, <1>4, <1>5 DEF Serve

\* The snapshots of the turns, and of the last one, go to every manager.
BroadcastsAll(more, snaps) ==
  /\ \A k \in online : \A x \in ToSet(more[k]) :
       x.type = "snapshot" /\ Carries(x) /\ x.snap \in snaps
  /\ \A k \in online : \A s \in snaps : \E x \in ToSet(more[k]) : Carries(x) /\ x.snap = s
  /\ \A k \in Manager \ online : more[k] = <<>>

LEMMA RunEndsEffect ==
  ASSUME Types, AiRunEnds
  PROVE  /\ \/ (\E n \in Node : AiCommand(n)) /\ Persist
            \/ held # <<>> /\ UNCHANGED <<memory, disk, commands>>
         /\ memory' \in Snapshot /\ ToSet(held) \subseteq Snapshot
         /\ \E more : /\ Grows(more)
                      /\ BroadcastsAll(more, IF memory' = memory THEN ToSet(held)
                                             ELSE ToSet(held) \cup {memory'})
<1> DEFINE snaps == IF memory' = memory THEN held ELSE Append(held, memory')
           more == [k \in Manager |-> Added(online, Broadcast(snaps), k)]
<1>1. /\ held \in Seq(Snapshot) /\ memory \in Snapshot
      /\ down \in [Manager -> Seq(Message)]
  BY DEF Types, TypeOK
<1>2. \/ (\E n \in Node : AiCommand(n)) /\ Persist
      \/ held # <<>> /\ UNCHANGED <<memory, disk, commands>>
  BY DEF AiRunEnds
<1>3. memory' \in Snapshot
  BY <1>1, <1>2, AiTyped
<1>4. /\ snaps \in Seq(Snapshot)
      /\ ToSet(snaps) = IF memory' = memory THEN ToSet(held) ELSE ToSet(held) \cup {memory'}
  <2>1. CASE memory' = memory
    BY <1>1, <2>1
  <2>2. CASE memory' # memory
    BY <1>1, <1>3, <2>2, AppendProperties, InAppend
  <2> QED BY <2>1, <2>2
<1>5. down' = Send(down, online, Broadcast(snaps))
  BY DEF AiRunEnds
<1> HIDE DEF snaps
<1>6. /\ Broadcast(snaps) \in Seq(Message)
      /\ \A x \in ToSet(Broadcast(snaps)) :
           x.type = "snapshot" /\ Carries(x) /\ x.snap \in ToSet(snaps)
      /\ \A s \in ToSet(snaps) : \E x \in ToSet(Broadcast(snaps)) : Carries(x) /\ x.snap = s
  BY <1>4, BroadcastMessages
<1>7. Grows(more)
  BY <1>1, <1>5, <1>6, SendAdds DEF Grows
<1>8. BroadcastsAll(more, ToSet(snaps))
  <2>1. online \subseteq Manager
    BY DEF Types, TypeOK
  <2> QED BY <1>6, <2>1 DEF BroadcastsAll, Added
<1>9. ToSet(held) \subseteq Snapshot
  BY <1>1, InPlaces
<1> HIDE DEF more
<1>10. BroadcastsAll(more, IF memory' = memory THEN ToSet(held) ELSE ToSet(held) \cup {memory'})
  BY <1>4, <1>8
<1> QED BY <1>2, <1>3, <1>7, <1>9, <1>10

\* An edit changes the copy; when connected it is also sent and tracked.
LEMMA EditEffect ==
  ASSUME Types, NEW m \in Manager, NEW c \in Command, c.kind \in Edits, c.node \in Node,
         Edit(m, c)
  PROVE  /\ view' \in [Manager -> Graph] /\ view'[m] = Apply(view[m], c)
         /\ \A k \in Manager : k # m => view'[k] = view[k]
         /\ up' \in [Manager -> Seq(Command)] /\ pending' \in [Manager -> Seq(Command)]
         /\ \A k \in Manager : k # m => up'[k] = up[k] /\ pending'[k] = pending[k]
         /\ m \in online =>
              /\ up'[m] # <<>> /\ ToSet(up'[m]) = ToSet(up[m]) \cup {c}
              /\ pending'[m] = Track(pending[m], c)
         /\ m \notin online => UNCHANGED <<up, pending>> /\ c.kind = "set"
         /\ \A k \in Manager : \A x \in ToSet(up'[k]) : WellFormed(x)
         /\ \A k \in Manager : \A x \in ToSet(pending'[k]) : x.kind \in Edits /\ WellFormed(x)
<1>1. /\ view \in [Manager -> Graph] /\ pending \in [Manager -> Seq(Command)]
      /\ up \in [Manager -> Seq(Command)]
      /\ \A k \in Manager : \A x \in ToSet(up[k]) : WellFormed(x)
      /\ \A k \in Manager : \A x \in ToSet(pending[k]) : x.kind \in Edits /\ WellFormed(x)
  BY DEF Types, TypeOK
<1>2. WellFormed(c)
  BY DEF WellFormed
<1>3. Apply(view[m], c) \in Graph
  BY <1>1, ApplyGraph
<1>4. view' = [view EXCEPT ![m] = Apply(@, c)]
  BY DEF Edit
<1>5. CASE m \in online
  <2>1. up' = [up EXCEPT ![m] = Append(@, c)] /\ pending' = [pending EXCEPT ![m] = Track(@, c)]
    BY <1>5 DEF Edit
  <2>2. /\ Track(pending[m], c) \in Seq(Command)
        /\ \A x \in ToSet(Track(pending[m], c)) : x = c \/ x \in ToSet(pending[m])
    BY <1>1, TrackEffect
  <2>3. /\ up' \in [Manager -> Seq(Command)] /\ up'[m] # <<>>
        /\ ToSet(up'[m]) = ToSet(up[m]) \cup {c}
        /\ \A k \in Manager : k # m => up'[k] = up[k]
        /\ \A k \in Manager : \A x \in ToSet(up'[k]) : WellFormed(x)
    BY <1>2, <2>1, AppendToUp
  <2>4. /\ pending' \in [Manager -> Seq(Command)] /\ pending'[m] = Track(pending[m], c)
        /\ \A k \in Manager : k # m => pending'[k] = pending[k]
    BY <1>1, <2>1, <2>2
  <2>5. \A k \in Manager : \A x \in ToSet(pending'[k]) : x.kind \in Edits /\ WellFormed(x)
    BY <1>1, <1>2, <2>2, <2>4
  <2> QED BY <1>1, <1>3, <1>4, <1>5, <2>3, <2>4, <2>5
<1>6. CASE m \notin online
  BY <1>1, <1>3, <1>4, <1>6 DEF Edit
<1> QED BY <1>5, <1>6

\* The commands of AddNode and ChangeNode.
LEMMA EditCommand ==
  ASSUME Types, NEW n \in Node, NEW k \in Edits, commands < MaxCommands
  PROVE  [kind |-> k, node |-> n, value |-> commands + 1] \in Command
<1>1. commands + 1 \in Value
  BY Constants DEF Types, TypeOK, Value
<1> QED BY <1>1 DEF Command, Edits

EditStep(m, c) ==
  /\ c \in Command /\ c.kind \in Edits /\ c.node \in Node /\ Edit(m, c)
  /\ \/ c.kind = "add" /\ c.node \notin used /\ used' = used \cup {c.node}
     \/ c.kind # "add" /\ view[m][c.node] # None /\ used' = used

LEMMA EditSteps ==
  ASSUME Types, NEW m \in Manager, NEW n \in Node,
         AddNode(m, n) \/ \E k \in {"set", "remove"} : ChangeNode(m, n, k)
  PROVE  \E c : EditStep(m, c)
<1>1. CASE AddNode(m, n)
  <2> DEFINE c == [kind |-> "add", node |-> n, value |-> commands + 1]
  <2>1. Edit(m, c) /\ n \notin used /\ used' = used \cup {n} /\ commands < MaxCommands
    BY <1>1 DEF AddNode, Edit
  <2>2. c \in Command /\ c.kind = "add" /\ c.node = n
    BY <2>1, EditCommand DEF Edits
  <2> HIDE DEF c
  <2>3. EditStep(m, c)
    BY <2>1, <2>2 DEF EditStep, Edits
  <2> QED BY <2>3
<1>2. ASSUME NEW k \in {"set", "remove"}, ChangeNode(m, n, k)
      PROVE  \E c : EditStep(m, c)
  <2> DEFINE c == [kind |-> k, node |-> n, value |-> commands + 1]
  <2>1. Edit(m, c) /\ view[m][n] # None /\ used' = used /\ commands < MaxCommands
    BY <1>2 DEF ChangeNode, Edit
  <2>2. c \in Command /\ c.kind = k /\ c.node = n
    BY <2>1, EditCommand DEF Edits
  <2> HIDE DEF c
  <2>3. EditStep(m, c)
    BY <2>1, <2>2 DEF EditStep, Edits
  <2> QED BY <2>3
<1> QED BY <1>1, <1>2

\* A message arrives: a rejected command asks for the graph again, everything
\* else shows the graph it brings under what is still pending.
Arrives(m, x) ==
  /\ down[m] # <<>> /\ x = Head(down[m]) /\ x \in Message
  /\ down' = [down EXCEPT ![m] = Tail(@)]
  /\ pending' \in [Manager -> Seq(Command)]
  /\ \A k \in Manager : k # m => pending'[k] = pending[k]
  /\ pending'[m] = IF x.type = "result" THEN Settle(pending[m], x.id, x.ok) ELSE pending[m]
  /\ \/ Carries(x) /\ Show(m, x.snap, pending'[m])
     \/ Rejects(x) /\ up' = [up EXCEPT ![m] = Append(@, SnapshotRequest)]
                   /\ UNCHANGED <<latest, view, imported>>
  /\ UNCHANGED <<serverVars, online, used, commands, outages>>

LEMMA ReceiveEffect ==
  ASSUME Types, NEW m \in Manager, ReceiveSnapshot(m) \/ ReceiveResult(m)
  PROVE  Arrives(m, Head(down[m]))
<1>1. pending \in [Manager -> Seq(Command)]
  BY DEF Types, TypeOK
<1>2. CASE ReceiveSnapshot(m)
  <2>1. /\ down[m] # <<>> /\ Head(down[m]).type = "snapshot"
        /\ down' = [down EXCEPT ![m] = Tail(@)] /\ pending' = pending
        /\ Show(m, Head(down[m]).snap, pending[m])
        /\ UNCHANGED <<serverVars, online, used, commands, outages>>
    BY <1>2 DEF ReceiveSnapshot
  <2>2. Head(down[m]) \in Message
    BY <2>1, HeadOfDown
  <2>3. Carries(Head(down[m]))
    BY <2>1 DEF Carries
  <2> QED BY <1>1, <2>1, <2>2, <2>3 DEF Arrives
<1>3. CASE ReceiveResult(m)
  <2> DEFINE r == Head(down[m])
  <2>1. /\ down[m] # <<>> /\ r.type = "result" /\ down' = [down EXCEPT ![m] = Tail(@)]
        /\ pending' = [pending EXCEPT ![m] = Settle(@, r.id, r.ok)]
        /\ UNCHANGED <<serverVars, online, used, commands, outages>>
    BY <1>3 DEF ReceiveResult
  <2>2. \/ r.ok /\ Show(m, r.snap, pending'[m])
        \/ ~r.ok /\ up' = [up EXCEPT ![m] = Append(@, SnapshotRequest)]
                 /\ UNCHANGED <<latest, view, imported>>
    BY <1>3 DEF ReceiveResult
  <2>3. r \in Message
    BY <2>1, HeadOfDown
  <2> HIDE DEF r
  <2>4. Settle(pending[m], r.id, r.ok) \in Seq(Command)
    BY <1>1, SettleEffect
  <2>5. /\ pending' \in [Manager -> Seq(Command)]
        /\ \A k \in Manager : k # m => pending'[k] = pending[k]
        /\ pending'[m] = Settle(pending[m], r.id, r.ok)
    BY <1>1, <2>1, <2>4
  <2>6. \/ Carries(r) /\ Show(m, r.snap, pending'[m])
        \/ Rejects(r) /\ up' = [up EXCEPT ![m] = Append(@, SnapshotRequest)]
                      /\ UNCHANGED <<latest, view, imported>>
    BY <2>1, <2>2 DEF Carries, Rejects
  <2> QED BY <2>1, <2>3, <2>5, <2>6 DEF Arrives, r
<1> QED BY <1>2, <1>3

LEMMA ArrivesTyped ==
  ASSUME Types, NEW m \in Manager, NEW x, Arrives(m, x)
  PROVE  Types'
<1>1. /\ down[m] # <<>> /\ down' = [down EXCEPT ![m] = Tail(@)]
      /\ pending' \in [Manager -> Seq(Command)] /\ x \in Message
      /\ \A k \in Manager : k # m => pending'[k] = pending[k]
      /\ pending'[m] \in Seq(Command)
      /\ UNCHANGED <<serverVars, online, used, commands, outages>>
  BY DEF Arrives
<1>2. ToSet(pending'[m]) \subseteq ToSet(pending[m])
  BY SettleEffect, TypesOf DEF Arrives
<1>3. down' \in [Manager -> Seq(Message)]
  BY <1>1, HeadOfDown
<1>4. /\ latest' \in [Manager -> Revision \cup {None}] /\ view' \in [Manager -> Graph]
      /\ up' \in [Manager -> Seq(Command)] /\ imported' \subseteq Manager
      /\ \A k \in Manager : \A y \in ToSet(up'[k]) : WellFormed(y)
  <2>1. CASE Carries(x) /\ Show(m, x.snap, pending'[m])
    <3>1. x.snap \in Snapshot
      BY <1>1, <2>1, MessageKinds
    <3> QED BY <1>1, <2>1, <3>1, ShowTyped
  <2>2. CASE Rejects(x) /\ up' = [up EXCEPT ![m] = Append(@, SnapshotRequest)]
                        /\ UNCHANGED <<latest, view, imported>>
    BY <2>2, AppendToUp, RequestsTyped DEF Types, TypeOK
  <2> QED BY <2>1, <2>2 DEF Arrives
<1>5. \A k \in Manager : \A c \in ToSet(pending'[k]) : c.kind \in Edits /\ WellFormed(c)
  BY <1>1, <1>2 DEF Types
<1> QED BY <1>1, <1>3, <1>4, <1>5 DEF Types, TypeOK, serverVars

LEMMA NextTypes == Types /\ [Next]_vars => Types'
<1> SUFFICES ASSUME Types, [Next]_vars PROVE Types'
  OBVIOUS
<1> USE DEF serverVars, netVars, managerVars
<1>1. ASSUME NEW m \in Manager, Serve(m) PROVE Types'
  <2>1. PICK more : Grows(more) /\ (ServeAnswers(m, more) \/ ServeAccepts(m, more))
    BY <1>1, ServeEffect
  <2>2. down' \in [Manager -> Seq(Message)]
    BY <2>1 DEF Grows
  <2>3. /\ up' = [up EXCEPT ![m] = Tail(@)] /\ up[m] # <<>>
        /\ UNCHANGED <<held, online, managerVars, used, commands, outages>>
    BY <1>1 DEF Serve
  <2>4. up' \in [Manager -> Seq(Command)] /\ \A k \in Manager : ToSet(up'[k]) \subseteq ToSet(up[k])
    BY <2>3, HeadOfUp
  <2>5. /\ memory' \in Snapshot /\ disk' \in Snapshot /\ acked' \in Revision
        /\ gap' \in {"none", "superseded", "failed"}
    <3>1. CASE ServeAnswers(m, more)
      BY <3>1 DEF ServeAnswers, Types, TypeOK
    <3>2. CASE ServeAccepts(m, more)
      BY <3>2 DEF ServeAccepts, Persist, Snapshot, Types, TypeOK
    <3> QED BY <2>1, <3>1, <3>2
  <2> QED BY <2>2, <2>3, <2>4, <2>5 DEF Types, TypeOK
<1>2. ASSUME NEW m \in Manager, ServeFails(m) PROVE Types'
  <2>1. /\ up[m] # <<>> /\ up' = [up EXCEPT ![m] = Tail(@)] /\ memory' = Applied(Head(up[m]))
        /\ gap' = "failed"
        /\ UNCHANGED <<disk, held, acked, online, down, managerVars, used, commands, outages>>
    BY <1>2 DEF ServeFails
  <2>2. /\ up' \in [Manager -> Seq(Command)] /\ Head(up[m]) \in Command
        /\ \A k \in Manager : ToSet(up'[k]) \subseteq ToSet(up[k])
    BY <2>1, HeadOfUp
  <2>3. memory' \in Snapshot
    BY <2>1, <2>2, AppliedSnapshot DEF Types, TypeOK
  <2> QED BY <2>1, <2>2, <2>3 DEF Types, TypeOK
<1>3. ASSUME NEW m \in Manager, Connect(m) PROVE Types'
  <2>1. <<SnapshotRequest>> \in Seq(Command) /\ ToSet(<<SnapshotRequest>>) = {SnapshotRequest}
    <3>1. <<SnapshotRequest>> \in Seq(Command) /\ Len(<<SnapshotRequest>>) = 1
      BY RequestsTyped
    <3>2. \A y : y \in ToSet(<<SnapshotRequest>>) <=> \E i \in 1..1 : y = <<SnapshotRequest>>[i]
      BY <3>1, InPlaces
    <3> QED BY <3>1, <3>2
  <2>2. <<>> \in Seq(Command) /\ ToSet(<<>>) = {}
    BY EmptySeq, InPlaces
  <2> QED BY <1>3, <2>1, <2>2, RequestsTyped DEF Connect, ForgetLatest, Types, TypeOK
<1>4. ASSUME NEW m \in Manager, Cut(m) PROVE Types'
  <2>1. <<>> \in Seq(Command) /\ <<>> \in Seq(Message) /\ ToSet(<<>>) = {}
    BY EmptySeq, InPlaces
  <2>2. outages' \in 0..MaxOutages
    BY <1>4, Constants DEF Cut, Types, TypeOK
  <2> QED BY <1>4, <2>1, <2>2 DEF Cut, Types, TypeOK
<1>5. ASSUME NEW m \in Manager, ReceiveSnapshot(m) \/ ReceiveResult(m) PROVE Types'
  BY <1>5, ReceiveEffect, ArrivesTyped
<1>6. ASSUME NEW m \in Manager, Expire(m) PROVE Types'
  <2>1. pending' = [pending EXCEPT ![m] = pending'[m]] /\ pending'[m] \in Seq(Command)
        /\ ToSet(pending'[m]) \subseteq ToSet(pending[m])
    BY <1>6, ExpireEffect, TypesOf
  <2>2. /\ pending' \in [Manager -> Seq(Command)]
        /\ \A k \in Manager : ToSet(pending'[k]) \subseteq ToSet(pending[k])
    BY <2>1 DEF Types, TypeOK
  <2> QED BY <1>6, <2>2 DEF Expire, Types, TypeOK
<1>7. ASSUME NEW m \in Manager, NEW n \in Node,
             AddNode(m, n) \/ \E k \in {"set", "remove"} : ChangeNode(m, n, k)
      PROVE  Types'
  <2>1. PICK c : EditStep(m, c)
    BY <1>7, EditSteps
  <2>2. commands' \in Value /\ used' \subseteq Node
        /\ UNCHANGED <<serverVars, online, down, latest, imported, outages>>
    BY <2>1, Constants DEF EditStep, Edit, Types, TypeOK, Value
  <2> QED BY <2>1, <2>2, EditEffect DEF EditStep, Types, TypeOK
<1>8. ASSUME NEW n \in Node, AiTurn(n) PROVE Types'
  <2>1. /\ memory' \in Snapshot /\ commands' \in Value /\ disk' = memory'
        /\ held' = Append(held, memory') /\ Len(held) < Turns - 1
        /\ UNCHANGED <<acked, gap, netVars, managerVars, used, outages>>
    BY <1>8, AiTyped DEF AiTurn, MoreTurns, Persist
  <2>2. held' \in Seq(Snapshot) /\ Len(held') = Len(held) + 1
    BY <2>1, AppendProperties DEF Types, TypeOK
  <2>3. Len(held') < Turns
    BY <2>1, <2>2, Constants, LenProperties DEF Types, TypeOK
  <2> QED BY <2>1, <2>2, <2>3 DEF Types, TypeOK
<1>9. CASE AiRunEnds
  <2>1. PICK more : Grows(more)
    BY <1>9, RunEndsEffect
  <2>2. memory' \in Snapshot /\ disk' \in Snapshot /\ commands' \in Value
    BY <1>9, RunEndsEffect, AiTyped DEF Persist, Types, TypeOK
  <2>3. <<>> \in Seq(Snapshot) /\ Len(<<>>) = 0 /\ 0 < Turns
    BY EmptySeq, Constants
  <2>4. /\ held' = <<>> /\ gap' = IF gap = "failed" THEN gap ELSE "none"
        /\ UNCHANGED <<acked, online, up, managerVars, used, outages>>
    BY <1>9 DEF AiRunEnds
  <2> QED BY <2>1, <2>2, <2>3, <2>4 DEF Grows, Types, TypeOK
<1>10. CASE AiFails
  <2>1. memory' \in Snapshot /\ commands' \in Value
    BY <1>10, AiTyped DEF AiFails
  <2>2. <<>> \in Seq(Snapshot) /\ Len(<<>>) = 0 /\ 0 < Turns
    BY EmptySeq, Constants
  <2> QED BY <1>10, <2>1, <2>2 DEF AiFails, Types, TypeOK
<1>11. CASE AiSuperseded
  <2>1. <<>> \in Seq(Snapshot) /\ Len(<<>>) = 0 /\ 0 < Turns
    BY EmptySeq, Constants
  <2> QED BY <1>11, <2>1 DEF AiSuperseded, Types, TypeOK
<1>12. CASE ServerRestart
  <2>1. /\ <<>> \in Seq(Snapshot) /\ <<>> \in Seq(Message) /\ <<>> \in Seq(Command)
        /\ Len(<<>>) = 0 /\ 0 < Turns
    BY EmptySeq, Constants
  <2>3. ToSet(<<>>) = {}
    BY <2>1, InPlaces
  <2>2. outages' \in 0..MaxOutages
    BY <1>12, Constants DEF ServerRestart, Types, TypeOK
  <2> QED BY <1>12, <2>1, <2>2, <2>3 DEF ServerRestart, Types, TypeOK
<1>13. CASE UNCHANGED vars
  BY <1>13 DEF vars, Types, TypeOK
<1> QED BY <1>1, <1>2, <1>3, <1>4, <1>5, <1>6, <1>7, <1>8, <1>9, <1>10, <1>11, <1>12, <1>13
        DEF Next

\* Type correctness, whatever is edited, lost, restarted or not written.
THEOREM TypeCorrect == Spec => []TypeOK
<1>1. Types => TypeOK
  BY DEF Types
<1> QED BY <1>1, InitTypes, NextTypes, PTL DEF Spec

-----------------------------------------------------------------------------
(* The inductive invariant *)

\* Nothing is under way to or from a manager that is not connected.
AwayInv == \A m \in Manager \ online : up[m] = <<>> /\ down[m] = <<>>

\* A node that nobody has made is in no graph and in no command.
UsedInv ==
  /\ Project \subseteq used
  /\ \A n \in Node \ used :
       /\ memory.graph[n] = None /\ disk.graph[n] = None
       /\ \A s \in ToSet(held) : s.graph[n] = None
       /\ \A m \in Manager :
            /\ view[m][n] = None
            /\ \A x \in ToSet(down[m]) : Carries(x) => x.snap.graph[n] = None
            /\ \A c \in ToSet(up[m]) \cup ToSet(pending[m]) : c.node # n

\* No two pending commands have one request id, and a node that is removed by
\* a pending command is not shown and not added again.
Distinct(cs) ==
  \A i, j \in 1..Len(cs) : i < j => RequestId(cs[i]) # RequestId(cs[j])

Removals(cs, g) ==
  \A i \in 1..Len(cs) : cs[i].kind = "remove" =>
    /\ g[cs[i].node] = None
    /\ \A j \in 1..Len(cs) : i < j /\ cs[j].kind = "add" => cs[j].node # cs[i].node

PendingInv == \A m \in Manager : Distinct(pending[m]) /\ Removals(pending[m], view[m])

\* No snapshot is newer than the server's graph, and a result is never older
\* than what was sent or shown before it; broadcasts of an AI run may be.
Known(s, mem) == s.revision <= mem.revision /\ (s.revision = mem.revision => s = mem)

Ordered(q, mem, shown) ==
  /\ \A x \in ToSet(q) : Carries(x) =>
       /\ Known(x.snap, mem)
       /\ x.type = "result" /\ shown # None => shown <= x.snap.revision
  /\ \A i, j \in 1..Len(q) :
       i < j /\ Carries(q[i]) /\ Carries(q[j]) /\ q[j].type = "result"
       => q[i].snap.revision <= q[j].snap.revision

SnapInv ==
  /\ \A s \in ToSet(held) : Known(s, memory)
  /\ \A m \in online : latest[m] # None => latest[m] <= memory.revision
  /\ \A m \in Manager : Ordered(down[m], memory, latest[m])

\* A pending command, or its result, is under way.
Answered(m, id) ==
  \/ \E c \in ToSet(up[m]) : RequestId(c) = id
  \/ \E x \in ToSet(down[m]) : x.type = "result" /\ x.id = id

WayInv ==
  gap # "failed" =>
    \A m \in online : \A c \in ToSet(pending[m]) : Answered(m, RequestId(c))

\* A manager shows the server's graph, or will: the graph is on its way or held
\* by the AI run, or an answer that brings it is.
Covered(m) ==
  \/ up[m] # <<>>
  \/ \E x \in ToSet(down[m]) : Rejects(x)
  \/ \E x \in ToSet(down[m]) : Carries(x) /\ x.snap = memory
  \/ memory \in ToSet(held)
  \/ latest[m] = memory.revision /\ view[m] = memory.graph

\* The newest revision was broadcast, or will be when the AI run ends.
Broadcasting == gap = "none" \/ (gap = "superseded" /\ held # <<>>)

CoverInv == Broadcasting => \A m \in online : Covered(m)

Inv == Types /\ AwayInv /\ UsedInv /\ PendingInv /\ SnapInv /\ WayInv /\ CoverInv

LEMMA Nothing ==
  /\ \A S : <<>> \in Seq(S)
  /\ Len(<<>>) = 0 /\ ToSet(<<>>) = {}
<1>1. \A S : <<>> \in Seq(S) /\ Len(<<>>) = 0
  BY EmptySeq
<1> QED BY <1>1, InPlaces

LEMMA InitInv == Init => Inv
<1> SUFFICES ASSUME Init PROVE Inv
  OBVIOUS
<1>1. Types
  BY InitTypes
<1>2. AwayInv /\ CoverInv /\ WayInv
  BY Nothing DEF Init, AwayInv, CoverInv, WayInv
<1>3. UsedInv
  BY Nothing, Constants DEF Init, UsedInv
<1>4. PendingInv
  BY Nothing DEF Init, PendingInv, Distinct, Removals
<1>5. SnapInv
  BY Nothing DEF Init, SnapInv, Ordered
<1> QED BY <1>1, <1>2, <1>3, <1>4, <1>5 DEF Inv

-----------------------------------------------------------------------------
(* What the parts of the invariant are kept by *)

LEMMA DistinctLeft ==
  ASSUME NEW cs \in Seq(Command), NEW left \in Seq(Command), NEW i \in 1..Len(cs),
         LeavesOut(left, cs, i), Distinct(cs)
  PROVE  /\ Distinct(left)
         /\ \A x \in ToSet(left) : RequestId(x) # RequestId(cs[i])
         /\ \A g : Removals(cs, g) => Removals(left, g)
<1>1. Len(cs) \in Nat /\ Len(left) = Len(cs) - 1
  BY LenProperties DEF LeavesOut
<1> DEFINE old(j) == IF j < i THEN j ELSE j + 1
<1>2. \A j \in 1..Len(left) : /\ old(j) \in 1..Len(cs) /\ old(j) # i
                              /\ left[j] = cs[old(j)]
  BY <1>1 DEF LeavesOut
<1>3. \A j, k \in 1..Len(left) : j < k => old(j) < old(k)
  BY <1>1
<1>4. \A j, k \in 1..Len(cs) : j # k => RequestId(cs[j]) # RequestId(cs[k])
  <2>1. \A j, k \in 1..Len(cs) : j # k => j < k \/ k < j
    BY <1>1
  <2> QED BY <2>1 DEF Distinct
<1> HIDE DEF old
<1>5. Distinct(left)
  BY <1>2, <1>3 DEF Distinct
<1>6. \A x \in ToSet(left) : RequestId(x) # RequestId(cs[i])
  <2>1. \A x \in ToSet(left) : \E j \in 1..Len(left) : x = left[j]
    BY InPlaces
  <2> QED BY <1>2, <1>4, <2>1
<1>7. ASSUME NEW g, Removals(cs, g) PROVE Removals(left, g)
  <2>1. ASSUME NEW j \in 1..Len(left), left[j].kind = "remove"
        PROVE  g[left[j].node] = None
    BY <1>2, <1>7, <2>1 DEF Removals
  <2>2. ASSUME NEW j \in 1..Len(left), left[j].kind = "remove",
               NEW k \in 1..Len(left), j < k, left[k].kind = "add"
        PROVE  left[k].node # left[j].node
    <3>1. /\ left[j] = cs[old(j)] /\ left[k] = cs[old(k)] /\ old(j) < old(k)
          /\ old(j) \in 1..Len(cs) /\ old(k) \in 1..Len(cs)
      BY <1>2, <1>3, <2>2
    <3> QED BY <1>7, <2>2, <3>1 DEF Removals
  <2> QED BY <2>1, <2>2 DEF Removals
<1> QED BY <1>5, <1>6, <1>7

\* What stays pending over a snapshot hides the nodes it removes.
LEMMA RemovalsOver ==
  ASSUME NEW cs \in Seq(Command), NEW g \in Graph, NEW h, Removals(cs, h),
         \A c \in ToSet(cs) : c.kind \in Edits /\ WellFormed(c)
  PROVE  Removals(cs, Overlay(g, cs))
<1>1. Len(cs) \in Nat /\ \A i \in 1..Len(cs) : cs[i] \in ToSet(cs)
  BY LenProperties, InPlaces
<1>2. ASSUME NEW i \in 1..Len(cs), cs[i].kind = "remove"
      PROVE  Overlay(g, cs)[cs[i].node] = None
  <2>1. i \in 0..Len(cs) /\ i # 0 /\ cs[i].node \in Node
    BY <1>1, <1>2 DEF WellFormed
  <2>2. \A j \in (i + 1)..Len(cs) : j \in 1..Len(cs) /\ i < j
    BY <1>1
  <2>3. \A j \in (i + 1)..Len(cs) :
          cs[j].kind # "replace" /\ (cs[j].kind = "add" => cs[j].node # cs[i].node)
    BY <1>1, <1>2, <2>2 DEF Removals, Edits
  <2> QED BY <1>2, <2>1, <2>3, OverlayOut
<1> QED BY <1>2 DEF Removals

\* A tracked edit keeps request ids apart and removed nodes out.
LEMMA TrackedApart ==
  ASSUME NEW cs \in Seq(Command), NEW c \in Command, NEW g \in Graph,
         Distinct(cs), Removals(cs, g),
         \A x \in ToSet(cs) : x.kind \in Edits /\ WellFormed(x),
         c.kind \in Edits, c.node \in Node,
         c.kind = "add" => \A x \in ToSet(cs) : x.node # c.node,
         c.kind # "add" => g[c.node] # None
  PROVE  Distinct(Track(cs, c)) /\ Removals(Track(cs, c), Apply(g, c))
<1> DEFINE ts == Track(cs, c)
<1>1. /\ Len(cs) \in Nat /\ \A i \in 1..Len(cs) : cs[i] \in ToSet(cs)
  BY LenProperties, InPlaces
<1>2. ASSUME NEW i \in 1..Len(cs), cs[i].kind = "remove"
      PROVE  cs[i].node \in Node /\ Apply(g, c)[cs[i].node] = None
  BY <1>1, <1>2, ApplyKeepsOut DEF WellFormed, Removals, Edits
<1>3. CASE /\ Len(ts) = Len(cs) + 1
           /\ \A i \in 1..Len(cs) : ts[i] = cs[i]
           /\ ts[Len(cs) + 1] = c
           /\ c.kind = "set" => \A i \in 1..Len(cs) : RequestId(cs[i]) # RequestId(c)
  <2>1. \A i \in 1..Len(ts) : i = Len(cs) + 1 \/ i \in 1..Len(cs)
    BY <1>1, <1>3
  <2>2. \A i \in 1..Len(cs) : RequestId(cs[i]) # RequestId(c)
    <3>1. ASSUME NEW i \in 1..Len(cs), RequestId(cs[i]) = RequestId(c) PROVE FALSE
      <4>1. cs[i].kind = c.kind /\ cs[i].node = c.node
        BY <3>1 DEF RequestId
      <4>2. CASE c.kind = "set"
        BY <1>3, <3>1, <4>2
      <4>3. CASE c.kind = "add"
        BY <1>1, <4>1, <4>3
      <4>4. CASE c.kind = "remove"
        BY <4>1, <4>4 DEF Removals
      <4> QED BY <4>2, <4>3, <4>4 DEF Edits
    <3> QED BY <3>1
  <2>3. Distinct(ts)
    <3> SUFFICES ASSUME NEW i \in 1..Len(ts), NEW j \in 1..Len(ts), i < j
                 PROVE  RequestId(ts[i]) # RequestId(ts[j])
      BY DEF Distinct
    <3>1. i \in 1..Len(cs)
      BY <1>1, <1>3
    <3> HIDE DEF ts
    <3> QED BY <1>3, <2>1, <2>2, <3>1 DEF Distinct
  <2>4. Removals(ts, Apply(g, c))
    <3> SUFFICES ASSUME NEW i \in 1..Len(ts), ts[i].kind = "remove"
                 PROVE  /\ Apply(g, c)[ts[i].node] = None
                        /\ \A j \in 1..Len(ts) : i < j /\ ts[j].kind = "add" =>
                             ts[j].node # ts[i].node
      BY DEF Removals
    <3>1. Apply(g, c)[ts[i].node] = None
      <4>1. CASE i = Len(cs) + 1
        BY <1>3, <4>1, ApplyRemoves
      <4>2. CASE i \in 1..Len(cs)
        BY <1>2, <1>3, <4>2
      <4> QED BY <2>1, <4>1, <4>2
    <3>2. ASSUME NEW j \in 1..Len(ts), i < j, ts[j].kind = "add"
          PROVE  ts[j].node # ts[i].node
      <4>1. i \in 1..Len(cs) /\ ts[i] = cs[i]
        BY <1>1, <1>3, <3>2
      <4>2. CASE j = Len(cs) + 1
        BY <1>1, <1>3, <3>2, <4>1, <4>2
      <4>3. CASE j \in 1..Len(cs)
        BY <1>3, <3>2, <4>1, <4>3 DEF Removals
      <4> QED BY <2>1, <4>2, <4>3
    <3> QED BY <3>1, <3>2
  <2> QED BY <2>3, <2>4
<1>4. CASE /\ c.kind = "set" /\ Len(ts) = Len(cs)
           /\ \A i \in 1..Len(cs) : RequestId(ts[i]) = RequestId(cs[i])
  <2>1. \A i \in 1..Len(cs) : ts[i].kind = cs[i].kind /\ ts[i].node = cs[i].node
    BY <1>4 DEF RequestId
  <2> HIDE DEF ts
  <2>2. Distinct(ts)
    BY <1>4 DEF Distinct
  <2>3. Removals(ts, Apply(g, c))
    BY <1>2, <1>4, <2>1 DEF Removals
  <2> QED BY <2>2, <2>3 DEF ts
<1> QED BY <1>3, <1>4, TrackEffect

\* Messages of the newest graph, or broadcasts of older ones, may be added.
LEMMA OrderedGrows ==
  ASSUME NEW q \in Seq(Message), NEW e \in Seq(Message), NEW mem \in Snapshot,
         NEW new \in Snapshot, NEW shown, Ordered(q, mem, shown),
         new = mem \/ new.revision = mem.revision + 1,
         shown # None => shown \in Nat /\ shown <= mem.revision,
         \A x \in ToSet(e) : Carries(x) =>
           Known(x.snap, new) /\ (x.type = "result" => x.snap = new)
  PROVE  Ordered(q \o e, new, shown)
<1>1. mem.revision \in Nat /\ new.revision \in Nat /\ mem.revision <= new.revision
  BY DEF Snapshot, Revision
<1>2. /\ ToSet(q \o e) = ToSet(q) \cup ToSet(e)
      /\ ToSet(q) \subseteq Message /\ ToSet(e) \subseteq Message
  BY InConcat, InPlaces
<1>3. \A x \in Message : Carries(x) => x.snap.revision \in Nat
  BY MessageKinds DEF Snapshot, Revision
<1>4. ASSUME NEW x \in ToSet(q), Carries(x)
      PROVE  /\ Known(x.snap, new)
             /\ x.type = "result" /\ shown # None => shown <= x.snap.revision
  BY <1>1, <1>2, <1>3, <1>4 DEF Ordered, Known
<1>5. ASSUME NEW x \in ToSet(e), Carries(x)
      PROVE  /\ Known(x.snap, new)
             /\ x.type = "result" /\ shown # None => shown <= x.snap.revision
  BY <1>1, <1>5
<1>6. /\ Len(q) \in Nat /\ Len(e) \in Nat /\ Len(q \o e) = Len(q) + Len(e)
      /\ \A i \in 1..(Len(q) + Len(e)) :
           (q \o e)[i] = IF i <= Len(q) THEN q[i] ELSE e[i - Len(q)]
  BY LenProperties, ConcatProperties
<1>7. ASSUME NEW i \in 1..Len(q \o e), NEW j \in 1..Len(q \o e), i < j,
             Carries((q \o e)[i]), Carries((q \o e)[j]), (q \o e)[j].type = "result"
      PROVE  (q \o e)[i].snap.revision <= (q \o e)[j].snap.revision
  <2>1. CASE j <= Len(q)
    <3>1. /\ i \in 1..Len(q) /\ j \in 1..Len(q)
          /\ (q \o e)[i] = q[i] /\ (q \o e)[j] = q[j]
      BY <1>6, <1>7, <2>1
    <3> QED BY <1>7, <3>1 DEF Ordered
  <2>2. CASE ~(j <= Len(q))
    <3>1. j - Len(q) \in 1..Len(e) /\ (q \o e)[j] = e[j - Len(q)]
      BY <1>6, <2>2
    <3>2. (q \o e)[j] \in ToSet(e)
      BY <3>1, InPlaces
    <3>3. (q \o e)[j].snap = new
      BY <1>7, <3>2
    <3>4. q \o e \in Seq(Message) /\ (q \o e)[i] \in ToSet(q \o e)
      BY ConcatProperties, InPlaces
    <3>5. Known((q \o e)[i].snap, new)
      BY <1>2, <1>4, <1>5, <1>7, <3>4
    <3> QED BY <3>3, <3>5 DEF Known
  <2> QED BY <2>1, <2>2
<1> QED BY <1>2, <1>4, <1>5, <1>7 DEF Ordered

\* The head is taken off, and shown if it brings a graph.
LEMMA OrderedTail ==
  ASSUME NEW q \in Seq(Message), NEW t \in Seq(Message), q # <<>>, NEW mem,
         NEW shown, NEW now, Ordered(q, mem, shown),
         Len(t) = Len(q) - 1, \A i \in 1..Len(t) : t[i] = q[i + 1],
         ToSet(t) \subseteq ToSet(q),
         now = shown \/ (Carries(Head(q)) /\ now = Head(q).snap.revision)
  PROVE  Ordered(t, mem, now)
<1>1. Len(q) \in Nat \ {0} /\ Head(q) = q[1]
  BY EmptySeq
<1>2. ASSUME NEW x \in ToSet(t), Carries(x), x.type = "result", now # None
      PROVE  now <= x.snap.revision
  <2>1. CASE now = shown
    BY <1>2, <2>1 DEF Ordered
  <2>2. CASE Carries(Head(q)) /\ now = Head(q).snap.revision
    <3>1. PICK i \in 1..Len(t) : x = t[i]
      BY <1>2, InPlaces
    <3>2. 1 \in 1..Len(q) /\ i + 1 \in 1..Len(q) /\ 1 < i + 1 /\ x = q[i + 1]
      BY <1>1, <3>1
    <3> QED BY <1>1, <1>2, <2>2, <3>2 DEF Ordered
  <2> QED BY <2>1, <2>2
<1>3. ASSUME NEW i \in 1..Len(t), NEW j \in 1..Len(t), i < j,
             Carries(t[i]), Carries(t[j]), t[j].type = "result"
      PROVE  t[i].snap.revision <= t[j].snap.revision
  <2>1. /\ i + 1 \in 1..Len(q) /\ j + 1 \in 1..Len(q) /\ i + 1 < j + 1
        /\ t[i] = q[i + 1] /\ t[j] = q[j + 1]
    BY <1>1, <1>3
  <2> QED BY <1>3, <2>1 DEF Ordered
<1>4. \A x \in ToSet(t) : Carries(x) => Known(x.snap, mem)
  BY DEF Ordered
<1> QED BY <1>2, <1>3, <1>4 DEF Ordered

\* What was known stays known as the graph changes.
LEMMA KnownAfter ==
  ASSUME NEW s \in Snapshot, NEW mem \in Snapshot, NEW new \in Snapshot, Known(s, mem),
         new = mem \/ new.revision = mem.revision + 1
  PROVE  Known(s, new)
BY DEF Known, Snapshot, Revision

\* A command on the server's graph brings in no node that nobody has made.
LEMMA UsedAfterCommand ==
  ASSUME Inv, NEW c \in Command, NEW n \in Node \ used, c.kind = "add" => c.node # n
  PROVE  Applied(c).graph[n] = None
BY ApplyKeepsOut DEF Inv, Types, TypeOK, UsedInv, Applied, Snapshot

\* Messages added to the queues keep them in order, also where the graph moves on.
LEMMA SnapGrows ==
  ASSUME Inv, NEW more, Grows(more), memory' \in Snapshot,
         memory' = memory \/ memory'.revision = memory.revision + 1,
         UNCHANGED <<online, latest>>,
         \A k \in Manager \ online : more[k] = <<>>,
         \A k \in online : \A x \in ToSet(more[k]) : Carries(x) =>
           Known(x.snap, memory') /\ (x.type = "result" => x.snap = memory'),
         ToSet(held') \subseteq ToSet(held)
  PROVE  SnapInv'
<1>1. /\ memory \in Snapshot /\ online \subseteq Manager /\ ToSet(held) \subseteq Snapshot
      /\ memory.revision \in Nat /\ memory'.revision \in Nat
      /\ \A k \in Manager : latest[k] \in Nat \cup {None}
  <2>1. /\ memory \in Snapshot /\ online \subseteq Manager /\ held \in Seq(Snapshot)
        /\ latest \in [Manager -> Revision \cup {None}]
    BY DEF Inv, Types, TypeOK
  <2>2. ToSet(held) \subseteq Snapshot
    BY <2>1, InPlaces
  <2>3. memory.revision \in Nat /\ memory'.revision \in Nat
    BY <2>1 DEF Snapshot, Revision
  <2>4. \A k \in Manager : latest[k] \in Nat \cup {None}
    BY <2>1 DEF Revision
  <2> QED BY <2>1, <2>2, <2>3, <2>4
<1>2. \A s \in ToSet(held') : Known(s, memory')
  BY <1>1, KnownAfter DEF Inv, SnapInv
<1>3. \A k \in online : latest[k] # None => latest[k] \in Nat /\ latest[k] <= memory.revision
  BY <1>1 DEF Inv, SnapInv
<1>4. \A k \in online' : latest'[k] # None => latest'[k] <= memory'.revision
  BY <1>1, <1>3
<1>5. ASSUME NEW k \in Manager PROVE Ordered(down'[k], memory', latest[k])
  <2>1. /\ down[k] \in Seq(Message) /\ more[k] \in Seq(Message)
        /\ down'[k] = down[k] \o more[k]
    BY TypesOf DEF Inv, Grows
  <2>2. CASE k \in online
    <3>1. Ordered(down[k], memory, latest[k])
      BY DEF Inv, SnapInv
    <3> QED BY <1>1, <1>3, <2>1, <2>2, <3>1, OrderedGrows
  <2>3. CASE k \notin online
    <3>1. down'[k] = <<>>
      BY <2>1, <2>3, Nothing, ConcatEmptySeq DEF Inv, AwayInv
    <3> QED BY <3>1, Nothing DEF Ordered
  <2> QED BY <2>2, <2>3
<1> QED BY <1>2, <1>4, <1>5 DEF SnapInv

LEMMA ServeInv ==
  ASSUME Inv, NEW m \in Manager, Serve(m)
  PROVE  Inv'
<1> DEFINE c == Head(up[m])
<1>1. Types /\ Types'
  BY NextTypes DEF Inv, Next
<1>2. PICK more : Grows(more) /\ (ServeAnswers(m, more) \/ ServeAccepts(m, more))
  BY <1>1, ServeEffect
<1>3. /\ up[m] # <<>> /\ up' = [up EXCEPT ![m] = Tail(@)]
      /\ UNCHANGED <<held, online, view, latest, pending, used>>
  BY DEF Serve, managerVars
<1>4. /\ c \in Command /\ c \in ToSet(up[m])
      /\ ToSet(up[m]) = {c} \cup ToSet(up'[m])
      /\ \A k \in Manager : ToSet(up'[k]) \subseteq ToSet(up[k])
      /\ \A k \in Manager : k # m => up'[k] = up[k]
  BY <1>1, <1>3, HeadOfUp, TypesOf
<1>5. m \in online /\ online \subseteq Manager
  BY <1>1, <1>3 DEF Inv, AwayInv, Types, TypeOK
<1>6. \A k \in Manager \ online : more[k] = <<>>
  BY <1>2, <1>5 DEF ServeAnswers, ServeAccepts
<1>7. \A k \in Manager : /\ ToSet(down'[k]) = ToSet(down[k]) \cup ToSet(more[k])
                         /\ ToSet(more[k]) \subseteq Message
  BY <1>1, <1>2, GrowsIn
<1>8. AwayInv'
  <2>1. ASSUME NEW k \in Manager \ online PROVE down'[k] = <<>>
    <3>1. down'[k] = <<>> \o <<>>
      BY <1>2, <1>6 DEF Inv, AwayInv, Grows
    <3> QED BY <3>1, Nothing, ConcatEmptySeq
  <2> QED BY <1>3, <1>4, <1>5, <2>1 DEF Inv, AwayInv
<1>9. /\ \/ memory' = memory
         \/ memory' = Applied(c) /\ memory'.revision = memory.revision + 1
      /\ memory' \in Snapshot
      /\ disk' = disk \/ disk' = memory'
      /\ \A k \in Manager : \A x \in ToSet(more[k]) : Carries(x) => x.snap = memory'
  <2>1. CASE ServeAnswers(m, more)
    BY <1>1, <2>1, Nothing DEF ServeAnswers, Types, TypeOK
  <2>2. CASE ServeAccepts(m, more)
    BY <2>2 DEF ServeAccepts, Persist
  <2> QED BY <1>2, <2>1, <2>2
<1>10. UsedInv'
  <2>1. ASSUME NEW n \in Node \ used PROVE memory'.graph[n] = None /\ disk'.graph[n] = None
    <3>1. c.kind = "add" => c.node # n
      BY <1>4 DEF Inv, UsedInv
    <3>2. memory'.graph[n] = None
      BY <1>4, <1>9, <3>1, UsedAfterCommand DEF Inv, UsedInv
    <3> QED BY <1>9, <3>2 DEF Inv, UsedInv
  <2>2. ASSUME NEW n \in Node \ used, NEW k \in Manager, NEW x \in ToSet(down'[k]), Carries(x)
        PROVE  x.snap.graph[n] = None
    BY <1>7, <1>9, <2>1, <2>2 DEF Inv, UsedInv
  <2>3. ASSUME NEW n \in Node \ used, NEW k \in Manager,
               NEW d \in ToSet(up'[k]) \cup ToSet(pending'[k])
        PROVE  d.node # n
    BY <1>3, <1>4 DEF Inv, UsedInv
  <2> QED BY <1>3, <2>1, <2>2, <2>3 DEF Inv, UsedInv
<1>11. PendingInv'
  BY <1>3 DEF Inv, PendingInv
<1>12. SnapInv'
  <2>1. memory' = memory \/ memory'.revision = memory.revision + 1
    BY <1>9
  <2>2. \A k \in online : \A x \in ToSet(more[k]) : Carries(x) =>
          Known(x.snap, memory') /\ (x.type = "result" => x.snap = memory')
    <3>1. Known(memory', memory')
      BY <1>9 DEF Known, Snapshot, Revision
    <3> QED BY <1>5, <1>9, <3>1
  <2> QED BY <1>2, <1>3, <1>6, <1>9, <2>1, <2>2, SnapGrows
<1>13. WayInv'
  <2> SUFFICES ASSUME gap' # "failed", NEW k \in online, NEW d \in ToSet(pending[k])
               PROVE  Answered(k, RequestId(d))'
    BY <1>3 DEF WayInv
  <2>1. gap # "failed"
    BY <1>2 DEF ServeAnswers, ServeAccepts
  <2>2. Answered(k, RequestId(d))
    BY <2>1 DEF Inv, WayInv
  <2>3. \E x \in ToSet(more[m]) : x.type = "result" /\ x.id = RequestId(c)
    BY <1>2 DEF ServeAnswers, ServeAccepts
  <2>4. k \in Manager
    BY <1>5
  <2>5. CASE \E x \in ToSet(down[k]) : x.type = "result" /\ x.id = RequestId(d)
    BY <1>7, <2>4, <2>5 DEF Answered
  <2>6. CASE \E e \in ToSet(up[k]) : RequestId(e) = RequestId(d)
    <3>1. PICK e \in ToSet(up[k]) : RequestId(e) = RequestId(d)
      BY <2>6
    <3>2. CASE k = m /\ e = c
      BY <1>7, <2>3, <2>4, <3>1, <3>2 DEF Answered
    <3>3. CASE ~(k = m /\ e = c)
      BY <1>4, <2>4, <3>1, <3>3 DEF Answered
    <3> QED BY <3>2, <3>3
  <2> QED BY <2>2, <2>5, <2>6 DEF Answered
<1>14. CoverInv'
  <2> SUFFICES ASSUME Broadcasting', NEW k \in online PROVE Covered(k)'
    BY <1>3 DEF CoverInv
  <2>1. k \in Manager
    BY <1>5
  <2>2. CASE ServeAccepts(m, more)
    BY <1>7, <2>1, <2>2 DEF ServeAccepts, Covered
  <2>3. CASE ServeAnswers(m, more)
    <3>1. memory' = memory /\ gap' = gap /\ held' = held
      BY <1>3, <2>3 DEF ServeAnswers
    <3>2. CASE k = m
      <4>1. PICK x \in ToSet(more[m]) : x.type = "result" /\ (Carries(x) => x.snap = memory)
        BY <2>3 DEF ServeAnswers
      <4>2. x \in ToSet(down'[m]) /\ (Carries(x) \/ Rejects(x))
        BY <1>7, <4>1, MessageKinds
      <4> QED BY <3>1, <3>2, <4>1, <4>2 DEF Covered
    <3>3. CASE k # m
      <4>1. Covered(k)
        BY <3>1 DEF Inv, CoverInv, Broadcasting
      <4>2. up'[k] = up[k] /\ ToSet(down[k]) \subseteq ToSet(down'[k])
        BY <1>4, <1>7, <2>1, <3>3
      <4> QED BY <1>3, <3>1, <4>1, <4>2 DEF Covered
    <3> QED BY <3>2, <3>3
  <2> QED BY <1>2, <2>2, <2>3
<1> QED BY <1>1, <1>8, <1>10, <1>11, <1>12, <1>13, <1>14 DEF Inv

\* The queues stay, or only lose what was on its way.
LEMMA NoMessages ==
  ASSUME Types, down' = down
  PROVE  \E more : Grows(more) /\ \A k \in Manager : more[k] = <<>>
<1> DEFINE more == [k \in Manager |-> <<>>]
<1>1. down \in [Manager -> Seq(Message)] /\ <<>> \in Seq(Message)
  BY Nothing DEF Types, TypeOK
<1>2. \A k \in Manager : down[k] \o <<>> = down[k]
  BY <1>1, ConcatEmptySeq
<1>3. Grows(more)
  BY <1>1, <1>2 DEF Grows
<1> QED BY <1>3

LEMMA ServeFailsInv ==
  ASSUME Inv, NEW m \in Manager, ServeFails(m)
  PROVE  Inv'
<1> DEFINE c == Head(up[m])
<1>1. Types /\ Types'
  BY NextTypes DEF Inv, Next
<1>2. /\ up[m] # <<>> /\ up' = [up EXCEPT ![m] = Tail(@)]
      /\ memory' = Applied(c) /\ gap' = "failed"
      /\ UNCHANGED <<disk, held, online, down, view, latest, pending, used>>
  BY DEF ServeFails, managerVars
<1>3. /\ c \in Command /\ c \in ToSet(up[m])
      /\ \A k \in Manager : ToSet(up'[k]) \subseteq ToSet(up[k])
      /\ \A k \in Manager : k # m => up'[k] = up[k]
  BY <1>1, <1>2, HeadOfUp, TypesOf
<1>4. AwayInv'
  BY <1>2, <1>3 DEF Inv, AwayInv
<1>5. memory' \in Snapshot /\ memory'.revision = memory.revision + 1
  BY <1>1, <1>2, <1>3, AppliedSnapshot DEF Types, TypeOK
<1>6. UsedInv'
  <2>1. ASSUME NEW n \in Node \ used PROVE memory'.graph[n] = None
    <3>1. PICK applied : applied = Applied(c)
      OBVIOUS
    <3>2. memory' = applied
      BY <1>2, <3>1
    <3>3. c.kind = "add" => c.node # n
      BY <1>3, <2>1 DEF Inv, UsedInv
    <3> HIDE DEF c
    <3>4. Applied(c).graph[n] = None
      BY <1>3, <2>1, <3>3, UsedAfterCommand
    <3> QED BY <3>1, <3>2, <3>4
  <2>2. Project \subseteq used /\ \A n \in Node \ used :
          /\ disk.graph[n] = None /\ \A s \in ToSet(held) : s.graph[n] = None
          /\ \A k \in Manager :
               /\ view[k][n] = None
               /\ \A x \in ToSet(down[k]) : Carries(x) => x.snap.graph[n] = None
               /\ \A d \in ToSet(up[k]) \cup ToSet(pending[k]) : d.node # n
    BY DEF Inv, UsedInv
  <2>3. ASSUME NEW n \in Node \ used, NEW k \in Manager
        PROVE  \A d \in ToSet(up'[k]) \cup ToSet(pending[k]) : d.node # n
    BY <1>3, <2>2
  <2>4. /\ disk' = disk /\ held' = held /\ down' = down /\ view' = view
        /\ pending' = pending /\ used' = used
    BY <1>2
  <2> QED BY <2>1, <2>2, <2>3, <2>4 DEF UsedInv
<1>7. PendingInv'
  BY <1>2 DEF Inv, PendingInv
<1>8. SnapInv'
  <2>1. PICK more : Grows(more) /\ \A k \in Manager : more[k] = <<>>
    BY <1>1, <1>2, NoMessages
  <2>2. online \subseteq Manager /\ \A k \in Manager : ToSet(more[k]) = {}
    BY <1>1, <2>1, Nothing DEF Types, TypeOK
  <2> QED BY <1>2, <1>5, <2>1, <2>2, SnapGrows
<1>9. WayInv' /\ CoverInv'
  BY <1>2 DEF WayInv, CoverInv, Broadcasting
<1> QED BY <1>1, <1>4, <1>6, <1>7, <1>8, <1>9 DEF Inv

\* A command of the AI, in memory; managers are told later, or never.
LEMMA AiEditInv ==
  ASSUME Inv, Types', NEW n \in Node, AiCommand(n),
         UNCHANGED <<online, up, down, view, latest, pending, used>>,
         disk' = disk \/ disk' = memory'
  PROVE  /\ AwayInv' /\ PendingInv'
         /\ (\A s \in ToSet(held') : s \in ToSet(held) \/ s = memory') => UsedInv' /\ SnapInv'
<1>1. Types
  BY DEF Inv
<1>2. /\ AiEdit(n, commands') \in Command /\ memory' = Applied(AiEdit(n, commands'))
      /\ memory' \in Snapshot /\ memory'.revision = memory.revision + 1
  BY <1>1, AiTyped
<1>3. AwayInv' /\ PendingInv'
  BY DEF Inv, AwayInv, PendingInv
<1>4. \A k \in Node \ used : memory'.graph[k] = None
  <2>1. AiEdit(n, commands').kind = "set"
    BY DEF AiEdit
  <2> QED BY <1>2, <2>1, UsedAfterCommand
<1>5. ASSUME \A s \in ToSet(held') : s \in ToSet(held) \/ s = memory'
      PROVE  UsedInv'
  BY <1>4, <1>5 DEF Inv, UsedInv
<1>6. ASSUME \A s \in ToSet(held') : s \in ToSet(held) \/ s = memory'
      PROVE  SnapInv'
  <2>1. /\ memory \in Snapshot /\ ToSet(held) \subseteq Snapshot /\ online \subseteq Manager
        /\ memory.revision \in Nat /\ memory'.revision \in Nat
        /\ \A k \in Manager : latest[k] \in Nat \cup {None}
    BY <1>1, <1>2, InPlaces DEF Types, TypeOK, Snapshot, Revision
  <2>2. \A s \in ToSet(held') : Known(s, memory')
    <3>1. Known(memory', memory')
      BY <2>1 DEF Known
    <3> QED BY <1>2, <1>6, <2>1, <3>1, KnownAfter DEF Inv, SnapInv
  <2>3. \A k \in online' : latest'[k] # None => latest'[k] <= memory'.revision
    BY <1>2, <2>1 DEF Inv, SnapInv
  <2>4. ASSUME NEW k \in Manager PROVE Ordered(down[k], memory', latest[k])
    <3>1. \A x \in ToSet(down[k]) : x \in Message
      BY <1>1, TypesOf
    <3>2. \A x \in ToSet(down[k]) : Carries(x) => Known(x.snap, memory')
      BY <1>2, <2>1, <3>1, MessageKinds, KnownAfter DEF Inv, SnapInv, Ordered
    <3> QED BY <3>2 DEF Inv, SnapInv, Ordered
  <2> QED BY <2>2, <2>3, <2>4 DEF SnapInv
<1> QED BY <1>3, <1>5, <1>6

LEMMA AiTurnInv ==
  ASSUME Inv, NEW n \in Node, AiTurn(n)
  PROVE  Inv'
<1>1. Types /\ Types'
  BY NextTypes DEF Inv, Next
<1>2. /\ AiCommand(n) /\ disk' = memory' /\ held' = Append(held, memory') /\ gap' = gap
      /\ UNCHANGED <<online, up, down, view, latest, pending, used>>
  BY DEF AiTurn, Persist, netVars, managerVars
<1>3. ToSet(held') = ToSet(held) \cup {memory'}
  <2>1. memory' \in Snapshot /\ held \in Seq(Snapshot)
    BY <1>1 DEF Types, TypeOK
  <2> QED BY <1>2, <2>1, InAppend
<1>4. AwayInv' /\ PendingInv' /\ UsedInv' /\ SnapInv'
  BY <1>1, <1>2, <1>3, AiEditInv
<1>5. WayInv'
  BY <1>2 DEF Inv, WayInv, Answered
<1>6. CoverInv'
  BY <1>3 DEF CoverInv, Covered
<1> QED BY <1>1, <1>4, <1>5, <1>6 DEF Inv

LEMMA AiFailsInv == ASSUME Inv, AiFails PROVE Inv'
<1>1. Types /\ Types'
  BY NextTypes DEF Inv, Next
<1>2. PICK n \in Node : AiCommand(n)
  BY DEF AiFails
<1>3. /\ held' = <<>> /\ gap' = "failed" /\ disk' = disk
      /\ UNCHANGED <<online, up, down, view, latest, pending, used>>
  BY DEF AiFails, netVars, managerVars
<1>4. ToSet(held') = {}
  BY <1>3, Nothing
<1>5. AwayInv' /\ PendingInv' /\ UsedInv' /\ SnapInv'
  BY <1>1, <1>2, <1>3, <1>4, AiEditInv
<1>6. WayInv' /\ CoverInv'
  BY <1>3 DEF WayInv, CoverInv, Broadcasting
<1> QED BY <1>1, <1>5, <1>6 DEF Inv

LEMMA SupersededInv == ASSUME Inv, AiSuperseded PROVE Inv'
<1>1. Types'
  BY NextTypes DEF Inv, Next
<1>2. /\ held' = <<>> /\ gap' = IF gap = "failed" THEN gap ELSE "superseded"
      /\ UNCHANGED <<memory, disk, online, up, down, view, latest, pending, used>>
  BY DEF AiSuperseded, netVars, managerVars
<1>3. ToSet(held') = {}
  BY <1>2, Nothing
<1>4. AwayInv' /\ PendingInv'
  BY <1>2 DEF Inv, AwayInv, PendingInv
<1>5. UsedInv'
  BY <1>2, <1>3 DEF Inv, UsedInv
<1>6. SnapInv'
  BY <1>2, <1>3 DEF Inv, SnapInv
<1>7. WayInv'
  BY <1>2 DEF Inv, WayInv, Answered
<1>8. CoverInv'
  BY <1>2 DEF CoverInv, Broadcasting
<1> QED BY <1>1, <1>4, <1>5, <1>6, <1>7, <1>8 DEF Inv

LEMMA RestartInv == ASSUME Inv, ServerRestart PROVE Inv'
<1>1. Types'
  BY NextTypes DEF Inv, Next
<1>2. /\ memory' = disk /\ disk' = disk /\ held' = <<>> /\ online' = {}
      /\ \A m \in Manager : up'[m] = <<>> /\ down'[m] = <<>>
      /\ UNCHANGED <<view, latest, pending, used>>
  BY DEF ServerRestart, managerVars
<1>3. ToSet(held') = {} /\ \A m \in Manager : ToSet(up'[m]) = {} /\ ToSet(down'[m]) = {}
  BY <1>2, Nothing
<1>4. AwayInv' /\ WayInv' /\ CoverInv'
  BY <1>2 DEF AwayInv, WayInv, CoverInv
<1>5. PendingInv'
  BY <1>2 DEF Inv, PendingInv
<1>6. UsedInv'
  BY <1>2, <1>3 DEF Inv, UsedInv
<1>7. SnapInv'
  BY <1>2, <1>3, Nothing DEF SnapInv, Ordered
<1> QED BY <1>1, <1>4, <1>5, <1>6, <1>7 DEF Inv

LEMMA RunEndsInv == ASSUME Inv, AiRunEnds PROVE Inv'
<1>1. Types /\ Types' /\ online \subseteq Manager
  BY NextTypes DEF Inv, Next, Types, TypeOK
<1> DEFINE snaps == IF memory' = memory THEN ToSet(held) ELSE ToSet(held) \cup {memory'}
<1>2. /\ \/ (\E n \in Node : AiCommand(n)) /\ Persist
         \/ held # <<>> /\ UNCHANGED <<memory, disk, commands>>
      /\ memory' \in Snapshot /\ ToSet(held) \subseteq Snapshot
  BY <1>1, RunEndsEffect
<1>3. PICK more : Grows(more) /\ BroadcastsAll(more, snaps)
  BY <1>1, RunEndsEffect
<1>4. /\ held' = <<>> /\ gap' = IF gap = "failed" THEN gap ELSE "none"
      /\ UNCHANGED <<online, up, view, latest, pending, used>>
  BY DEF AiRunEnds, managerVars
<1>5. ToSet(held') = {}
  BY <1>4, Nothing
<1>6. /\ memory' = memory \/ memory'.revision = memory.revision + 1
      /\ disk' = disk \/ disk' = memory'
      /\ \A k \in Node \ used : memory'.graph[k] = None
      /\ memory' # memory \/ held # <<>>
  <2>1. ASSUME NEW n \in Node, AiCommand(n), Persist
        PROVE  /\ memory'.revision = memory.revision + 1 /\ memory' # memory
               /\ disk' = memory'
               /\ \A k \in Node \ used : memory'.graph[k] = None
    <3>1. /\ AiEdit(n, commands') \in Command /\ memory' = Applied(AiEdit(n, commands'))
          /\ memory'.revision = memory.revision + 1 /\ memory' # memory
      BY <1>1, <2>1, AiTyped
    <3>2. AiEdit(n, commands').kind = "set"
      BY DEF AiEdit
    <3> QED BY <2>1, <3>1, <3>2, UsedAfterCommand DEF Persist
  <2>2. CASE held # <<>> /\ UNCHANGED <<memory, disk, commands>>
    BY <2>2 DEF Inv, UsedInv
  <2> QED BY <1>2, <2>1, <2>2
<1>7. \A k \in Manager : ToSet(down'[k]) = ToSet(down[k]) \cup ToSet(more[k])
  BY <1>1, <1>3, GrowsIn
<1>8. \A k \in Manager \ online : more[k] = <<>> /\ ToSet(more[k]) = {}
  BY <1>3, Nothing DEF BroadcastsAll
<1>9. AwayInv'
  <2>1. ASSUME NEW k \in Manager \ online PROVE down'[k] = <<>>
    <3>1. down'[k] = <<>> \o <<>>
      BY <1>3, <1>8 DEF Inv, AwayInv, Grows
    <3> QED BY <3>1, Nothing, ConcatEmptySeq
  <2> QED BY <1>4, <2>1 DEF Inv, AwayInv
<1>10. UsedInv'
  <2>1. ASSUME NEW n \in Node \ used, NEW k \in Manager, NEW x \in ToSet(down'[k]), Carries(x)
        PROVE  x.snap.graph[n] = None
    <3>1. CASE x \in ToSet(down[k])
      BY <2>1, <3>1 DEF Inv, UsedInv
    <3>2. CASE x \in ToSet(more[k])
      <4>1. x.snap \in snaps
        BY <1>3, <1>8, <3>2 DEF BroadcastsAll
      <4> QED BY <1>6, <4>1 DEF Inv, UsedInv
    <3> QED BY <1>7, <3>1, <3>2
  <2>2. \A n \in Node \ used : disk'.graph[n] = None
    BY <1>6 DEF Inv, UsedInv
  <2> QED BY <1>4, <1>5, <1>6, <2>1, <2>2 DEF Inv, UsedInv
<1>11. PendingInv'
  BY <1>4 DEF Inv, PendingInv
<1>12. SnapInv'
  <2>1. \A s \in snaps : Known(s, memory')
    <3>1. Known(memory', memory') /\ memory \in Snapshot
      BY <1>1, <1>2 DEF Known, Types, TypeOK, Snapshot, Revision
    <3> QED BY <1>2, <1>6, <3>1, KnownAfter DEF Inv, SnapInv
  <2>2. \A k \in online : \A x \in ToSet(more[k]) :
          Carries(x) /\ x.type = "snapshot" /\ Known(x.snap, memory')
    BY <1>3, <2>1 DEF BroadcastsAll
  <2>3. ToSet(held') \subseteq ToSet(held) /\ \A k \in Manager \ online : more[k] = <<>>
    BY <1>5, <1>8
  <2> QED BY <1>2, <1>3, <1>4, <1>6, <2>2, <2>3, SnapGrows
<1>13. WayInv'
  <2>1. gap' # "failed" => gap # "failed"
    BY <1>4
  <2> QED BY <1>1, <1>4, <1>7, <2>1 DEF Inv, WayInv, Answered
<1>14. CoverInv'
  <2> SUFFICES ASSUME Broadcasting', NEW k \in online PROVE Covered(k)'
    BY <1>4 DEF CoverInv
  <2>1. gap # "failed" /\ k \in Manager
    BY <1>1, <1>4 DEF Broadcasting
  <2>2. \A s \in snaps : \E x \in ToSet(down'[k]) : Carries(x) /\ x.snap = s
    BY <1>3, <1>7, <2>1 DEF BroadcastsAll
  <2>3. CASE memory' # memory
    BY <2>2, <2>3 DEF Covered
  <2>4. CASE memory' = memory
    <3>1. Covered(k)
      <4>1. Broadcasting
        BY <1>1, <1>6, <2>1, <2>4 DEF Broadcasting, Types, TypeOK
      <4> QED BY <4>1 DEF Inv, CoverInv
    <3>2. CASE memory \in ToSet(held)
      BY <2>2, <2>4, <3>2 DEF Covered
    <3>3. CASE memory \notin ToSet(held)
      BY <1>4, <1>7, <2>1, <2>4, <3>1, <3>3 DEF Covered
    <3> QED BY <3>2, <3>3
  <2> QED BY <2>3, <2>4
<1> QED BY <1>1, <1>9, <1>10, <1>11, <1>12, <1>13, <1>14 DEF Inv

LEMMA ConnectInv ==
  ASSUME Inv, NEW m \in Manager, Connect(m)
  PROVE  Inv'
<1>1. Types /\ Types'
  BY NextTypes DEF Inv, Next
<1>2. /\ m \notin online /\ online' = online \cup {m}
      /\ up'[m] = <<SnapshotRequest>> /\ pending'[m] = <<>> /\ latest'[m] = None
      /\ \A k \in Manager : k # m => /\ up'[k] = up[k] /\ pending'[k] = pending[k]
                                     /\ latest'[k] = latest[k]
      /\ UNCHANGED <<memory, disk, held, gap, down, view, used>>
  BY <1>1, TypesOf DEF Connect, ForgetLatest, serverVars
<1>3. /\ down[m] = <<>> /\ ToSet(pending'[m]) = {} /\ up'[m] # <<>>
      /\ \A c \in ToSet(up'[m]) : c = SnapshotRequest
  <2>1. up'[m] \in Seq(Command) /\ Len(up'[m]) = 1 /\ up'[m][1] = SnapshotRequest
    BY <1>2, RequestsTyped
  <2>2. \A c \in ToSet(up'[m]) : \E i \in 1..1 : c = up'[m][i]
    BY <2>1, InPlaces
  <2> QED BY <1>2, <2>1, <2>2, Nothing DEF Inv, AwayInv
<1>4. AwayInv'
  BY <1>2 DEF Inv, AwayInv
<1>5. UsedInv'
  BY <1>2, <1>3, Constants DEF Inv, UsedInv, SnapshotRequest
<1>6. PendingInv'
  BY <1>2, Nothing DEF Inv, PendingInv, Distinct, Removals
<1>7. SnapInv'
  <2>1. online \subseteq Manager
    BY <1>1 DEF Types, TypeOK
  <2>2. \A k \in online' : latest'[k] # None => latest'[k] <= memory.revision
    BY <1>2, <2>1 DEF Inv, SnapInv
  <2>3. Ordered(down'[m], memory, latest'[m])
    BY <1>2, <1>3, Nothing DEF Ordered
  <2>4. \A k \in Manager : Ordered(down'[k], memory, latest'[k])
    BY <1>2, <2>3 DEF Inv, SnapInv
  <2> QED BY <1>2, <2>2, <2>4 DEF Inv, SnapInv
<1>8. WayInv'
  <2>1. online \subseteq Manager
    BY <1>1 DEF Types, TypeOK
  <2> QED BY <1>2, <1>3, <2>1 DEF Inv, WayInv, Answered
<1>9. CoverInv'
  <2>1. online \subseteq Manager
    BY <1>1 DEF Types, TypeOK
  <2> QED BY <1>2, <1>3, <2>1 DEF Inv, CoverInv, Broadcasting, Covered
<1> QED BY <1>1, <1>4, <1>5, <1>6, <1>7, <1>8, <1>9 DEF Inv

LEMMA CutInv ==
  ASSUME Inv, NEW m \in Manager, Cut(m)
  PROVE  Inv'
<1>1. Types /\ Types' /\ online \subseteq Manager
  BY NextTypes DEF Inv, Next, Types, TypeOK
<1>2. /\ online' = online \ {m} /\ up'[m] = <<>> /\ down'[m] = <<>>
      /\ \A k \in Manager : k # m => up'[k] = up[k] /\ down'[k] = down[k]
      /\ UNCHANGED <<memory, disk, held, gap, view, latest, pending, used>>
  BY <1>1, TypesOf DEF Cut, serverVars, managerVars
<1>3. ToSet(up'[m]) = {} /\ ToSet(down'[m]) = {}
  BY <1>2, Nothing
<1>4. AwayInv' /\ PendingInv'
  BY <1>2 DEF Inv, AwayInv, PendingInv
<1>5. UsedInv'
  BY <1>2, <1>3 DEF Inv, UsedInv
<1>6. SnapInv'
  BY <1>2, <1>3, Nothing DEF Inv, SnapInv, Ordered
<1>7. WayInv' /\ CoverInv'
  BY <1>1, <1>2 DEF Inv, WayInv, Answered, CoverInv, Broadcasting, Covered
<1> QED BY <1>1, <1>4, <1>5, <1>6, <1>7 DEF Inv

LEMMA ExpireInv ==
  ASSUME Inv, NEW m \in Manager, Expire(m)
  PROVE  Inv'
<1>1. Types /\ Types' /\ online \subseteq Manager
  BY NextTypes DEF Inv, Next, Types, TypeOK
<1>2. /\ pending'[m] \in Seq(Command) /\ ToSet(pending'[m]) \subseteq ToSet(pending[m])
      /\ pending' = [pending EXCEPT ![m] = pending'[m]]
      /\ \E i \in 1..Len(pending[m]) : LeavesOut(pending'[m], pending[m], i)
  BY <1>1, TypesOf, ExpireEffect
<1>3. UNCHANGED <<memory, disk, held, gap, online, up, down, view, latest, used>>
  BY DEF Expire, serverVars, netVars
<1>4. \A k \in Manager : k # m => pending'[k] = pending[k]
  <2>1. pending \in [Manager -> Seq(Command)]
    BY <1>1 DEF Types, TypeOK
  <2> QED BY <1>2, <2>1
<1>5. \A k \in Manager : ToSet(pending'[k]) \subseteq ToSet(pending[k])
  BY <1>2, <1>4
<1>6. AwayInv' /\ SnapInv' /\ CoverInv'
  BY <1>3 DEF Inv, AwayInv, SnapInv, CoverInv, Broadcasting, Covered
<1>7. UsedInv'
  BY <1>3, <1>5 DEF Inv, UsedInv
<1>8. PendingInv'
  <2>1. pending[m] \in Seq(Command) /\ Distinct(pending[m]) /\ Removals(pending[m], view[m])
    BY <1>1, TypesOf DEF Inv, PendingInv
  <2>2. Distinct(pending'[m]) /\ Removals(pending'[m], view[m])
    BY <1>2, <2>1, DistinctLeft
  <2> QED BY <1>3, <1>4, <2>2 DEF Inv, PendingInv
<1>9. WayInv'
  BY <1>1, <1>3, <1>5 DEF Inv, WayInv, Answered
<1> QED BY <1>1, <1>6, <1>7, <1>8, <1>9 DEF Inv

LEMMA EditInv ==
  ASSUME Inv, Types', NEW m \in Manager, NEW c, EditStep(m, c)
  PROVE  Inv'
<1>1. /\ Types /\ online \subseteq Manager
      /\ c \in Command /\ c.kind \in Edits /\ c.node \in Node /\ Edit(m, c)
  BY DEF Inv, Types, TypeOK, EditStep
<1>2. UNCHANGED <<memory, disk, held, gap, online, down, latest>>
  BY <1>1 DEF Edit, serverVars
<1>3. /\ view'[m] = Apply(view[m], c)
      /\ \A k \in Manager : k # m =>
           view'[k] = view[k] /\ up'[k] = up[k] /\ pending'[k] = pending[k]
      /\ m \in online =>
           /\ up'[m] # <<>> /\ ToSet(up'[m]) = ToSet(up[m]) \cup {c}
           /\ pending'[m] = Track(pending[m], c)
      /\ m \notin online => up'[m] = up[m] /\ pending'[m] = pending[m] /\ c.kind = "set"
  BY <1>1, EditEffect
<1>4. /\ view[m] \in Graph /\ pending[m] \in Seq(Command)
      /\ \A x \in ToSet(pending[m]) : x.kind \in Edits /\ WellFormed(x)
  BY <1>1, TypesOf DEF Types
<1>5. \A x \in ToSet(pending'[m]) : x \in ToSet(pending[m]) \/ (x = c /\ m \in online)
  BY <1>1, <1>3, <1>4, TrackEffect
<1>6. /\ c.kind = "add" => c.node \notin used
      /\ c.kind # "add" => view[m][c.node] # None /\ c.node \in used
      /\ used \subseteq used' /\ c.node \in used'
  BY <1>1 DEF EditStep, Inv, UsedInv
<1>7. AwayInv'
  BY <1>2, <1>3 DEF Inv, AwayInv
<1>8. UsedInv'
  <2>1. Project \subseteq used'
    BY <1>6 DEF Inv, UsedInv
  <2>2. ASSUME NEW n \in Node \ used'
        PROVE  view'[m][n] = None /\ \A d \in ToSet(up'[m]) \cup ToSet(pending'[m]) : d.node # n
    <3>1. n \in Node \ used /\ n # c.node
      BY <1>6, <2>2
    <3>2. view'[m][n] = None
      BY <1>1, <1>3, <1>4, <3>1, ApplyKeepsOut DEF Inv, UsedInv, Edits
    <3> QED BY <1>3, <1>5, <3>1, <3>2 DEF Inv, UsedInv
  <2> QED BY <1>2, <1>3, <1>6, <2>1, <2>2 DEF Inv, UsedInv
<1>9. PendingInv'
  <2>1. Distinct(pending[m]) /\ Removals(pending[m], view[m])
    BY DEF Inv, PendingInv
  <2>2. c.kind = "add" => \A x \in ToSet(pending[m]) : x.node # c.node
    BY <1>1, <1>6 DEF Inv, UsedInv
  <2>3. CASE m \in online
    <3>1. Distinct(pending'[m]) /\ Removals(pending'[m], view'[m])
      BY <1>1, <1>3, <1>4, <1>6, <2>1, <2>2, <2>3, TrackedApart
    <3> QED BY <1>3, <3>1 DEF Inv, PendingInv
  <2>4. CASE m \notin online
    <3>1. \A i \in 1..Len(pending[m]) : pending[m][i] \in ToSet(pending[m])
      BY <1>4, InPlaces
    <3>2. \A n \in Node : view[m][n] = None => view'[m][n] = None
      BY <1>1, <1>3, <1>4, <2>4, ApplyKeepsOut
    <3>3. Removals(pending[m], view'[m])
      BY <1>4, <2>1, <3>1, <3>2 DEF Removals, WellFormed, Edits
    <3> QED BY <1>3, <2>1, <2>4, <3>3 DEF Inv, PendingInv
  <2> QED BY <2>3, <2>4
<1>10. SnapInv'
  BY <1>2 DEF Inv, SnapInv
<1>11. WayInv'
  <2> SUFFICES ASSUME gap # "failed", NEW k \in online, NEW d \in ToSet(pending'[k])
               PROVE  Answered(k, RequestId(d))'
    BY <1>2 DEF WayInv
  <2>1. CASE d \in ToSet(pending[k])
    <3>1. Answered(k, RequestId(d))
      BY <2>1 DEF Inv, WayInv
    <3>2. ToSet(up[k]) \subseteq ToSet(up'[k])
      BY <1>1, <1>3
    <3> QED BY <1>2, <3>1, <3>2 DEF Answered
  <2>2. CASE d \notin ToSet(pending[k])
    <3>1. k = m /\ d = c /\ c \in ToSet(up'[m])
      BY <1>1, <1>3, <1>5, <2>2
    <3> QED BY <3>1 DEF Answered
  <2> QED BY <2>1, <2>2
<1>12. CoverInv'
  <2> SUFFICES ASSUME Broadcasting, NEW k \in online PROVE Covered(k)'
    BY <1>2 DEF CoverInv, Broadcasting
  <2>1. CASE k = m
    BY <1>3, <2>1 DEF Covered
  <2>2. CASE k # m
    <3>1. Covered(k) /\ up'[k] = up[k] /\ view'[k] = view[k]
      BY <1>1, <1>3, <2>2 DEF Inv, CoverInv
    <3> QED BY <1>2, <3>1 DEF Covered
  <2> QED BY <2>1, <2>2
<1> QED BY <1>1, <1>7, <1>8, <1>9, <1>10, <1>11, <1>12 DEF Inv

\* What showing a graph does to the manager that shows it.
LEMMA ShowEffect ==
  ASSUME Types, NEW m \in Manager, NEW snap \in Snapshot, NEW cs, Show(m, snap, cs)
  PROVE  /\ \A k \in Manager : k # m =>
              up'[k] = up[k] /\ view'[k] = view[k] /\ latest'[k] = latest[k]
         /\ up'[m] = up[m] \/ (up'[m] # <<>> /\ ToSet(up'[m]) = ToSet(up[m]) \cup {ImportCommand})
         /\ \/ /\ Fresh(m, snap)
               /\ latest'[m] = snap.revision /\ view'[m] = Overlay(snap.graph, cs)
            \/ /\ ~Fresh(m, snap)
               /\ latest'[m] = latest[m] /\ view'[m] = view[m] /\ up'[m] = up[m]
<1>1. /\ view \in [Manager -> Graph] /\ latest \in [Manager -> Revision \cup {None}]
      /\ up \in [Manager -> Seq(Command)]
  BY DEF Types, TypeOK
<1>2. CASE Fresh(m, snap) /\ ImportsAt(m, snap)
  <2>1. up' = [up EXCEPT ![m] = Append(@, ImportCommand)]
    BY <1>2 DEF Show
  <2>2. /\ up'[m] # <<>> /\ ToSet(up'[m]) = ToSet(up[m]) \cup {ImportCommand}
        /\ \A k \in Manager : k # m => up'[k] = up[k]
    BY <2>1, AppendToUp, RequestsTyped
  <2> QED BY <1>1, <1>2, <2>2 DEF Show
<1>3. CASE Fresh(m, snap) /\ ~ImportsAt(m, snap)
  BY <1>1, <1>3 DEF Show
<1>4. CASE ~Fresh(m, snap)
  BY <1>4 DEF Show
<1> QED BY <1>2, <1>3, <1>4

LEMMA ArrivesInv ==
  ASSUME Inv, NEW m \in Manager, NEW x, Arrives(m, x)
  PROVE  Inv'
<1>1. Types /\ Types' /\ online \subseteq Manager
  BY ArrivesTyped DEF Inv, Types, TypeOK
<1>2. /\ x = Head(down[m]) /\ x \in Message /\ down[m] # <<>>
      /\ down' = [down EXCEPT ![m] = Tail(@)]
      /\ \A k \in Manager : k # m => pending'[k] = pending[k]
      /\ pending'[m] \in Seq(Command)
      /\ UNCHANGED <<memory, disk, held, gap, online, used>>
  BY DEF Arrives, serverVars
<1>3. /\ x \in ToSet(down[m]) /\ ToSet(down[m]) = {x} \cup ToSet(down'[m])
      /\ Len(down'[m]) = Len(down[m]) - 1
      /\ \A i \in 1..Len(down'[m]) : down'[m][i] = down[m][i + 1]
      /\ \A k \in Manager : k # m => down'[k] = down[k]
  BY <1>1, <1>2, HeadOfDown
<1>4. m \in online
  BY <1>2 DEF Inv, AwayInv
<1>5. /\ view[m] \in Graph /\ pending[m] \in Seq(Command) /\ memory \in Snapshot
      /\ \A d \in ToSet(pending[m]) : d.kind \in Edits /\ WellFormed(d)
      /\ Distinct(pending[m]) /\ Removals(pending[m], view[m])
      /\ down[m] \in Seq(Message) /\ down'[m] \in Seq(Message)
      /\ latest[m] \in Nat \cup {None}
  BY <1>1, TypesOf DEF Inv, Types, TypeOK, PendingInv
\* What is settled was pending for the request that is answered.
<1>6. /\ ToSet(pending'[m]) \subseteq ToSet(pending[m])
      /\ Distinct(pending'[m]) /\ Removals(pending'[m], view[m])
      /\ x.type = "result" => \A d \in ToSet(pending'[m]) : RequestId(d) # x.id
  <2>1. CASE x.type # "result"
    BY <1>5, <2>1 DEF Arrives
  <2>2. CASE x.type = "result"
    <3>1. pending'[m] = Settle(pending[m], x.id, x.ok)
      BY <2>2 DEF Arrives
    <3>2. /\ ToSet(pending'[m]) \subseteq ToSet(pending[m])
          /\ \/ /\ pending'[m] = pending[m]
                /\ \A i \in 1..Len(pending[m]) : RequestId(pending[m][i]) # x.id
             \/ \E i \in 1..Len(pending[m]) :
                  /\ RequestId(pending[m][i]) = x.id
                  /\ LeavesOut(pending'[m], pending[m], i)
      <4>1. PICK cs \in Seq(Command) : cs = pending[m]
        BY <1>5
      <4>2. /\ ToSet(Settle(cs, x.id, x.ok)) \subseteq ToSet(cs)
            /\ \/ /\ Settle(cs, x.id, x.ok) = cs
                  /\ \A i \in 1..Len(cs) : RequestId(cs[i]) # x.id
               \/ \E i \in 1..Len(cs) :
                    RequestId(cs[i]) = x.id /\ LeavesOut(Settle(cs, x.id, x.ok), cs, i)
        BY SettleEffect
      <4> QED BY <3>1, <4>1, <4>2
    <3>3. CASE /\ pending'[m] = pending[m]
               /\ \A i \in 1..Len(pending[m]) : RequestId(pending[m][i]) # x.id
      BY <1>5, <3>2, <3>3, InPlaces
    <3>4. CASE \E i \in 1..Len(pending[m]) :
                 /\ RequestId(pending[m][i]) = x.id
                 /\ LeavesOut(pending'[m], pending[m], i)
      BY <1>2, <1>5, <3>2, <3>4, DistinctLeft
    <3> QED BY <3>2, <3>3, <3>4
  <2> QED BY <2>1, <2>2
<1>7. \/ /\ Carries(x) /\ ~Rejects(x) /\ x.snap \in Snapshot /\ Show(m, x.snap, pending'[m])
      \/ /\ Rejects(x) /\ ~Carries(x)
         /\ up' = [up EXCEPT ![m] = Append(@, SnapshotRequest)]
         /\ view' = view /\ latest' = latest
  BY <1>2, MessageKinds DEF Arrives
<1>8. /\ \A k \in Manager : k # m =>
           up'[k] = up[k] /\ view'[k] = view[k] /\ latest'[k] = latest[k]
      /\ ToSet(up[m]) \subseteq ToSet(up'[m]) /\ (up[m] # <<>> => up'[m] # <<>>)
      /\ \A d \in ToSet(up'[m]) : d \in ToSet(up[m]) \/ d.node = None
      /\ Rejects(x) => up'[m] # <<>>
  <2>1. CASE Rejects(x) /\ up' = [up EXCEPT ![m] = Append(@, SnapshotRequest)]
             /\ view' = view /\ latest' = latest
    <3>1. SnapshotRequest.node = None
      BY DEF SnapshotRequest
    <3>2. /\ up'[m] # <<>> /\ ToSet(up'[m]) = ToSet(up[m]) \cup {SnapshotRequest}
          /\ \A k \in Manager : k # m => up'[k] = up[k]
      BY <1>1, <2>1, AppendToUp, RequestsTyped
    <3> QED BY <2>1, <3>1, <3>2
  <2>2. CASE Carries(x) /\ ~Rejects(x) /\ x.snap \in Snapshot /\ Show(m, x.snap, pending'[m])
    <3>1. ImportCommand.node = None
      BY DEF ImportCommand
    <3> QED BY <1>1, <2>2, <3>1, ShowEffect
  <2> QED BY <1>7, <2>1, <2>2
\* The graph shown is the old one, or the new one under what is still pending.
<1>9. \/ /\ Carries(x) /\ x.snap \in Snapshot /\ Fresh(m, x.snap)
         /\ latest'[m] = x.snap.revision
         /\ view'[m] = Overlay(x.snap.graph, pending'[m])
      \/ /\ ~Carries(x) \/ ~Fresh(m, x.snap)
         /\ latest'[m] = latest[m] /\ view'[m] = view[m]
  BY <1>1, <1>7, ShowEffect
<1>10. AwayInv'
  BY <1>2, <1>3, <1>4, <1>8 DEF Inv, AwayInv
<1>11. UsedInv'
  <2>1. ASSUME NEW n \in Node \ used PROVE view'[m][n] = None
    <3>1. view[m][n] = None
      BY DEF Inv, UsedInv
    <3>2. ASSUME Carries(x), x.snap \in Snapshot
          PROVE  Overlay(x.snap.graph, pending'[m])[n] = None
      <4>1. x.snap.graph \in Graph /\ x.snap.graph[n] = None
        BY <1>3, <3>2 DEF Inv, UsedInv, Snapshot
      <4>2. \A i \in 1..Len(pending'[m]) : pending'[m][i] \in ToSet(pending[m])
        BY <1>2, <1>6, InPlaces
      <4>3. \A i \in 1..Len(pending'[m]) :
              pending'[m][i].kind # "replace" /\ pending'[m][i].node # n
        BY <1>5, <4>2 DEF Inv, UsedInv, Edits
      <4>4. Len(pending'[m]) \in Nat /\ 0 \in 0..Len(pending'[m])
        BY <1>2, LenProperties
      <4> QED BY <1>2, <4>1, <4>3, <4>4, OverlayOut
    <3> QED BY <1>9, <3>1, <3>2
  <2>2. \A n \in Node \ used : \A d \in ToSet(up'[m]) \cup ToSet(pending'[m]) : d.node # n
    BY <1>6, <1>8, Constants DEF Inv, UsedInv
  <2> QED BY <1>2, <1>3, <1>8, <2>1, <2>2 DEF Inv, UsedInv
<1>12. PendingInv'
  <2>1. Removals(pending'[m], view'[m])
    <3>1. CASE view'[m] = view[m]
      BY <1>6, <3>1
    <3>2. CASE /\ x.snap \in Snapshot
               /\ view'[m] = Overlay(x.snap.graph, pending'[m])
      <4>1. x.snap.graph \in Graph
        BY <3>2 DEF Snapshot
      <4>2. \A d \in ToSet(pending'[m]) : d.kind \in Edits /\ WellFormed(d)
        BY <1>5, <1>6
      <4> QED BY <1>2, <1>6, <3>2, <4>1, <4>2, RemovalsOver
    <3> QED BY <1>9, <3>1, <3>2
  <2> QED BY <1>2, <1>6, <1>8, <2>1 DEF Inv, PendingInv
<1>13. Ordered(down[m], memory, latest[m]) /\ (Carries(x) => Known(x.snap, memory))
  BY <1>3 DEF Inv, SnapInv, Ordered
<1>14. SnapInv'
  <2>1. latest'[m] = latest[m] \/ (Carries(x) /\ latest'[m] = x.snap.revision)
    BY <1>9
  <2>2. latest'[m] # None => latest'[m] <= memory.revision
    BY <1>4, <1>13, <2>1 DEF Inv, SnapInv, Known
  <2>3. Ordered(down'[m], memory, latest'[m])
    <3>1. ToSet(down'[m]) \subseteq ToSet(down[m])
      BY <1>3
    <3> QED BY <1>2, <1>3, <1>5, <1>13, <2>1, <3>1, OrderedTail
  <2> QED BY <1>1, <1>2, <1>3, <1>8, <2>2, <2>3 DEF Inv, SnapInv
<1>15. WayInv'
  <2> SUFFICES ASSUME gap # "failed", NEW k \in online, NEW d \in ToSet(pending'[k])
               PROVE  Answered(k, RequestId(d))'
    BY <1>2 DEF WayInv
  <2>1. d \in ToSet(pending[k]) /\ Answered(k, RequestId(d))
    BY <1>1, <1>2, <1>6 DEF Inv, WayInv
  <2>2. CASE k # m
    BY <1>1, <1>3, <1>8, <2>1, <2>2 DEF Answered
  <2>3. CASE k = m
    BY <1>3, <1>6, <1>8, <2>1, <2>3 DEF Answered
  <2> QED BY <2>2, <2>3
<1>16. CoverInv'
  <2> SUFFICES ASSUME Broadcasting, NEW k \in online PROVE Covered(k)'
    BY <1>2 DEF CoverInv, Broadcasting
  <2>1. Covered(k) /\ gap # "failed" /\ k \in Manager
    BY <1>1 DEF Inv, CoverInv, Broadcasting
  <2>2. CASE k # m
    BY <1>2, <1>3, <1>8, <2>1, <2>2 DEF Covered
  <2>3. CASE k = m /\ Carries(x) /\ x.snap = memory
    <3>1. latest'[m] = memory.revision /\ view'[m] = Overlay(memory.graph, pending'[m])
      <4>1. Fresh(m, x.snap)
        BY <1>4, <1>5, <2>3 DEF Fresh, Inv, SnapInv
      <4> QED BY <1>9, <2>3, <4>1
    <3>2. CASE pending'[m] = <<>>
      BY <1>2, <2>3, <3>1, <3>2, OverlayNothing DEF Covered
    <3>3. CASE pending'[m] # <<>>
      <4>1. PICK d : d \in ToSet(pending'[m])
        BY <1>2, <3>3, InPlaces
      <4>2. Answered(m, RequestId(d))'
        BY <1>2, <1>4, <1>15, <2>1, <4>1 DEF WayInv
      <4>3. CASE \E e \in ToSet(up'[m]) : RequestId(e) = RequestId(d)
        <5>1. up'[m] # <<>>
          BY <4>3, Nothing
        <5> QED BY <2>3, <5>1 DEF Covered
      <4>4. CASE \E y \in ToSet(down'[m]) : y.type = "result" /\ y.id = RequestId(d)
        <5>1. PICK y \in ToSet(down'[m]) : y.type = "result"
          BY <4>4
        <5>2. CASE Rejects(y)
          BY <2>3, <5>2 DEF Covered
        <5>3. CASE Carries(y)
          <6>1. /\ Known(y.snap, memory) /\ latest'[m] <= y.snap.revision
            <7>1. Ordered(down'[m], memory, latest'[m]) /\ latest'[m] # None
              BY <1>2, <1>5, <1>14, <3>1, Constants DEF SnapInv, Snapshot, Revision
            <7> QED BY <5>1, <5>3, <7>1 DEF Ordered
          <6>2. y.snap.revision = memory.revision
            <7>1. y \in Message
              BY <1>5, InPlaces
            <7>2. y.snap.revision \in Nat /\ memory.revision \in Nat
              BY <1>5, <5>3, <7>1, MessageKinds DEF Snapshot, Revision
            <7> QED BY <3>1, <6>1, <7>2 DEF Known
          <6>3. y.snap = memory
            BY <6>1, <6>2 DEF Known
          <6> QED BY <1>2, <2>3, <5>3, <6>3 DEF Covered
        <5>4. Rejects(y) \/ Carries(y)
          BY <5>1 DEF Rejects, Carries
        <5> QED BY <5>2, <5>3, <5>4
      <4> QED BY <4>2, <4>3, <4>4 DEF Answered
    <3> QED BY <3>2, <3>3
  <2>4. CASE k = m /\ ~(Carries(x) /\ x.snap = memory)
    <3>1. CASE up[m] # <<>> \/ Rejects(x)
      BY <1>8, <2>4, <3>1 DEF Covered
    <3>2. CASE \E y \in ToSet(down[m]) : Rejects(y) /\ y # x
      BY <1>3, <2>4, <3>2 DEF Covered
    <3>3. CASE \E y \in ToSet(down[m]) : Carries(y) /\ y.snap = memory
      BY <1>2, <1>3, <2>4, <3>3 DEF Covered
    <3>4. CASE memory \in ToSet(held)
      BY <1>2, <3>4 DEF Covered
    <3>5. CASE latest[m] = memory.revision /\ view[m] = memory.graph
      <4>1. ~Carries(x) \/ ~Fresh(m, x.snap)
        <5>1. ASSUME Carries(x) PROVE ~Fresh(m, x.snap)
          <6>1. x.snap.revision \in Nat /\ memory.revision \in Nat
            BY <1>2, <1>5, <5>1, MessageKinds DEF Snapshot, Revision
          <6>2. x.snap.revision <= memory.revision /\ x.snap.revision # memory.revision
            BY <1>13, <2>4, <5>1 DEF Known
          <6>3. latest[m] # None
            BY <3>5, <6>1, Constants
          <6> QED BY <3>5, <6>1, <6>2, <6>3 DEF Fresh
        <5> QED BY <5>1
      <4>2. latest'[m] = latest[m] /\ view'[m] = view[m]
        BY <1>9, <4>1
      <4> QED BY <1>2, <2>4, <3>5, <4>2 DEF Covered
    <3> QED BY <2>1, <2>4, <3>1, <3>2, <3>3, <3>4, <3>5 DEF Covered
  <2> QED BY <2>2, <2>3, <2>4
<1> QED BY <1>1, <1>10, <1>11, <1>12, <1>14, <1>15, <1>16 DEF Inv

LEMMA NextInv == Inv /\ [Next]_vars => Inv'
<1> SUFFICES ASSUME Inv, [Next]_vars PROVE Inv'
  OBVIOUS
<1>1. Types /\ Types'
  BY NextTypes DEF Inv
<1>2. ASSUME NEW m \in Manager, ReceiveSnapshot(m) \/ ReceiveResult(m) PROVE Inv'
  BY <1>1, <1>2, ReceiveEffect, ArrivesInv
<1>3. ASSUME NEW m \in Manager, NEW n \in Node,
             AddNode(m, n) \/ \E k \in {"set", "remove"} : ChangeNode(m, n, k)
      PROVE  Inv'
  BY <1>1, <1>3, EditSteps, EditInv
<1>4. CASE UNCHANGED vars
  BY <1>1, <1>4 DEF vars, serverVars, netVars, managerVars, Inv, AwayInv, UsedInv, PendingInv,
                    SnapInv, WayInv, Answered, CoverInv, Broadcasting, Covered
<1> QED BY <1>2, <1>3, <1>4, ServeInv, ServeFailsInv, ConnectInv, CutInv, ExpireInv,
           AiTurnInv, RunEndsInv, AiFailsInv, SupersededInv, RestartInv DEF Next

-----------------------------------------------------------------------------
(* The theorems *)

LEMMA Invariance == Spec => []Inv
BY InitInv, NextInv, PTL DEF Spec

\* trackPendingCommand and settlePendingCommand: a pending command always has
\* its command or its answer under way, also after losses, expiry and restarts,
\* so none stays to be laid over later snapshots for ever.
THEOREM PendingSettles == Spec => []PendingIsUnderWay
<1>1. Inv => PendingIsUnderWay
  <2> SUFFICES ASSUME Inv, gap # "failed", NEW m \in online, NEW i \in 1..Len(pending[m])
               PROVE  RequestId(pending[m][i]) \in UnderWay(m)
    BY DEF PendingIsUnderWay
  <2>1. /\ m \in Manager /\ pending[m] \in Seq(Command)
        /\ up[m] \in Seq(Command) /\ down[m] \in Seq(Message)
    BY TypesOf DEF Inv, Types, TypeOK
  <2>2. Answered(m, RequestId(pending[m][i]))
    BY <2>1, InPlaces DEF Inv, WayInv
  <2>3. CASE \E c \in ToSet(up[m]) : RequestId(c) = RequestId(pending[m][i])
    BY <2>1, <2>3, InPlaces DEF UnderWay
  <2>4. CASE \E x \in ToSet(down[m]) :
               x.type = "result" /\ x.id = RequestId(pending[m][i])
    BY <2>1, <2>4, InPlaces DEF UnderWay
  <2> QED BY <2>2, <2>3, <2>4 DEF Answered
<1> QED BY <1>1, Invariance, PTL

\* server-semantic-sync.ts:1 "mirroring the server-owned semantic graph": with
\* nothing under way every manager shows the server's graph, for any managers,
\* edits, outages and AI runs.
THEOREM CopiesConverge == Spec => []Mirrored
<1>1. Inv => Mirrored
  <2> SUFFICES ASSUME Inv, gap = "none", NEW m \in Manager, Settled(m)
               PROVE  view[m] = memory.graph
    BY DEF Mirrored
  <2>1. Covered(m)
    BY DEF Inv, CoverInv, Broadcasting, Settled
  <2>2. /\ up[m] = <<>> /\ ToSet(down[m]) = {} /\ ToSet(held) = {}
    BY Nothing DEF Settled
  <2> QED BY <2>1, <2>2 DEF Covered
<1> QED BY <1>1, Invariance, PTL

-----------------------------------------------------------------------------
(* Durability *)

Numbered == memory.revision \in Nat /\ disk.revision \in Nat /\ acked \in Nat

Durable == Numbered /\ ConfirmedIsDurable

\* A command gives the graph in memory the next revision.
LEMMA AppliedRevision ==
  ASSUME NEW c PROVE Applied(c).revision = memory.revision + 1
BY DEF Applied

LEMMA InitDurable == Init => Durable
BY DEF Init, Durable, Numbered, ConfirmedIsDurable

\* Writing the file raises its revision to that of the memory; only what is
\* written is confirmed; a restart returns to the file.
LEMMA NextDurable == Durable /\ [Next]_vars => Durable'
<1> USE DEF Durable, Numbered, ConfirmedIsDurable
<1> SUFFICES ASSUME Durable, [Next]_vars PROVE Durable'
    OBVIOUS
<1>1. ASSUME NEW m \in Manager, Serve(m) PROVE Durable'
  <2>1. CASE UNCHANGED <<memory, disk, acked>>
    BY <2>1
  <2>2. ASSUME memory' = Applied(Head(up[m])), Persist, acked' = memory'.revision
        PROVE  Durable'
    BY <2>2, AppliedRevision DEF Persist
  <2> QED
    BY <1>1, <2>1, <2>2 DEF Serve
<1>2. ASSUME NEW m \in Manager, ServeFails(m) PROVE Durable'
  BY <1>2, AppliedRevision DEF ServeFails
<1>3. ASSUME NEW n \in Node, AiTurn(n) PROVE Durable'
  BY <1>3, AppliedRevision DEF AiTurn, AiCommand, Persist
<1>4. CASE AiRunEnds
  <2>1. ASSUME NEW n \in Node, AiCommand(n), Persist, UNCHANGED acked PROVE Durable'
    BY <2>1, AppliedRevision DEF AiCommand, Persist
  <2>2. CASE UNCHANGED <<memory, disk, acked>>
    BY <2>2
  <2> QED
    BY <1>4, <2>1, <2>2 DEF AiRunEnds
<1>5. CASE AiFails
  BY <1>5, AppliedRevision DEF AiFails, AiCommand
<1>6. CASE ServerRestart
  BY <1>6 DEF ServerRestart
<1>7. CASE AiSuperseded
  BY <1>7 DEF AiSuperseded
<1>8. ASSUME NEW m \in Manager,
             \/ Connect(m) \/ Cut(m)
             \/ ReceiveSnapshot(m) \/ ReceiveResult(m) \/ Expire(m)
      PROVE  Durable'
  BY <1>8 DEF Connect, Cut, ReceiveSnapshot, ReceiveResult, Expire, serverVars
<1>9. ASSUME NEW m \in Manager, NEW n \in Node,
             AddNode(m, n) \/ \E k \in {"set", "remove"} : ChangeNode(m, n, k)
      PROVE  Durable'
  BY <1>9 DEF AddNode, ChangeNode, Edit, serverVars
<1>10. CASE UNCHANGED vars
  BY <1>10 DEF vars, serverVars
<1> QED
  BY <1>1, <1>2, <1>3, <1>4, <1>5, <1>6, <1>7, <1>8, <1>9, <1>10 DEF Next

\* A change confirmed to the manager that made it is on disk and survives every
\* restart, also when some writes fail (dispatch, persist and load of
\* SemanticGraphAuthorityService).
THEOREM Durability == Spec => []ConfirmedIsDurable
<1>1. Durable => ConfirmedIsDurable
  BY DEF Durable
<1> QED
  BY <1>1, InitDurable, NextDurable, PTL DEF Spec


LEMMA OneTurnNext ==
  ASSUME Turns = 1, TypeOK, gap # "superseded", [Next]_vars
  PROVE  gap' # "superseded"
<1>1. held = <<>>
  <2>1. held \in Seq(Snapshot) /\ Len(held) \in Nat /\ Len(held) < 1
    BY DEF TypeOK
  <2> QED BY <2>1, EmptySeq
<1>2. ~AiSuperseded
  BY <1>1 DEF AiSuperseded
<1>3. ASSUME NEW m \in Manager, Serve(m) \/ ServeFails(m) PROVE gap' # "superseded"
  BY <1>3 DEF Serve, ServeFails
<1>4. ASSUME NEW n \in Node, AiTurn(n) PROVE gap' # "superseded"
  BY <1>4 DEF AiTurn
<1>5. CASE AiRunEnds \/ AiFails \/ ServerRestart
  BY <1>5 DEF AiRunEnds, AiFails, ServerRestart
<1>6. ASSUME NEW m \in Manager,
             \/ Connect(m) \/ Cut(m)
             \/ ReceiveSnapshot(m) \/ ReceiveResult(m) \/ Expire(m)
      PROVE  gap' # "superseded"
  BY <1>6 DEF Connect, Cut, ReceiveSnapshot, ReceiveResult, Expire, serverVars
<1>7. ASSUME NEW m \in Manager, NEW n \in Node,
             AddNode(m, n) \/ \E k \in {"set", "remove"} : ChangeNode(m, n, k)
      PROVE  gap' # "superseded"
  BY <1>7 DEF AddNode, ChangeNode, Edit, serverVars
<1>8. CASE UNCHANGED vars
  BY <1>8 DEF vars, serverVars
<1> QED BY <1>2, <1>3, <1>4, <1>5, <1>6, <1>7, <1>8 DEF Next

\* message-router.service.spec.ts:509: managers show the server's graph after
\* AI mutations when a run visits a single space (AiAgentOrchestrator): the
\* failure of MirroredAfterAi that a run shows needs a second turn to skip.
THEOREM OneTurnIsMirrored == Turns = 1 /\ Spec => []MirroredAfterAi
<1> SUFFICES ASSUME Turns = 1 PROVE Spec => []MirroredAfterAi
  OBVIOUS
<1>1. Init => gap # "superseded"
  BY DEF Init
<1>2. Inv => TypeOK
  BY DEF Inv, Types
<1>3. TypeOK /\ gap # "superseded" /\ [Next]_vars => (gap # "superseded")'
  BY OneTurnNext
<1>4. Spec => [](gap # "superseded")
  BY <1>1, <1>2, <1>3, Invariance, PTL DEF Spec
<1>5. Inv /\ Mirrored /\ gap # "superseded" => MirroredAfterAi
  BY <1>2 DEF Mirrored, MirroredAfterAi, TypeOK
<1> QED BY <1>4, <1>5, Invariance, CopiesConverge, PTL
=============================================================================
