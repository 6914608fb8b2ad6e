------------------------ MODULE PatchDeploymentProofs ------------------------
(***************************************************************************)
(* Theorems about PatchDeployment, for any number of clients, edits and    *)
(* outages.                                                                *)
(*                                                                         *)
(* Nothing acknowledges a deployment, so the argument is about what is on  *)
(* its way: for each client the controls sent and not yet obeyed are taken *)
(* together with its executor, and say what the executor will end with     *)
(* (Ends: the recorded version runs and the field has its newest value;    *)
(* Withdrawn: the patch is gone, or older than the connection).  A control *)
(* sent is added at the end, a control obeyed leaves at the front, and     *)
(* neither changes what the executor ends with but as the record does.     *)
(* The revisions date the rest: a record of an earlier connection promises *)
(* nothing.                                                                *)
(***************************************************************************)
EXTENDS PatchDeployment, SequenceTheorems, TLAPS

-----------------------------------------------------------------------------
(* A client, told apart from the others *)

Override  == [value : Nat, brief : BOOLEAN]
Executing == [loop : {None, Patch}, version : Nat, value : Nat, over : Override \cup {None},
              running : BOOLEAN, since : Nat]
Control   == [cmd : {"stop", "remove", "start"}, loop : {Patch}]
             \cup [cmd : {"deploy"}, loop : {Patch}, version : Nat, value : Nat]
             \cup [cmd : {"override"}, loop : {Patch}, value : Nat, brief : BOOLEAN]
Known     == [on : BOOLEAN, since : Nat]
Recorded  == [version : Nat, revision : Nat]

\* With value v in the payload and override o over it, the field has its newest
\* value, or a commit that is still to come gives it; but for one that outlived
\* its deployment.
Settles(commit, v, o, newest) ==
  IF commit # None
  THEN commit = newest \/ commit < v
  ELSE IF o = None THEN v = newest
  ELSE ~o.brief /\ (o.value = newest \/ o.value < v)

\* With controls q on their way to it, executor e ends with version n running:
\* it runs it, or will when it has obeyed the deployment at place i, and no
\* later control takes it away; k is the place of the last override.
Value(e, q, i) == IF i = 0 THEN e.value ELSE q[i].value
Over(e, q, i, k) ==
  IF k > i THEN [value |-> q[k].value, brief |-> q[k].brief] ELSE IF i = 0 THEN e.over ELSE None

From(e, q, i, n) ==
  /\ IF i = 0 THEN e.running /\ e.loop = Patch /\ e.version = n
              ELSE q[i].cmd = "deploy" /\ q[i].version = n
  /\ \A j \in (i + 1)..Len(q) : q[j].cmd \in {"start", "override"}

LastOver(q, i, k) ==
  /\ k = i \/ q[k].cmd = "override"
  /\ \A j \in (k + 1)..Len(q) : q[j].cmd # "override"

Ends(e, q, n, commit, newest) ==
  \E i \in 0..Len(q) :
    /\ From(e, q, i, n)
    /\ \E k \in i..Len(q) :
         LastOver(q, i, k) /\ Settles(commit, Value(e, q, i), Over(e, q, i, k), newest)

\* Executor e ends without the patch, or with what it had loaded before the
\* connection it has now, which is the one since s.
Withdrawn(e, q, s) ==
  \/ \E i \in 1..Len(q) : q[i].cmd = "remove" /\ \A j \in (i + 1)..Len(q) : q[j].cmd # "deploy"
  \/ /\ \A j \in 1..Len(q) : q[j].cmd # "deploy"
     /\ e.loop = None \/ e.since < s

\* What the manager knows of the connection, and what its record is of, is the
\* present or the past; nothing is on its way where there is no connection.
Dated(e, q, on, sv, vw, r, commit, newest) ==
  /\ e \in Executing /\ q \in Seq(Control) /\ on \in BOOLEAN /\ sv \in Known /\ vw \in Known
  /\ r \in Recorded \cup {None} /\ commit \in Nat \cup {None} /\ newest \in Nat
  /\ e.since <= sv.since /\ vw.since <= sv.since
  /\ r # None => r.revision <= vw.since
  /\ commit # None => commit <= newest
  /\ ~on => q = <<>>
  /\ ~sv.on => ~on
  /\ ~vw.on /\ vw.since = sv.since => ~on

Good(c, e, q, on, sv, vw, r, commit, newest) ==
  /\ Dated(e, q, on, sv, vw, r, commit, newest)
  /\ c \in Able /\ on /\ r # None /\ r.revision = sv.since => Ends(e, q, r.version, commit, newest)
  /\ on /\ r = None => Withdrawn(e, q, sv.since)

GoodNow(c) ==
  Good(c, exec[c], down[c], link[c], server[c], view[c], records[c], commits[c], live)

ClientInv == \A c \in Client : GoodNow(c)

Shapes ==
  /\ DOMAIN exec = Client /\ DOMAIN down = Client /\ DOMAIN link = Client
  /\ DOMAIN server = Client /\ DOMAIN commits = Client
  /\ graph \in [root : BOOLEAN, to : SUBSET Client, version : Nat]

DeployInv == Shapes /\ ClientInv

\* A plan that was made was carried out, unless a timer is still to do it.
PlanInv ==
  /\ planned \in {None, graph.root}
  /\ isRunning /\ ~gated /\ graph.root /\ ~patchDeployTimer /\ patchLastPlan # None => Deployed # {}

-----------------------------------------------------------------------------
(* Controls that are added, and controls that are obeyed *)

LEMMA ControlsOf ==
  /\ Start(Patch) \in Control /\ Stop(Patch) \in Control /\ Remove(Patch) \in Control
  /\ \A n, v \in Nat : Deploy(Patch, n, v) \in Control
  /\ \A v \in Nat, b \in BOOLEAN : OverrideSet(Patch, v, b) \in Control
BY DEF Start, Stop, Remove, Deploy, OverrideSet, Control

\* The places of a sequence stay when it is made longer.
LEMMA OneMore ==
  ASSUME NEW q \in Seq(Control), NEW m \in Control
  PROVE  /\ q \o <<m>> \in Seq(Control) /\ Len(q \o <<m>>) = Len(q) + 1 /\ Len(q) \in Nat
         /\ (q \o <<m>>)[Len(q) + 1] = m
         /\ \A i \in 1..Len(q) : (q \o <<m>>)[i] = q[i]
BY LenProperties

LEMMA TwoMore ==
  ASSUME NEW q \in Seq(Control), NEW m \in Control, NEW n \in Control
  PROVE  /\ q \o <<m, n>> \in Seq(Control) /\ Len(q \o <<m, n>>) = Len(q) + 2 /\ Len(q) \in Nat
         /\ (q \o <<m, n>>)[Len(q) + 1] = m /\ (q \o <<m, n>>)[Len(q) + 2] = n
         /\ \A i \in 1..Len(q) : (q \o <<m, n>>)[i] = q[i]
BY LenProperties

\* What is deployed last ends running, with the newest value.
LEMMA EndsDeployed ==
  ASSUME NEW e, NEW q \in Seq(Control), NEW n \in Nat, NEW newest \in Nat,
         NEW commit \in Nat \cup {None}, commit # None => commit <= newest
  PROVE  Ends(e, q \o <<Deploy(Patch, n, newest), Start(Patch)>>, n, commit, newest)
<1> DEFINE more == q \o <<Deploy(Patch, n, newest), Start(Patch)>>
<1>0. PICK i \in Nat : i = Len(q) + 1
  BY LenProperties
<1>1. /\ Len(more) = Len(q) + 2 /\ Len(q) \in Nat
      /\ more[i] = Deploy(Patch, n, newest) /\ more[i + 1] = Start(Patch)
  BY <1>0, ControlsOf, TwoMore
<1> HIDE DEF more
<1>2. i \in 0..Len(more) /\ i \in i..Len(more) /\ i # 0 /\ ~(i > i)
  BY <1>0, <1>1
<1>3. \A j \in (i + 1)..Len(more) : more[j].cmd = "start"
  <2>1. \A j \in (i + 1)..Len(more) : j = i + 1
    BY <1>0, <1>1
  <2> QED BY <1>1, <2>1 DEF Start
<1>4. more[i].cmd = "deploy" /\ more[i].version = n /\ more[i].value = newest
  BY <1>1 DEF Deploy
<1>5. From(e, more, i, n)
  BY <1>2, <1>3, <1>4 DEF From
<1>6. LastOver(more, i, i)
  BY <1>3 DEF LastOver
<1>7. Settles(commit, Value(e, more, i), Over(e, more, i, i), newest)
  <2>1. Value(e, more, i) = newest
    BY <1>2, <1>4 DEF Value
  <2>2. Over(e, more, i, i) = None
    BY <1>2 DEF Over
  <2> QED BY <2>1, <2>2 DEF Settles
<1>8. Ends(e, more, n, commit, newest)
  BY <1>2, <1>5, <1>6, <1>7 DEF Ends
<1> QED BY <1>8 DEF more

LEMMA EndsStarted ==
  ASSUME NEW e, NEW q \in Seq(Control), NEW n, NEW commit, NEW newest,
         Ends(e, q, n, commit, newest)
  PROVE  Ends(e, q \o <<Start(Patch)>>, n, commit, newest)
<1> DEFINE more == q \o <<Start(Patch)>>
<1>1. /\ Len(more) = Len(q) + 1 /\ Len(q) \in Nat /\ more[Len(q) + 1].cmd = "start"
      /\ \A i \in 1..Len(q) : more[i] = q[i]
  <2>1. Start(Patch).cmd = "start"
    BY DEF Start
  <2> QED BY <2>1, ControlsOf, OneMore
<1> HIDE DEF more
<1>0. PICK i \in 0..Len(q) :
        /\ From(e, q, i, n)
        /\ \E k \in i..Len(q) :
             LastOver(q, i, k) /\ Settles(commit, Value(e, q, i), Over(e, q, i, k), newest)
  BY DEF Ends
<1>2. PICK k \in i..Len(q) :
        From(e, q, i, n) /\ LastOver(q, i, k) /\ Settles(commit, Value(e, q, i), Over(e, q, i, k), newest)
  BY <1>0
<1>3. i \in 0..Len(more) /\ k \in i..Len(more)
  BY <1>1
<1>4. \A j \in (i + 1)..Len(more) : j = Len(q) + 1 \/ j \in (i + 1)..Len(q)
  BY <1>1
<1>5. \A j \in (k + 1)..Len(more) : j = Len(q) + 1 \/ j \in (k + 1)..Len(q)
  BY <1>1
<1>6. i # 0 => i \in 1..Len(q)
  OBVIOUS
<1>7. k > i => k \in 1..Len(q)
  OBVIOUS
<1>8. From(e, more, i, n)
  <2>1. \A j \in (i + 1)..Len(q) : j \in 1..Len(q)
    OBVIOUS
  <2> QED BY <1>1, <1>2, <1>4, <1>6, <2>1 DEF From
<1>9. LastOver(more, i, k)
  <2>1. \A j \in (k + 1)..Len(q) : j \in 1..Len(q)
    OBVIOUS
  <2>2. k # i => k > i
    OBVIOUS
  <2> QED BY <1>1, <1>2, <1>5, <1>7, <2>1, <2>2 DEF LastOver
<1>10. Value(e, more, i) = Value(e, q, i) /\ Over(e, more, i, k) = Over(e, q, i, k)
  BY <1>1, <1>6, <1>7 DEF Value, Over
<1>11. Ends(e, more, n, commit, newest)
  BY <1>2, <1>3, <1>8, <1>9, <1>10 DEF Ends
<1> QED BY <1>11 DEF more

\* An override that comes last decides.
LEMMA EndsOverridden ==
  ASSUME NEW e, NEW q \in Seq(Control), NEW n, NEW commit, NEW newest,
         Ends(e, q, n, commit, newest),
         NEW v \in Nat, NEW b \in BOOLEAN, NEW commit2, NEW newest2,
         \A w, o : Settles(commit, w, o, newest) =>
                     Settles(commit2, w, [value |-> v, brief |-> b], newest2)
  PROVE  Ends(e, q \o <<OverrideSet(Patch, v, b)>>, n, commit2, newest2)
<1> DEFINE more == q \o <<OverrideSet(Patch, v, b)>>
           k == Len(q) + 1
<1>1. /\ Len(more) = k /\ Len(q) \in Nat /\ more[k] = OverrideSet(Patch, v, b)
      /\ \A i \in 1..Len(q) : more[i] = q[i]
  BY ControlsOf, OneMore
<1>2. more[k].cmd = "override" /\ more[k].value = v /\ more[k].brief = b
  BY <1>1 DEF OverrideSet
<1> HIDE DEF more
<1>3. PICK i \in 0..Len(q) :
        From(e, q, i, n) /\ \E w, o : Settles(commit, w, o, newest) /\ w = Value(e, q, i)
  BY DEF Ends
<1>4. i \in 0..Len(more) /\ k \in i..Len(more) /\ k > i
  BY <1>1
<1>5. i # 0 => i \in 1..Len(q)
  OBVIOUS
<1>6. From(e, more, i, n)
  <2>1. \A j \in (i + 1)..Len(more) : j = k \/ j \in (i + 1)..Len(q)
    BY <1>1
  <2>2. \A j \in (i + 1)..Len(q) : j \in 1..Len(q)
    OBVIOUS
  <2> HIDE DEF k
  <2> QED BY <1>1, <1>2, <1>3, <1>5, <2>1, <2>2 DEF From
<1>7. LastOver(more, i, k)
  <2>1. ~ \E j \in (k + 1)..Len(more) : TRUE
    BY <1>1
  <2> QED BY <1>2, <2>1 DEF LastOver
<1>8. Value(e, more, i) = Value(e, q, i) /\ Over(e, more, i, k) = [value |-> v, brief |-> b]
  BY <1>1, <1>2, <1>4, <1>5 DEF Value, Over
<1>9. Ends(e, more, n, commit2, newest2)
  BY <1>3, <1>4, <1>6, <1>7, <1>8 DEF Ends
<1> QED BY <1>9 DEF more

LEMMA WithdrawnStopped ==
  ASSUME NEW e, NEW q \in Seq(Control), NEW s
  PROVE  Withdrawn(e, q \o StopAndRemove, s)
<1> DEFINE more == q \o <<Stop(Patch), Remove(Patch)>>
<1>1. Len(more) = Len(q) + 2 /\ Len(q) \in Nat /\ more[Len(q) + 2] = Remove(Patch)
  BY ControlsOf, TwoMore
<1>2. StopAndRemove = <<Stop(Patch), Remove(Patch)>>
  BY DEF StopAndRemove
<1> HIDE DEF more
<1>3. Len(q) + 2 \in 1..Len(more) /\ ~ \E j \in ((Len(q) + 2) + 1)..Len(more) : TRUE
  BY <1>1
<1>4. more[Len(q) + 2].cmd = "remove"
  BY <1>1 DEF Remove
<1>5. Withdrawn(e, more, s)
  BY <1>3, <1>4 DEF Withdrawn
<1> QED BY <1>2, <1>5 DEF more

LEMMA WithdrawnStill ==
  ASSUME NEW e, NEW q \in Seq(Control), NEW s, Withdrawn(e, q, s),
         NEW m \in Control, m.cmd # "deploy"
  PROVE  Withdrawn(e, q \o <<m>>, s)
<1> DEFINE more == q \o <<m>>
<1>1. /\ Len(more) = Len(q) + 1 /\ Len(q) \in Nat /\ more[Len(q) + 1] = m
      /\ \A i \in 1..Len(q) : more[i] = q[i]
  BY OneMore
<1> HIDE DEF more
<1>2. CASE \E i \in 1..Len(q) : q[i].cmd = "remove" /\ \A j \in (i + 1)..Len(q) : q[j].cmd # "deploy"
  <2>1. PICK i \in 1..Len(q) : q[i].cmd = "remove" /\ \A j \in (i + 1)..Len(q) : q[j].cmd # "deploy"
    BY <1>2
  <2>2. \A j \in (i + 1)..Len(more) : j = Len(q) + 1 \/ (j \in (i + 1)..Len(q) /\ j \in 1..Len(q))
    BY <1>1
  <2>3. i \in 1..Len(more) /\ more[i].cmd = "remove"
    BY <1>1, <2>1
  <2>4. \A j \in (i + 1)..Len(more) : more[j].cmd # "deploy"
    BY <1>1, <2>1, <2>2
  <2>5. Withdrawn(e, more, s)
    BY <2>3, <2>4 DEF Withdrawn
  <2> QED BY <2>5 DEF more
<1>3. CASE (\A j \in 1..Len(q) : q[j].cmd # "deploy") /\ (e.loop = None \/ e.since < s)
  <2>1. \A j \in 1..Len(more) : j = Len(q) + 1 \/ j \in 1..Len(q)
    BY <1>1
  <2>2. \A j \in 1..Len(more) : more[j].cmd # "deploy"
    BY <1>1, <1>3, <2>1
  <2>3. Withdrawn(e, more, s)
    BY <1>3, <2>2 DEF Withdrawn
  <2> QED BY <2>3 DEF more
<1> QED BY <1>2, <1>3 DEF Withdrawn

\* What an executor is after control m, on the connection since s.
Obeyed(c, e, m, s, e2) ==
  /\ m.cmd = "deploy" /\ c \in Able =>
       e2 = [loop |-> Patch, version |-> m.version, value |-> m.value, over |-> None,
             running |-> TRUE, since |-> s]
  /\ m.cmd = "deploy" /\ c \notin Able => e2 = e
  /\ m.cmd = "start" =>
       e2 = [loop |-> e.loop, version |-> e.version, value |-> e.value, over |-> e.over,
             running |-> TRUE, since |-> e.since]
  /\ m.cmd = "stop" =>
       e2 = [loop |-> e.loop, version |-> e.version, value |-> e.value, over |-> e.over,
             running |-> FALSE, since |-> e.since]
  /\ m.cmd = "remove" => e2 = Empty
  /\ m.cmd = "override" =>
       e2 = [loop |-> e.loop, version |-> e.version, value |-> e.value,
             over |-> [value |-> m.value, brief |-> m.brief], running |-> e.running, since |-> e.since]

LEMMA TailPlaces ==
  ASSUME NEW q \in Seq(Control), q # <<>>
  PROVE  /\ Tail(q) \in Seq(Control) /\ Len(Tail(q)) = Len(q) - 1 /\ Len(q) \in Nat \ {0}
         /\ Head(q) = q[1] /\ Head(q) \in Control
         /\ \A j \in 1..(Len(q) - 1) : Tail(q)[j] = q[j + 1]
         /\ \A j \in 2..Len(q) : q[j] = Tail(q)[j - 1]
<1>1. /\ Tail(q) \in Seq(Control) /\ Len(Tail(q)) = Len(q) - 1
      /\ \A i \in 1..Len(Tail(q)) : Tail(q)[i] = q[i + 1]
  BY HeadTailProperties
<1>2. Len(q) \in Nat \ {0} /\ Head(q) = q[1] /\ 1 \in 1..Len(q)
  BY EmptySeq
<1>3. q[1] \in Control
  BY <1>2, ElementOfSeq
<1>4. ASSUME NEW j \in 2..Len(q) PROVE q[j] = Tail(q)[j - 1]
  <2>1. j - 1 \in 1..Len(Tail(q)) /\ (j - 1) + 1 = j
    BY <1>1, <1>2
  <2> QED BY <1>1, <2>1
<1> QED BY <1>1, <1>2, <1>3, <1>4

LEMMA EndsServed ==
  ASSUME NEW e, NEW q \in Seq(Control), q # <<>>, NEW n, NEW commit, NEW newest,
         Ends(e, q, n, commit, newest), NEW s, NEW c \in Able, NEW e2, Obeyed(c, e, Head(q), s, e2)
  PROVE  Ends(e2, Tail(q), n, commit, newest)
<1> DEFINE t == Tail(q)
<1>1. /\ Len(t) = Len(q) - 1 /\ Len(q) \in Nat \ {0} /\ Head(q) = q[1]
      /\ \A j \in 1..Len(t) : t[j] = q[j + 1]
  BY TailPlaces
<1> HIDE DEF t
<1>0. PICK i \in 0..Len(q) :
        /\ From(e, q, i, n)
        /\ \E k \in i..Len(q) :
             LastOver(q, i, k) /\ Settles(commit, Value(e, q, i), Over(e, q, i, k), newest)
  BY DEF Ends
<1>2. PICK k \in i..Len(q) :
        From(e, q, i, n) /\ LastOver(q, i, k) /\ Settles(commit, Value(e, q, i), Over(e, q, i, k), newest)
  BY <1>0
<1>3. CASE i = 0
  <2>1. q[1].cmd \in {"start", "override"} /\ e.running /\ e.loop = Patch /\ e.version = n
    BY <1>1, <1>2, <1>3 DEF From
  <2>2. e2.running /\ e2.loop = Patch /\ e2.version = n /\ e2.value = e.value
    BY <1>1, <2>1 DEF Obeyed
  <2>3. From(e2, t, 0, n)
    <3>1. \A j \in 1..Len(t) : j + 1 \in 1..Len(q)
      BY <1>1
    <3> QED BY <1>1, <1>2, <1>3, <2>2, <3>1 DEF From
  <2>4. Value(e2, t, 0) = Value(e, q, i)
    BY <1>3, <2>2 DEF Value
  <2>5. CASE k = 0
    <3>1. \A j \in 1..Len(q) : q[j].cmd # "override"
      BY <1>2, <1>3, <2>5 DEF LastOver
    <3>2. \A j \in 1..Len(t) : j + 1 \in 1..Len(q)
      BY <1>1
    <3>3. LastOver(t, 0, 0)
      BY <1>1, <3>1, <3>2 DEF LastOver
    <3>4. q[1].cmd = "start"
      BY <1>1, <2>1, <3>1
    <3>5. Over(e2, t, 0, 0) = Over(e, q, i, k)
      BY <1>1, <1>3, <2>5, <3>4 DEF Over, Obeyed
    <3>6. 0 \in 0..Len(t)
      BY <1>1
    <3> QED BY <1>2, <2>3, <2>4, <3>3, <3>5, <3>6 DEF Ends, t
  <2>6. CASE k # 0
    <3>1. k - 1 \in 0..Len(t) /\ k > i /\ k \in 1..Len(q)
      BY <1>1, <1>3, <2>6
    <3>2. LastOver(t, 0, k - 1)
      <4>1. \A j \in ((k - 1) + 1)..Len(t) : j \in 1..Len(t) /\ j + 1 \in (k + 1)..Len(q)
        BY <1>1, <3>1
      <4>2. \A j \in ((k - 1) + 1)..Len(t) : t[j].cmd # "override"
        BY <1>1, <1>2, <4>1 DEF LastOver
      <4>3. k - 1 # 0 => k - 1 \in 1..Len(t) /\ (k - 1) + 1 = k
        BY <3>1
      <4>4. q[k].cmd = "override"
        BY <1>2, <1>3, <2>6 DEF LastOver
      <4>5. k - 1 = 0 \/ t[k - 1].cmd = "override"
        BY <1>1, <4>3, <4>4
      <4> QED BY <4>2, <4>5 DEF LastOver
    <3>3. Over(e2, t, 0, k - 1) = Over(e, q, i, k)
      <4>1. Over(e, q, i, k) = [value |-> q[k].value, brief |-> q[k].brief]
        BY <3>1 DEF Over
      <4>2. CASE k = 1
        <5>1. q[1].cmd = "override" /\ ~(k - 1 > 0)
          BY <1>2, <1>3, <4>2 DEF LastOver
        <5> QED BY <1>1, <4>1, <4>2, <5>1 DEF Over, Obeyed
      <4>3. CASE k # 1
        <5>1. k - 1 > 0 /\ k - 1 \in 1..Len(t) /\ (k - 1) + 1 = k
          BY <3>1, <4>3
        <5> QED BY <1>1, <4>1, <5>1 DEF Over
      <4> QED BY <4>2, <4>3
    <3>4. 0 \in 0..Len(t)
      BY <1>1
    <3> QED BY <1>2, <2>3, <2>4, <3>1, <3>2, <3>3, <3>4 DEF Ends, t
  <2> QED BY <2>5, <2>6
<1>4. CASE i # 0
  <2>1. i - 1 \in 0..Len(t) /\ k - 1 \in (i - 1)..Len(t) /\ i \in 1..Len(q) /\ k \in 1..Len(q)
    BY <1>1, <1>4
  <2>2. q[i].cmd = "deploy" /\ q[i].version = n
    BY <1>2, <1>4 DEF From
  <2>3. CASE i = 1
    <3>1. /\ e2.running /\ e2.loop = Patch /\ e2.version = n
          /\ e2.value = q[1].value /\ e2.over = None
      BY <1>1, <2>2, <2>3 DEF Obeyed
    <3>2. From(e2, t, i - 1, n)
      <4>1. \A j \in ((i - 1) + 1)..Len(t) : j \in 1..Len(t) /\ j + 1 \in (i + 1)..Len(q)
        BY <1>1, <2>3
      <4>2. i - 1 = 0
        BY <2>3
      <4> QED BY <1>1, <1>2, <3>1, <4>1, <4>2 DEF From
    <3>3. Value(e2, t, i - 1) = Value(e, q, i)
      BY <2>3, <3>1 DEF Value
    <3>4. Over(e2, t, i - 1, k - 1) = Over(e, q, i, k)
      <4>1. CASE k = 1
        BY <2>3, <3>1, <4>1 DEF Over
      <4>2. CASE k # 1
        <5>1. k > i /\ k - 1 > i - 1 /\ k - 1 \in 1..Len(t) /\ (k - 1) + 1 = k
          BY <2>1, <2>3, <4>2
        <5> QED BY <1>1, <5>1 DEF Over
      <4> QED BY <4>1, <4>2
    <3>5. LastOver(t, i - 1, k - 1)
      <4>1. \A j \in ((k - 1) + 1)..Len(t) : j \in 1..Len(t) /\ j + 1 \in (k + 1)..Len(q)
        BY <1>1, <2>1
      <4>2. k # i => k - 1 \in 1..Len(t) /\ (k - 1) + 1 = k
        BY <1>1, <2>1, <2>3
      <4>3. k = i => k - 1 = i - 1
        OBVIOUS
      <4> QED BY <1>1, <1>2, <4>1, <4>2, <4>3 DEF LastOver
    <3> QED BY <1>2, <2>1, <3>2, <3>3, <3>4, <3>5 DEF Ends, t
  <2>4. CASE i # 1
    <3>1. /\ i - 1 # 0 /\ i - 1 \in 1..Len(t) /\ (i - 1) + 1 = i
          /\ k - 1 \in 1..Len(t) /\ (k - 1) + 1 = k
      BY <1>1, <2>1, <2>4
    <3>2. t[i - 1] = q[i] /\ t[k - 1] = q[k]
      BY <1>1, <3>1
    <3>3. From(e2, t, i - 1, n)
      <4>1. \A j \in ((i - 1) + 1)..Len(t) : j \in 1..Len(t) /\ j + 1 \in (i + 1)..Len(q)
        BY <1>1, <3>1
      <4> QED BY <1>1, <1>2, <2>2, <3>1, <3>2, <4>1 DEF From
    <3>4. LastOver(t, i - 1, k - 1)
      <4>1. \A j \in ((k - 1) + 1)..Len(t) : j \in 1..Len(t) /\ j + 1 \in (k + 1)..Len(q)
        BY <1>1, <3>1
      <4>2. k = i => k - 1 = i - 1
        OBVIOUS
      <4> QED BY <1>1, <1>2, <3>2, <4>1, <4>2 DEF LastOver
    <3>5. Value(e2, t, i - 1) = Value(e, q, i)
      BY <1>4, <3>1, <3>2 DEF Value
    <3>6. Over(e2, t, i - 1, k - 1) = Over(e, q, i, k)
      <4>1. k > i <=> k - 1 > i - 1
        OBVIOUS
      <4> QED BY <1>4, <3>1, <3>2, <4>1 DEF Over
    <3> QED BY <1>2, <2>1, <3>3, <3>4, <3>5, <3>6 DEF Ends, t
  <2> QED BY <2>3, <2>4
<1> QED BY <1>3, <1>4

\* An override that expires was to be committed, or is not the last.
LEMMA EndsExpired ==
  ASSUME NEW e, e.over # None, e.over.brief, NEW q \in Seq(Control), NEW n, NEW commit, NEW newest,
         Ends(e, q, n, commit, newest), NEW e2,
         e2 = [loop |-> e.loop, version |-> e.version, value |-> e.value, over |-> None,
               running |-> e.running, since |-> e.since]
  PROVE  Ends(e2, q, n, commit, newest)
<1>0. PICK i \in 0..Len(q) :
        /\ From(e, q, i, n)
        /\ \E k \in i..Len(q) :
             LastOver(q, i, k) /\ Settles(commit, Value(e, q, i), Over(e, q, i, k), newest)
  BY DEF Ends
<1>1. PICK k \in i..Len(q) :
        From(e, q, i, n) /\ LastOver(q, i, k) /\ Settles(commit, Value(e, q, i), Over(e, q, i, k), newest)
  BY <1>0
<1>2. From(e2, q, i, n) /\ Value(e2, q, i) = Value(e, q, i)
  BY <1>1 DEF From, Value
<1>3. Settles(commit, Value(e, q, i), Over(e2, q, i, k), newest)
  <2>1. CASE i = 0 /\ ~(k > i)
    <3>1. Over(e, q, i, k) = e.over
      BY <2>1 DEF Over
    <3>2. commit # None
      BY <1>1, <3>1 DEF Settles
    <3> QED BY <1>1, <3>2 DEF Settles
  <2>2. CASE ~(i = 0 /\ ~(k > i))
    <3>1. Over(e2, q, i, k) = Over(e, q, i, k)
      BY <2>2 DEF Over
    <3> QED BY <1>1, <3>1
  <2> QED BY <2>1, <2>2
<1> QED BY <1>1, <1>2, <1>3 DEF Ends

LEMMA WithdrawnServed ==
  ASSUME NEW e, NEW q \in Seq(Control), q # <<>>, NEW s, Withdrawn(e, q, s),
         NEW c, NEW r, NEW e2, Obeyed(c, e, Head(q), r, e2)
  PROVE  Withdrawn(e2, Tail(q), s)
<1> DEFINE t == Tail(q)
<1>1. /\ Len(t) = Len(q) - 1 /\ Len(q) \in Nat \ {0} /\ Head(q) = q[1] /\ q[1] \in Control
      /\ \A j \in 1..Len(t) : t[j] = q[j + 1]
  BY TailPlaces
<1> HIDE DEF t
<1>2. ASSUME NEW i \in 1..Len(q), q[i].cmd = "remove", \A j \in (i + 1)..Len(q) : q[j].cmd # "deploy"
      PROVE  Withdrawn(e2, t, s)
  <2>1. \A j \in i..Len(t) : j \in 1..Len(t) /\ j + 1 \in (i + 1)..Len(q)
    BY <1>1
  <2>2. \A j \in i..Len(t) : t[j].cmd # "deploy"
    BY <1>1, <1>2, <2>1
  <2>3. CASE i = 1
    <3>1. e2.loop = None
      BY <1>1, <1>2, <2>3 DEF Obeyed, Empty
    <3> QED BY <2>2, <2>3, <3>1 DEF Withdrawn
  <2>4. CASE i # 1
    <3>1. i - 1 \in 1..Len(t) /\ (i - 1) + 1 = i
      BY <1>1, <2>4
    <3>2. t[i - 1].cmd = "remove"
      BY <1>1, <1>2, <3>1
    <3> QED BY <2>2, <3>1, <3>2 DEF Withdrawn
  <2> QED BY <2>3, <2>4
<1>3. ASSUME \A j \in 1..Len(q) : q[j].cmd # "deploy", e.loop = None \/ e.since < s
      PROVE  Withdrawn(e2, t, s)
  <2>1. \A j \in 1..Len(t) : j + 1 \in 1..Len(q)
    BY <1>1
  <2>2. \A j \in 1..Len(t) : t[j].cmd # "deploy"
    BY <1>1, <1>3, <2>1
  <2>3. q[1].cmd \in {"start", "stop", "remove", "override"}
    BY <1>1, <1>3 DEF Control
  <2>4. e2.loop = None \/ (e2.loop = e.loop /\ e2.since = e.since)
    BY <1>1, <2>3 DEF Obeyed, Empty
  <2> QED BY <1>3, <2>2, <2>4 DEF Withdrawn
<1> QED BY <1>2, <1>3 DEF Withdrawn, t

-----------------------------------------------------------------------------
(* What happens to one client *)

LEMMA ExecutorsOf ==
  /\ Empty \in Executing /\ Empty.since = 0
  /\ \A e \in Executing, b \in BOOLEAN, o \in Override \cup {None} :
       [loop |-> e.loop, version |-> e.version, value |-> e.value, over |-> o, running |-> b,
        since |-> e.since] \in Executing
<1>1. Empty \in Executing /\ Empty.since = 0
  BY DEF Empty, Executing
<1>2. ASSUME NEW e \in Executing, NEW b \in BOOLEAN, NEW o \in Override \cup {None}
      PROVE  [loop |-> e.loop, version |-> e.version, value |-> e.value, over |-> o, running |-> b,
              since |-> e.since] \in Executing
  BY DEF Executing
<1> QED BY <1>1, <1>2

\* It is withdrawn from.
LEMMA GoodStopped ==
  ASSUME NEW c, NEW e, NEW q, NEW on, NEW sv, NEW vw, NEW r, NEW commit, NEW newest,
         Good(c, e, q, on, sv, vw, r, commit, newest),
         NEW q2, q2 = IF on THEN q \o StopAndRemove ELSE q
  PROVE  Good(c, e, q2, on, sv, vw, None, commit, newest)
<1>1. q \in Seq(Control) /\ StopAndRemove \in Seq(Control)
  BY ControlsOf DEF Good, Dated, StopAndRemove
<1>2. q2 \in Seq(Control)
  BY <1>1, ConcatProperties
<1>3. Dated(e, q2, on, sv, vw, None, commit, newest)
  BY <1>2 DEF Good, Dated
<1>4. on => Withdrawn(e, q2, sv.since)
  BY <1>1, WithdrawnStopped
<1> QED BY <1>3, <1>4 DEF Good

\* It is deployed to.
LEMMA GoodDeployed ==
  ASSUME NEW c, NEW e, NEW q, NEW on, NEW sv, NEW vw, NEW r, NEW commit, NEW newest,
         Good(c, e, q, on, sv, vw, r, commit, newest), NEW n \in Nat,
         NEW q2, q2 = IF on THEN q \o <<Deploy(Patch, n, newest), Start(Patch)>> ELSE q
  PROVE  Good(c, e, q2, on, sv, vw, [version |-> n, revision |-> vw.since], commit, newest)
<1> DEFINE r2 == [version |-> n, revision |-> vw.since]
<1>0. q \in Seq(Control) /\ newest \in Nat /\ vw.since \in Nat
  BY DEF Good, Dated, Known
<1>1. r2 \in Recorded /\ r2.version = n /\ r2.revision = vw.since
  BY <1>0 DEF Recorded
<1>2. r2 # None
  BY <1>1, NoneAssumption DEF NoneAssumption, Recorded
<1> HIDE DEF r2
<1>3. <<Deploy(Patch, n, newest), Start(Patch)>> \in Seq(Control)
  BY <1>0, ControlsOf
<1>4. q2 \in Seq(Control)
  BY <1>0, <1>3, ConcatProperties
<1>5. Dated(e, q2, on, sv, vw, r2, commit, newest)
  BY <1>0, <1>1, <1>4 DEF Good, Dated
<1>6. on => Ends(e, q2, n, commit, newest)
  BY <1>0, EndsDeployed DEF Good, Dated
<1>7. Good(c, e, q2, on, sv, vw, r2, commit, newest)
  BY <1>1, <1>2, <1>5, <1>6 DEF Good
<1> QED BY <1>7 DEF r2

LEMMA GoodStarted ==
  ASSUME NEW c, NEW e, NEW q, NEW on, NEW sv, NEW vw, NEW r, NEW commit, NEW newest,
         Good(c, e, q, on, sv, vw, r, commit, newest),
         NEW q2, q2 = IF on THEN q \o <<Start(Patch)>> ELSE q
  PROVE  Good(c, e, q2, on, sv, vw, r, commit, newest)
<1>0. q \in Seq(Control) /\ Start(Patch) \in Control /\ Start(Patch).cmd # "deploy"
  BY ControlsOf DEF Good, Dated, Start
<1>1. q2 \in Seq(Control)
  BY <1>0, OneMore
<1>2. Dated(e, q2, on, sv, vw, r, commit, newest)
  BY <1>1 DEF Good, Dated
<1>3. ASSUME on, Ends(e, q, r.version, commit, newest) PROVE Ends(e, q2, r.version, commit, newest)
  BY <1>0, <1>3, EndsStarted
<1>4. ASSUME on, Withdrawn(e, q, sv.since) PROVE Withdrawn(e, q2, sv.since)
  BY <1>0, <1>4, WithdrawnStill
<1> QED BY <1>2, <1>3, <1>4 DEF Good

\* A field is edited: a client with a current deployment gets the new value.
LEMMA GoodEdited ==
  ASSUME NEW c, NEW e, NEW q, NEW on, NEW sv, NEW vw, NEW r, NEW commit, NEW newest,
         Good(c, e, q, on, sv, vw, r, commit, newest), r # None, vw.on,
         NEW q2, q2 = IF on THEN q \o <<OverrideSet(Patch, newest + 1, TRUE)>> ELSE q
  PROVE  Good(c, e, q2, on, sv, vw, r, newest + 1, newest + 1)
<1>0. q \in Seq(Control) /\ newest + 1 \in Nat
  BY DEF Good, Dated
<1>1. q2 \in Seq(Control)
  BY <1>0, ControlsOf, OneMore
<1>2. Dated(e, q2, on, sv, vw, r, newest + 1, newest + 1)
  <2>1. newest + 1 <= newest + 1
    BY <1>0
  <2> QED BY <1>0, <1>1, <2>1 DEF Good, Dated
<1>3. newest + 1 # None
  BY <1>0, NoneAssumption DEF NoneAssumption
<1>4. \A w, o : Settles(newest + 1, w, [value |-> newest + 1, brief |-> TRUE], newest + 1)
  BY <1>3 DEF Settles
<1>5. ASSUME on, Ends(e, q, r.version, commit, newest)
      PROVE  Ends(e, q2, r.version, newest + 1, newest + 1)
  BY <1>0, <1>4, <1>5, EndsOverridden
<1> QED BY <1>2, <1>5 DEF Good

\* Any other has none, or is not connected.
LEMMA GoodUnedited ==
  ASSUME NEW c, NEW e, NEW q, NEW on, NEW sv, NEW vw, NEW r, NEW commit, NEW newest,
         Good(c, e, q, on, sv, vw, r, commit, newest), r = None \/ ~vw.on
  PROVE  Good(c, e, q, on, sv, vw, r, commit, newest + 1)
<1>1. Dated(e, q, on, sv, vw, r, commit, newest + 1)
  <2>1. commit # None => commit <= newest + 1
    BY DEF Good, Dated
  <2> QED BY <2>1 DEF Good, Dated
<1>2. ~(on /\ r # None /\ r.revision = sv.since)
  <2>1. ASSUME on, r # None, r.revision = sv.since PROVE FALSE
    <3>1. r.revision \in Nat /\ vw.since \in Nat /\ sv.since \in Nat
      BY <2>1 DEF Good, Dated, Known, Recorded
    <3>2. vw.since = sv.since /\ ~vw.on
      BY <2>1, <3>1 DEF Good, Dated
    <3> QED BY <2>1, <3>2 DEF Good, Dated
  <2> QED BY <2>1
<1> QED BY <1>1, <1>2 DEF Good

\* A value has settled.
LEMMA GoodCommitted ==
  ASSUME NEW c, NEW e, NEW q, NEW on, NEW sv, NEW vw, NEW r, NEW commit, NEW newest,
         Good(c, e, q, on, sv, vw, r, commit, newest), commit # None,
         NEW q2, q2 = IF on THEN q \o <<OverrideSet(Patch, commit, FALSE)>> ELSE q
  PROVE  Good(c, e, q2, on, sv, vw, r, None, newest)
<1>0. /\ q \in Seq(Control) /\ commit \in Nat /\ OverrideSet(Patch, commit, FALSE) \in Control
      /\ OverrideSet(Patch, commit, FALSE).cmd # "deploy"
  BY ControlsOf DEF Good, Dated, OverrideSet
<1>1. q2 \in Seq(Control)
  BY <1>0, OneMore
<1>2. Dated(e, q2, on, sv, vw, r, None, newest)
  BY <1>0, <1>1 DEF Good, Dated
<1>3. [value |-> commit, brief |-> FALSE] # None
  <2>1. [value |-> commit, brief |-> FALSE] \in [value : Nat, brief : BOOLEAN]
    BY <1>0
  <2> QED BY <2>1, NoneAssumption DEF NoneAssumption
<1>4. \A w, o : Settles(commit, w, o, newest) =>
                  Settles(None, w, [value |-> commit, brief |-> FALSE], newest)
  BY <1>3 DEF Settles
<1>5. ASSUME on, Ends(e, q, r.version, commit, newest)
      PROVE  Ends(e, q2, r.version, None, newest)
  BY <1>0, <1>4, <1>5, EndsOverridden
<1>6. ASSUME on, Withdrawn(e, q, sv.since) PROVE Withdrawn(e, q2, sv.since)
  BY <1>0, <1>6, WithdrawnStill
<1> QED BY <1>2, <1>5, <1>6 DEF Good

\* It obeys a control.
LEMMA GoodServed ==
  ASSUME NEW c, NEW e, NEW q, NEW on, NEW sv, NEW vw, NEW r, NEW commit, NEW newest,
         Good(c, e, q, on, sv, vw, r, commit, newest), q # <<>>,
         NEW e2, Obeyed(c, e, Head(q), sv.since, e2)
  PROVE  Good(c, e2, Tail(q), on, sv, vw, r, commit, newest)
<1>0. /\ q \in Seq(Control) /\ e \in Executing /\ Head(q) \in Control /\ Tail(q) \in Seq(Control)
      /\ sv.since \in Nat
  BY TailPlaces DEF Good, Dated, Known
<1>1. e2 \in Executing /\ e2.since <= sv.since
  <2>1. CASE Head(q).cmd = "deploy"
    <3>1. Head(q).version \in Nat /\ Head(q).value \in Nat
      BY <1>0, <2>1 DEF Control
    <3>2. CASE c \in Able
      <4>1. e2 = [loop |-> Patch, version |-> Head(q).version, value |-> Head(q).value, over |-> None,
                  running |-> TRUE, since |-> sv.since]
        BY <2>1, <3>2 DEF Obeyed
      <4> QED BY <1>0, <3>1, <4>1 DEF Executing
    <3>3. CASE c \notin Able
      BY <1>0, <2>1, <3>3 DEF Obeyed, Good, Dated
    <3> QED BY <3>2, <3>3
  <2>2. CASE Head(q).cmd \in {"start", "stop"}
    <3>1. e.over \in Override \cup {None} /\ e.since <= sv.since
      BY <1>0 DEF Executing, Good, Dated
    <3>2. e2 \in Executing
      BY <1>0, <2>2, <3>1, ExecutorsOf DEF Obeyed
    <3>3. e2.since = e.since
      BY <2>2 DEF Obeyed
    <3> QED BY <3>1, <3>2, <3>3
  <2>3. CASE Head(q).cmd = "remove"
    <3>1. e2 = Empty
      BY <2>3 DEF Obeyed
    <3> QED BY <1>0, <3>1, ExecutorsOf
  <2>4. CASE Head(q).cmd = "override"
    <3>1. [value |-> Head(q).value, brief |-> Head(q).brief] \in Override
      BY <1>0, <2>4 DEF Control, Override
    <3>2. e.running \in BOOLEAN /\ e.since <= sv.since
      BY <1>0 DEF Executing, Good, Dated
    <3>3. e2 \in Executing
      BY <1>0, <2>4, <3>1, <3>2, ExecutorsOf DEF Obeyed
    <3>4. e2.since = e.since
      BY <2>4 DEF Obeyed
    <3> QED BY <3>2, <3>3, <3>4
  <2> QED BY <1>0, <2>1, <2>2, <2>3, <2>4 DEF Control
<1>2. Dated(e2, Tail(q), on, sv, vw, r, commit, newest)
  BY <1>0, <1>1 DEF Good, Dated
<1>3. ASSUME c \in Able, Ends(e, q, r.version, commit, newest)
      PROVE  Ends(e2, Tail(q), r.version, commit, newest)
  BY <1>0, <1>3, EndsServed
<1>4. ASSUME Withdrawn(e, q, sv.since) PROVE Withdrawn(e2, Tail(q), sv.since)
  BY <1>0, <1>4, WithdrawnServed
<1> QED BY <1>2, <1>3, <1>4 DEF Good

LEMMA GoodExpired ==
  ASSUME NEW c, NEW e, NEW q, NEW on, NEW sv, NEW vw, NEW r, NEW commit, NEW newest,
         Good(c, e, q, on, sv, vw, r, commit, newest), e.over # None, e.over.brief, NEW e2,
         e2 = [loop |-> e.loop, version |-> e.version, value |-> e.value, over |-> None,
               running |-> e.running, since |-> e.since]
  PROVE  Good(c, e2, q, on, sv, vw, r, commit, newest)
<1>0. q \in Seq(Control) /\ e \in Executing
  BY DEF Good, Dated
<1>1. e2 \in Executing /\ e2.since = e.since /\ e2.loop = e.loop
  BY <1>0 DEF Executing
<1>2. Dated(e2, q, on, sv, vw, r, commit, newest)
  BY <1>1 DEF Good, Dated
<1>3. ASSUME Ends(e, q, r.version, commit, newest) PROVE Ends(e2, q, r.version, commit, newest)
  BY <1>0, <1>3, EndsExpired
<1>4. ASSUME Withdrawn(e, q, sv.since) PROVE Withdrawn(e2, q, sv.since)
  BY <1>1, <1>4 DEF Withdrawn
<1> QED BY <1>2, <1>3, <1>4 DEF Good

\* Its connection comes and goes.
LEMMA GoodDropped ==
  ASSUME NEW c, NEW e, NEW q, NEW on, NEW sv, NEW vw, NEW r, NEW commit, NEW newest,
         Good(c, e, q, on, sv, vw, r, commit, newest)
  PROVE  Good(c, e, <<>>, FALSE, sv, vw, r, commit, newest)
BY EmptySeq DEF Good, Dated

LEMMA GoodNoticed ==
  ASSUME NEW c, NEW e, NEW q, NEW on, NEW sv, NEW vw, NEW r, NEW commit, NEW newest,
         Good(c, e, q, on, sv, vw, r, commit, newest), ~on,
         NEW sv2, sv2 = [on |-> FALSE, since |-> sv.since]
  PROVE  Good(c, e, q, on, sv2, vw, r, commit, newest)
BY DEF Good, Dated, Known

LEMMA GoodReturned ==
  ASSUME NEW c, NEW e, NEW q, NEW on, NEW sv, NEW vw, NEW r, NEW commit, NEW newest,
         Good(c, e, q, on, sv, vw, r, commit, newest), ~on,
         NEW sv2 \in Known, sv2.on, sv.since < sv2.since,
         NEW e2, e2 = e \/ e2 = Empty, NEW on2 \in BOOLEAN
  PROVE  Good(c, e2, q, on2, sv2, vw, r, commit, newest)
<1>0. /\ e \in Executing /\ q = <<>> /\ q \in Seq(Control) /\ sv.since \in Nat /\ vw.since \in Nat
      /\ e.since \in Nat /\ e.since <= sv.since /\ vw.since <= sv.since
      /\ r # None => r.revision \in Nat /\ r.revision <= vw.since
  BY DEF Good, Dated, Known, Recorded, Executing
<1>1. sv2.since \in Nat
  BY DEF Known
<1>2. e2 \in Executing /\ e2.since < sv2.since /\ e2.since <= sv2.since
  <2>1. CASE e2 = e
    BY <1>0, <1>1, <2>1
  <2>2. CASE e2 = Empty
    BY <1>0, <1>1, <2>2, ExecutorsOf
  <2> QED BY <2>1, <2>2
<1>3. /\ vw.since <= sv2.since /\ vw.since # sv2.since
      /\ r # None => r.revision # sv2.since
  BY <1>0, <1>1
<1>4. Dated(e2, q, on2, sv2, vw, r, commit, newest)
  BY <1>0, <1>1, <1>2, <1>3 DEF Good, Dated
<1>5. Withdrawn(e2, q, sv2.since)
  <2>1. ~ \E j \in 1..Len(q) : TRUE
    BY <1>0, EmptySeq
  <2> QED BY <1>2, <2>1 DEF Withdrawn
<1> QED BY <1>3, <1>4, <1>5 DEF Good

\* The manager hears of it.
LEMMA GoodHeard ==
  ASSUME NEW c, NEW e, NEW q, NEW on, NEW sv, NEW vw, NEW r, NEW commit, NEW newest,
         Good(c, e, q, on, sv, vw, r, commit, newest)
  PROVE  Good(c, e, q, on, sv, sv, r, commit, newest)
<1>1. sv.since \in Nat /\ vw.since \in Nat /\ (r # None => r.revision \in Nat)
  BY DEF Good, Dated, Known, Recorded
<1>2. Dated(e, q, on, sv, sv, r, commit, newest)
  BY <1>1 DEF Good, Dated
<1> QED BY <1>2 DEF Good

-----------------------------------------------------------------------------
(* What the manager does to all of them *)

\* What a client is apart from its record and what is on its way to it.
Rest == <<exec, link, server, view, commits, live>>

LEMMA StopOnGood ==
  ASSUME ClientInv, NEW cs, StopOn(cs), UNCHANGED Rest,
         records' = [c \in Client |-> IF c \in cs THEN None ELSE records[c]]
  PROVE  ClientInv'
<1> SUFFICES ASSUME NEW c \in Client PROVE GoodNow(c)'
  BY DEF ClientInv
<1>1. GoodNow(c)
  BY DEF ClientInv
<1>2. CASE c \in cs
  <2>1. down'[c] = IF link[c] THEN down[c] \o StopAndRemove ELSE down[c]
    BY <1>2 DEF StopOn, Post
  <2>2. records'[c] = None
    BY <1>2
  <2>3. Good(c, exec[c], down[c], link[c], server[c], view[c], records[c], commits[c], live)
    BY <1>1 DEF GoodNow
  <2>4. Good(c, exec[c], down'[c], link[c], server[c], view[c], None, commits[c], live)
    BY <2>1, <2>3, GoodStopped
  <2> QED BY <2>2, <2>4 DEF GoodNow, Rest
<1>3. CASE c \notin cs
  <2>1. down[c] \in Seq(Control)
    BY <1>1 DEF GoodNow, Good, Dated
  <2>2. down'[c] = IF link[c] THEN down[c] \o <<>> ELSE down[c]
    BY <1>3 DEF StopOn, Post
  <2>3. down'[c] = down[c] /\ records'[c] = records[c]
    BY <1>3, <2>1, <2>2, ConcatEmptySeq
  <2> QED BY <1>1, <2>3 DEF GoodNow, Rest
<1> QED BY <1>2, <1>3

LEMMA ReconcileGood ==
  ASSUME ClientInv, NEW g, g.version \in Nat, NEW k, ReconcilePatchDeployment(g, k), UNCHANGED Rest
  PROVE  ClientInv'
<1>1. CASE ~isRunning \/ ~Compiled(g, k)
  <2>1. StopAllDeployedPatches
    BY <1>1 DEF ReconcilePatchDeployment
  <2>2. records' = [c \in Client |-> IF c \in Deployed THEN None ELSE records[c]]
    <3>1. \A c \in Client : c \notin Deployed => records[c] = None
      BY DEF Deployed
    <3> QED BY <2>1, <3>1 DEF StopAllDeployedPatches
  <2> QED BY <2>1, <2>2, StopOnGood DEF StopAllDeployedPatches
<1>2. CASE isRunning /\ Compiled(g, k) /\ Kept(g, k)
  <2>1. UNCHANGED <<down, records>>
    BY <1>2 DEF ReconcilePatchDeployment
  <2> QED BY <2>1 DEF ClientInv, GoodNow, Rest
<1>3. CASE isRunning /\ Compiled(g, k) /\ ~Kept(g, k)
  <2>0. PICK ts : ts = Plan(g, k)
    OBVIOUS
  <2>1. /\ down' = [c \in Client |->
                      IF link[c] THEN down[c] \o ControlsFor(c, ts, g) ELSE down[c]]
        /\ records' = [c \in Client |-> IF c \in ts THEN Record(c, g) ELSE None]
    BY <1>3, <2>0 DEF ReconcilePatchDeployment, Post
  <2> SUFFICES ASSUME NEW c \in Client PROVE GoodNow(c)'
    BY DEF ClientInv
  <2>2. GoodNow(c) /\ down[c] \in Seq(Control)
    BY DEF ClientInv, GoodNow, Good, Dated
  <2>3. /\ down'[c] = IF link[c] THEN down[c] \o ControlsFor(c, ts, g) ELSE down[c]
        /\ records'[c] = IF c \in ts THEN Record(c, g) ELSE None
    BY <2>1
  <2>4. CASE c \in ts /\ NeedDeploy(c, g)
    <3>1. ControlsFor(c, ts, g) = <<Deploy(Patch, g.version, live), Start(Patch)>>
      BY <2>4 DEF ControlsFor
    <3>2. records'[c] = [version |-> g.version, revision |-> view[c].since]
      BY <2>3, <2>4 DEF Record
    <3>3. Good(c, exec[c], down[c], link[c], server[c], view[c], records[c], commits[c], live)
      BY <2>2 DEF GoodNow
    <3>4. down'[c] = IF link[c] THEN down[c] \o <<Deploy(Patch, g.version, live), Start(Patch)>>
                     ELSE down[c]
      BY <2>3, <3>1
    <3>5. Good(c, exec[c], down'[c], link[c], server[c], view[c],
               [version |-> g.version, revision |-> view[c].since], commits[c], live)
      BY <3>3, <3>4, GoodDeployed
    <3> QED BY <3>2, <3>5 DEF GoodNow, Rest
  <2>5. CASE c \in ts /\ ~NeedDeploy(c, g)
    <3>1. records'[c] = records[c]
      BY <2>3, <2>5 DEF NeedDeploy, UpToDate
    <3>2. CASE status[c] = [loop |-> Patch, running |-> FALSE]
      <4>1. ControlsFor(c, ts, g) = <<Start(Patch)>>
        BY <2>5, <3>2 DEF ControlsFor
      <4>2. Good(c, exec[c], down[c], link[c], server[c], view[c], records[c], commits[c], live)
        BY <2>2 DEF GoodNow
      <4>3. down'[c] = IF link[c] THEN down[c] \o <<Start(Patch)>> ELSE down[c]
        BY <2>3, <4>1
      <4>4. Good(c, exec[c], down'[c], link[c], server[c], view[c], records[c], commits[c], live)
        BY <4>2, <4>3, GoodStarted
      <4> QED BY <3>1, <4>4 DEF GoodNow, Rest
    <3>3. CASE status[c] # [loop |-> Patch, running |-> FALSE]
      <4>1. ControlsFor(c, ts, g) = <<>>
        BY <2>5, <3>3 DEF ControlsFor
      <4>2. down'[c] = down[c]
        BY <2>2, <2>3, <4>1, ConcatEmptySeq
      <4> QED BY <2>2, <3>1, <4>2 DEF GoodNow, Rest
    <3> QED BY <3>2, <3>3
  <2>6. CASE c \notin ts /\ c \in Deployed
    <3>1. ControlsFor(c, ts, g) = StopAndRemove
      BY <2>6 DEF ControlsFor
    <3>2. down'[c] = IF link[c] THEN down[c] \o StopAndRemove ELSE down[c]
      BY <2>3, <3>1
    <3>3. Good(c, exec[c], down[c], link[c], server[c], view[c], records[c], commits[c], live)
      BY <2>2 DEF GoodNow
    <3>4. Good(c, exec[c], down'[c], link[c], server[c], view[c], None, commits[c], live)
      BY <3>2, <3>3, GoodStopped
    <3> QED BY <2>3, <2>6, <3>4 DEF GoodNow, Rest
  <2>7. CASE c \notin ts /\ c \notin Deployed
    <3>1. ControlsFor(c, ts, g) = <<>>
      BY <2>7 DEF ControlsFor
    <3>2. down'[c] = down[c] /\ records'[c] = records[c]
      BY <2>2, <2>3, <2>7, <3>1, ConcatEmptySeq DEF Deployed
    <3> QED BY <2>2, <3>2 DEF GoodNow, Rest
  <2> QED BY <2>4, <2>5, <2>6, <2>7
<1> QED BY <1>1, <1>2, <1>3

LEMMA EditLiveGood ==
  ASSUME ClientInv, EditLive
  PROVE  ClientInv'
<1> SUFFICES ASSUME NEW c \in Client PROVE GoodNow(c)'
  BY DEF ClientInv
<1>1. GoodNow(c) /\ down[c] \in Seq(Control)
  BY DEF ClientInv, GoodNow, Good, Dated
<1>2. PICK cs : cs = {d \in Deployed : view[d].on}
  OBVIOUS
<1>3. /\ live' = live + 1
      /\ down'[c] = IF link[c]
                    THEN down[c] \o (IF c \in cs THEN <<OverrideSet(Patch, live + 1, TRUE)>> ELSE <<>>)
                    ELSE down[c]
      /\ commits'[c] = IF c \in cs THEN live + 1 ELSE commits[c]
      /\ UNCHANGED <<exec, link, server, view, records>>
  BY <1>2 DEF EditLive, Post, ArmCommits, otherEndVars
<1>4. CASE c \in cs
  <2>1. records[c] # None /\ view[c].on
    BY <1>2, <1>4 DEF Deployed
  <2>2. Good(c, exec[c], down[c], link[c], server[c], view[c], records[c], commits[c], live)
    BY <1>1 DEF GoodNow
  <2>3. down'[c] = IF link[c] THEN down[c] \o <<OverrideSet(Patch, live + 1, TRUE)>> ELSE down[c]
    BY <1>3, <1>4
  <2>4. Good(c, exec[c], down'[c], link[c], server[c], view[c], records[c], live + 1, live + 1)
    BY <2>1, <2>2, <2>3, GoodEdited
  <2> QED BY <1>3, <1>4, <2>4 DEF GoodNow
<1>5. CASE c \notin cs
  <2>1. records[c] = None \/ ~view[c].on
    BY <1>2, <1>5 DEF Deployed
  <2>2. down'[c] = down[c]
    BY <1>1, <1>3, <1>5, ConcatEmptySeq
  <2> QED BY <1>1, <1>3, <1>5, <2>1, <2>2, GoodUnedited DEF GoodNow
<1> QED BY <1>4, <1>5

LEMMA CommitGood ==
  ASSUME Shapes, ClientInv, NEW d \in Client, CommitFires(d)
  PROVE  ClientInv'
<1> SUFFICES ASSUME NEW c \in Client PROVE GoodNow(c)'
  BY DEF ClientInv
<1>1. GoodNow(c) /\ down[c] \in Seq(Control)
  BY DEF ClientInv, GoodNow, Good, Dated
<1>2. /\ commits[d] # None
      /\ down'[c] = IF link[c]
                    THEN down[c] \o (IF c = d THEN <<OverrideSet(Patch, commits[d], FALSE)>> ELSE <<>>)
                    ELSE down[c]
      /\ commits' = [commits EXCEPT ![d] = None]
      /\ UNCHANGED <<exec, link, server, view, records, live>>
  BY DEF CommitFires, Post, otherEndVars
<1>3. CASE c = d
  <2>1. commits'[c] = None
    BY <1>2, <1>3 DEF Shapes
  <2>2. Good(c, exec[c], down[c], link[c], server[c], view[c], records[c], commits[c], live)
    BY <1>1 DEF GoodNow
  <2>3. down'[c] = IF link[c] THEN down[c] \o <<OverrideSet(Patch, commits[c], FALSE)>> ELSE down[c]
    BY <1>2, <1>3
  <2>4. commits[c] # None
    BY <1>2, <1>3
  <2>5. Good(c, exec[c], down'[c], link[c], server[c], view[c], records[c], None, live)
    BY <2>2, <2>3, <2>4, GoodCommitted
  <2> QED BY <1>2, <2>1, <2>5 DEF GoodNow
<1>4. CASE c # d
  <2>1. down'[c] = down[c] /\ commits'[c] = commits[c]
    BY <1>1, <1>2, <1>4, ConcatEmptySeq
  <2> QED BY <1>1, <1>2, <2>1 DEF GoodNow
<1> QED BY <1>3, <1>4

LEMMA HearClientsGood ==
  ASSUME ClientInv, HearClients
  PROVE  ClientInv'
<1> SUFFICES ASSUME NEW c \in Client PROVE GoodNow(c)'
  BY DEF ClientInv
<1>1. GoodNow(c)
  BY DEF ClientInv
<1>2. view' = server /\ UNCHANGED <<exec, down, link, server, records, commits, live>>
  BY DEF HearClients, otherEndVars
<1> QED BY <1>1, <1>2, GoodHeard DEF GoodNow

LEMMA ConnectionGood ==
  ASSUME Shapes, ClientInv, NEW d \in Client, Connection(d)
  PROVE  ClientInv'
<1> SUFFICES ASSUME NEW c \in Client PROVE GoodNow(c)'
  BY DEF ClientInv
<1>1. GoodNow(c) /\ server[c] \in Known
  BY DEF ClientInv, GoodNow, Good, Dated
<1>2. UNCHANGED <<view, records, commits, live>>
  BY DEF Connection
<1>3. CASE ClientDrops(d)
  <2>1. CASE c = d
    BY <1>1, <1>2, <1>3, <2>1, GoodDropped DEF ClientDrops, GoodNow, Shapes
  <2>2. CASE c # d
    BY <1>1, <1>2, <1>3, <2>2 DEF ClientDrops, GoodNow
  <2> QED BY <2>1, <2>2
<1>4. CASE ServerNotices(d)
  <2>1. CASE c = d
    <3>1. server'[c] = [on |-> FALSE, since |-> server[c].since]
      <4>1. server'[c] = [server[c] EXCEPT !.on = FALSE]
        BY <1>4, <2>1 DEF ServerNotices, Shapes
      <4> QED BY <1>1, <4>1 DEF Known
    <3>2. Good(c, exec[c], down[c], link[c], server[c], view[c], records[c], commits[c], live)
      BY <1>1 DEF GoodNow
    <3>3. ~link[c] /\ UNCHANGED <<exec, down, link>>
      BY <1>4, <2>1 DEF ServerNotices
    <3>4. Good(c, exec[c], down[c], link[c], server'[c], view[c], records[c], commits[c], live)
      BY <3>1, <3>2, <3>3, GoodNoticed
    <3> QED BY <1>2, <3>3, <3>4 DEF GoodNow
  <2>2. CASE c # d
    BY <1>1, <1>2, <1>4, <2>2 DEF ServerNotices, GoodNow
  <2> QED BY <2>1, <2>2
<1>5. ASSUME NEW reloaded \in BOOLEAN, ClientReturns(d, reloaded) PROVE GoodNow(c)'
  <2>1. CASE c = d
    <3>1. /\ ~link[c] /\ link'[c] = TRUE /\ down'[c] = down[c]
          /\ server'[c] = [on |-> TRUE, since |-> server[c].since + 1]
          /\ exec'[c] = exec[c] \/ exec'[c] = Empty
      BY <1>5, <2>1 DEF ClientReturns, Shapes
    <3>2. Good(c, exec[c], down[c], link[c], server[c], view[c], records[c], commits[c], live)
      BY <1>1 DEF GoodNow
    <3>3. PICK e2 : e2 = exec'[c]
      OBVIOUS
    <3>4. PICK sv2 : sv2 = server'[c]
      OBVIOUS
    <3>5. PICK on2 : on2 = link'[c]
      OBVIOUS
    <3>6. sv2 \in Known /\ sv2.on /\ server[c].since < sv2.since
      BY <1>1, <3>1, <3>4 DEF Known
    <3>7. ~link[c] /\ on2 \in BOOLEAN /\ (e2 = exec[c] \/ e2 = Empty)
      BY <3>1, <3>3, <3>5
    <3>8. Good(c, e2, down[c], on2, sv2, view[c], records[c], commits[c], live)
      BY <3>2, <3>6, <3>7, GoodReturned
    <3> QED BY <1>2, <3>1, <3>3, <3>4, <3>5, <3>8 DEF GoodNow
  <2>2. CASE c # d
    BY <1>1, <1>2, <1>5, <2>2 DEF ClientReturns, GoodNow
  <2> QED BY <2>1, <2>2
<1> QED BY <1>3, <1>4, <1>5 DEF Connection

\* The handlers of the executor do what Obeyed says.
LEMMA ObeyObeys ==
  ASSUME Shapes, NEW d \in Client, GoodNow(d), NEW m \in Control, Obey(d, m)
  PROVE  /\ Obeyed(d, exec[d], m, server[d].since, exec'[d])
         /\ \A c \in Client : c # d => exec'[c] = exec[c]
<1>1. PICK e : e = exec[d]
  OBVIOUS
<1>2. e \in Executing /\ m.loop = Patch
  BY <1>1 DEF GoodNow, Good, Dated, Control
<1>3. e = [loop |-> e.loop, version |-> e.version, value |-> e.value, over |-> e.over,
           running |-> e.running, since |-> e.since]
  BY <1>2 DEF Executing
<1>4. Addressed(d, m)
  BY <1>1, <1>2 DEF Addressed, Executing
<1>5. CASE m.cmd = "deploy"
  <2>1. ObeyDeploy(d, m)
    BY <1>4, <1>5 DEF Obey
  <2> QED BY <1>1, <1>2, <1>5, <2>1 DEF ObeyDeploy, Loaded, Obeyed, Shapes
<1>6. CASE m.cmd = "start"
  <2>1. exec' = [exec EXCEPT ![d].running = TRUE]
    BY <1>4, <1>6 DEF Obey, ObeyStart
  <2>2. exec'[d] = [e EXCEPT !.running = TRUE]
    BY <1>1, <2>1 DEF Shapes
  <2>3. exec'[d] = [loop |-> e.loop, version |-> e.version, value |-> e.value, over |-> e.over,
                    running |-> TRUE, since |-> e.since]
    BY <1>3, <2>2
  <2> QED BY <1>1, <1>6, <2>1, <2>3 DEF Obeyed
<1>7. CASE m.cmd = "stop"
  <2>1. exec' = [exec EXCEPT ![d].running = FALSE]
    BY <1>4, <1>7 DEF Obey, ObeyStop
  <2>2. exec'[d] = [e EXCEPT !.running = FALSE]
    BY <1>1, <2>1 DEF Shapes
  <2>3. exec'[d] = [loop |-> e.loop, version |-> e.version, value |-> e.value, over |-> e.over,
                    running |-> FALSE, since |-> e.since]
    BY <1>3, <2>2
  <2> QED BY <1>1, <1>7, <2>1, <2>3 DEF Obeyed
<1>8. CASE m.cmd = "remove"
  <2>1. exec' = [exec EXCEPT ![d] = Empty]
    BY <1>4, <1>8 DEF Obey, ObeyRemove
  <2> QED BY <1>8, <2>1 DEF Obeyed, Shapes
<1>9. CASE m.cmd = "override"
  <2> DEFINE o == [value |-> m.value, brief |-> m.brief]
  <2>1. exec' = [exec EXCEPT ![d].over = o]
    BY <1>4, <1>9 DEF Obey, ObeyOverride
  <2> HIDE DEF o
  <2>2. exec'[d] = [e EXCEPT !.over = o]
    BY <1>1, <2>1 DEF Shapes
  <2>3. exec'[d] = [loop |-> e.loop, version |-> e.version, value |-> e.value, over |-> o,
                    running |-> e.running, since |-> e.since]
    BY <1>3, <2>2
  <2> QED BY <1>1, <1>9, <2>1, <2>3 DEF Obeyed, o
<1> QED BY <1>5, <1>6, <1>7, <1>8, <1>9 DEF Control

LEMMA ExecutorGood ==
  ASSUME Shapes, ClientInv, NEW d \in Client, Executor(d)
  PROVE  ClientInv'
<1> SUFFICES ASSUME NEW c \in Client PROVE GoodNow(c)'
  BY DEF ClientInv
<1>1. GoodNow(c) /\ GoodNow(d)
  BY DEF ClientInv
<1>2. UNCHANGED <<view, records, commits, live>>
  BY DEF Executor
<1>3. CASE HandlePluginControl(d)
  <2>1. /\ down[d] # <<>> /\ Obey(d, Head(down[d]))
        /\ down' = [down EXCEPT ![d] = Tail(down[d])]
        /\ UNCHANGED <<link, server>>
    BY <1>3 DEF HandlePluginControl
  <2>2. Head(down[d]) \in Control
    BY <1>1, <2>1, TailPlaces DEF GoodNow, Good, Dated
  <2>3. /\ Obeyed(d, exec[d], Head(down[d]), server[d].since, exec'[d])
        /\ \A b \in Client : b # d => exec'[b] = exec[b]
    BY <1>1, <2>1, <2>2, ObeyObeys
  <2>4. CASE c = d
    <3>1. down'[c] = Tail(down[c])
      BY <2>1, <2>4 DEF Shapes
    <3> QED BY <1>1, <1>2, <2>1, <2>3, <2>4, <3>1, GoodServed DEF GoodNow
  <2>5. CASE c # d
    BY <1>1, <1>2, <2>1, <2>3, <2>5 DEF GoodNow
  <2> QED BY <2>4, <2>5
<1>4. CASE OverrideExpires(d)
  <2>1. CASE c = d
    <3>1. PICK e : e = exec[d]
      OBVIOUS
    <3>2. e \in Executing
      BY <1>1, <3>1 DEF GoodNow, Good, Dated
    <3>3. e = [loop |-> e.loop, version |-> e.version, value |-> e.value, over |-> e.over,
               running |-> e.running, since |-> e.since]
      BY <3>2 DEF Executing
    <3>4. e.over # None /\ e.over.brief /\ exec'[d] = [e EXCEPT !.over = None]
          /\ UNCHANGED <<down, link, server>>
      BY <1>4, <3>1 DEF OverrideExpires, Shapes
    <3>5. exec'[d] = [loop |-> e.loop, version |-> e.version, value |-> e.value, over |-> None,
                      running |-> e.running, since |-> e.since]
      BY <3>3, <3>4
    <3> QED BY <1>1, <1>2, <2>1, <3>1, <3>4, <3>5, GoodExpired DEF GoodNow
  <2>2. CASE c # d
    BY <1>1, <1>2, <1>4, <2>2 DEF OverrideExpires, GoodNow
  <2> QED BY <2>1, <2>2
<1>5. CASE HearReport(d)
  BY <1>1, <1>2, <1>5 DEF HearReport, GoodNow
<1> QED BY <1>3, <1>4, <1>5 DEF Executor

-----------------------------------------------------------------------------
(* The invariant *)

LEMMA ReconcileShapes ==
  ASSUME Shapes, NEW g, NEW k, ReconcilePatchDeployment(g, k)
  PROVE  DOMAIN down' = Client
BY DEF ReconcilePatchDeployment, StopAllDeployedPatches, StopOn, Post, Shapes

LEMMA StopAllGood ==
  ASSUME ClientInv, StopAllDeployedPatches, UNCHANGED Rest
  PROVE  ClientInv'
<1>1. \A c \in Client : c \notin Deployed => records[c] = None
  BY DEF Deployed
<1>2. records' = [c \in Client |-> IF c \in Deployed THEN None ELSE records[c]]
  BY <1>1 DEF StopAllDeployedPatches
<1> QED BY <1>2, StopOnGood DEF StopAllDeployedPatches

\* A client the graph selects or not: nothing of it is deployed yet.
LEMMA DeployInit ==
  ASSUME PatchInit
  PROVE  DeployInv
<1>1. Shapes
  BY DEF PatchInit, ExecutorInit, Shapes
<1>2. ASSUME NEW c \in Client PROVE GoodNow(c)
  <2>1. /\ exec[c] = Empty /\ down[c] = <<>> /\ link[c] = TRUE /\ records[c] = None
        /\ server[c] = [on |-> TRUE, since |-> 0] /\ view[c] = server[c]
        /\ commits[c] = None /\ live = 1
    BY DEF PatchInit, ExecutorInit
  <2>2. Withdrawn(Empty, <<>>, 0)
    <3>1. Empty.loop = None /\ ~ \E j \in 1..Len(<<>>) : TRUE
      BY EmptySeq DEF Empty
    <3> QED BY <3>1 DEF Withdrawn
  <2>3. Dated(exec[c], down[c], link[c], server[c], view[c], records[c], commits[c], live)
    <3>1. <<>> \in Seq(Control)
      BY EmptySeq
    <3>2. Empty \in Executing /\ Empty.since = 0
      BY ExecutorsOf
    <3>3. server[c] \in Known /\ server[c].on /\ server[c].since = 0
      BY <2>1 DEF Known
    <3>4. link[c] \in BOOLEAN /\ link[c]
      BY <2>1
    <3>5. PICK e, q, on, sv, vw, r, commit, newest :
            /\ e = exec[c] /\ q = down[c] /\ on = link[c] /\ sv = server[c] /\ vw = view[c]
            /\ r = records[c] /\ commit = commits[c] /\ newest = live
      OBVIOUS
    <3>6. Dated(e, q, on, sv, vw, r, commit, newest)
      BY <2>1, <3>1, <3>2, <3>3, <3>4, <3>5 DEF Dated
    <3> QED BY <3>5, <3>6
  <2> QED BY <2>1, <2>2, <2>3 DEF GoodNow, Good
<1> QED BY <1>1, <1>2 DEF DeployInv, ClientInv

\* An edit of the graph keeps its type.
LEMMA GraphsOf ==
  ASSUME Shapes
  PROVE  /\ \A root \in BOOLEAN : NextGraph(root) \in [root : BOOLEAN, to : SUBSET Client, version : Nat]
         /\ \A cs \in SUBSET Client :
              [graph EXCEPT !.to = cs] \in [root : BOOLEAN, to : SUBSET Client, version : Nat]
<1>1. PICK g : g = graph
  OBVIOUS
<1>2. g \in [root : BOOLEAN, to : SUBSET Client, version : Nat]
  BY <1>1 DEF Shapes
<1>3. ASSUME NEW root \in BOOLEAN
      PROVE  NextGraph(root) \in [root : BOOLEAN, to : SUBSET Client, version : Nat]
  <2>1. NextGraph(root) = [root |-> root, to |-> g.to, version |-> g.version + 1]
    BY <1>1 DEF NextGraph
  <2> QED BY <1>2, <2>1
<1>4. ASSUME NEW cs \in SUBSET Client
      PROVE  [graph EXCEPT !.to = cs] \in [root : BOOLEAN, to : SUBSET Client, version : Nat]
  BY <1>1, <1>2
<1> QED BY <1>3, <1>4

LEMMA DeployNext ==
  ASSUME DeployInv, [PatchNext]_vars
  PROVE  DeployInv'
<1> USE DEF DeployInv
<1>1. CASE PatchDeployTimerFires
  <2>1. ReconcilePatchDeployment(graph, planned) /\ UNCHANGED Rest /\ UNCHANGED graph
    BY <1>1 DEF PatchDeployTimerFires, Immediate, otherEndVars, Rest
  <2>2. graph.version \in Nat
    BY DEF Shapes
  <2>3. ClientInv'
    BY <2>1, <2>2, ReconcileGood
  <2>4. DOMAIN down' = Client
    BY <2>1, ReconcileShapes
  <2> QED BY <2>1, <2>3, <2>4 DEF Shapes, Rest
<1>2. CASE Tick
  <2>1. UNCHANGED Rest /\ UNCHANGED graph
    BY <1>2 DEF Tick, otherEndVars, Rest
  <2>2. CASE ReconcilePatchDeployment(graph, planned)
    <3>1. graph.version \in Nat
      BY DEF Shapes
    <3>2. ClientInv'
      BY <2>1, <2>2, <3>1, ReconcileGood
    <3>3. DOMAIN down' = Client
      BY <2>2, ReconcileShapes
    <3> QED BY <2>1, <3>2, <3>3 DEF Shapes, Rest
  <2>3. CASE UNCHANGED <<down, records>>
    BY <2>1, <2>3 DEF Shapes, Rest, ClientInv, GoodNow
  <2> QED BY <1>2, <2>2, <2>3 DEF Tick, Immediate
<1>3. CASE HearClients
  <2>1. ClientInv'
    BY <1>3, HearClientsGood
  <2> QED BY <1>3, <2>1 DEF HearClients, otherEndVars, Shapes
<1>4. ASSUME NEW root \in BOOLEAN, EditTopology(root) PROVE DeployInv'
  <2>1. PICK g : g = NextGraph(root)
    OBVIOUS
  <2>2. g \in [root : BOOLEAN, to : SUBSET Client, version : Nat]
    BY <2>1, GraphsOf
  <2>3. ReconcilePatchDeployment(g, None) /\ UNCHANGED Rest /\ graph' = g
    BY <1>4, <2>1 DEF EditTopology, Immediate, otherEndVars, Rest
  <2>4. ClientInv'
    BY <2>2, <2>3, ReconcileGood
  <2>5. DOMAIN down' = Client
    BY <2>3, ReconcileShapes
  <2> QED BY <2>2, <2>3, <2>4, <2>5 DEF Shapes, Rest
<1>5. ASSUME NEW root \in BOOLEAN, ApplySnapshot(root) PROVE DeployInv'
  <2>1. graph' = NextGraph(root) /\ UNCHANGED <<down, records>> /\ UNCHANGED Rest
    BY <1>5 DEF ApplySnapshot, otherEndVars, deployVars, Rest
  <2>2. graph' \in [root : BOOLEAN, to : SUBSET Client, version : Nat]
    BY <2>1, GraphsOf
  <2> QED BY <2>1, <2>2 DEF Shapes, Rest, ClientInv, GoodNow
<1>6. ASSUME NEW cs \in SUBSET Client, NEW picked \in BOOLEAN, Select(cs, picked) PROVE DeployInv'
  <2>1. PICK g : g = [graph EXCEPT !.to = cs]
    OBVIOUS
  <2>2. g \in [root : BOOLEAN, to : SUBSET Client, version : Nat]
    BY <2>1, GraphsOf
  <2>3. graph' = g /\ UNCHANGED Rest
    BY <1>6, <2>1 DEF Select, otherEndVars, Rest
  <2>4. CASE picked
    <3>1. ReconcilePatchDeployment(g, planned)
      BY <1>6, <2>1, <2>4 DEF Select, Immediate
    <3>2. ClientInv'
      BY <2>2, <2>3, <3>1, ReconcileGood
    <3>3. DOMAIN down' = Client
      BY <3>1, ReconcileShapes
    <3> QED BY <2>2, <2>3, <3>2, <3>3 DEF Shapes, Rest
  <2>5. CASE ~picked
    <3>1. UNCHANGED <<down, records>>
      BY <1>6, <2>5 DEF Select, deployVars
    <3> QED BY <2>2, <2>3, <3>1 DEF Shapes, Rest, ClientInv, GoodNow
  <2> QED BY <2>4, <2>5
<1>7. ASSUME NEW on \in BOOLEAN, SetGate(on) PROVE DeployInv'
  <2>1. UNCHANGED Rest /\ UNCHANGED graph
    BY <1>7 DEF SetGate, otherEndVars, Rest
  <2>2. CASE on
    <3>1. StopOn(Deployed) /\ records' = [c \in Client |-> None]
      BY <1>7, <2>2 DEF SetGate
    <3>2. \A c \in Client : c \notin Deployed => records[c] = None
      BY DEF Deployed
    <3>3. records' = [c \in Client |-> IF c \in Deployed THEN None ELSE records[c]]
      BY <3>1, <3>2
    <3>4. ClientInv'
      BY <2>1, <3>1, <3>3, StopOnGood
    <3> QED BY <2>1, <3>1, <3>4 DEF StopOn, Post, Shapes, Rest
  <2>3. CASE ~on
    <3>1. UNCHANGED <<down, records>>
      BY <1>7, <2>3 DEF SetGate
    <3> QED BY <2>1, <3>1 DEF Shapes, Rest, ClientInv, GoodNow
  <2> QED BY <2>2, <2>3
<1>8. ASSUME NEW on \in BOOLEAN, SetRunning(on) PROVE DeployInv'
  <2>1. UNCHANGED Rest /\ UNCHANGED graph
    BY <1>8 DEF SetRunning, otherEndVars, Rest
  <2>2. CASE on
    <3>1. UNCHANGED <<down, records>>
      BY <1>8, <2>2 DEF SetRunning
    <3> QED BY <2>1, <3>1 DEF Shapes, Rest, ClientInv, GoodNow
  <2>3. CASE ~on
    <3>1. StopAllDeployedPatches
      BY <1>8, <2>3 DEF SetRunning
    <3>2. ClientInv'
      BY <2>1, <3>1, StopAllGood
    <3> QED BY <2>1, <3>1, <3>2 DEF StopAllDeployedPatches, StopOn, Post, Shapes, Rest
  <2> QED BY <2>2, <2>3
<1>9. CASE EditLive
  <2>1. ClientInv'
    BY <1>9, EditLiveGood
  <2> QED BY <1>9, <2>1 DEF EditLive, Post, ArmCommits, otherEndVars, Shapes
<1>10. ASSUME NEW c \in Client, CommitFires(c) PROVE DeployInv'
  <2>1. ClientInv'
    BY <1>10, CommitGood
  <2> QED BY <1>10, <2>1 DEF CommitFires, Post, otherEndVars, Shapes
<1>11. ASSUME NEW c \in Client, Connection(c) PROVE DeployInv'
  <2>1. ClientInv'
    BY <1>11, ConnectionGood
  <2> QED BY <1>11, <2>1 DEF Connection, ClientDrops, ServerNotices, ClientReturns, Shapes
<1>12. ASSUME NEW c \in Client, Executor(c) PROVE DeployInv'
  <2>1. ClientInv'
    BY <1>12, ExecutorGood
  <2>2. UNCHANGED <<graph, commits>>
    BY <1>12 DEF Executor
  <2>3. DOMAIN exec' = Client /\ DOMAIN down' = Client /\ UNCHANGED <<link, server>>
    BY <1>12 DEF Executor, HandlePluginControl, Obey, ObeyDeploy, ObeyStart, ObeyStop, ObeyRemove,
                 ObeyOverride, OverrideExpires, HearReport, Shapes
  <2> QED BY <2>1, <2>2, <2>3 DEF Shapes
<1>13. CASE UNCHANGED vars
  BY <1>13 DEF vars, otherEndVars, deployVars, Shapes, ClientInv, GoodNow
<1> QED BY <1>1, <1>2, <1>3, <1>4, <1>5, <1>6, <1>7, <1>8, <1>9, <1>10, <1>11, <1>12, <1>13 DEF PatchNext

\* What is deployed to whom, and what was sent to make it so, fits whatever is
\* edited, switched and lost in between: the inductive invariant.
THEOREM Invariance == PatchSpec => []DeployInv
BY DeployInit, DeployNext, PTL DEF PatchSpec

-----------------------------------------------------------------------------
(* What it says where nothing is on its way *)

LEMMA NothingOnItsWay ==
  ASSUME ClientInv, NEW c \in Client, link[c], down[c] = <<>>
  PROVE  /\ c \in Able /\ records[c] # None /\ records[c].revision = server[c].since =>
              /\ Runs(c, records[c].version)
              /\ Settles(commits[c], exec[c].value, exec[c].over, live)
         /\ records[c] = None => exec[c].loop = None \/ exec[c].since < server[c].since
<1>1. Good(c, exec[c], <<>>, link[c], server[c], view[c], records[c], commits[c], live)
  BY DEF ClientInv, GoodNow
<1>2. Len(<<>>) = 0
  BY EmptySeq
<1>3. ASSUME NEW e, NEW n, NEW commit, Ends(e, <<>>, n, commit, live)
      PROVE  /\ e.running /\ e.loop = Patch /\ e.version = n
             /\ Settles(commit, e.value, e.over, live)
  <2>1. PICK i \in 0..0 :
          /\ From(e, <<>>, i, n)
          /\ \E k \in i..0 :
               LastOver(<<>>, i, k) /\ Settles(commit, Value(e, <<>>, i), Over(e, <<>>, i, k), live)
    BY <1>2, <1>3 DEF Ends
  <2>2. i = 0
    BY <2>1
  <2> QED BY <2>1, <2>2 DEF From, Value, Over
<1>4. ASSUME NEW e, NEW s, Withdrawn(e, <<>>, s) PROVE e.loop = None \/ e.since < s
  BY <1>2, <1>4 DEF Withdrawn
<1>5. ASSUME c \in Able, records[c] # None, records[c].revision = server[c].since
      PROVE  /\ Runs(c, records[c].version)
             /\ Settles(commits[c], exec[c].value, exec[c].over, live)
  <2>1. Ends(exec[c], <<>>, records[c].version, commits[c], live)
    BY <1>1, <1>5 DEF Good
  <2> QED BY <1>3, <2>1 DEF Runs
<1>6. ASSUME records[c] = None PROVE exec[c].loop = None \/ exec[c].since < server[c].since
  <2>1. Withdrawn(exec[c], <<>>, server[c].since)
    BY <1>1, <1>6 DEF Good
  <2> QED BY <1>4, <2>1
<1> QED BY <1>5, <1>6

LEMMA RecordsTrue ==
  ASSUME DeployInv
  PROVE  RecordsAreTrue
BY NothingOnItsWay, ExecutorAssumption DEF DeployInv, RecordsAreTrue, Current, ExecutorAssumption

\* Although nothing acknowledges a deployment, what the manager recorded for
\* the connection a client has now is what the client runs, once the controls
\* on their way have arrived.
THEOREM DeploymentsAreKept == PatchSpec => []RecordsAreTrue
BY Invariance, RecordsTrue, PTL

LEMMA ValuesArrive ==
  ASSUME DeployInv
  PROVE  LiveValueArrives
<1> SUFFICES ASSUME NEW c \in Able, Current(c), commits[c] = None
             PROVE  Effective(c) = live \/ Outlived(c)
  BY DEF LiveValueArrives
<1>1. Settles(commits[c], exec[c].value, exec[c].over, live)
  BY NothingOnItsWay, ExecutorAssumption DEF DeployInv, Current, ExecutorAssumption
<1> QED BY <1>1 DEF Settles, Effective, Outlived

\* The newest value of a field reaches a client by its deployment, by the
\* override that was sent with it or by the commit, whatever comes between;
\* but for a commit timer that outlived its deployment.
THEOREM NewestValueShows == PatchSpec => []LiveValueArrives
BY Invariance, ValuesArrive, PTL

LEMMA WithdrawnStop ==
  ASSUME DeployInv
  PROVE  WithdrawnStops
BY NothingOnItsWay, NoneAssumption DEF DeployInv, WithdrawnStops, Runs, NoneAssumption

\* A client the manager forgot has stopped the patch, unless the stop was
\* lost with its connection.
THEOREM ForgottenClientsStop == PatchSpec => []WithdrawnStops
BY Invariance, WithdrawnStop, PTL

-----------------------------------------------------------------------------
(* The plan *)

LEMMA ReconcilePlan ==
  ASSUME DeployInv, NEW g, g \in [root : BOOLEAN, to : SUBSET Client, version : Nat],
         NEW k, k \in {None, g.root}, ReconcilePatchDeployment(g, k)
  PROVE  /\ planned' \in {None, g.root}
         /\ isRunning /\ ~gated /\ g.root /\ patchLastPlan' # None => Deployed' # {}
<1>1. Compiled(g, k) = g.root
  BY DEF Compiled
<1>2. CASE ~isRunning \/ ~Compiled(g, k)
  BY <1>2 DEF ReconcilePatchDeployment, StopAllDeployedPatches
<1>3. CASE isRunning /\ Compiled(g, k) /\ Kept(g, k)
  BY <1>1, <1>3 DEF ReconcilePatchDeployment, Kept
<1>4. CASE isRunning /\ Compiled(g, k) /\ ~Kept(g, k)
  <2>1. PICK ts : ts = Plan(g, k)
    OBVIOUS
  <2>2. planned' = g.root /\ records' = [c \in Client |-> IF c \in ts THEN Record(c, g) ELSE None]
    BY <1>1, <1>4, <2>1 DEF ReconcilePatchDeployment
  <2>3. PICK d \in Client : d \in ts
    BY <1>4, <2>1 DEF Kept, Plan, Targets
  <2>4. view[d].since \in Nat
    BY DEF DeployInv, ClientInv, GoodNow, Good, Dated, Known
  <2>5. Record(d, g) # None
    BY <2>4, NoneAssumption DEF Record, NoneAssumption
  <2>6. d \in Deployed'
    BY <2>2, <2>3, <2>5 DEF Deployed
  <2> QED BY <2>2, <2>6
<1> QED BY <1>2, <1>3, <1>4

LEMMA PlanInit ==
  ASSUME PatchInit
  PROVE  PlanInv
BY DEF PatchInit, PlanInv

LEMMA PlanNext ==
  ASSUME ~Remote, DeployInv, PlanInv, [PatchNext]_vars
  PROVE  PlanInv'
<1>0. graph \in [root : BOOLEAN, to : SUBSET Client, version : Nat]
  BY DEF DeployInv, Shapes
<1>1. CASE PatchDeployTimerFires
  <2>1. ReconcilePatchDeployment(graph, planned) /\ UNCHANGED <<graph, isRunning, gated>>
    BY <1>1 DEF PatchDeployTimerFires, Immediate
  <2> QED BY <1>0, <2>1, ReconcilePlan DEF PlanInv
<1>2. CASE Tick
  <2>1. UNCHANGED <<graph, isRunning, gated>>
    BY <1>2 DEF Tick
  <2>2. CASE Immediate(graph, planned)
    BY <1>0, <2>1, <2>2, ReconcilePlan DEF PlanInv, Immediate
  <2>3. CASE planned' = graph.root /\ UNCHANGED <<records, patchLastPlan, patchDeployTimer>>
    BY <2>1, <2>3 DEF PlanInv, Deployed
  <2> QED BY <1>2, <2>2, <2>3 DEF Tick
<1>3. CASE HearClients
  BY <1>3 DEF HearClients, PlanInv, Deployed
<1>4. ASSUME NEW root \in BOOLEAN, EditTopology(root) PROVE PlanInv'
  <2>1. PICK g : g = NextGraph(root)
    OBVIOUS
  <2>2. g \in [root : BOOLEAN, to : SUBSET Client, version : Nat]
    BY <2>1, GraphsOf DEF DeployInv
  <2>3. ReconcilePatchDeployment(g, None) /\ graph' = g /\ UNCHANGED <<isRunning, gated>>
    BY <1>4, <2>1 DEF EditTopology, Immediate
  <2> QED BY <2>2, <2>3, ReconcilePlan DEF PlanInv
<1>5. ASSUME NEW root \in BOOLEAN, ApplySnapshot(root) PROVE PlanInv'
  <2>1. /\ root = graph.root /\ graph' = NextGraph(root)
        /\ UNCHANGED <<isRunning, gated, records, patchLastPlan, planned, patchDeployTimer>>
    BY <1>5 DEF ApplySnapshot, deployVars
  <2>2. graph'.root = graph.root
    BY <2>1 DEF NextGraph
  <2> QED BY <2>1, <2>2 DEF PlanInv, Deployed
<1>6. ASSUME NEW cs \in SUBSET Client, NEW picked \in BOOLEAN, Select(cs, picked) PROVE PlanInv'
  <2>1. PICK g : g = [graph EXCEPT !.to = cs]
    OBVIOUS
  <2>2. g \in [root : BOOLEAN, to : SUBSET Client, version : Nat] /\ g.root = graph.root
    BY <1>0, <2>1, GraphsOf DEF DeployInv
  <2>3. graph' = g /\ UNCHANGED <<isRunning, gated>>
    BY <1>6, <2>1 DEF Select
  <2>4. CASE picked
    <3>1. ReconcilePatchDeployment(g, planned)
      BY <1>6, <2>1, <2>4 DEF Select, Immediate
    <3>2. planned \in {None, g.root}
      BY <2>2 DEF PlanInv
    <3> QED BY <2>2, <2>3, <3>1, <3>2, ReconcilePlan DEF PlanInv
  <2>5. CASE ~picked
    <3>1. UNCHANGED <<records, patchLastPlan, planned, patchDeployTimer>>
      BY <1>6, <2>5 DEF Select, deployVars
    <3> QED BY <2>2, <2>3, <3>1 DEF PlanInv, Deployed
  <2> QED BY <2>4, <2>5
<1>7. ASSUME NEW on \in BOOLEAN, SetGate(on) PROVE PlanInv'
  BY <1>7 DEF SetGate, Debounced, PlanInv
<1>8. ASSUME NEW on \in BOOLEAN, SetRunning(on) PROVE PlanInv'
  BY <1>8 DEF SetRunning, Debounced, StopAllDeployedPatches, PlanInv
<1>9. CASE EditLive
  BY <1>9 DEF EditLive, PlanInv, Deployed
<1>10. ASSUME NEW c \in Client, CommitFires(c) PROVE PlanInv'
  BY <1>10 DEF CommitFires, PlanInv, Deployed
<1>11. ASSUME NEW c \in Client, Connection(c) PROVE PlanInv'
  BY <1>11 DEF Connection, PlanInv, Deployed
<1>12. ASSUME NEW c \in Client, Executor(c) PROVE PlanInv'
  BY <1>12 DEF Executor, PlanInv, Deployed
<1>13. CASE UNCHANGED vars
  BY <1>13 DEF vars, deployVars, PlanInv, Deployed
<1> QED BY <1>1, <1>2, <1>3, <1>4, <1>5, <1>6, <1>7, <1>8, <1>9, <1>10, <1>11, <1>12, <1>13 DEF PatchNext

LEMMA SettledRest ==
  ASSUME DeployInv, PlanInv
  PROVE  SettledAtRest
<1> SUFFICES ASSUME AtRest, planned = graph.root, NEW c \in Able, Wanted(c)
             PROVE  records[c] # None /\ (Current(c) => Runs(c, graph.version))
  BY DEF SettledAtRest
<1>0. c \in Client
  BY ExecutorAssumption DEF ExecutorAssumption
<1>1. isRunning /\ graph.root /\ ~gated /\ ~patchDeployTimer /\ ~Outdated /\ planned # None
  BY DEF Wanted, AtRest
<1>2. PICK ts : ts = Targets(graph)
  OBVIOUS
<1>3. view[c].on
  <2>1. view[c] = server[c] /\ link[c] = server[c].on
    BY <1>0 DEF AtRest
  <2> QED BY <2>1 DEF Wanted
<1>4. c \in ts /\ ts \subseteq Client
  BY <1>2, <1>3 DEF Wanted, Targets, DeployInv, Shapes
<1>5. Compiled(graph, planned)
  BY <1>1 DEF Compiled
<1>6. Plan(graph, planned) = ts /\ ts # None
  BY <1>2, <1>4, <1>5, NoneAssumption DEF Plan, NoneAssumption
<1>7. patchLastPlan = ts
  BY <1>1, <1>6 DEF Outdated
<1>8. Deployed # {}
  BY <1>1, <1>6, <1>7 DEF PlanInv
<1>9. {<<d, graph.version>> : d \in ts} = {<<d, records[d].version>> : d \in Deployed}
  BY <1>1, <1>6, <1>8 DEF Outdated
<1>10. PICK d \in Deployed : <<c, graph.version>> = <<d, records[d].version>>
  BY <1>4, <1>9
<1>11. records[c] # None /\ records[c].version = graph.version
  BY <1>10 DEF Deployed
<1>12. Current(c) => Runs(c, records[c].version)
  BY RecordsTrue DEF RecordsAreTrue
<1> QED BY <1>11, <1>12

\* Whatever is edited, switched and lost, a client the graph selects ends with
\* a deployment of the graph as it is, where it is this manager's edits that
\* give the patch its root: an assumption the code needs, see StructureDeploys.
THEOREM PlansAreCarriedOut == ~Remote /\ PatchSpec => []SettledAtRest
<1> SUFFICES ASSUME ~Remote PROVE PatchSpec => []SettledAtRest
  OBVIOUS
<1>1. PatchSpec => []PlanInv
  BY Invariance, PlanInit, PlanNext, PTL DEF PatchSpec
<1> QED BY <1>1, Invariance, SettledRest, PTL


LEMMA SettledStructure ==
  ASSUME DeployInv, PlanInv
  PROVE  StructureDeploys
<1> SUFFICES ASSUME AtRest, NEW c \in Able, Wanted(c)
             PROVE  records[c] # None
  BY DEF StructureDeploys
<1>1. planned = graph.root
  BY DEF AtRest, Wanted, PlanInv
<1> QED BY <1>1, SettledRest DEF SettledAtRest

\* Structural changes trigger a deployment as long as they are this manager's
\* own: the failure of StructureDeploys that a run shows needs a remote editor.
THEOREM OwnStructureDeploys == ~Remote /\ PatchSpec => []StructureDeploys
<1> SUFFICES ASSUME ~Remote PROVE PatchSpec => []StructureDeploys
  OBVIOUS
<1>1. PatchSpec => []PlanInv
  BY Invariance, PlanInit, PlanNext, PTL DEF PatchSpec
<1> QED BY <1>1, Invariance, SettledStructure, PTL
==============================================================================
