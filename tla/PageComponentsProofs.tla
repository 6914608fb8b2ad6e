------------------------ MODULE PageComponentsProofs ------------------------
(***************************************************************************)
(* Theorems about the components of the manager's and the client's pages:  *)
(* the preload of assets, the node runtime, the bridges to the printers    *)
(* and to the boards, the pairing of a display, and what a client reports  *)
(* of itself; each for any values of its constants.                        *)
(***************************************************************************)
EXTENDS AssetPreload, NodeRuntime, PrintQueue, SerialBridge, DisplayPairing, ReadinessReports,
        SequenceLemmas, FiniteSetTheorems

-----------------------------------------------------------------------------
(* Sequences of work *)

\* SetToSeq has every element of a finite set at one place.
LEMMA SetToSeqProperties ==
  ASSUME NEW S, IsFiniteSet(S)
  PROVE  /\ SetToSeq(S) \in Seq(S)
         /\ \A i \in 1..Len(SetToSeq(S)) : SetToSeq(S)[i] \in S
         /\ \A i, j \in 1..Len(SetToSeq(S)) : SetToSeq(S)[i] = SetToSeq(S)[j] => i = j
         /\ \A x \in S : \E i \in 1..Len(SetToSeq(S)) : SetToSeq(S)[i] = x
<1> DEFINE f == SetToSeq(S)
           c == Cardinality(S)
<1>1. c \in Nat /\ ExistsBijection(1..c, S)
  BY FS_CardinalityType
<1>2. \E g \in [1..c -> S] : IsInjective(g)
  BY <1>1 DEF ExistsBijection, Bijection, Injection
<1>3. f \in [1..c -> S] /\ IsInjective(f)
  BY <1>2 DEF SetToSeq
<1> HIDE DEF f, c
<1>4. f \in Injection(1..c, S)
  BY <1>3 DEF Injection
<1>5. Cardinality(1..c) = c /\ IsFiniteSet(1..c)
  BY <1>1, FS_Interval
<1>6. f \in Surjection(1..c, S)
  BY <1>4, <1>5, FS_Injection DEF c
<1>7. f \in Seq(S) /\ Len(f) = c /\ DOMAIN f = 1..c
  BY <1>1, <1>3
<1>8. \A i \in 1..Len(f) : f[i] \in S
  BY <1>3, <1>7
<1>9. \A i, j \in 1..Len(f) : f[i] = f[j] => i = j
  BY <1>3, <1>7 DEF IsInjective
<1>10. \A x \in S : \E i \in 1..Len(f) : f[i] = x
  BY <1>6, <1>7 DEF Surjection
<1> QED BY <1>7, <1>8, <1>9, <1>10 DEF f

\* The places of a sequence where there is an element of T.
Places(seq, T) == {i \in 1..Len(seq) : seq[i] \in T}

LEMMA PlacesFinite ==
  ASSUME NEW S, NEW seq \in Seq(S), NEW T
  PROVE  IsFiniteSet(Places(seq, T)) /\ Cardinality(Places(seq, T)) \in Nat
<1>1. IsFiniteSet(1..Len(seq)) /\ Places(seq, T) \in SUBSET (1..Len(seq))
  BY LenProperties, FS_Interval DEF Places
<1>2. IsFiniteSet(Places(seq, T))
  BY <1>1, FS_Subset
<1> QED BY <1>2, FS_CardinalityType

\* Without its head, a sequence has its places one further on.
LEMMA PlacesOfTail ==
  ASSUME NEW S, NEW seq \in Seq(S), seq # <<>>, NEW T
  PROVE  /\ \A j : j \in Places(Tail(seq), T) <=> j \in Nat \ {0} /\ j + 1 \in Places(seq, T)
         /\ 1 \in Places(seq, T) <=> Head(seq) \in T
         /\ Cardinality(Places(seq, T)) =
              Cardinality(Places(Tail(seq), T)) + (IF Head(seq) \in T THEN 1 ELSE 0)
<1> DEFINE rest == Tail(seq)
           P == Places(seq, T)
           R == Places(rest, T)
           F == [j \in R |-> j + 1]
<1>1. /\ rest \in Seq(S) /\ Len(rest) = Len(seq) - 1
      /\ \A i \in 1..Len(rest) : rest[i] = seq[i + 1]
  BY HeadTailProperties
<1>2. Len(seq) \in Nat \ {0} /\ Head(seq) = seq[1]
  BY EmptySeq
<1>3. \A j : j \in R <=> j \in Nat \ {0} /\ j + 1 \in P
  BY <1>1, <1>2 DEF Places
<1>4. 1 \in P <=> Head(seq) \in T
  BY <1>2 DEF Places
<1>5. P \subseteq Nat \ {0} /\ R \subseteq Nat \ {0}
  BY <1>1, <1>2 DEF Places
<1>6. IsFiniteSet(P) /\ Cardinality(P) \in Nat /\ IsFiniteSet(R) /\ Cardinality(R) \in Nat
  BY <1>1, PlacesFinite
<1> HIDE DEF P, R, rest
<1>7. F \in Bijection(R, P \ {1})
  <2>1. F \in [R -> P \ {1}]
    BY <1>3, <1>5
  <2>2. IsInjective(F)
    BY <1>5 DEF IsInjective
  <2>3. ASSUME NEW x \in P \ {1} PROVE \E j \in R : F[j] = x
    <3>1. x - 1 \in R /\ (x - 1) + 1 = x
      BY <1>3, <1>5, <2>3
    <3> QED BY <3>1
  <2> QED BY <2>1, <2>2, <2>3 DEF Bijection, Injection, Surjection
<1>8. Cardinality(P \ {1}) = Cardinality(R)
  BY <1>6, <1>7, FS_Bijection DEF ExistsBijection
<1>9. Cardinality(P \ {1}) = IF 1 \in P THEN Cardinality(P) - 1 ELSE Cardinality(P)
  BY <1>6, FS_RemoveElement
<1> QED BY <1>3, <1>4, <1>6, <1>8, <1>9 DEF P, R, rest

\* With more behind a sequence, its own places stay where they are.
LEMMA PlacesOfConcat ==
  ASSUME NEW S, NEW seq \in Seq(S), NEW more \in Seq(S), NEW T
  PROVE  \A i : i \in Places(seq \o more, T) <=>
                  i \in Places(seq, T) \/ (i \in Nat /\ i - Len(seq) \in Places(more, T))
<1>1. /\ Len(seq \o more) = Len(seq) + Len(more)
      /\ \A i \in 1..(Len(seq) + Len(more)) :
           (seq \o more)[i] = IF i <= Len(seq) THEN seq[i] ELSE more[i - Len(seq)]
  BY ConcatProperties
<1>2. Len(seq) \in Nat /\ Len(more) \in Nat
  BY LenProperties
<1>3. ASSUME NEW i PROVE i \in Places(seq \o more, T) <=>
                  i \in Places(seq, T) \/ (i \in Nat /\ i - Len(seq) \in Places(more, T))
  <2>1. CASE i \in 1..Len(seq)
    <3>1. i \in 1..(Len(seq) + Len(more)) /\ (seq \o more)[i] = seq[i] /\ ~(i - Len(seq) > 0)
      BY <1>1, <1>2, <2>1
    <3> QED BY <1>1, <1>2, <2>1, <3>1 DEF Places
  <2>2. CASE i \in (Len(seq) + 1)..(Len(seq) + Len(more))
    <3>1. /\ i \in 1..(Len(seq) + Len(more)) /\ (seq \o more)[i] = more[i - Len(seq)]
          /\ i - Len(seq) \in 1..Len(more) /\ i \notin 1..Len(seq)
      BY <1>1, <1>2, <2>2
    <3> QED BY <1>1, <1>2, <2>2, <3>1 DEF Places
  <2>3. CASE i \notin 1..(Len(seq) + Len(more))
    <3>1. i \notin 1..Len(seq) /\ (i \in Nat => i - Len(seq) \notin 1..Len(more))
      BY <1>2, <2>3
    <3> QED BY <1>1, <2>3, <3>1 DEF Places
  <2> QED BY <1>2, <2>1, <2>2, <2>3
<1> QED BY <1>3

\* x is the last of the elements of T in a sequence, if there are any.
LastIs(seq, T, x) ==
  \A i \in Places(seq, T) : (\A j \in Places(seq, T) : j <= i) => seq[i] = x

LEMMA PlacesOfAppend ==
  ASSUME NEW S, NEW seq \in Seq(S), NEW e \in S, NEW T
  PROVE  /\ \A i : i \in Places(Append(seq, e), T) <=>
                     i \in Places(seq, T) \/ (e \in T /\ i = Len(seq) + 1)
         /\ Places(seq, T) \subseteq 1..Len(seq)
<1>1. /\ Len(Append(seq, e)) = Len(seq) + 1 /\ Len(seq) \in Nat
      /\ \A i \in 1..Len(seq) : Append(seq, e)[i] = seq[i]
      /\ Append(seq, e)[Len(seq) + 1] = e
  BY AppendProperties, LenProperties
<1>2. ASSUME NEW i
      PROVE  i \in Places(Append(seq, e), T) <=>
               i \in Places(seq, T) \/ (e \in T /\ i = Len(seq) + 1)
  <2>1. i \in 1..Len(Append(seq, e)) <=> i \in 1..Len(seq) \/ i = Len(seq) + 1
    BY <1>1
  <2>2. Len(seq) + 1 \notin 1..Len(seq)
    BY <1>1
  <2> QED BY <1>1, <2>1, <2>2 DEF Places
<1> QED BY <1>2 DEF Places

LEMMA LastOfAppend ==
  ASSUME NEW S, NEW seq \in Seq(S), NEW e \in S, NEW T, NEW x
  PROVE  /\ e \in T => /\ Places(Append(seq, e), T) # {}
                       /\ e = x => LastIs(Append(seq, e), T, x)
         /\ e \notin T => /\ Places(Append(seq, e), T) = Places(seq, T)
                          /\ LastIs(seq, T, x) => LastIs(Append(seq, e), T, x)
<1>1. PICK n \in Nat : n = Len(seq)
  BY LenProperties
<1>2. PICK seq2 : seq2 = Append(seq, e)
  OBVIOUS
<1>3. /\ \A i : i \in Places(seq2, T) <=> i \in Places(seq, T) \/ (e \in T /\ i = n + 1)
      /\ Places(seq, T) \subseteq 1..n
  BY <1>1, <1>2, PlacesOfAppend
<1>4. (\A i \in 1..n : seq2[i] = seq[i]) /\ seq2[n + 1] = e
  BY <1>1, <1>2, AppendProperties
<1>5. e \in T => n + 1 \in Places(seq2, T)
  BY <1>3
<1>6. e \notin T => Places(seq2, T) = Places(seq, T)
  BY <1>3
<1>7. ASSUME e \in T, e = x PROVE LastIs(seq2, T, x)
  <2>1. ASSUME NEW i \in Places(seq2, T), \A j \in Places(seq2, T) : j <= i PROVE seq2[i] = x
    <3>1. n + 1 <= i
      BY <1>5, <1>7, <2>1
    <3>2. i = n + 1
      BY <1>3, <2>1, <3>1
    <3> QED BY <1>4, <1>7, <3>2
  <2> QED BY <2>1 DEF LastIs
<1>8. ASSUME e \notin T, LastIs(seq, T, x) PROVE LastIs(seq2, T, x)
  BY <1>3, <1>4, <1>6, <1>8 DEF LastIs
<1> QED BY <1>2, <1>5, <1>6, <1>7, <1>8

LEMMA LastOfTail ==
  ASSUME NEW S, NEW seq \in Seq(S), seq # <<>>, NEW T, NEW x, LastIs(seq, T, x)
  PROVE  /\ LastIs(Tail(seq), T, x)
         /\ Places(Tail(seq), T) = {} => Places(seq, T) = {} \/ (Head(seq) \in T /\ Head(seq) = x)
         /\ Places(seq, T) = {} => Places(Tail(seq), T) = {}
<1>1. PICK rest : rest = Tail(seq)
  OBVIOUS
<1>2. /\ Len(rest) = Len(seq) - 1 /\ Head(seq) = seq[1] /\ Len(seq) \in Nat \ {0}
      /\ \A i \in 1..Len(rest) : rest[i] = seq[i + 1]
  BY <1>1, HeadTailProperties, EmptySeq
<1>3. /\ \A j : j \in Places(rest, T) <=> j \in Nat \ {0} /\ j + 1 \in Places(seq, T)
      /\ 1 \in Places(seq, T) <=> Head(seq) \in T
  BY <1>1, PlacesOfTail
<1>4. Places(seq, T) \subseteq 1..Len(seq) /\ Places(rest, T) \subseteq 1..Len(rest)
  BY DEF Places
<1>5. \A j \in Places(seq, T) : j # 1 => j - 1 \in Places(rest, T)
  <2>1. ASSUME NEW j \in Places(seq, T), j # 1 PROVE j - 1 \in Places(rest, T)
    <3>1. j - 1 \in Nat \ {0} /\ (j - 1) + 1 = j
      BY <1>2, <1>4, <2>1
    <3> QED BY <1>3, <2>1, <3>1
  <2> QED BY <2>1
<1>6. LastIs(rest, T, x)
  <2>1. ASSUME NEW i \in Places(rest, T), \A j \in Places(rest, T) : j <= i PROVE rest[i] = x
    <3>1. i + 1 \in Places(seq, T) /\ rest[i] = seq[i + 1] /\ i \in Nat \ {0}
      BY <1>2, <1>3, <1>4
    <3>2. ASSUME NEW j \in Places(seq, T) PROVE j <= i + 1
      <4>1. CASE j = 1
        BY <3>1, <4>1
      <4>2. CASE j # 1
        <5>1. j - 1 <= i /\ j \in Nat
          BY <1>2, <1>4, <1>5, <2>1, <4>2
        <5> QED BY <3>1, <5>1
      <4> QED BY <4>1, <4>2
    <3> QED BY <3>1, <3>2 DEF LastIs
  <2> QED BY <2>1 DEF LastIs
<1>7. ASSUME Places(rest, T) = {} PROVE Places(seq, T) = {} \/ (Head(seq) \in T /\ Head(seq) = x)
  <2>1. \A j \in Places(seq, T) : j = 1
    BY <1>5, <1>7
  <2>2. CASE Places(seq, T) # {}
    <3>1. 1 \in Places(seq, T) /\ \A j \in Places(seq, T) : j <= 1
      BY <2>1, <2>2
    <3> QED BY <1>2, <1>3, <3>1 DEF LastIs
  <2> QED BY <2>2
<1>8. Places(seq, T) = {} => Places(rest, T) = {}
  BY <1>3
<1> QED BY <1>1, <1>6, <1>7, <1>8
-----------------------------------------------------------------------------
(* Preloading *)

Marks == {"loop", "waiting", "resumed", "done"}
PreloadRef == PreloadAsset \cup OtherRef
PreRun == [manifest : Seq(PreloadRef), next : Nat \ {0}, loaded : Nat, failed : BOOLEAN, over : BOOLEAN,
           workers : [1..Workers -> PreloadAsset \cup Marks]]

\* A run that has not failed has missed no asset before the next one, and its
\* workers end after the last.
Working(run) ==
  /\ \A i \in 1..Len(run.manifest) :
       i < run.next => \/ run.manifest[i] \notin PreloadAsset
                       \/ run.manifest[i] \in preHave
                       \/ \E w \in 1..Workers : run.workers[w] = run.manifest[i]
  /\ \A w \in 1..Workers : run.workers[w] = "done" => Len(run.manifest) < run.next

RunOK(run) ==
  /\ run.over => \A w \in 1..Workers : run.workers[w] = "done"
  /\ (\E w \in 1..Workers : run.workers[w] = "waiting") => prePaused

EndReported ==
  \/ preState.status = "error"
  \/ preState.status = "ready" /\ preState.manifest = preManifest
  \/ preLate

CurrentOK(run) ==
  /\ run.manifest = preManifest
  /\ ~run.failed => Working(run)
  /\ run.over => EndReported

PreInv ==
  /\ preRuns \in Seq(PreRun)
  /\ preWanted \subseteq preHave
  /\ prePaused => preUrgent # {}
  /\ \A r \in 1..Current : RunOK(preRuns[r])
  /\ Current > 0 => CurrentOK(preRuns[Current])
  /\ ReadyIsTrue

\* A run that goes on: another next asset, another count, other workers.
RunWith(run, n, l, ws) ==
  [manifest |-> run.manifest, next |-> n, loaded |-> l, failed |-> run.failed, over |-> run.over,
   workers |-> ws]

\* Worker w of a run goes on as s, with another next asset and another count.
Moved(run, w, s, n, l) == RunWith(run, n, l, [run.workers EXCEPT ![w] = s])

LEMMA RunsIn ==
  ASSUME NEW q \in Seq(PreRun), NEW r \in 1..Len(q), NEW run, run = q[r]
  PROVE  /\ run \in PreRun /\ run.next \in Nat \ {0} /\ run.loaded \in Nat
         /\ run.manifest \in Seq(PreloadRef)
         /\ run.workers \in [1..Workers -> PreloadAsset \cup Marks]
         /\ run = [manifest |-> run.manifest, next |-> run.next, loaded |-> run.loaded,
                   failed |-> run.failed, over |-> run.over, workers |-> run.workers]
<1>1. run \in PreRun
  BY ElementOfSeq
<1> QED BY <1>1 DEF PreRun

LEMMA RunUpdates ==
  ASSUME NEW q \in Seq(PreRun), NEW r \in 1..Len(q), NEW run, run = q[r]
  PROVE  /\ Takes(q, r) = [q EXCEPT ![r] = RunWith(run, run.next + 1, run.loaded, run.workers)]
         /\ Counts(q, r) = [q EXCEPT ![r] = RunWith(run, run.next, run.loaded + 1, run.workers)]
         /\ \A w, s : Becomes(q, r, w, s) = [q EXCEPT ![r] = Moved(run, w, s, run.next, run.loaded)]
<1>1. run = [manifest |-> run.manifest, next |-> run.next, loaded |-> run.loaded,
             failed |-> run.failed, over |-> run.over, workers |-> run.workers]
  BY RunsIn
<1>2. /\ Takes(q, r) = [q EXCEPT ![r] = [run EXCEPT !.next = run.next + 1]]
      /\ Counts(q, r) = [q EXCEPT ![r] = [run EXCEPT !.loaded = run.loaded + 1]]
  BY DEF Takes, Counts
<1>3. \A w, s : Becomes(q, r, w, s)
                  = [q EXCEPT ![r] = [run EXCEPT !.workers = [run.workers EXCEPT ![w] = s]]]
  BY DEF Becomes
<1>4. \A n : [run EXCEPT !.next = n] = RunWith(run, n, run.loaded, run.workers)
  BY <1>1 DEF RunWith
<1>5. \A n : [run EXCEPT !.loaded = n] = RunWith(run, run.next, n, run.workers)
  BY <1>1 DEF RunWith
<1>6. \A ws : [run EXCEPT !.workers = ws] = RunWith(run, run.next, run.loaded, ws)
  BY <1>1 DEF RunWith
<1>7. Takes(q, r) = [q EXCEPT ![r] = RunWith(run, run.next + 1, run.loaded, run.workers)]
  BY <1>2, <1>4
<1>8. Counts(q, r) = [q EXCEPT ![r] = RunWith(run, run.next, run.loaded + 1, run.workers)]
  BY <1>2, <1>5
<1>9. ASSUME NEW w, NEW s
      PROVE  Becomes(q, r, w, s) = [q EXCEPT ![r] = Moved(run, w, s, run.next, run.loaded)]
  <2>1. Moved(run, w, s, run.next, run.loaded) = [run EXCEPT !.workers = [run.workers EXCEPT ![w] = s]]
    BY <1>6 DEF Moved
  <2> QED BY <1>3, <2>1
<1> QED BY <1>7, <1>8, <1>9

\* One run is another, and what it needs for the invariant.
LEMMA RunMoves ==
  ASSUME PreInv, NEW r \in 1..Current, NEW run \in PreRun, preRuns' = [preRuns EXCEPT ![r] = run],
         run.manifest = preRuns[r].manifest, RunOK(run),
         preHave \subseteq preHave', UNCHANGED <<preManifest, preWanted, preUrgent, prePaused>>,
         r = Current /\ ~run.failed => Working(run)',
         preRuns'[Current].over => EndReported',
         ReadyIsTrue'
  PROVE  PreInv'
<1>1. /\ preRuns \in Seq(PreRun) /\ preRuns \in [1..Current -> PreRun] /\ Current \in Nat
      /\ preRuns' \in Seq(PreRun) /\ Current' = Current
  BY LenProperties, ExceptSeq DEF PreInv, Current
<1>2. preRuns'[r] = run /\ \A i \in 1..Current : i # r => preRuns'[i] = preRuns[i]
  BY <1>1
<1>3. ASSUME NEW i \in 1..Current PROVE RunOK(preRuns[i])'
  <2>1. PICK other : other = preRuns'[i]
    OBVIOUS
  <2>2. RunOK(other)
    BY <1>2, <2>1 DEF PreInv
  <2>3. RunOK(other)'
    BY <2>2 DEF RunOK
  <2> QED BY <2>1, <2>3
<1>4. Current \in 1..Current
  BY <1>1
<1>5. PICK c : c = preRuns'[Current]
  OBVIOUS
<1>6. c.manifest = preManifest
  BY <1>1, <1>2, <1>4, <1>5 DEF PreInv, CurrentOK
<1>7. ASSUME ~c.failed PROVE Working(c)'
  <2>1. CASE r = Current
    BY <1>2, <1>5, <1>7, <2>1
  <2>2. CASE r # Current
    <3>1. c = preRuns[Current] /\ Working(c)
      BY <1>1, <1>2, <1>4, <1>5, <1>7, <2>2 DEF PreInv, CurrentOK
    <3> QED BY <3>1 DEF Working
  <2> QED BY <2>1, <2>2
<1>8. CurrentOK(c)'
  BY <1>5, <1>6, <1>7 DEF CurrentOK
<1>9. CurrentOK(preRuns[Current])'
  BY <1>1, <1>5, <1>8
<1> QED BY <1>1, <1>3, <1>9 DEF PreInv

\* What every proof about a run starts from.
LEMMA RunAt ==
  ASSUME PreInv, NEW r \in 1..Current
  PROVE  /\ preRuns \in Seq(PreRun) /\ r \in 1..Len(preRuns) /\ preRuns[r] \in PreRun
         /\ preRuns[r].workers \in [1..Workers -> PreloadAsset \cup Marks]
         /\ preRuns[r].manifest \in Seq(PreloadRef) /\ preRuns[r].next \in Nat \ {0}
         /\ RunOK(preRuns[r])
         /\ r = Current => CurrentOK(preRuns[r])
<1>1. preRuns \in Seq(PreRun) /\ Current = Len(preRuns) /\ preRuns[r] \in PreRun
  BY ElementOfSeq DEF PreInv, Current
<1>2. r = Current => Current > 0
  OBVIOUS
<1> QED BY <1>1, <1>2 DEF PreInv, PreRun

\* No asset is a mark.
LEMMA AssetsAreNoMarks == \A a \in PreloadAsset : a \notin Marks
BY PreloadAssumption DEF PreloadAssumption, Marks

LEMMA SetAssetManifestInv ==
  ASSUME PreInv, NEW m \in Manifest, SetAssetManifest(m)
  PROVE  PreInv'
<1>1. m \in Seq(PreloadRef) /\ Workers \in Nat \ {0}
  BY PreloadAssumption DEF PreloadAssumption, PreloadRef
<1>2. CASE m \in BadManifest
  <2>1. preState'.status = "error" /\ preRuns' = preRuns
    BY <1>2 DEF SetAssetManifest, Shown
  <2>2. UNCHANGED <<preManifest, preHave, preWanted, preUrgent, prePaused, preLate>>
    BY <1>2 DEF SetAssetManifest
  <2>3. EndReported' /\ ReadyIsTrue'
    BY <2>1 DEF EndReported, ReadyIsTrue
  <2>4. Current' = Current
    BY <2>1 DEF Current
  <2> QED BY <2>1, <2>2, <2>3, <2>4 DEF PreInv, RunOK, CurrentOK, Working
<1>3. CASE m \notin BadManifest
  <2>1. PICK run : run = [manifest |-> m, next |-> 1, loaded |-> 0, failed |-> FALSE, over |-> m = <<>>,
           workers |-> [w \in 1..Workers |-> IF m = <<>> THEN "done" ELSE "loop"]]
    OBVIOUS
  <2>2. /\ preRuns' = Append(preRuns, run)
        /\ preState' = Shown(IF m = <<>> THEN "ready" ELSE "loading", m, 0)
        /\ preManifest' = m
        /\ UNCHANGED <<preHave, preWanted, preUrgent, prePaused, preLate>>
    BY <1>3, <2>1 DEF SetAssetManifest, PreloadNow
  <2>3. run \in PreRun
    <3>1. [w \in 1..Workers |-> IF m = <<>> THEN "done" ELSE "loop"] \in [1..Workers -> PreloadAsset \cup Marks]
      BY DEF Marks
    <3>2. (m = <<>>) \in BOOLEAN
      OBVIOUS
    <3> QED BY <1>1, <2>1, <3>1, <3>2 DEF PreRun
  <2>4. /\ preRuns' \in Seq(PreRun) /\ Current' = Current + 1 /\ Current \in Nat
        /\ preRuns'[Current + 1] = run
        /\ \A i \in 1..Current : preRuns'[i] = preRuns[i]
    BY <2>2, <2>3, AppendProperties, LenProperties DEF PreInv, Current
  <2>5. RunOK(run)
    <3>1. run.over <=> m = <<>>
      BY <2>1
    <3> QED BY <2>1, <3>1 DEF RunOK
  <2>6. RunOK(run)'
    BY <2>2, <2>5 DEF RunOK
  <2>7. ASSUME NEW i \in 1..Current' PROVE RunOK(preRuns[i])'
    <3>1. CASE i = Current + 1
      BY <2>4, <2>6, <3>1
    <3>2. CASE i \in 1..Current
      <4>1. RunOK(preRuns[i])
        BY <3>2 DEF PreInv
      <4> QED BY <2>2, <2>4, <3>2, <4>1 DEF RunOK
    <3> QED BY <2>4, <3>1, <3>2
  <2>8. CurrentOK(run)'
    <3>1. run.manifest = m /\ run.next = 1 /\ (run.over <=> m = <<>>)
      BY <2>1
    <3>2. \A w \in 1..Workers : run.workers[w] = "done" => m = <<>>
      BY <2>1
    <3>3. Working(run)'
      <4>1. Len(m) \in Nat /\ (m = <<>> => Len(m) < 1)
        BY <1>1, EmptySeq, LenProperties
      <4> QED BY <3>1, <3>2, <4>1 DEF Working
    <3>4. run.over => EndReported'
      BY <2>2, <3>1 DEF EndReported, Shown
    <3> QED BY <2>2, <3>1, <3>3, <3>4 DEF CurrentOK
  <2>9. ReadyIsTrue'
    <3>1. ToSet(<<>>) = {}
      BY EmptySeq DEF ToSet
    <3> QED BY <2>2, <3>1 DEF ReadyIsTrue, Shown
  <2> QED BY <2>2, <2>4, <2>7, <2>8, <2>9 DEF PreInv
<1> QED BY <1>2, <1>3

LEMMA MovedIn ==
  ASSUME NEW run \in PreRun, NEW w \in 1..Workers, NEW s \in PreloadAsset \cup Marks, NEW n \in Nat \ {0},
         NEW l \in Nat
  PROVE  Moved(run, w, s, n, l) \in PreRun
<1>1. run.workers \in [1..Workers -> PreloadAsset \cup Marks]
  BY DEF PreRun
<1>2. [run.workers EXCEPT ![w] = s] \in [1..Workers -> PreloadAsset \cup Marks]
  BY <1>1
<1> QED BY <1>2 DEF Moved, RunWith, PreRun

LEMMA BecomesMoved ==
  ASSUME NEW q \in Seq(PreRun), NEW r \in 1..Len(q), NEW w \in 1..Workers,
         NEW s \in PreloadAsset \cup Marks, NEW run, run = q[r],
         NEW q2, q2 = Becomes(q, r, w, s)
  PROVE  /\ q2 = [q EXCEPT ![r] = Moved(run, w, s, run.next, run.loaded)]
         /\ Takes(q2, r) = [q EXCEPT ![r] = Moved(run, w, s, run.next + 1, run.loaded)]
         /\ Counts(q2, r) = [q EXCEPT ![r] = Moved(run, w, s, run.next, run.loaded + 1)]
         /\ Counts(Takes(q2, r), r) = [q EXCEPT ![r] = Moved(run, w, s, run.next + 1, run.loaded + 1)]
<1>1. run \in PreRun /\ run.next \in Nat \ {0} /\ run.loaded \in Nat
  BY RunsIn
<1>2. PICK run2 : run2 = Moved(run, w, s, run.next, run.loaded)
  OBVIOUS
<1>3. /\ run2.next = run.next /\ run2.loaded = run.loaded
      /\ run2.workers = [run.workers EXCEPT ![w] = s]
      /\ run2.manifest = run.manifest /\ run2.failed = run.failed /\ run2.over = run.over
  BY <1>2 DEF Moved, RunWith
<1>30. run2 \in PreRun
  BY <1>1, <1>2, MovedIn
<1>4. q2 = [q EXCEPT ![r] = run2]
  BY <1>2, RunUpdates
<1>5. q2 \in Seq(PreRun) /\ Len(q2) = Len(q) /\ q2[r] = run2
  BY <1>30, <1>4, ExceptSeq
<1>6. \A x : [q2 EXCEPT ![r] = x] = [q EXCEPT ![r] = x]
  BY <1>4
<1>7. PICK run3 : run3 = Moved(run, w, s, run.next + 1, run.loaded)
  OBVIOUS
<1>8. /\ run3.next = run.next + 1 /\ run3.loaded = run.loaded
      /\ run3.workers = [run.workers EXCEPT ![w] = s]
      /\ run3.manifest = run.manifest /\ run3.failed = run.failed /\ run3.over = run.over
  BY <1>7 DEF Moved, RunWith
<1>80. run3 \in PreRun
  <2>1. PICK n \in Nat \ {0} : n = run.next + 1
    BY <1>1
  <2>2. Moved(run, w, s, n, run.loaded) \in PreRun
    BY <1>1, MovedIn
  <2> QED BY <1>7, <2>1, <2>2
<1>9. Takes(q2, r) = [q EXCEPT ![r] = run3]
  <2>1. Takes(q2, r) = [q2 EXCEPT ![r] = RunWith(run2, run2.next + 1, run2.loaded, run2.workers)]
    BY <1>5, RunUpdates
  <2>2. RunWith(run2, run2.next + 1, run2.loaded, run2.workers) = run3
    BY <1>3, <1>7 DEF Moved, RunWith
  <2> QED BY <1>6, <2>1, <2>2
<1>10. Counts(q2, r) = [q EXCEPT ![r] = Moved(run, w, s, run.next, run.loaded + 1)]
  <2>1. Counts(q2, r) = [q2 EXCEPT ![r] = RunWith(run2, run2.next, run2.loaded + 1, run2.workers)]
    BY <1>5, RunUpdates
  <2>2. RunWith(run2, run2.next, run2.loaded + 1, run2.workers) = Moved(run, w, s, run.next, run.loaded + 1)
    BY <1>3 DEF Moved, RunWith
  <2> QED BY <1>6, <2>1, <2>2
<1>11. PICK q3 : q3 = Takes(q2, r)
  OBVIOUS
<1>12. q3 \in Seq(PreRun) /\ Len(q3) = Len(q) /\ q3[r] = run3
  BY <1>80, <1>9, <1>11, ExceptSeq
<1>13. Counts(q3, r) = [q EXCEPT ![r] = Moved(run, w, s, run.next + 1, run.loaded + 1)]
  <2>1. Counts(q3, r) = [q3 EXCEPT ![r] = RunWith(run3, run3.next, run3.loaded + 1, run3.workers)]
    BY <1>12, RunUpdates
  <2>2. RunWith(run3, run3.next, run3.loaded + 1, run3.workers)
          = Moved(run, w, s, run.next + 1, run.loaded + 1)
    BY <1>8 DEF Moved, RunWith
  <2>3. \A x : [q3 EXCEPT ![r] = x] = [q EXCEPT ![r] = x]
    BY <1>9, <1>11
  <2> QED BY <2>1, <2>2, <2>3
<1> QED BY <1>2, <1>4, <1>7, <1>9, <1>10, <1>11, <1>13

\* It stays true that no asset was missed: the asset that was next is taken, or
\* is there, or there is none.
LEMMA WorkingMoved ==
  ASSUME NEW run \in PreRun, NEW w \in 1..Workers, NEW s \in PreloadAsset \cup Marks, NEW n \in Nat \ {0},
         NEW l \in Nat, NEW run2, run2 = Moved(run, w, s, n, l),
         Working(run), preHave \subseteq preHave',
         run.workers[w] \in Marks \/ run.workers[w] \in preHave',
         s = "done" => Len(run.manifest) < n,
         n = run.next \/ n = run.next + 1,
         n # run.next /\ run.next \in 1..Len(run.manifest) =>
           \/ run.manifest[run.next] = s \/ run.manifest[run.next] \in preHave
           \/ run.manifest[run.next] \notin PreloadAsset
  PROVE  Working(run2)'
<1>1. /\ run2.manifest = run.manifest /\ run2.next = n
      /\ \A v \in 1..Workers : run2.workers[v] = IF v = w THEN s ELSE run.workers[v]
      /\ run.next \in Nat \ {0} /\ run.manifest \in Seq(PreloadRef)
  <2>1. /\ run2.manifest = run.manifest /\ run2.next = n
        /\ run2.workers = [run.workers EXCEPT ![w] = s]
    BY DEF Moved, RunWith
  <2>2. \A v \in 1..Workers : [run.workers EXCEPT ![w] = s][v] = IF v = w THEN s ELSE run.workers[v]
    BY DEF PreRun
  <2> QED BY <2>1, <2>2 DEF PreRun
<1>2. ASSUME NEW i \in 1..Len(run2.manifest), i < run2.next, run2.manifest[i] \in PreloadAsset
      PROVE  run2.manifest[i] \in preHave' \/ \E v \in 1..Workers : run2.workers[v] = run2.manifest[i]
  <2>1. run.manifest[i] \in PreloadAsset /\ i \in 1..Len(run.manifest) /\ Len(run.manifest) \in Nat
    BY <1>1, <1>2, LenProperties
  <2>2. CASE i < run.next
    <3>1. run.manifest[i] \in preHave \/ \E v \in 1..Workers : run.workers[v] = run.manifest[i]
      BY <2>1, <2>2 DEF Working
    <3>2. run.workers[w] = run.manifest[i] => run.manifest[i] \in preHave'
      BY <2>1, AssetsAreNoMarks
    <3> QED BY <1>1, <3>1, <3>2
  <2>3. CASE ~(i < run.next)
    <3>1. i = run.next /\ n # run.next
      BY <1>1, <1>2, <2>1, <2>3
    <3> QED BY <1>1, <2>1, <3>1
  <2> QED BY <2>2, <2>3
<1>3. ASSUME NEW v \in 1..Workers, run2.workers[v] = "done" PROVE Len(run2.manifest) < run2.next
  <2>1. Len(run.manifest) \in Nat
    BY <1>1, LenProperties
  <2>2. CASE v = w
    BY <1>1, <1>3, <2>2
  <2>3. CASE v # w
    <3>1. run.workers[v] = "done"
      BY <1>1, <1>3, <2>3
    <3>2. Len(run.manifest) < run.next
      BY <3>1 DEF Working
    <3>3. run.next <= n /\ run.next \in Nat /\ n \in Nat
      BY <1>1
    <3> QED BY <1>1, <2>1, <3>2, <3>3
  <2> QED BY <2>2, <2>3
<1>4. \A i \in 1..Len(run2.manifest) :
        i < run2.next => \/ run2.manifest[i] \notin PreloadAsset
                         \/ run2.manifest[i] \in preHave'
                         \/ \E v \in 1..Workers : run2.workers[v] = run2.manifest[i]
  BY <1>2
<1>5. \A v \in 1..Workers : run2.workers[v] = "done" => Len(run2.manifest) < run2.next
  BY <1>3
<1> QED BY <1>4, <1>5 DEF Working

\* A worker that is not done goes on.
LEMMA WorkerMoves ==
  ASSUME PreInv, NEW r \in 1..Current, NEW w \in 1..Workers, NEW s \in PreloadAsset \cup Marks,
         NEW n \in Nat \ {0}, NEW l \in Nat, NEW run, run = preRuns[r],
         NEW run2, run2 = Moved(run, w, s, n, l),
         run.workers[w] # "done",
         preRuns' = [preRuns EXCEPT ![r] = run2],
         preHave \subseteq preHave', UNCHANGED <<preManifest, preWanted, preUrgent, prePaused>>,
         s = "waiting" => prePaused, ReadyIsTrue',
         r = Current /\ ~run.failed => Working(run2)',
         r # Current => (UNCHANGED <<preState, preLate>>) \/ preLate'
  PROVE  PreInv'
<1>1. /\ run \in PreRun /\ RunOK(run) /\ preRuns \in Seq(PreRun) /\ r \in 1..Len(preRuns)
      /\ Current = Len(preRuns)
  BY RunAt DEF Current
<1>2. ~run.over
  BY <1>1 DEF RunOK
<1>4. /\ run2.manifest = run.manifest /\ run2.failed = run.failed
      /\ run2.over = run.over
      /\ \A v \in 1..Workers : run2.workers[v] = IF v = w THEN s ELSE run.workers[v]
  <2>1. /\ run2.manifest = run.manifest /\ run2.failed = run.failed /\ run2.over = run.over
        /\ run2.workers = [run.workers EXCEPT ![w] = s]
    BY DEF Moved, RunWith
  <2>2. \A v \in 1..Workers : [run.workers EXCEPT ![w] = s][v] = IF v = w THEN s ELSE run.workers[v]
    BY <1>1 DEF PreRun
  <2> QED BY <2>1, <2>2
<1>40. run2 \in PreRun
  BY <1>1, MovedIn
<1>5. RunOK(run2)
  BY <1>1, <1>2, <1>4 DEF RunOK
<1>6. r = Current /\ ~run2.failed => Working(run2)'
  BY <1>4
<1>8. preRuns'[Current].over => EndReported'
  <2>1. CASE r = Current
    BY <1>1, <1>2, <1>4, <2>1
  <2>2. CASE r # Current
    <3>1. preRuns'[Current] = preRuns[Current]
      BY <2>2
    <3>2. Current > 0
      BY <1>1, LenProperties
    <3> QED BY <2>2, <3>1, <3>2 DEF PreInv, CurrentOK, EndReported
  <2> QED BY <2>1, <2>2
<1> QED BY <1>4, <1>40, <1>5, <1>6, <1>8, RunMoves

LEMMA WorkerLoopsInv ==
  ASSUME PreInv, NEW r \in 1..Current, NEW w \in 1..Workers, WorkerLoops(r, w)
  PROVE  PreInv'
<1>1. PICK run : run = preRuns[r]
  OBVIOUS
<1>2. /\ preRuns \in Seq(PreRun) /\ r \in 1..Len(preRuns) /\ run \in PreRun
      /\ run.manifest \in Seq(PreloadRef) /\ run.next \in Nat \ {0} /\ run.loaded \in Nat
      /\ r = Current /\ ~run.failed => Working(run)
  BY <1>1, RunAt DEF CurrentOK, PreRun
<1>3. run.workers[w] \in {"loop", "resumed"}
  BY <1>1 DEF WorkerLoops
<1>4. /\ run.workers[w] # "done" /\ run.workers[w] \in Marks
      /\ UNCHANGED <<preManifest, preHave, preWanted, preUrgent, prePaused>>
      /\ "done" \in Marks /\ "waiting" \in Marks /\ "loop" \in Marks
  BY <1>3 DEF WorkerLoops, Marks
<1>5. PICK n \in Nat \ {0} : n = run.next + 1
  BY <1>2
<1>6. PICK l \in Nat : l = run.loaded + 1
  BY <1>2
<1>7. UNCHANGED preState => ReadyIsTrue'
  BY <1>4 DEF PreInv, ReadyIsTrue
<1>8. CASE Aborted(r)
  <2>1. PICK run2 : run2 = Moved(run, w, "done", run.next, run.loaded)
    OBVIOUS
  <2>2. preRuns' = Becomes(preRuns, r, w, "done") /\ UNCHANGED <<preState, preLate>>
    BY <1>8 DEF WorkerLoops
  <2>3. preRuns' = [preRuns EXCEPT ![r] = run2]
    BY <1>1, <1>2, <1>4, <2>1, <2>2, RunUpdates
  <2>4. r # Current
    BY <1>8 DEF Aborted
  <2> QED BY <1>1, <1>2, <1>4, <1>7, <2>1, <2>2, <2>3, <2>4, WorkerMoves
<1>9. CASE ~Aborted(r) /\ prePaused /\ run.workers[w] = "loop"
  <2>1. PICK run2 : run2 = Moved(run, w, "waiting", run.next, run.loaded)
    OBVIOUS
  <2>2. preRuns' = Becomes(preRuns, r, w, "waiting") /\ UNCHANGED <<preState, preLate>>
    BY <1>1, <1>9 DEF WorkerLoops
  <2>3. preRuns' = [preRuns EXCEPT ![r] = run2]
    BY <1>1, <1>2, <1>4, <2>1, <2>2, RunUpdates
  <2>4. Working(run) => Working(run2)'
    <3>1. PICK s \in PreloadAsset \cup Marks : s = "waiting" /\ s # "done"
      BY <1>4
    <3>2. run2 = Moved(run, w, s, run.next, run.loaded)
      BY <2>1, <3>1
    <3>3. preHave \subseteq preHave' /\ (run.workers[w] \in Marks \/ run.workers[w] \in preHave')
      BY <1>4
    <3> QED BY <1>2, <3>1, <3>2, <3>3, WorkingMoved
  <2>5. r = Current
    BY <1>9 DEF Aborted
  <2> QED BY <1>1, <1>2, <1>4, <1>7, <1>9, <2>1, <2>2, <2>3, <2>4, <2>5, WorkerMoves
<1>10. CASE ~Aborted(r) /\ ~(prePaused /\ run.workers[w] = "loop") /\ run.next > Len(run.manifest)
  <2>1. PICK run2 : run2 = Moved(run, w, "done", n, run.loaded)
    OBVIOUS
  <2>2. /\ preRuns' = Takes(Becomes(preRuns, r, w, "done"), r)
        /\ UNCHANGED <<preState, preLate>>
    BY <1>1, <1>10 DEF WorkerLoops
  <2>3. preRuns' = [preRuns EXCEPT ![r] = run2]
    BY <1>1, <1>2, <1>4, <1>5, <2>1, <2>2, BecomesMoved
  <2>4. Working(run) => Working(run2)'
    <3>1. Len(run.manifest) \in Nat
      BY <1>2, LenProperties
    <3>2. Len(run.manifest) < n /\ run.next \notin 1..Len(run.manifest)
      BY <1>2, <1>5, <1>10, <3>1
    <3> QED BY <1>2, <1>4, <1>5, <2>1, <3>2, WorkingMoved
  <2>5. r = Current
    BY <1>10 DEF Aborted
  <2> QED BY <1>1, <1>2, <1>4, <1>7, <2>1, <2>2, <2>3, <2>4, <2>5, WorkerMoves
<1>11. CASE ~Aborted(r) /\ ~(prePaused /\ run.workers[w] = "loop") /\ ~(run.next > Len(run.manifest))
  <2>0. PICK a : a = run.manifest[run.next]
    OBVIOUS
  <2>1. r = Current
    BY <1>11 DEF Aborted
  <2>2. CASE a \in PreloadAsset \ preWanted
    <3>1. PICK run2 : run2 = Moved(run, w, a, n, run.loaded)
      OBVIOUS
    <3>2. /\ preRuns' = Takes(Becomes(preRuns, r, w, a), r)
          /\ UNCHANGED <<preState, preLate>>
      BY <1>1, <1>11, <2>0, <2>2 DEF WorkerLoops
    <3>3. a \in PreloadAsset \cup Marks /\ a # "done" /\ a # "waiting"
      BY <2>2, AssetsAreNoMarks DEF Marks
    <3>4. preRuns' = [preRuns EXCEPT ![r] = run2]
      BY <1>1, <1>2, <1>5, <3>1, <3>2, <3>3, BecomesMoved
    <3>5. Working(run) => Working(run2)'
      BY <1>2, <1>4, <1>5, <2>0, <3>1, <3>3, WorkingMoved
    <3>6. /\ r = Current /\ ~run.failed => Working(run2)'
          /\ preHave \subseteq preHave' /\ ReadyIsTrue'
      BY <1>2, <1>4, <1>7, <3>2, <3>5
    <3> QED BY <1>1, <1>2, <1>4, <2>1, <3>1, <3>3, <3>4, <3>6, WorkerMoves
  <2>3. CASE a \notin PreloadAsset \ preWanted
    <3>1. PICK run2 : run2 = Moved(run, w, "loop", n, l)
      OBVIOUS
    <3>2. /\ preRuns' = Counts(Takes(Becomes(preRuns, r, w, "loop"), r), r)
          /\ Reports(r, run.loaded + 1)
      BY <1>1, <1>11, <2>0, <2>3 DEF WorkerLoops
    <3>3. preRuns' = [preRuns EXCEPT ![r] = run2]
      BY <1>1, <1>2, <1>4, <1>5, <1>6, <3>1, <3>2, BecomesMoved
    <3>4. Working(run) => Working(run2)'
      <4>1. a \in preHave \/ a \notin PreloadAsset
        BY <2>3 DEF PreInv
      <4>2. /\ run.manifest[run.next] \in preHave \/ run.manifest[run.next] \notin PreloadAsset
            /\ preHave \subseteq preHave'
        BY <1>4, <2>0, <4>1
      <4> QED BY <1>2, <1>4, <1>5, <3>1, <4>2, WorkingMoved
    <3>5. ReadyIsTrue'
      BY <3>2 DEF Reports, Shown, ReadyIsTrue
    <3>6. /\ r = Current /\ ~run.failed => Working(run2)'
          /\ preHave \subseteq preHave'
      BY <1>2, <1>4, <3>4
    <3>7. "loop" \in PreloadAsset \cup Marks /\ "loop" # "waiting"
      BY <1>4
    <3> QED BY <1>1, <1>4, <2>1, <3>1, <3>3, <3>5, <3>6, <3>7, WorkerMoves
  <2> QED BY <2>2, <2>3
<1> QED BY <1>8, <1>9, <1>10, <1>11

LEMMA AssetCachedInv ==
  ASSUME PreInv, NEW r \in 1..Current, NEW w \in 1..Workers, AssetCached(r, w)
  PROVE  PreInv'
<1>1. PICK run : run = preRuns[r]
  OBVIOUS
<1>2. /\ preRuns \in Seq(PreRun) /\ r \in 1..Len(preRuns) /\ run \in PreRun
      /\ run.next \in Nat \ {0} /\ run.loaded \in Nat
      /\ r = Current /\ ~run.failed => Working(run)
  BY <1>1, RunAt DEF CurrentOK, PreRun
<1>3. /\ run.workers[w] # "done" /\ "loop" \in PreloadAsset \cup Marks /\ "loop" # "waiting"
      /\ preHave \subseteq preHave' /\ run.workers[w] \in preHave'
      /\ UNCHANGED <<preManifest, preWanted, preUrgent, prePaused>>
  BY <1>1, AssetsAreNoMarks DEF AssetCached, Marks
<1>4. PICK l \in Nat : l = run.loaded + 1
  BY <1>2
<1>5. PICK n \in Nat \ {0} : n = run.next
  BY <1>2
<1>6. PICK run2 : run2 = Moved(run, w, "loop", n, l)
  OBVIOUS
<1>7. preRuns' = Counts(Becomes(preRuns, r, w, "loop"), r) /\ Reports(r, run.loaded + 1)
  BY <1>1 DEF AssetCached
<1>8. preRuns' = [preRuns EXCEPT ![r] = run2]
  BY <1>1, <1>2, <1>3, <1>4, <1>5, <1>6, <1>7, BecomesMoved
<1>9. r = Current /\ ~run.failed => Working(run2)'
  BY <1>2, <1>3, <1>5, <1>6, WorkingMoved
<1>10. ReadyIsTrue' /\ (r # Current => preLate')
  BY <1>7 DEF Reports, Shown, ReadyIsTrue, Aborted
<1> QED BY <1>1, <1>3, <1>6, <1>8, <1>9, <1>10, WorkerMoves

LEMMA AssetFailsInv ==
  ASSUME PreInv, NEW r \in 1..Current, NEW w \in 1..Workers, AssetFails(r, w)
  PROVE  PreInv'
<1>1. PICK run : run = preRuns[r]
  OBVIOUS
<1>2. /\ preRuns \in Seq(PreRun) /\ r \in 1..Len(preRuns) /\ run \in PreRun /\ RunOK(run)
      /\ run.next \in Nat \ {0} /\ run.loaded \in Nat /\ Current = Len(preRuns)
  BY <1>1, RunAt DEF PreRun, Current
<1>3. /\ run.workers[w] # "done" /\ "done" \in PreloadAsset \cup Marks
      /\ UNCHANGED <<preManifest, preState, preHave, preWanted, preUrgent, prePaused, preLate>>
  BY <1>1, AssetsAreNoMarks DEF AssetFails, Marks
<1>4. PICK run2 : run2 = Moved(run, w, "done", run.next, run.loaded)
  OBVIOUS
<1>5. PICK q : q = Becomes(preRuns, r, w, "done")
  OBVIOUS
<1>6. q = [preRuns EXCEPT ![r] = run2]
  BY <1>1, <1>2, <1>3, <1>4, <1>5, BecomesMoved
<1>7. /\ run2.manifest = run.manifest /\ run2.over = run.over
      /\ run2.workers = [run.workers EXCEPT ![w] = "done"]
  BY <1>4 DEF Moved, RunWith
<1>8. run2 \in PreRun
  BY <1>2, <1>3, <1>4, MovedIn
<1>9. q \in Seq(PreRun) /\ Len(q) = Len(preRuns) /\ q[r] = run2
  BY <1>2, <1>6, <1>8, ExceptSeq
<1>10. PICK run3 : run3 = [manifest |-> run2.manifest, next |-> run2.next, loaded |-> run2.loaded,
                           failed |-> TRUE, over |-> run2.over, workers |-> run2.workers]
  OBVIOUS
<1>11. [q EXCEPT ![r].failed = TRUE] = [q EXCEPT ![r] = run3]
  <2>1. run2 = [manifest |-> run2.manifest, next |-> run2.next, loaded |-> run2.loaded,
                failed |-> run2.failed, over |-> run2.over, workers |-> run2.workers]
    BY <1>8 DEF PreRun
  <2>2. \A b : [run2 EXCEPT !.failed = b] =
              [manifest |-> run2.manifest, next |-> run2.next, loaded |-> run2.loaded,
               failed |-> b, over |-> run2.over, workers |-> run2.workers]
    BY <2>1
  <2>3. [q EXCEPT ![r].failed = TRUE] = [q EXCEPT ![r] = [run2 EXCEPT !.failed = TRUE]]
    BY <1>9
  <2> QED BY <1>10, <2>2, <2>3
<1>12. preRuns' = [preRuns EXCEPT ![r] = run3]
  BY <1>5, <1>6, <1>11 DEF AssetFails
<1>13. run3 \in PreRun /\ run3.failed /\ run3.over = run.over /\ run3.manifest = run.manifest
  BY <1>7, <1>8, <1>10 DEF PreRun
<1>14. \A v \in 1..Workers : run3.workers[v] = IF v = w THEN "done" ELSE run.workers[v]
  BY <1>2, <1>7, <1>10 DEF PreRun
<1>15. ~run.over
  BY <1>2, <1>3 DEF RunOK
<1>16. RunOK(run3)
  BY <1>2, <1>13, <1>14, <1>15 DEF RunOK
<1>17. preRuns'[Current].over => EndReported'
  <2>1. CASE r = Current
    BY <1>2, <1>12, <1>13, <1>15, <2>1
  <2>2. CASE r # Current
    <3>1. preRuns'[Current] = preRuns[Current] /\ Current > 0
      BY <1>2, <1>12, <2>2, LenProperties
    <3> QED BY <1>3, <3>1 DEF PreInv, CurrentOK, EndReported
  <2> QED BY <2>1, <2>2
<1>18. ReadyIsTrue'
  BY <1>3 DEF PreInv, ReadyIsTrue
<1> QED BY <1>1, <1>3, <1>12, <1>13, <1>16, <1>17, <1>18, RunMoves

LEMMA RunEndsInv ==
  ASSUME PreInv, NEW r \in 1..Current, RunEnds(r)
  PROVE  PreInv'
<1>1. PICK run : run = preRuns[r]
  OBVIOUS
<1>2. /\ preRuns \in Seq(PreRun) /\ r \in 1..Len(preRuns) /\ run \in PreRun /\ RunOK(run)
      /\ run.manifest \in Seq(PreloadRef) /\ Current = Len(preRuns)
      /\ r = Current => CurrentOK(run)
  BY <1>1, RunAt DEF PreRun, Current
<1>3. /\ \A w \in 1..Workers : run.workers[w] = "done"
      /\ UNCHANGED <<preManifest, preHave, preWanted, preUrgent, prePaused, preLate>>
  BY <1>1 DEF RunEnds
<1>4. PICK run2 : run2 = [manifest |-> run.manifest, next |-> run.next, loaded |-> run.loaded,
                          failed |-> run.failed, over |-> TRUE, workers |-> run.workers]
  OBVIOUS
<1>5. preRuns' = [preRuns EXCEPT ![r] = run2]
  <2>1. run = [manifest |-> run.manifest, next |-> run.next, loaded |-> run.loaded,
               failed |-> run.failed, over |-> run.over, workers |-> run.workers]
    BY <1>2 DEF PreRun
  <2>2. \A b : [run EXCEPT !.over = b] =
              [manifest |-> run.manifest, next |-> run.next, loaded |-> run.loaded,
               failed |-> run.failed, over |-> b, workers |-> run.workers]
    BY <2>1
  <2>3. preRuns' = [preRuns EXCEPT ![r] = [run EXCEPT !.over = TRUE]]
    BY <1>1 DEF RunEnds
  <2> QED BY <1>4, <2>2, <2>3
<1>6. /\ run2 \in PreRun /\ run2.manifest = run.manifest /\ run2.failed = run.failed
      /\ run2.workers = run.workers /\ run2.next = run.next
  BY <1>2, <1>4 DEF PreRun
<1>7. RunOK(run2)
  BY <1>3, <1>6 DEF RunOK
<1>8. r = Current /\ ~run2.failed => Working(run2)'
  BY <1>2, <1>3, <1>6 DEF CurrentOK, Working
<1>9. CASE r = Current
  <2>1. preState' = IF run.failed THEN Shown("error", run.manifest, run.loaded)
                    ELSE Shown("ready", run.manifest, Len(run.manifest))
    BY <1>1, <1>9 DEF RunEnds, StillCounts, Aborted
  <2>2. EndReported'
    BY <1>2, <1>3, <1>9, <2>1 DEF EndReported, Shown, CurrentOK
  <2>3. ReadyIsTrue'
    <3>1. CASE run.failed
      BY <2>1, <3>1 DEF ReadyIsTrue, Shown
    <3>2. CASE ~run.failed
      <4>1. Working(run) /\ preState'.manifest = run.manifest
        BY <1>2, <1>9, <2>1, <3>2 DEF CurrentOK, Shown
      <4>2. 1 \in 1..Workers
        BY PreloadAssumption DEF PreloadAssumption
      <4>3. Len(run.manifest) < run.next /\ Len(run.manifest) \in Nat /\ run.next \in Nat
        BY <1>2, <1>3, <4>1, <4>2, LenProperties DEF Working, PreRun
      <4>4. ASSUME NEW i \in 1..Len(run.manifest), run.manifest[i] \in PreloadAsset
            PROVE  run.manifest[i] \in preHave
        <5>1. i < run.next
          BY <4>3
        <5>2. run.manifest[i] # "done"
          BY <4>4, AssetsAreNoMarks DEF Marks
        <5> QED BY <1>3, <4>1, <4>4, <5>1, <5>2 DEF Working
      <4>5. DOMAIN run.manifest = 1..Len(run.manifest)
        BY <1>2, LenProperties
      <4> QED BY <1>3, <4>1, <4>4, <4>5 DEF ReadyIsTrue, ToSet
    <3> QED BY <3>1, <3>2
  <2> QED BY <1>1, <1>3, <1>5, <1>6, <1>7, <1>8, <2>2, <2>3, RunMoves
<1>10. CASE r # Current
  <2>1. preState' = preState
    BY <1>10 DEF RunEnds, StillCounts, Aborted
  <2>2. preRuns'[Current] = preRuns[Current] /\ Current > 0
    BY <1>2, <1>5, <1>10, LenProperties
  <2>3. preRuns'[Current].over => EndReported'
    BY <1>3, <2>1, <2>2 DEF PreInv, CurrentOK, EndReported
  <2>4. ReadyIsTrue'
    BY <1>3, <2>1 DEF PreInv, ReadyIsTrue
  <2> QED BY <1>1, <1>3, <1>5, <1>6, <1>7, <1>8, <2>3, <2>4, RunMoves
<1> QED BY <1>9, <1>10

\* What Resume makes of a run.
LEMMA Resumed ==
  ASSUME NEW q \in Seq(PreRun), NEW r \in 1..Len(q), NEW run, run = q[r], NEW run2, run2 = Resume(q)[r]
  PROVE  /\ run2 \in PreRun /\ run2.manifest = run.manifest /\ run2.next = run.next
         /\ run2.failed = run.failed /\ run2.over = run.over
         /\ \A w \in 1..Workers :
              run2.workers[w] = IF run.workers[w] = "waiting" THEN "resumed" ELSE run.workers[w]
<1>1. run \in PreRun /\ DOMAIN q = 1..Len(q)
  BY ElementOfSeq, LenProperties
<1>2. PICK ws : ws = [w \in 1..Workers |-> IF run.workers[w] = "waiting" THEN "resumed" ELSE run.workers[w]]
  OBVIOUS
<1>3. run2 = [run EXCEPT !.workers = ws]
  BY <1>1, <1>2 DEF Resume
<1>4. run = [manifest |-> run.manifest, next |-> run.next, loaded |-> run.loaded,
             failed |-> run.failed, over |-> run.over, workers |-> run.workers]
  BY <1>1 DEF PreRun
<1>5. run2 = RunWith(run, run.next, run.loaded, ws)
  BY <1>3, <1>4 DEF RunWith
<1>6. /\ run2.manifest = run.manifest /\ run2.next = run.next
      /\ run2.failed = run.failed /\ run2.over = run.over /\ run2.workers = ws
  BY <1>5 DEF RunWith
<1>7. ws \in [1..Workers -> PreloadAsset \cup Marks]
  BY <1>1, <1>2 DEF PreRun, Marks
<1>8. run2 \in PreRun
  BY <1>1, <1>5, <1>7 DEF PreRun, RunWith
<1> QED BY <1>2, <1>6, <1>8

LEMMA PrioritizeFetchInv ==
  ASSUME PreInv, NEW a \in PreloadAsset, PrioritizeFetch(a)
  PROVE  PreInv'
<1>1. /\ preUrgent' # {} /\ (prePaused => prePaused')
      /\ UNCHANGED <<preManifest, preState, preRuns, preHave, preWanted, preLate>>
      /\ Current' = Current
  BY DEF PrioritizeFetch, Current
<1>2. ASSUME NEW r \in 1..Current PROVE RunOK(preRuns[r])'
  <2>1. RunOK(preRuns[r])
    BY DEF PreInv
  <2> QED BY <1>1, <2>1 DEF RunOK
<1>3. Current > 0 => CurrentOK(preRuns[Current])'
  <2>1. Current > 0 => CurrentOK(preRuns[Current])
    BY DEF PreInv
  <2> QED BY <1>1, <2>1 DEF CurrentOK, Working, EndReported
<1>4. ReadyIsTrue'
  BY <1>1 DEF PreInv, ReadyIsTrue
<1> QED BY <1>1, <1>2, <1>3, <1>4 DEF PreInv

LEMMA PriorityFetchEndsInv ==
  ASSUME PreInv, NEW a \in PreloadAsset, NEW ok \in BOOLEAN, PriorityFetchEnds(a, ok)
  PROVE  PreInv'
<1>1. /\ ~prePaused' /\ preHave \subseteq preHave' /\ preWanted' \subseteq preHave'
      /\ UNCHANGED <<preManifest, preState, preLate>>
  BY DEF PriorityFetchEnds, PreInv
<1>2. preRuns \in Seq(PreRun) /\ Current \in Nat /\ Current = Len(preRuns)
  BY LenProperties DEF PreInv, Current
<1>3. ReadyIsTrue'
  BY <1>1 DEF PreInv, ReadyIsTrue
<1>4. ASSUME NEW run, RunOK(run), NEW run2, run2.over = run.over,
             \A w \in 1..Workers : /\ run2.workers[w] # "waiting"
                                   /\ run.workers[w] = "done" => run2.workers[w] = "done"
      PROVE  RunOK(run2)'
  BY <1>4 DEF RunOK
<1>5. ASSUME NEW run, CurrentOK(run), NEW run2,
             run2.manifest = run.manifest, run2.next = run.next, run2.over = run.over,
             run2.failed = run.failed, run.manifest \in Seq(PreloadRef),
             \A w \in 1..Workers : /\ run2.workers[w] = "done" => run.workers[w] = "done"
                                   /\ run.workers[w] \in PreloadAsset => run2.workers[w] = run.workers[w]
      PROVE  CurrentOK(run2)'
  <2>1. ASSUME Working(run) PROVE Working(run2)'
    <3>1. ASSUME NEW i \in 1..Len(run2.manifest), i < run2.next, run2.manifest[i] \in PreloadAsset
          PROVE  run2.manifest[i] \in preHave' \/ \E v \in 1..Workers : run2.workers[v] = run2.manifest[i]
      <4>1. run.manifest[i] \in PreloadAsset
        BY <1>5, <3>1
      <4>2. run.manifest[i] \in preHave \/ \E v \in 1..Workers : run.workers[v] = run.manifest[i]
        BY <1>5, <2>1, <3>1, <4>1 DEF Working
      <4> QED BY <1>1, <1>5, <4>1, <4>2
    <3>2. \A w \in 1..Workers : run2.workers[w] = "done" => Len(run2.manifest) < run2.next
      BY <1>5, <2>1 DEF Working
    <3> QED BY <3>1, <3>2 DEF Working
  <2>2. run2.over => EndReported'
    BY <1>1, <1>5 DEF CurrentOK, EndReported
  <2> QED BY <1>1, <1>5, <2>1, <2>2 DEF CurrentOK
<1>6. CASE prePaused
  <2>1. preRuns' = Resume(preRuns)
    BY <1>6 DEF PriorityFetchEnds
  <2>2. ASSUME NEW r \in 1..Current, NEW run, run = preRuns[r], NEW run2, run2 = preRuns'[r]
        PROVE  /\ run2 \in PreRun /\ run2.manifest = run.manifest /\ run2.next = run.next
               /\ run2.failed = run.failed /\ run2.over = run.over
               /\ \A w \in 1..Workers :
                    run2.workers[w] = IF run.workers[w] = "waiting" THEN "resumed" ELSE run.workers[w]
    BY <1>2, <2>1, <2>2, Resumed
  <2>3. preRuns' \in Seq(PreRun) /\ Current' = Current
    <3>1. DOMAIN preRuns' = 1..Current /\ preRuns' = [r \in 1..Current |-> preRuns'[r]]
      BY <1>2, <2>1, LenProperties DEF Resume
    <3>2. \A r \in 1..Current : preRuns'[r] \in PreRun
      BY <2>2
    <3>3. preRuns' \in Seq(PreRun)
      BY <1>2, <3>1, <3>2, SeqDef
    <3> QED BY <1>2, <3>1, <3>3, LenProperties DEF Current
  <2>4. ASSUME NEW r \in 1..Current PROVE RunOK(preRuns[r])'
    <3>1. PICK run : run = preRuns[r]
      OBVIOUS
    <3>2. PICK run2 : run2 = preRuns'[r]
      OBVIOUS
    <3>3. RunOK(run)
      BY <3>1 DEF PreInv
    <3>4. RunOK(run2)'
      BY <1>4, <2>2, <3>1, <3>2, <3>3
    <3> QED BY <3>2, <3>4
  <2>5. ASSUME Current > 0 PROVE CurrentOK(preRuns[Current])'
    <3>1. PICK run : run = preRuns[Current]
      OBVIOUS
    <3>2. PICK run2 : run2 = preRuns'[Current]
      OBVIOUS
    <3>3. CurrentOK(run) /\ Current \in 1..Current
      BY <1>2, <2>5, <3>1 DEF PreInv
    <3>4. run.manifest \in Seq(PreloadRef)
      BY <3>1, <3>3, RunAt
    <3>5. CurrentOK(run2)'
      <4>1. /\ run2.manifest = run.manifest /\ run2.next = run.next
            /\ run2.failed = run.failed /\ run2.over = run.over
        BY <2>2, <3>1, <3>2, <3>3
      <4>2. \A w \in 1..Workers : /\ run2.workers[w] = "done" => run.workers[w] = "done"
                                  /\ run.workers[w] \in PreloadAsset => run2.workers[w] = run.workers[w]
        <5>1. \A w \in 1..Workers :
                 run2.workers[w] = IF run.workers[w] = "waiting" THEN "resumed" ELSE run.workers[w]
          BY <2>2, <3>1, <3>2, <3>3
        <5>2. "waiting" \notin PreloadAsset
          BY AssetsAreNoMarks DEF Marks
        <5> QED BY <5>1, <5>2
      <4> QED BY <1>5, <3>3, <3>4, <4>1, <4>2
    <3> QED BY <2>3, <3>2, <3>5
  <2> QED BY <1>1, <1>3, <2>3, <2>4, <2>5 DEF PreInv
<1>7. CASE ~prePaused
  <2>1. preRuns' = preRuns /\ Current' = Current
    BY <1>7 DEF PriorityFetchEnds, Current
  <2>2. ASSUME NEW r \in 1..Current PROVE RunOK(preRuns[r])'
    <3>1. RunOK(preRuns[r])
      BY DEF PreInv
    <3> QED BY <1>1, <1>7, <2>1, <3>1 DEF RunOK
  <2>3. ASSUME Current > 0 PROVE CurrentOK(preRuns[Current])'
    <3>1. CurrentOK(preRuns[Current])
      BY <2>3 DEF PreInv
    <3> QED BY <1>1, <2>1, <3>1 DEF CurrentOK, Working, EndReported
  <2> QED BY <1>1, <1>2, <1>3, <2>1, <2>2, <2>3 DEF PreInv
<1> QED BY <1>6, <1>7

LEMMA PreInitInv == PreInit => PreInv
<1> SUFFICES ASSUME PreInit PROVE PreInv
  OBVIOUS
<1>1. preRuns = <<>> /\ <<>> \in Seq(PreRun) /\ Len(<<>>) = 0
  BY EmptySeq DEF PreInit
<1> QED BY <1>1 DEF PreInit, PreInv, Current, ReadyIsTrue, Shown

LEMMA PreNextInv == PreInv /\ [PreNext]_preVars => PreInv'
<1> SUFFICES ASSUME PreInv, [PreNext]_preVars PROVE PreInv'
  OBVIOUS
<1>1. CASE UNCHANGED preVars
  BY <1>1 DEF preVars, PreInv, Current, RunOK, CurrentOK, Working, EndReported, ReadyIsTrue
<1>2. CASE \E m \in Manifest : SetAssetManifest(m)
  BY <1>2, SetAssetManifestInv
<1>3. CASE \E r \in 1..Current, w \in 1..Workers : WorkerLoops(r, w) \/ AssetCached(r, w) \/ AssetFails(r, w)
  BY <1>3, WorkerLoopsInv, AssetCachedInv, AssetFailsInv
<1>4. CASE \E r \in 1..Current : RunEnds(r)
  BY <1>4, RunEndsInv
<1>5. CASE \E a \in PreloadAsset : PrioritizeFetch(a) \/ \E ok \in BOOLEAN : PriorityFetchEnds(a, ok)
  BY <1>5, PrioritizeFetchInv, PriorityFetchEndsInv
<1> QED BY <1>1, <1>2, <1>3, <1>4, <1>5 DEF PreNext

\* With no priority fetch under way no worker waits, so that a run at rest is
\* over, and the last run that is over was reported.
LEMMA PreAtRest == PreInv => PreloadSettles
<1> SUFFICES ASSUME PreInv, preUrgent = {}, Current > 0,
                    \A r \in 1..Current :
                      \/ preRuns[r].over
                      \/ {preRuns[r].workers[w] : w \in 1..Workers} \in {{"waiting"}, {"waiting", "done"}}
             PROVE  EndReported
  BY DEF PreloadSettles, EndReported
<1>1. Current \in 1..Current /\ ~prePaused
  BY LenProperties DEF PreInv, Current
<1>2. PICK run : run = preRuns[Current]
  OBVIOUS
<1>3. RunOK(run) /\ CurrentOK(run)
  BY <1>1, <1>2 DEF PreInv
<1>4. "waiting" \notin {run.workers[w] : w \in 1..Workers}
  BY <1>1, <1>3 DEF RunOK
<1>5. run.over
  BY <1>1, <1>2, <1>4
<1> QED BY <1>3, <1>5 DEF CurrentOK

\* The inductive invariant of the preload.
THEOREM PreInvariance == PreSpec => []PreInv
BY PreInitInv, PreNextInv, PTL DEF PreSpec

\* A core that reports a manifest ready has every asset of it
\* (multimedia-core.ts, preloadNow; asset-preload-runtime.ts).
THEOREM ReadyIsCached == PreSpec => []ReadyIsTrue
BY PreInvariance, PTL DEF PreInv

\* A core with nothing under way has reported the end of its last run; no
\* worker is left waiting.
THEOREM PreloadEnds == PreSpec => []PreloadSettles
BY PreInvariance, PreAtRest, PTL

-----------------------------------------------------------------------------
(* The node runtime *)

RtBundles == [RtNode -> RtBundle \cup {RtNone}]

\* Up to position i no sink that has a connection carries a bundle above the
\* budget.
Clear(i) == \A j \in 1..i : RtOrder[j] \in Sinks \cap rtPlugged => rtValue[RtOrder[j]] \notin RtBig

\* Node n, if it is a sink with a connection, was handed what it carries.
Settled(sunk, n) == n \in Sinks \cap rtPlugged => sunk[n] = rtValue[n]

RtTypes ==
  /\ rtValue \in [RtNode -> RtBundle] /\ rtSunk \in RtBundles /\ rtShown \in RtBundles
  /\ rtPlugged \subseteq rtNodes /\ rtNodes \subseteq RtNode
  /\ rtCalm \in 0..Len(RtOrder)

\* A sink shows what the cache says it was handed; a node that is off shows
\* nothing; after k calm ticks the first k nodes are settled.
RtInv ==
  /\ RtTypes
  /\ EffectsEnd
  /\ \A n \in rtOff : n \in RtNode => rtShown[n] = RtNone
  /\ \A n \in RtNode : rtSunk[n] # RtNone => rtShown[n] = rtSunk[n]
  /\ \A i \in 1..rtCalm : Clear(i) => Settled(rtSunk, RtOrder[i])

PassState == [fed : SUBSET RtNode, sunk : RtBundles, shown : RtBundles, passed : BOOLEAN, burst : BOOLEAN]

\* What a pass leaves behind at each of its steps.
PassGood(acc) ==
  /\ acc.sunk \in RtBundles /\ acc.shown \in RtBundles
  /\ \A n \in RtNode : acc.sunk[n] # RtNone => acc.shown[n] = acc.sunk[n]
  /\ \A n \in RtNode : acc.shown[n] # RtNone =>
       (rtShown[n] # RtNone /\ n \notin TurnedOff) \/ n \in Sinks \cap rtPlugged

LEMMA OrderOf ==
  /\ RtOrder \in Seq(RtNode) /\ Len(RtOrder) \in Nat
  /\ DOMAIN RtOrder = 1..Len(RtOrder) /\ \A i \in 1..Len(RtOrder) : RtOrder[i] \in RtNode
  /\ \A n \in RtNode : \E i \in 1..Len(RtOrder) : RtOrder[i] = n
<1>1. RtOrder \in Seq(RtNode)
  BY RtAssumption DEF RtAssumption, RtNode
<1>2. DOMAIN RtOrder = 1..Len(RtOrder) /\ Len(RtOrder) \in Nat
  BY <1>1, LenProperties
<1> QED BY <1>1, <1>2 DEF RtNode, ToSet

\* The steps of the pass: nothing, a sink that has lost its connection, one
\* that has seen its value, one above the budget, and one that is handed it.
SinkStays(acc, n, acc2) ==
  acc2 = acc /\ (acc.burst \/ n \notin Sinks \/ n \notin rtPlugged)
SinkEnds(acc, n, acc2) ==
  /\ n \in Sinks \ rtPlugged /\ acc2.passed = acc.passed /\ acc2.burst = acc.burst
  /\ acc2.sunk = [acc.sunk EXCEPT ![n] = RtNone] /\ acc2.shown = [acc.shown EXCEPT ![n] = RtNone]
SinkKnows(acc, n, acc2) ==
  /\ n \in Sinks \cap rtPlugged /\ acc.sunk[n] = rtValue[n] /\ ~acc.burst
  /\ acc2.sunk = acc.sunk /\ acc2.shown = acc.shown /\ acc2.passed = acc.passed /\ acc2.burst = FALSE
SinkBursts(acc, n, acc2) ==
  /\ n \in Sinks \cap rtPlugged /\ acc.sunk[n] # rtValue[n]
  /\ acc.passed \/ rtValue[n] \in RtBig
  /\ acc2.sunk = acc.sunk /\ acc2.shown = acc.shown /\ acc2.passed = acc.passed /\ acc2.burst = TRUE
SinkPasses(acc, n, acc2) ==
  /\ n \in Sinks \cap rtPlugged /\ acc.sunk[n] # rtValue[n]
  /\ ~acc.passed /\ rtValue[n] \notin RtBig /\ ~acc.burst
  /\ acc2.sunk = [acc.sunk EXCEPT ![n] = rtValue[n]]
  /\ acc2.shown = [acc.shown EXCEPT ![n] = rtValue[n]]
  /\ acc2.passed = TRUE /\ acc2.burst = acc.burst

LEMMA SinkCases ==
  ASSUME NEW acc, acc.burst \in BOOLEAN, acc.passed \in BOOLEAN, NEW n, NEW acc2, acc2 = Sink(acc, n)
  PROVE  \/ SinkStays(acc, n, acc2) \/ SinkEnds(acc, n, acc2) \/ SinkKnows(acc, n, acc2)
         \/ SinkBursts(acc, n, acc2) \/ SinkPasses(acc, n, acc2)
<1>1. CASE acc.burst \/ n \notin Sinks
  BY <1>1 DEF Sink, SinkStays
<1>2. CASE ~acc.burst /\ n \in Sinks \ rtPlugged
  <2>1. acc2 = IF n \in acc.fed THEN Handed(acc, n, RtNone, acc.fed \ {n}, acc.passed) ELSE acc
    BY <1>2 DEF Sink
  <2>2. CASE n \in acc.fed
    <3>1. acc2 = Handed(acc, n, RtNone, acc.fed \ {n}, acc.passed)
      BY <2>1, <2>2
    <3>2. /\ acc2.passed = acc.passed /\ acc2.burst = acc.burst
          /\ acc2.sunk = [acc.sunk EXCEPT ![n] = RtNone]
          /\ acc2.shown = [acc.shown EXCEPT ![n] = RtNone]
      BY <3>1 DEF Handed
    <3> QED BY <1>2, <3>2 DEF SinkEnds
  <2>3. CASE n \notin acc.fed
    <3>1. acc2 = acc /\ n \notin rtPlugged
      BY <1>2, <2>1, <2>3
    <3> QED BY <3>1 DEF SinkStays
  <2> QED BY <2>2, <2>3
<1>3. CASE ~acc.burst /\ n \in Sinks \cap rtPlugged /\ acc.sunk[n] = rtValue[n]
  <2>1. acc2 = Noted(acc, acc.fed \cup {n}, FALSE)
    BY <1>3 DEF Sink
  <2>2. /\ acc2.sunk = acc.sunk /\ acc2.shown = acc.shown /\ acc2.passed = acc.passed
        /\ acc2.burst = FALSE
    BY <2>1 DEF Noted
  <2> QED BY <1>3, <2>2 DEF SinkKnows
<1>4. CASE ~acc.burst /\ n \in Sinks \cap rtPlugged /\ acc.sunk[n] # rtValue[n]
  <2>1. CASE acc.passed \/ rtValue[n] \in RtBig
    <3>1. acc2 = Noted(acc, acc.fed \cup {n}, TRUE)
      BY <1>4, <2>1 DEF Sink
    <3>2. acc2.sunk = acc.sunk /\ acc2.shown = acc.shown /\ acc2.passed = acc.passed /\ acc2.burst = TRUE
      BY <3>1 DEF Noted
    <3> QED BY <1>4, <2>1, <3>2 DEF SinkBursts
  <2>2. CASE ~(acc.passed \/ rtValue[n] \in RtBig)
    <3>1. acc2 = Handed(acc, n, rtValue[n], acc.fed \cup {n}, TRUE)
      BY <1>4, <2>2 DEF Sink
    <3>2. /\ acc2.passed = TRUE /\ acc2.burst = acc.burst
          /\ acc2.sunk = [acc.sunk EXCEPT ![n] = rtValue[n]]
          /\ acc2.shown = [acc.shown EXCEPT ![n] = rtValue[n]]
      BY <3>1 DEF Handed
    <3> QED BY <1>4, <2>2, <3>2 DEF SinkPasses
  <2> QED BY <2>1, <2>2
<1> QED BY <1>1, <1>2, <1>3, <1>4

LEMMA SinkGood ==
  ASSUME RtTypes, NEW acc, acc.burst \in BOOLEAN, acc.passed \in BOOLEAN, PassGood(acc),
         NEW n \in RtNode, NEW acc2, acc2 = Sink(acc, n)
  PROVE  /\ acc2.burst \in BOOLEAN /\ acc2.passed \in BOOLEAN /\ PassGood(acc2)
         /\ \A m \in RtNode : Settled(acc.sunk, m) => Settled(acc2.sunk, m)
         /\ ~acc.burst /\ Settled(acc.sunk, n) => acc2.burst = acc.burst /\ acc2.passed = acc.passed
         /\ ~acc.burst /\ ~acc.passed /\ rtValue[n] \notin RtBig => Settled(acc2.sunk, n)
<1>1. /\ acc.sunk \in RtBundles /\ acc.shown \in RtBundles /\ RtNone \notin RtBundle
      /\ rtValue[n] \in RtBundle
  BY RtAssumption DEF PassGood, RtTypes, RtAssumption
<1>2. CASE SinkStays(acc, n, acc2)
  BY <1>2 DEF Settled, SinkStays
<1>3. CASE SinkEnds(acc, n, acc2)
  <2>1. acc2.sunk \in RtBundles /\ acc2.shown \in RtBundles
    BY <1>1, <1>3 DEF RtBundles, SinkEnds
  <2>2. \A m \in RtNode : /\ acc2.sunk[m] = IF m = n THEN RtNone ELSE acc.sunk[m]
                          /\ acc2.shown[m] = IF m = n THEN RtNone ELSE acc.shown[m]
    BY <1>1, <1>3 DEF RtBundles, SinkEnds
  <2>3. PassGood(acc2)
    BY <2>1, <2>2 DEF PassGood
  <2>4. \A m \in RtNode : Settled(acc.sunk, m) => Settled(acc2.sunk, m)
    BY <1>3, <2>2 DEF Settled, SinkEnds
  <2> QED BY <1>3, <2>3, <2>4 DEF Settled, SinkEnds
<1>4. CASE SinkKnows(acc, n, acc2)
  <2>1. PassGood(acc2)
    BY <1>4 DEF PassGood, SinkKnows
  <2> QED BY <1>4, <2>1 DEF Settled, SinkKnows
<1>5. CASE SinkBursts(acc, n, acc2)
  <2>1. PassGood(acc2)
    BY <1>5 DEF PassGood, SinkBursts
  <2> QED BY <1>5, <2>1 DEF Settled, SinkBursts
<1>6. CASE SinkPasses(acc, n, acc2)
  <2>1. acc2.sunk \in RtBundles /\ acc2.shown \in RtBundles
    BY <1>1, <1>6 DEF RtBundles, SinkPasses
  <2>2. \A m \in RtNode : /\ acc2.sunk[m] = IF m = n THEN rtValue[n] ELSE acc.sunk[m]
                          /\ acc2.shown[m] = IF m = n THEN rtValue[n] ELSE acc.shown[m]
    BY <1>1, <1>6 DEF RtBundles, SinkPasses
  <2>3. PassGood(acc2)
    BY <1>6, <2>1, <2>2 DEF PassGood, SinkPasses
  <2>4. \A m \in RtNode : Settled(acc.sunk, m) => Settled(acc2.sunk, m)
    BY <1>6, <2>2 DEF Settled, SinkPasses
  <2>5. Settled(acc2.sunk, n)
    BY <2>2 DEF Settled
  <2>6. ~Settled(acc.sunk, n)
    BY <1>6 DEF Settled, SinkPasses
  <2>7. acc2.burst \in BOOLEAN /\ acc2.passed \in BOOLEAN
    BY <1>6 DEF SinkPasses
  <2> QED BY <2>3, <2>4, <2>5, <2>6, <2>7
<1> QED BY <1>2, <1>3, <1>4, <1>5, <1>6, SinkCases

\* The pass after each of its steps, as FoldLeft computes it.
SinkFold(f, g, n) ==
  f = [s \in SUBSET (1..n) |-> IF s = {} THEN g ELSE Sink(f[s \ {Max(s)}], RtOrder[Max(s)])]

LEMMA SinkFoldExists ==
  ASSUME NEW g, NEW n \in Nat
  PROVE  \E f : SinkFold(f, g, n)
<1> DEFINE K == {k \in Nat : \E f : SinkFold(f, g, k)}
<1>1. 0 \in K
  <2>1. SUBSET (1..0) = {{}}
    OBVIOUS
  <2>2. SinkFold([s \in SUBSET (1..0) |-> g], g, 0)
    BY <2>1 DEF SinkFold
  <2> QED BY <2>2
<1>2. ASSUME NEW k \in K PROVE k + 1 \in K
  <2>1. PICK f : SinkFold(f, g, k)
    OBVIOUS
  <2>2. k \in Nat
    OBVIOUS
  <2> DEFINE h == [s \in SUBSET (1..(k + 1)) |->
                     IF k + 1 \in s THEN Sink(f[s \ {k + 1}], RtOrder[k + 1]) ELSE f[s]]
  <2>3. \A s \in SUBSET (1..(k + 1)) : k + 1 \notin s => s \in SUBSET (1..k)
    BY <2>2
  <2>4. \A s \in SUBSET (1..k) : s \in SUBSET (1..(k + 1)) /\ k + 1 \notin s
    BY <2>2
  <2>5. \A s \in SUBSET (1..k) : h[s] = f[s]
    BY <2>4
  <2>6. ASSUME NEW s \in SUBSET (1..(k + 1))
        PROVE  h[s] = IF s = {} THEN g ELSE Sink(h[s \ {Max(s)}], RtOrder[Max(s)])
    <3>1. CASE k + 1 \in s
      <4>1. Max(s) = k + 1
        BY <2>2, <3>1, MaxOfInitial
      <4>2. s \ {k + 1} \in SUBSET (1..k)
        BY <2>2
      <4>3. h[s] = Sink(f[s \ {k + 1}], RtOrder[k + 1])
        BY <3>1
      <4>4. h[s \ {k + 1}] = f[s \ {k + 1}]
        BY <2>5, <4>2
      <4> QED BY <3>1, <4>1, <4>3, <4>4
    <3>2. CASE k + 1 \notin s
      <4>1. s \in SUBSET (1..k) /\ s \ {Max(s)} \in SUBSET (1..k)
        BY <2>3, <3>2
      <4>2. f[s] = IF s = {} THEN g ELSE Sink(f[s \ {Max(s)}], RtOrder[Max(s)])
        BY <2>1, <4>1 DEF SinkFold
      <4> QED BY <2>5, <4>1, <4>2
    <3> QED BY <3>1, <3>2
  <2> HIDE DEF h
  <2>7. h = [s \in SUBSET (1..(k + 1)) |-> h[s]]
    BY DEF h
  <2>8. SinkFold(h, g, k + 1)
    BY <2>6, <2>7 DEF SinkFold
  <2> QED BY <2>2, <2>8
<1> HIDE DEF K
<1>3. K = Nat
  BY <1>1, <1>2, SetInduction DEF K
<1> QED BY <1>3 DEF K

LEMMA SinkPassSteps ==
  \E after : /\ after[0] = PassStart
             /\ \A i \in 1..Len(RtOrder) : after[i] = Sink(after[i - 1], RtOrder[i])
             /\ SinkPass = after[Len(RtOrder)]
<1> DEFINE g == PassStart
           f == CHOOSE f : SinkFold(f, g, Len(RtOrder))
<1>1. Len(RtOrder) \in Nat /\ DOMAIN RtOrder = 1..Len(RtOrder)
  BY OrderOf
<1> HIDE DEF g
<1>2. SinkFold(f, g, Len(RtOrder))
  BY <1>1, SinkFoldExists
<1>3. FoldLeft(Sink, g, RtOrder) = f[1..Len(RtOrder)]
  BY <1>1 DEF FoldLeft, MapThenFoldSet, SinkFold
<1> HIDE DEF f
<1> DEFINE after == [i \in 0..Len(RtOrder) |-> f[1..i]]
<1>4. after[0] = g
  <2>1. 1..0 = {} /\ 0 \in 0..Len(RtOrder) /\ {} \in SUBSET (1..Len(RtOrder))
    BY <1>1
  <2>2. f[{}] = g
    BY <1>2, <2>1 DEF SinkFold
  <2> QED BY <2>1, <2>2
<1>5. ASSUME NEW i \in 1..Len(RtOrder) PROVE after[i] = Sink(after[i - 1], RtOrder[i])
  <2>1. /\ i \in Nat \ {0} /\ 1..i \in SUBSET (1..Len(RtOrder)) /\ i \in 1..i
        /\ i \in 0..Len(RtOrder) /\ i - 1 \in 0..Len(RtOrder)
        /\ (1..i) \ {i} = 1..(i - 1)
    BY <1>1
  <2>2. Max(1..i) = i
    BY <2>1, MaxOfInitial
  <2>3. f[1..i] = Sink(f[(1..i) \ {Max(1..i)}], RtOrder[Max(1..i)])
    BY <1>2, <2>1 DEF SinkFold
  <2> QED BY <2>1, <2>2, <2>3
<1>6. SinkPass = after[Len(RtOrder)]
  BY <1>1, <1>3 DEF SinkPass, g
<1> HIDE DEF after
<1> QED BY <1>4, <1>5, <1>6 DEF g

LEMMA PassStarts ==
  ASSUME RtInv
  PROVE  /\ PassGood(PassStart) /\ PassStart.burst = FALSE /\ PassStart.passed = FALSE
         /\ \A n \in RtNode : Settled(rtSunk, n) => Settled(PassStart.sunk, n)
<1>1. /\ PassStart.sunk = Without(rtSunk, rtNodes \cap rtDisabled)
      /\ PassStart.shown = Without(rtShown, TurnedOff)
      /\ PassStart.passed = FALSE /\ PassStart.burst = FALSE
  BY DEF PassStart
<1>2. /\ rtSunk \in RtBundles /\ rtShown \in RtBundles
      /\ \A n \in RtNode : rtSunk[n] # RtNone => rtShown[n] = rtSunk[n]
  BY DEF RtInv, RtTypes
<1>3. PassStart.sunk \in RtBundles /\ PassStart.shown \in RtBundles
  BY <1>1, <1>2 DEF Without, RtBundles
<1>4. \A n \in RtNode :
        /\ PassStart.sunk[n] = IF n \in rtNodes \cap rtDisabled THEN RtNone ELSE rtSunk[n]
        /\ PassStart.shown[n] = IF n \in TurnedOff THEN RtNone ELSE rtShown[n]
  BY <1>1 DEF Without
<1>5. PassGood(PassStart)
  BY <1>2, <1>3, <1>4 DEF PassGood, TurnedOff
<1>6. \A n \in RtNode : Settled(rtSunk, n) => Settled(PassStart.sunk, n)
  BY <1>4 DEF Settled, Sinks
<1> QED BY <1>1, <1>5, <1>6

\* After a pass one more node is settled.
LEMMA PassResult ==
  ASSUME RtInv
  PROVE  /\ PassGood(SinkPass)
         /\ \A n \in RtNode : Settled(rtSunk, n) => Settled(SinkPass.sunk, n)
         /\ rtCalm + 1 \in 1..Len(RtOrder) /\ Clear(rtCalm + 1) =>
              Settled(SinkPass.sunk, RtOrder[rtCalm + 1])
<1>1. PICK after : /\ after[0] = PassStart
                   /\ \A i \in 1..Len(RtOrder) : after[i] = Sink(after[i - 1], RtOrder[i])
                   /\ SinkPass = after[Len(RtOrder)]
  BY SinkPassSteps
<1>2. Len(RtOrder) \in Nat /\ rtCalm \in 0..Len(RtOrder) /\ RtTypes
  BY OrderOf DEF RtInv, RtTypes
<1> DEFINE Good(k) ==
             /\ after[k].burst \in BOOLEAN /\ after[k].passed \in BOOLEAN /\ PassGood(after[k])
             /\ \A n \in RtNode : Settled(rtSunk, n) => Settled(after[k].sunk, n)
             /\ k <= rtCalm /\ Clear(k) => after[k].burst = FALSE /\ after[k].passed = FALSE
             /\ rtCalm + 1 \in 1..k /\ Clear(rtCalm + 1) => Settled(after[k].sunk, RtOrder[rtCalm + 1])
           K == {k \in Nat : k <= Len(RtOrder) => Good(k)}
<1>3. Good(0)
  <2>1. /\ PassGood(after[0]) /\ after[0].burst = FALSE /\ after[0].passed = FALSE
        /\ \A n \in RtNode : Settled(rtSunk, n) => Settled(after[0].sunk, n)
    BY <1>1, PassStarts
  <2>2. after[0].burst \in BOOLEAN /\ after[0].passed \in BOOLEAN
    BY <2>1
  <2>3. rtCalm + 1 \notin 1..0
    BY <1>2
  <2> QED BY <2>1, <2>2, <2>3
<1>4. ASSUME NEW k \in Nat, k + 1 <= Len(RtOrder), Good(k) PROVE Good(k + 1)
  <2>0. PICK n : n = RtOrder[k + 1]
    OBVIOUS
  <2>1. k \in Nat /\ Good(k) /\ k + 1 \in 1..Len(RtOrder) /\ n \in RtNode
    BY <1>2, <1>4, <2>0, OrderOf
  <2>2. after[k + 1] = Sink(after[k], n)
    BY <1>1, <2>0, <2>1
  <2> DEFINE acc == after[k]
             acc2 == after[k + 1]
  <2>3. /\ acc2.burst \in BOOLEAN /\ acc2.passed \in BOOLEAN /\ PassGood(acc2)
        /\ \A m \in RtNode : Settled(acc.sunk, m) => Settled(acc2.sunk, m)
        /\ ~acc.burst /\ Settled(acc.sunk, n) => acc2.burst = acc.burst /\ acc2.passed = acc.passed
        /\ ~acc.burst /\ ~acc.passed /\ rtValue[n] \notin RtBig => Settled(acc2.sunk, n)
    BY <1>2, <2>1, <2>2, SinkGood
  <2> HIDE DEF acc, acc2
  <2>4. \A m \in RtNode : Settled(rtSunk, m) => Settled(acc2.sunk, m)
    BY <2>1, <2>3 DEF acc
  <2>5. Clear(k + 1) => Clear(k)
    BY <2>1 DEF Clear
  <2>6. ASSUME k + 1 <= rtCalm, Clear(k + 1)
        PROVE  acc2.burst = FALSE /\ acc2.passed = FALSE
    <3>1. acc.burst = FALSE /\ acc.passed = FALSE
      BY <1>2, <2>1, <2>5, <2>6 DEF acc
    <3>2. Settled(rtSunk, n)
      BY <1>2, <2>0, <2>1, <2>6 DEF RtInv
    <3>3. Settled(acc.sunk, n)
      BY <2>1, <3>2 DEF acc
    <3> QED BY <2>3, <3>1, <3>3
  <2>7. ASSUME rtCalm + 1 \in 1..(k + 1), Clear(rtCalm + 1)
        PROVE  Settled(acc2.sunk, RtOrder[rtCalm + 1])
    <3>1. CASE rtCalm + 1 \in 1..k
      <4>1. Settled(acc.sunk, RtOrder[rtCalm + 1]) /\ RtOrder[rtCalm + 1] \in RtNode
        BY <1>2, <2>1, <2>7, <3>1, OrderOf DEF acc
      <4> QED BY <2>3, <4>1
    <3>2. CASE rtCalm = k
      <4>1. acc.burst = FALSE /\ acc.passed = FALSE
        BY <1>2, <2>1, <2>5, <2>7, <3>2 DEF acc
      <4>2. CASE n \in Sinks \cap rtPlugged
        <5>1. rtValue[n] \notin RtBig
          BY <2>0, <2>1, <2>7, <3>2, <4>2 DEF Clear
        <5>2. Settled(acc2.sunk, n)
          BY <2>3, <4>1, <5>1
        <5> QED BY <2>0, <3>2, <5>2
      <4>3. CASE n \notin Sinks \cap rtPlugged
        BY <2>0, <3>2, <4>3 DEF Settled
      <4> QED BY <4>2, <4>3
    <3> QED BY <1>2, <2>1, <2>7, <3>1, <3>2
  <2> QED BY <2>3, <2>4, <2>6, <2>7 DEF acc2
<1> HIDE DEF Good
<1>40. 0 \in K /\ \A k \in K : k + 1 \in K
  BY <1>2, <1>3, <1>4
<1> HIDE DEF K
<1>5. K = Nat
  BY <1>40, SetInduction DEF K
<1>6. Len(RtOrder) \in K
  BY <1>2, <1>5
<1>7. Good(Len(RtOrder))
  BY <1>2, <1>6 DEF K
<1> QED BY <1>1, <1>2, <1>7 DEF Good

LEMMA TickInv ==
  ASSUME RtInv, RtTick
  PROVE  RtInv'
<1>1. /\ rtOn /\ rtOff' = rtNodes \cap rtDisabled
      /\ rtSunk' = SinkPass.sunk /\ rtShown' = SinkPass.shown
      /\ rtCalm' = IF rtCalm < Len(RtOrder) THEN rtCalm + 1 ELSE rtCalm
      /\ UNCHANGED <<rtNodes, rtPlugged, rtValue, rtDisabled, rtOffloaded, rtOn>>
  BY DEF RtTick, rtGiven
<1>2. /\ PassGood(SinkPass)
      /\ \A n \in RtNode : Settled(rtSunk, n) => Settled(SinkPass.sunk, n)
      /\ rtCalm + 1 \in 1..Len(RtOrder) /\ Clear(rtCalm + 1) =>
           Settled(SinkPass.sunk, RtOrder[rtCalm + 1])
  BY PassResult
<1>3. RtTypes /\ EffectsEnd /\ Len(RtOrder) \in Nat
  BY OrderOf DEF RtInv
<1>4. RtTypes' /\ \A n \in RtNode : rtSunk'[n] # RtNone => rtShown'[n] = rtSunk'[n]
  BY <1>1, <1>2, <1>3 DEF RtTypes, PassGood
<1>5. ASSUME NEW n \in RtNode, rtShown'[n] # RtNone
      PROVE  n \in rtNodes /\ n \in rtPlugged /\ n \notin rtDisabled
  <2>1. CASE rtShown[n] # RtNone /\ n \notin TurnedOff
    <3>1. n \in rtNodes /\ n \in rtPlugged
      BY <1>3, <2>1 DEF EffectsEnd
    <3>2. n \notin rtOff
      BY <2>1 DEF RtInv
    <3> QED BY <2>1, <3>1, <3>2 DEF TurnedOff
  <2>2. CASE n \in Sinks \cap rtPlugged
    BY <2>2 DEF Sinks
  <2> QED BY <1>1, <1>2, <1>5, <2>1, <2>2 DEF PassGood
<1>6. EffectsEnd'
  BY <1>1, <1>5 DEF EffectsEnd
<1>7. \A n \in rtOff' : n \in RtNode => rtShown'[n] = RtNone
  BY <1>1, <1>5
<1>8. ASSUME NEW i \in 1..rtCalm', Clear(i)' PROVE Settled(rtSunk, RtOrder[i])'
  <2>1. Clear(i) /\ i \in 1..Len(RtOrder) /\ RtOrder[i] \in RtNode
    BY <1>1, <1>3, <1>8, OrderOf DEF Clear, Sinks, RtTypes
  <2>2. Settled(SinkPass.sunk, RtOrder[i])
    <3>1. CASE i \in 1..rtCalm
      BY <1>2, <2>1, <3>1 DEF RtInv
    <3>2. CASE i = rtCalm + 1
      BY <1>2, <2>1, <3>2
    <3> QED BY <1>1, <1>3, <1>8, <3>1, <3>2 DEF RtTypes
  <2> QED BY <1>1, <2>2 DEF Settled, Sinks
<1> QED BY <1>4, <1>6, <1>7, <1>8 DEF RtInv

\* With another graph the caches are empty and no tick is counted.
LEMMA LoadInv ==
  ASSUME RtInv, NEW nodes \in SUBSET RtNode, NEW plugged \in SUBSET nodes, LoadedWith(nodes, plugged)
  PROVE  RtInv'
<1>1. /\ rtNodes' = nodes /\ rtPlugged' = plugged /\ rtCalm' = 0
      /\ rtShown' = Without(rtShown, ToDisable(nodes, plugged))
      /\ rtOff' = {} /\ rtSunk' = Nothing
      /\ UNCHANGED <<rtValue, rtOn>>
  BY DEF LoadedWith, LoadRuntime
<1>2. RtTypes /\ EffectsEnd /\ Len(RtOrder) \in Nat
  BY OrderOf DEF RtInv
<1>3. RtTypes'
  BY <1>1, <1>2 DEF RtTypes, RtBundles, Without, Nothing
<1>4. \A n \in RtNode : /\ rtSunk'[n] = RtNone
                        /\ rtShown'[n] = IF n \in ToDisable(nodes, plugged) THEN RtNone ELSE rtShown[n]
  BY <1>1 DEF Without, Nothing
<1>5. EffectsEnd'
  BY <1>1, <1>2, <1>4 DEF EffectsEnd, ToDisable
<1> QED BY <1>1, <1>3, <1>4, <1>5 DEF RtInv

LEMMA StoppingInv ==
  ASSUME RtInv, Stopping, RtTypes'
  PROVE  RtInv'
<1>1. /\ ~rtOn' /\ rtCalm' = 0 /\ rtOff' = {} /\ rtSunk' = Nothing
      /\ rtShown' = IF rtOn THEN Without(rtShown, rtNodes) ELSE rtShown
  BY DEF Stopping, LoadRuntime
<1>2. \A n \in RtNode : rtShown'[n] = RtNone /\ rtSunk'[n] = RtNone
  BY <1>1 DEF RtInv, EffectsEnd, Without, Nothing
<1> QED BY <1>1, <1>2 DEF RtInv, EffectsEnd

\* What is given changes, and the tick starts to count anew.
LEMMA GivenInv ==
  ASSUME RtInv, rtCalm' = 0, UNCHANGED <<rtNodes, rtPlugged, rtOn, rtCaches, rtShown>>,
         rtValue' \in [RtNode -> RtBundle]
  PROVE  RtInv'
<1>1. UNCHANGED <<rtOff, rtFed, rtSunk>> /\ Len(RtOrder) \in Nat
  BY OrderOf DEF rtCaches
<1>2. RtTypes' /\ EffectsEnd'
  BY <1>1 DEF RtInv, RtTypes, EffectsEnd
<1> QED BY <1>1, <1>2 DEF RtInv

LEMMA RtNextInv == RtInv /\ [RtNext]_rtVars => RtInv'
<1> SUFFICES ASSUME RtInv, [RtNext]_rtVars PROVE RtInv'
  OBVIOUS
<1>1. RtTypes /\ EffectsEnd
  BY DEF RtInv
<1>2. CASE UNCHANGED rtVars
  BY <1>2 DEF rtVars, rtGiven, rtCaches, RtInv, RtTypes, EffectsEnd, Clear, Settled, Sinks
<1>3. CASE RtTick
  BY <1>3, TickInv
<1>4. CASE RtStart
  <2>1. /\ ~rtOn /\ rtCalm' = 0
        /\ UNCHANGED <<rtNodes, rtPlugged, rtValue, rtDisabled, rtOff, rtFed, rtSunk, rtShown>>
    BY <1>4 DEF RtStart, rtGiven, rtCaches
  <2>2. RtTypes' /\ EffectsEnd'
    BY <1>1, <2>1, OrderOf DEF RtTypes, EffectsEnd
  <2> QED BY <2>1, <2>2 DEF RtInv
<1>5. CASE RtStop
  <2>1. RtTypes'
    BY <1>1, <1>5, OrderOf DEF RtStop, Stopping, LoadRuntime, rtGiven, RtTypes, RtBundles, Without, Nothing
  <2> QED BY <1>5, <2>1, StoppingInv DEF RtStop
<1>6. CASE RtClear
  <2>1. RtTypes'
    BY <1>1, <1>6, OrderOf DEF RtClear, Stopping, LoadRuntime, RtTypes, RtBundles, Without, Nothing
  <2> QED BY <1>6, <2>1, StoppingInv DEF RtClear
<1>7. CASE \E n \in RtNode : AddNode(n) \/ RemoveNode(n) \/ AddConnection(n) \/ RemoveConnection(n)
  <2>1. PICK n \in RtNode : AddNode(n) \/ RemoveNode(n) \/ AddConnection(n) \/ RemoveConnection(n)
    BY <1>7
  <2>2. \E nodes \in SUBSET RtNode : \E plugged \in SUBSET nodes : LoadedWith(nodes, plugged)
    <3>1. CASE AddNode(n)
      BY <1>1, <3>1 DEF AddNode, RtTypes
    <3>2. CASE RemoveNode(n)
      BY <1>1, <3>2 DEF RemoveNode, RtTypes
    <3>3. CASE AddConnection(n)
      BY <1>1, <3>3 DEF AddConnection, RtTypes
    <3>4. CASE RemoveConnection(n)
      BY <1>1, <3>4 DEF RemoveConnection, RtTypes
    <3> QED BY <2>1, <3>1, <3>2, <3>3, <3>4
  <2> QED BY <2>2, LoadInv
<1>8. CASE \E nodes \in SUBSET RtNode : \E plugged \in SUBSET nodes : LoadGraph(nodes, plugged)
  BY <1>8, LoadInv DEF LoadGraph
<1>9. CASE \E n \in RtNode, v \in RtBundle : UpdateSource(n, v)
  BY <1>1, <1>9, GivenInv DEF UpdateSource, RtTypes
<1>10. CASE \E n \in RtNode, disabled \in BOOLEAN : SetNodesDisabled(n, disabled)
  BY <1>1, <1>10, GivenInv DEF SetNodesDisabled, RtTypes
<1>11. CASE \E ns \in SUBSET RtNode : SetPatchOffloaded(ns)
  BY <1>1, <1>11, GivenInv DEF SetPatchOffloaded, RtTypes
<1> QED BY <1>2, <1>3, <1>4, <1>5, <1>6, <1>7, <1>8, <1>9, <1>10, <1>11 DEF RtNext

LEMMA RtInitInv == RtInit => RtInv
<1> SUFFICES ASSUME RtInit PROVE RtInv
  OBVIOUS
<1>1. rtCalm = 0 /\ \A n \in RtNode : rtShown[n] = RtNone /\ rtSunk[n] = RtNone
  BY DEF RtInit, Nothing
<1>2. RtTypes
  BY OrderOf DEF RtInit, RtTypes, RtBundles, Nothing
<1> QED BY <1>1, <1>2 DEF RtInit, RtInv, EffectsEnd

\* A sink that is reached has a first place in the order, and no bundle above
\* the budget up to there.
LEMMA RtFollows == RtInv => SinksFollow
<1> SUFFICES ASSUME RtInv, rtCalm = Len(RtOrder), NEW n \in Sinks \cap rtPlugged, Reached(n)
             PROVE  rtShown[n] = rtValue[n]
  BY DEF SinksFollow
<1>1. RtTypes /\ n \in RtNode /\ Len(RtOrder) \in Nat
  BY OrderOf DEF RtInv, RtTypes, Sinks
<1> DEFINE Turns == {i \in 1..Len(RtOrder) : RtOrder[i] = n}
<1>2. PICK j \in Turns : \A i \in Turns : j <= i
  <2>1. Turns # {} /\ Turns \in SUBSET Nat
    BY <1>1, OrderOf
  <2> QED BY <2>1, LeastExists
<1>3. j \in 1..Len(RtOrder) /\ RtOrder[j] = n /\ \A i \in 1..Len(RtOrder) : RtOrder[i] = n => j <= i
  BY <1>2
<1>4. Clear(j)
  <2> SUFFICES ASSUME NEW i \in 1..j, RtOrder[i] \in Sinks \cap rtPlugged, rtValue[RtOrder[i]] \in RtBig
               PROVE  FALSE
    BY DEF Clear
  <2>1. i \in 1..Len(RtOrder)
    BY <1>1, <1>3
  <2>2. PICK k \in 1..(i - 1) : RtOrder[k] = n
    BY <2>1 DEF Reached
  <2> QED BY <1>1, <1>3, <2>1, <2>2
<1>5. rtSunk[n] = rtValue[n]
  BY <1>3, <1>4 DEF RtInv, Settled
<1>6. rtValue[n] # RtNone
  BY <1>1, RtAssumption DEF RtTypes, RtAssumption
<1> QED BY <1>1, <1>5, <1>6 DEF RtInv

\* The inductive invariant of the node runtime.
THEOREM RtInvariance == RtSpec => []RtInv
BY RtInitInv, RtNextInv, PTL DEF RtSpec

\* What a sink has started lasts no longer than its cause (runtime.ts,
\* engine.ts cleanupGraphTransition).
THEOREM EffectsHaveCauses == RtSpec => []EffectsEnd
BY RtInvariance, PTL DEF RtInv

\* A graph left alone has handed every sink its value after as many ticks as
\* there are sinks, the budget notwithstanding.
THEOREM SinksAreServed == RtSpec => []SinksFollow
BY RtInvariance, RtFollows, PTL

-----------------------------------------------------------------------------
(* The bridge to the printers *)

PrintJob == [node : PrintNode, sheet : Sheet]
JobsOf(n) == {job \in PrintJob : job.node = n}

\* The number of jobs of a node in a chain.
InLine(chain, n) == Cardinality(Places(chain, JobsOf(n)))

PrtTypeOK ==
  /\ prtWanted \in [PrintNode -> Sheet \cup {Blank}]
  /\ prtPrinted \in [PrintNode -> Sheet \cup {Blank}]
  /\ prtChain \in Seq(PrintJob)
  /\ prtPaper \in [PrintNode -> Seq(Sheet)]
  /\ prtRefused \subseteq PrintNode
  /\ prtChanges \in Nat /\ prtConfigs \in Nat

\* A payload that a node shows and the bridge has not taken.
Untaken(wanted, printed, n) == IF wanted[n] \notin {Blank, printed[n]} THEN 1 ELSE 0

\* Every sheet that came out or is under way, and the one to be taken, is paid
\* for by a change of the graph or a configuration.
PaidFor(n) ==
  Len(prtPaper[n]) + InLine(prtChain, n) + Untaken(prtWanted, prtPrinted, n) <= prtChanges + prtConfigs - 1

\* What is remembered of a node is the sheet of its last job, or came out last.
LastJob(chain, printed, n) ==
  \A i \in Places(chain, JobsOf(n)) : (\A j \in Places(chain, JobsOf(n)) : j <= i) => chain[i].sheet = printed[n]

CameOut(paper, printed, refused, n) ==
  n \in refused \/ (paper[n] # <<>> /\ Last(paper[n]) = printed[n])

Remembered(n) ==
  prtPrinted[n] # Blank =>
    /\ LastJob(prtChain, prtPrinted, n)
    /\ Places(prtChain, JobsOf(n)) = {} => CameOut(prtPaper, prtPrinted, prtRefused, n)

PrtInv == PrtTypeOK /\ \A n \in PrintNode : PaidFor(n) /\ Remembered(n)

\* A flush makes one job of each node that shows what was not taken.
LEMMA JobsProperties ==
  ASSUME PrtTypeOK
  PROVE  /\ Jobs(prtPrinted) \in Seq(PrintJob)
         /\ \A n \in PrintNode :
              Untaken(prtWanted, prtPrinted, n) = 1 =>
                \E i : /\ Places(Jobs(prtPrinted), JobsOf(n)) = {i} /\ i \in 1..Len(Jobs(prtPrinted))
                       /\ Jobs(prtPrinted)[i].sheet = prtWanted[n]
         /\ \A n \in PrintNode :
              Untaken(prtWanted, prtPrinted, n) # 1 => Places(Jobs(prtPrinted), JobsOf(n)) = {}
<1> DEFINE M == {m \in PrintNode : prtWanted[m] \notin {Blank, prtPrinted[m]}}
           S == {[node |-> n, sheet |-> prtWanted[n]] : n \in M}
           jobs == SetToSeq(S)
<1>1. Jobs(prtPrinted) = jobs
  BY DEF Jobs
<1>2. \A n \in PrintNode : Untaken(prtWanted, prtPrinted, n) = 1 <=> n \in M
  BY DEF Untaken
<1>3. S \subseteq PrintJob
  BY DEF PrintJob, PrtTypeOK
<1>4. IsFiniteSet(S)
  <2>1. IsFiniteSet(M)
    BY PrintAssumption, FS_Subset
  <2> DEFINE F == [n \in M |-> [node |-> n, sheet |-> prtWanted[n]]]
  <2>2. F \in Bijection(M, S)
    BY DEF Bijection, Injection, Surjection, IsInjective
  <2> QED BY <2>1, <2>2, FS_Bijection DEF ExistsBijection
<1>5. \A x : x \in S <=> \E n \in M : x = [node |-> n, sheet |-> prtWanted[n]]
  OBVIOUS
<1> HIDE DEF S
<1>6. /\ jobs \in Seq(S)
      /\ \A i \in 1..Len(jobs) : jobs[i] \in S
      /\ \A i, j \in 1..Len(jobs) : jobs[i] = jobs[j] => i = j
      /\ \A x \in S : \E i \in 1..Len(jobs) : jobs[i] = x
  BY <1>4, SetToSeqProperties
<1> HIDE DEF jobs
<1>7. jobs \in Seq(PrintJob)
  BY <1>3, <1>6
<1>8. \A i \in 1..Len(jobs) :
        jobs[i].node \in M /\ jobs[i] = [node |-> jobs[i].node, sheet |-> prtWanted[jobs[i].node]]
  BY <1>5, <1>6
<1>9. ASSUME NEW n \in M
      PROVE  \E i : /\ Places(jobs, JobsOf(n)) = {i} /\ i \in 1..Len(jobs) /\ jobs[i].sheet = prtWanted[n]
  <2>1. PICK i \in 1..Len(jobs) : jobs[i] = [node |-> n, sheet |-> prtWanted[n]]
    BY <1>5, <1>6
  <2>2. jobs[i].node = n /\ jobs[i].sheet = prtWanted[n]
    BY <2>1
  <2>3. ASSUME NEW j \in 1..Len(jobs), jobs[j].node = n PROVE j = i
    <3>1. jobs[j] = [node |-> n, sheet |-> prtWanted[n]]
      BY <1>8, <2>3
    <3>2. jobs[j] = jobs[i]
      BY <2>1, <3>1
    <3> QED BY <1>6, <3>2
  <2>4. Places(jobs, JobsOf(n)) = {i}
    <3>1. jobs[i] \in JobsOf(n)
      BY <2>1, <2>2, <1>3, <1>6 DEF JobsOf
    <3>2. \A j \in 1..Len(jobs) : jobs[j] \in JobsOf(n) => j = i
      BY <2>3 DEF JobsOf
    <3> QED BY <3>1, <3>2 DEF Places
  <2> QED BY <2>2, <2>4
<1>10. ASSUME NEW n, n \notin M PROVE Places(jobs, JobsOf(n)) = {}
  BY <1>8, <1>10 DEF Places, JobsOf
<1> QED BY <1>1, <1>2, <1>7, <1>9, <1>10

LEMMA PrtInitially == PrtInit => PrtInv
<1> SUFFICES ASSUME PrtInit PROVE PrtInv
  OBVIOUS
<1>1. PrtTypeOK
  BY DEF PrtInit, PrtTypeOK, NothingPrinted
<1>2. ASSUME NEW n \in PrintNode PROVE PaidFor(n) /\ Remembered(n)
  <2>1. Places(prtChain, JobsOf(n)) = {}
    BY EmptySeq DEF PrtInit, Places
  <2>2. InLine(prtChain, n) = 0
    BY <2>1, FS_EmptySet DEF InLine
  <2>3. Untaken(prtWanted, prtPrinted, n) = 0 /\ Len(prtPaper[n]) = 0
    BY DEF Untaken, PrtInit, NothingPrinted
  <2>4. PaidFor(n)
    BY <2>2, <2>3 DEF PaidFor, PrtInit
  <2>5. Remembered(n)
    BY DEF Remembered, PrtInit, NothingPrinted
  <2> QED BY <2>4, <2>5
<1> QED BY <1>1, <1>2 DEF PrtInv

LEMMA FlushKeepsPrt ==
  ASSUME PrtInv, FlushJobs
  PROVE  PrtInv'
<1> DEFINE jobs == Jobs(prtPrinted)
<1>1. PrtTypeOK
  BY DEF PrtInv
<1>2. jobs \in Seq(PrintJob)
  BY <1>1, JobsProperties
<1>3. PrtTypeOK'
  <2>1. prtChain' \in Seq(PrintJob)
    BY <1>1, <1>2, ConcatProperties DEF FlushJobs, PrtTypeOK
  <2>2. prtPrinted' \in [PrintNode -> Sheet \cup {Blank}]
    BY <1>1 DEF FlushJobs, PrtTypeOK, NextPrinted
  <2> QED BY <1>1, <2>1, <2>2 DEF FlushJobs, PrtTypeOK
<1>4. ASSUME NEW n \in PrintNode PROVE PaidFor(n)' /\ Remembered(n)'
  <2> DEFINE chain == prtChain
             chain2 == prtChain'
  <2>1. chain \in Seq(PrintJob) /\ Len(chain) \in Nat /\ chain2 = chain \o jobs
    BY <1>1 DEF PrtTypeOK, FlushJobs
  <2>2. PaidFor(n) /\ Remembered(n)
    BY DEF PrtInv
  <2>3. \A i : i \in Places(chain2, JobsOf(n)) <=>
               i \in Places(chain, JobsOf(n)) \/ (i \in Nat /\ i - Len(chain) \in Places(jobs, JobsOf(n)))
    BY <1>2, <2>1, PlacesOfConcat
  <2>4. /\ Len(chain2) = Len(chain) + Len(jobs) /\ Len(jobs) \in Nat
        /\ \A i \in 1..(Len(chain) + Len(jobs)) :
             chain2[i] = IF i <= Len(chain) THEN chain[i] ELSE jobs[i - Len(chain)]
    BY <1>2, <2>1, ConcatProperties
  <2>5. \A i \in Places(chain, JobsOf(n)) : i \in 1..Len(chain)
    BY DEF Places
  <2>6. /\ InLine(chain, n) \in Nat /\ IsFiniteSet(Places(chain, JobsOf(n))) /\ Len(prtPaper[n]) \in Nat
        /\ prtChanges \in Nat /\ prtConfigs \in Nat
    BY <1>1, <2>1, PlacesFinite DEF PrtTypeOK, InLine
  <2>7. UNCHANGED <<prtWanted, prtPaper, prtRefused, prtChanges, prtConfigs>>
        /\ prtPrinted'[n] = IF prtWanted[n] = Blank THEN prtPrinted[n] ELSE prtWanted[n]
    BY DEF FlushJobs, NextPrinted
  <2>8. Untaken(prtWanted', prtPrinted', n) = 0
    BY <2>7 DEF Untaken
  <2> HIDE DEF jobs, chain, chain2
  <2>9. CASE Untaken(prtWanted, prtPrinted, n) = 1
    <3>1. PICK i : /\ Places(jobs, JobsOf(n)) = {i} /\ i \in 1..Len(jobs)
                   /\ jobs[i].sheet = prtWanted[n]
      BY <1>1, <2>9, JobsProperties DEF jobs
    <3> DEFINE l == Len(chain) + i
    <3>2. l \in Nat /\ l > Len(chain) /\ l - Len(chain) = i /\ l \in 1..(Len(chain) + Len(jobs))
      BY <2>1, <2>4, <3>1
    <3>3. Places(chain2, JobsOf(n)) = Places(chain, JobsOf(n)) \cup {l}
      <4>1. \A k : (k \in Nat /\ k - Len(chain) = i) <=> k = l
        <5>1. Len(chain) \in Nat /\ i \in Nat /\ l \in Nat /\ l = Len(chain) + i
          BY <2>1, <2>4, <3>1
        <5> HIDE DEF l
        <5> QED BY <5>1
      <4> QED BY <2>3, <3>1, <4>1
    <3>4. l \notin Places(chain, JobsOf(n))
      BY <2>1, <2>5, <3>2
    <3>5. InLine(chain2, n) = InLine(chain, n) + 1
      BY <2>6, <3>3, <3>4, FS_AddElement DEF InLine
    <3>6. PaidFor(n)'
      BY <2>2, <2>6, <2>7, <2>8, <2>9, <3>5 DEF PaidFor, chain, chain2
    <3>7. chain2[l].sheet = prtWanted[n] /\ prtWanted[n] = prtPrinted'[n]
      BY <2>1, <2>4, <2>7, <2>9, <3>1, <3>2 DEF Untaken
    <3>8. \A k \in Places(chain2, JobsOf(n)) : l <= k => k = l
      BY <2>1, <2>5, <3>2, <3>3
    <3>9. LastJob(chain2, prtPrinted', n) /\ Places(chain2, JobsOf(n)) # {}
      BY <3>3, <3>7, <3>8 DEF LastJob
    <3> QED BY <3>6, <3>9 DEF Remembered, chain2
  <2>10. CASE Untaken(prtWanted, prtPrinted, n) # 1
    <3>1. Places(jobs, JobsOf(n)) = {}
      BY <1>1, <2>10, JobsProperties DEF jobs
    <3>2. Places(chain2, JobsOf(n)) = Places(chain, JobsOf(n))
      BY <2>3, <3>1
    <3>3. InLine(chain2, n) = InLine(chain, n) /\ Untaken(prtWanted, prtPrinted, n) = 0
      BY <2>10, <3>2 DEF InLine, Untaken
    <3>4. PaidFor(n)'
      BY <2>2, <2>6, <2>7, <2>8, <3>3 DEF PaidFor, chain, chain2
    <3>5. prtPrinted'[n] = prtPrinted[n]
      BY <2>7, <2>10 DEF Untaken
    <3>6. \A i \in Places(chain, JobsOf(n)) : chain2[i] = chain[i]
      BY <2>1, <2>4, <2>5
    <3>7. LastJob(chain, prtPrinted, n) => LastJob(chain2, prtPrinted', n)
      BY <3>2, <3>5, <3>6 DEF LastJob
    <3> QED BY <2>2, <2>7, <3>2, <3>4, <3>5, <3>7 DEF Remembered, CameOut, chain, chain2
  <2> QED BY <2>9, <2>10
<1> QED BY <1>3, <1>4 DEF PrtInv

LEMMA SubmitKeepsPrt ==
  ASSUME PrtInv, NEW ok \in BOOLEAN, SubmitJob(ok)
  PROVE  PrtInv'
<1>1. PrtTypeOK
  BY DEF PrtInv
<1> DEFINE chain == prtChain
           job == Head(prtChain)
<1>2. chain \in Seq(PrintJob) /\ chain # <<>> /\ prtChain' = Tail(chain)
  BY <1>1 DEF PrtTypeOK, SubmitJob
<1>3. /\ Tail(chain) \in Seq(PrintJob) /\ Len(Tail(chain)) = Len(chain) - 1
      /\ \A i \in 1..Len(Tail(chain)) : Tail(chain)[i] = chain[i + 1]
      /\ job \in PrintJob /\ job = chain[1] /\ Len(chain) \in Nat \ {0}
  BY <1>2, HeadTailProperties, EmptySeq
<1>4. job.node \in PrintNode /\ job.sheet \in Sheet
  BY <1>3 DEF PrintJob
<1>5. /\ prtPaper' = IF ok THEN [prtPaper EXCEPT ![job.node] = Append(@, job.sheet)] ELSE prtPaper
      /\ prtRefused' = IF ok THEN prtRefused \ {job.node} ELSE prtRefused \cup {job.node}
      /\ UNCHANGED <<prtWanted, prtPrinted, prtChanges, prtConfigs>>
  BY DEF SubmitJob
<1> HIDE DEF job
<1>6. /\ Append(prtPaper[job.node], job.sheet) \in Seq(Sheet)
      /\ Append(prtPaper[job.node], job.sheet) # <<>>
      /\ Last(Append(prtPaper[job.node], job.sheet)) = job.sheet
      /\ Len(Append(prtPaper[job.node], job.sheet)) = Len(prtPaper[job.node]) + 1
  <2>1. prtPaper[job.node] \in Seq(Sheet)
    BY <1>1, <1>4 DEF PrtTypeOK
  <2> QED BY <1>4, <2>1, AppendProperties DEF Last
<1>7. PrtTypeOK'
  <2>1. prtPaper' \in [PrintNode -> Seq(Sheet)]
    BY <1>1, <1>4, <1>5, <1>6 DEF PrtTypeOK
  <2>2. prtRefused' \subseteq PrintNode
    BY <1>1, <1>4, <1>5 DEF PrtTypeOK
  <2> QED BY <1>1, <1>2, <1>3, <1>5, <2>1, <2>2 DEF PrtTypeOK
<1>8. ASSUME NEW n \in PrintNode PROVE PaidFor(n)' /\ Remembered(n)'
  <2>1. PaidFor(n) /\ Remembered(n)
    BY DEF PrtInv
  <2>2. /\ \A j : j \in Places(Tail(chain), JobsOf(n)) <=> j \in Nat \ {0} /\ j + 1 \in Places(chain, JobsOf(n))
        /\ 1 \in Places(chain, JobsOf(n)) <=> job.node = n
        /\ InLine(chain, n) = InLine(Tail(chain), n) + (IF job.node = n THEN 1 ELSE 0)
    <3>1. job \in JobsOf(n) <=> job.node = n
      BY <1>3 DEF JobsOf
    <3> QED BY <1>2, <3>1, PlacesOfTail DEF job, InLine
  <2>3. /\ InLine(Tail(chain), n) \in Nat /\ Len(prtPaper[n]) \in Nat
        /\ prtChanges \in Nat /\ prtConfigs \in Nat
        /\ Untaken(prtWanted, prtPrinted, n) \in Nat
    <3>1. InLine(Tail(chain), n) \in Nat
      BY <1>3, PlacesFinite DEF InLine
    <3>2. prtPaper[n] \in Seq(Sheet) /\ prtChanges \in Nat /\ prtConfigs \in Nat
      BY <1>1 DEF PrtTypeOK
    <3>3. Untaken(prtWanted, prtPrinted, n) \in Nat
      BY DEF Untaken
    <3> QED BY <3>1, <3>2, <3>3, LenProperties
  <2>4. prtPaper'[n] = IF ok /\ job.node = n THEN Append(prtPaper[job.node], job.sheet) ELSE prtPaper[n]
    BY <1>1, <1>4, <1>5 DEF PrtTypeOK
  <2>5. Len(prtPaper'[n]) <= Len(prtPaper[n]) + (IF job.node = n THEN 1 ELSE 0)
        /\ Len(prtPaper'[n]) \in Nat
    <3>1. CASE ok /\ job.node = n
      <4>1. Len(prtPaper'[n]) = Len(prtPaper[job.node]) + 1
        BY <1>6, <2>4, <3>1
      <4>2. Len(prtPaper'[n]) = Len(prtPaper[n]) + 1
        BY <3>1, <4>1
      <4>3. (IF job.node = n THEN 1 ELSE 0) = 1
        BY <3>1
      <4>4. Len(prtPaper[n]) \in Nat
        BY <2>3
      <4> QED BY <4>2, <4>3, <4>4
    <3>2. CASE ~(ok /\ job.node = n)
      <4>1. prtPaper'[n] = prtPaper[n]
        BY <2>4, <3>2
      <4> DEFINE one == IF job.node = n THEN 1 ELSE 0
      <4>2. one \in {0, 1} /\ Len(prtPaper[n]) \in Nat
        BY <2>3
      <4> HIDE DEF one
      <4>3. Len(prtPaper[n]) <= Len(prtPaper[n]) + one
        BY <4>2
      <4> QED BY <4>1, <4>2, <4>3 DEF one
    <3> QED BY <3>1, <3>2
  <2>6. PaidFor(n)'
    <3>1. Len(prtPaper'[n]) + InLine(Tail(chain), n) <= Len(prtPaper[n]) + InLine(chain, n)
      <4>1. CASE job.node = n
        BY <2>2, <2>3, <2>5, <4>1
      <4>2. CASE job.node # n
        BY <2>2, <2>3, <2>5, <4>2
      <4> QED BY <4>1, <4>2
    <3>2. Len(prtPaper'[n]) + InLine(Tail(chain), n) + Untaken(prtWanted, prtPrinted, n)
            <= prtChanges + prtConfigs - 1
      <4>1. InLine(chain, n) \in Nat
        BY <2>2, <2>3
      <4> QED BY <2>1, <2>3, <2>5, <3>1, <4>1 DEF PaidFor
    <3> QED BY <1>2, <1>5, <3>2 DEF PaidFor
  <2>7. ASSUME prtPrinted[n] # Blank
        PROVE  /\ LastJob(Tail(chain), prtPrinted, n)
               /\ Places(Tail(chain), JobsOf(n)) = {} => CameOut(prtPaper', prtPrinted, prtRefused', n)
    <3>1. LastJob(chain, prtPrinted, n)
      BY <2>1, <2>7 DEF Remembered
    <3>2. Places(chain, JobsOf(n)) \subseteq 1..Len(chain) /\ Places(Tail(chain), JobsOf(n)) \subseteq 1..Len(Tail(chain))
      BY DEF Places
    <3>3. ASSUME NEW i \in Places(Tail(chain), JobsOf(n)), \A j \in Places(Tail(chain), JobsOf(n)) : j <= i
          PROVE  Tail(chain)[i].sheet = prtPrinted[n]
      <4>1. i + 1 \in Places(chain, JobsOf(n)) /\ i \in 1..Len(Tail(chain)) /\ Tail(chain)[i] = chain[i + 1]
        BY <1>3, <2>2, <3>2
      <4>2. ASSUME NEW j \in Places(chain, JobsOf(n)) PROVE j <= i + 1
        <5>1. CASE j = 1
          BY <4>1, <5>1
        <5>2. CASE j # 1
          <6>1. j - 1 \in Nat \ {0} /\ (j - 1) + 1 = j
            BY <1>3, <3>2, <5>2
          <6>2. j - 1 \in Places(Tail(chain), JobsOf(n))
            BY <2>2, <6>1
          <6>3. j - 1 <= i
            BY <3>3, <6>2
          <6> QED BY <4>1, <6>1, <6>3
        <5> QED BY <5>1, <5>2
      <4> QED BY <3>1, <4>1, <4>2 DEF LastJob
    <3>4. ASSUME Places(Tail(chain), JobsOf(n)) = {} PROVE CameOut(prtPaper', prtPrinted, prtRefused', n)
      <4>1. CASE job.node = n
        <5>1. 1 \in Places(chain, JobsOf(n))
          BY <2>2, <4>1
        <5>2. ASSUME NEW j \in Places(chain, JobsOf(n)) PROVE j <= 1
          <6>1. j \in Nat \ {0} /\ (j > 1 => (j - 1 \in Nat \ {0} /\ (j - 1) + 1 = j))
            BY <1>3, <3>2
          <6>2. j > 1 => j - 1 \in Places(Tail(chain), JobsOf(n))
            BY <2>2, <6>1
          <6> QED BY <3>4, <6>1, <6>2
        <5>3. job.sheet = prtPrinted[n]
          BY <1>3, <3>1, <5>1, <5>2 DEF LastJob
        <5> QED BY <1>5, <1>6, <2>4, <4>1, <5>3 DEF CameOut
      <4>2. CASE job.node # n
        <5>1. Places(chain, JobsOf(n)) = {}
          <6>1. ASSUME NEW j \in Places(chain, JobsOf(n)) PROVE FALSE
            <7>1. j \in Nat \ {0} /\ (j # 1 => (j - 1 \in Nat \ {0} /\ (j - 1) + 1 = j))
              BY <1>3, <3>2
            <7>2. j # 1 => j - 1 \in Places(Tail(chain), JobsOf(n))
              BY <2>2, <7>1
            <7> QED BY <2>2, <3>4, <4>2, <7>2
          <6> QED BY <6>1
        <5>2. CameOut(prtPaper, prtPrinted, prtRefused, n)
          BY <2>1, <2>7, <5>1 DEF Remembered
        <5> QED BY <1>5, <2>4, <4>2, <5>2 DEF CameOut
      <4> QED BY <4>1, <4>2
    <3> QED BY <3>3, <3>4 DEF LastJob
  <2>8. Remembered(n)'
    BY <1>2, <1>5, <2>7 DEF Remembered
  <2> QED BY <2>6, <2>8
<1> QED BY <1>7, <1>8 DEF PrtInv

\* The steps that leave the chain and the paper alone.
LEMMA ChangeKeepsPrt ==
  ASSUME PrtInv, NEW n \in PrintNode, NEW sheet \in Sheet \cup {Blank}, SheetChanges(n, sheet)
  PROVE  PrtInv'
<1>1. PrtTypeOK
  BY DEF PrtInv
<1>2. PrtTypeOK'
  BY <1>1 DEF PrtTypeOK, SheetChanges
<1>3. ASSUME NEW m \in PrintNode PROVE PaidFor(m)' /\ Remembered(m)'
  <2>1. PaidFor(m) /\ Remembered(m)
    BY DEF PrtInv
  <2>2. /\ prtChanges' = prtChanges + 1
        /\ UNCHANGED <<prtPrinted, prtChain, prtOnline, prtPaper, prtRefused, prtConfigs>>
        /\ Untaken(prtWanted', prtPrinted, m) \in {0, 1} /\ Untaken(prtWanted, prtPrinted, m) \in {0, 1}
    BY DEF SheetChanges, Untaken
  <2>3. /\ InLine(prtChain, m) \in Nat /\ Len(prtPaper[m]) \in Nat
        /\ prtChanges \in Nat /\ prtConfigs \in Nat
    BY <1>1, PlacesFinite DEF PrtTypeOK, InLine
  <2>4. PaidFor(m)'
    BY <2>1, <2>2, <2>3 DEF PaidFor
  <2>5. Remembered(m)'
    BY <2>1, <2>2 DEF Remembered, LastJob, CameOut
  <2> QED BY <2>4, <2>5
<1> QED BY <1>2, <1>3 DEF PrtInv

LEMMA ConfigureKeepsPrt ==
  ASSUME PrtInv, ConfigurePrinting
  PROVE  PrtInv'
<1>1. PrtTypeOK
  BY DEF PrtInv
<1>2. PrtTypeOK'
  BY <1>1 DEF PrtTypeOK, ConfigurePrinting, NothingPrinted
<1>3. ASSUME NEW m \in PrintNode PROVE PaidFor(m)' /\ Remembered(m)'
  <2>1. PaidFor(m)
    BY DEF PrtInv
  <2>2. /\ prtConfigs' = prtConfigs + 1 /\ prtPrinted'[m] = Blank
        /\ UNCHANGED <<prtWanted, prtChain, prtPaper, prtRefused, prtChanges>>
        /\ Untaken(prtWanted, prtPrinted', m) \in {0, 1} /\ Untaken(prtWanted, prtPrinted, m) \in {0, 1}
    BY DEF ConfigurePrinting, Untaken, NothingPrinted
  <2>3. /\ InLine(prtChain, m) \in Nat /\ Len(prtPaper[m]) \in Nat
        /\ prtChanges \in Nat /\ prtConfigs \in Nat
    BY <1>1, PlacesFinite DEF PrtTypeOK, InLine
  <2>4. PaidFor(m)'
    BY <2>1, <2>2, <2>3 DEF PaidFor
  <2>5. Remembered(m)'
    BY <2>2 DEF Remembered
  <2> QED BY <2>4, <2>5
<1> QED BY <1>2, <1>3 DEF PrtInv

\* The bridge keeps its accounts: every sheet is paid for, and what is
\* remembered of a node is its last job or came out last.
THEOREM PrtInvariance == PrtSpec => []PrtInv
<1>1. PrtInit => PrtInv
  BY PrtInitially
<1>2. PrtInv /\ [PrtNext]_prtVars => PrtInv'
  <2> SUFFICES ASSUME PrtInv, [PrtNext]_prtVars PROVE PrtInv'
    OBVIOUS
  <2>1. CASE FlushJobs
    BY <2>1, FlushKeepsPrt
  <2>2. CASE SwitchPrinting \/ UNCHANGED prtVars
    BY <2>2 DEF SwitchPrinting, prtVars, PrtInv, PrtTypeOK, PaidFor, Remembered, LastJob, CameOut
  <2>3. CASE ConfigurePrinting
    BY <2>3, ConfigureKeepsPrt
  <2>4. CASE \E n \in PrintNode, sheet \in Sheet \cup {Blank} : SheetChanges(n, sheet)
    BY <2>4, ChangeKeepsPrt
  <2>5. CASE \E ok \in BOOLEAN : SubmitJob(ok)
    BY <2>5, SubmitKeepsPrt
  <2> QED BY <2>1, <2>2, <2>3, <2>4, <2>5 DEF PrtNext
<1> QED BY <1>1, <1>2, PTL DEF PrtSpec

\* PrintsChanges: ticks, switching the printer and reconnecting print nothing
\* twice, and when nothing is left to take or to submit, the last sheet of a
\* node is what it shows, unless the server refused that job.
THEOREM PrintsOncePerChange == PrtSpec => []PrintsChanges
<1>1. PrtInv => PrintsChanges
  <2> SUFFICES ASSUME PrtInv PROVE PrintsChanges
    OBVIOUS
  <2>1. ASSUME NEW n \in PrintNode PROVE Len(prtPaper[n]) <= prtChanges + prtConfigs - 1
    <3>1. /\ InLine(prtChain, n) \in Nat /\ Len(prtPaper[n]) \in Nat
          /\ prtChanges \in Nat /\ prtConfigs \in Nat /\ Untaken(prtWanted, prtPrinted, n) \in {0, 1}
      BY PlacesFinite DEF PrtInv, PrtTypeOK, InLine, Untaken
    <3>2. PaidFor(n)
      BY DEF PrtInv
    <3> QED BY <3>1, <3>2 DEF PaidFor
  <2>2. ASSUME prtChain = <<>>, Jobs(prtPrinted) = <<>>,
               NEW n \in PrintNode \ prtRefused, prtWanted[n] # Blank
        PROVE  prtPaper[n] # <<>> /\ Last(prtPaper[n]) = prtWanted[n]
    <3>1. 1..Len(Jobs(prtPrinted)) = {} /\ 1..Len(prtChain) = {}
      BY <2>2
    <3>2. Untaken(prtWanted, prtPrinted, n) # 1
      BY <3>1, JobsProperties DEF PrtInv
    <3>3. prtPrinted[n] = prtWanted[n]
      BY <2>2, <3>2 DEF Untaken
    <3>4. Places(prtChain, JobsOf(n)) = {}
      BY <3>1 DEF Places
    <3>5. Remembered(n)
      BY DEF PrtInv
    <3> QED BY <2>2, <3>3, <3>4, <3>5 DEF Remembered, CameOut
  <2> QED BY <2>1, <2>2 DEF PrintsChanges
<1> QED BY <1>1, PrtInvariance, PTL
-----------------------------------------------------------------------------
(* The bridge to the boards *)

SerCommand == [device : Nat \ {0}, pin : Pin, on : BOOLEAN]
CommandsFor(d, p) == [device : {d}, pin : {p}, on : BOOLEAN]

\* The last command of the chain for a pin, or else the board, has it as the
\* bridge takes it for active.
LastDecides(chain, active, T, p) ==
  \A i \in Places(chain, T) : (\A j \in Places(chain, T) : j <= i) => (chain[i].on <=> p \in active)

Agrees(chain, board, active, d, p) ==
  /\ LastDecides(chain, active, CommandsFor(d, p), p)
  /\ Places(chain, CommandsFor(d, p)) = {} => (p \in board <=> p \in active)

SerTypeOK ==
  /\ serWanted \subseteq Pin /\ serActive \subseteq Pin /\ serBoard \subseteq Pin
  /\ serCalls \in Nat /\ serDevice \in 0..serCalls
  /\ serChain \in Seq(SerCommand)
  /\ \A i \in 1..Len(serChain) : serChain[i].device <= serCalls
  /\ serAwaits \in SUBSET Nat

\* A disconnect that nothing has disturbed awaits the whole chain.
AwaitsAll ==
  serAwaits # {} /\ serDevice # 0 /\ ~serLeft =>
    serActive = {} /\ serAwaits \subseteq {Len(serChain)} /\ ~serBroken

Agreed == serDevice # 0 /\ ~serBroken => \A p \in Pin : Agrees(serChain, serBoard, serActive, serDevice, p)

Off == serDevice = 0 /\ ~serLeft => serBoard = {}

SerInv == SerTypeOK /\ Agreed /\ AwaitsAll /\ Off

\* The commands by which pins are switched one way: one for each of them.
Switches(d, P, b) == [device : {d}, pin : P, on : {b}]

Switching(seq, d, P, b) ==
  /\ seq \in Seq(SerCommand)
  /\ \A i \in 1..Len(seq) : seq[i].device = d /\ seq[i].on = b
  /\ \A p \in P : \E i \in 1..Len(seq) : Places(seq, CommandsFor(d, p)) = {i}
  /\ \A p : p \notin P => Places(seq, CommandsFor(d, p)) = {}
  /\ P = {} => seq = <<>>

LEMMA SwitchProperties ==
  ASSUME NEW d \in Nat \ {0}, NEW P \in SUBSET Pin, NEW b \in BOOLEAN,
         NEW seq, seq = SetToSeq(Switches(d, P, b))
  PROVE  Switching(seq, d, P, b)
<1> DEFINE S == Switches(d, P, b)
           F == [p \in P |-> [device |-> d, pin |-> p, on |-> b]]
<1>1. IsFiniteSet(P)
  BY SerialAssumption, FS_Subset
<1>2. F \in Bijection(P, S)
  <2>1. F \in [P -> S]
    BY DEF Switches
  <2>2. IsInjective(F)
    BY DEF IsInjective
  <2>3. \A x \in S : x.pin \in P /\ F[x.pin] = x
    BY DEF Switches
  <2> QED BY <2>1, <2>2, <2>3 DEF Bijection, Injection, Surjection
<1>3. IsFiniteSet(S)
  BY <1>1, <1>2, FS_Bijection DEF ExistsBijection
<1>4. /\ \A x \in S : x \in SerCommand /\ x.device = d /\ x.on = b /\ x.pin \in P
      /\ \A x, y \in S : x.pin = y.pin => x = y
      /\ \A p \in P : [device |-> d, pin |-> p, on |-> b] \in S
      /\ P = {} => S = {}
  BY DEF SerCommand, Switches
<1>5. \A x \in S : \A p : x \in CommandsFor(d, p) <=> x.pin = p
  BY DEF CommandsFor, Switches
<1> HIDE DEF S
<1>6. /\ seq \in Seq(S)
      /\ \A i \in 1..Len(seq) : seq[i] \in S
      /\ \A i, j \in 1..Len(seq) : seq[i] = seq[j] => i = j
      /\ \A x \in S : \E i \in 1..Len(seq) : seq[i] = x
  <2>1. seq = SetToSeq(S)
    BY DEF S
  <2> QED BY <1>3, <2>1, SetToSeqProperties
<1>7. seq \in Seq(SerCommand)
  BY <1>4, <1>6
<1>8. ASSUME NEW p \in P PROVE \E i \in 1..Len(seq) : Places(seq, CommandsFor(d, p)) = {i}
  <2>1. PICK i \in 1..Len(seq) : seq[i] = [device |-> d, pin |-> p, on |-> b]
    BY <1>4, <1>6
  <2>2. seq[i].pin = p /\ seq[i] \in CommandsFor(d, p)
    BY <1>5, <1>6, <2>1
  <2>3. ASSUME NEW j \in 1..Len(seq), seq[j] \in CommandsFor(d, p) PROVE j = i
    <3>1. seq[i] \in S /\ seq[j] \in S
      BY <1>6
    <3>2. seq[j].pin = p
      BY <1>5, <2>3, <3>1
    <3>3. seq[i] = seq[j]
      BY <1>4, <2>2, <3>1, <3>2
    <3> QED BY <1>6, <3>3
  <2>4. Places(seq, CommandsFor(d, p)) = {i}
    BY <2>2, <2>3 DEF Places
  <2> QED BY <2>4
<1>9. ASSUME NEW p, p \notin P PROVE Places(seq, CommandsFor(d, p)) = {}
  BY <1>4, <1>5, <1>6, <1>9 DEF Places
<1>10. P = {} => seq = <<>>
  <2>1. P = {} => ~ 1 \in 1..Len(seq)
    BY <1>4, <1>6
  <2> QED BY <1>6, <2>1
<1> QED BY <1>4, <1>6, <1>7, <1>8, <1>9, <1>10 DEF Switching

\* The difference of two sets of pins has one command for each pin that changes.
Difference(diff, d, active, next) ==
  /\ diff \in Seq(SerCommand)
  /\ \A i \in 1..Len(diff) : diff[i].device = d
  /\ \A p \in Pin :
       \/ /\ \E i : i \in 1..Len(diff) /\ Places(diff, CommandsFor(d, p)) = {i}
                                       /\ (diff[i].on <=> p \in next)
       \/ Places(diff, CommandsFor(d, p)) = {} /\ (p \in active <=> p \in next)
  /\ active = next => diff = <<>>

LEMMA DiffProperties ==
  ASSUME NEW d \in Nat \ {0}, NEW active \in SUBSET Pin, NEW next \in SUBSET Pin,
         NEW diff, diff = Diff(d, active, next)
  PROVE  Difference(diff, d, active, next)
<1> DEFINE ups   == next \ active
           downs == active \ next
           on  == SetToSeq([device : {d}, pin : ups, on : {TRUE}])
           off == SetToSeq([device : {d}, pin : downs, on : {FALSE}])
<1>1. /\ on \in Seq(SerCommand)
      /\ \A i \in 1..Len(on) : on[i].device = d /\ on[i].on = TRUE
      /\ \A p \in ups : \E i \in 1..Len(on) : Places(on, CommandsFor(d, p)) = {i}
      /\ \A p : p \notin ups => Places(on, CommandsFor(d, p)) = {}
      /\ ups = {} => on = <<>>
  <2>1. PICK b \in BOOLEAN : b = TRUE
    OBVIOUS
  <2>2. ups \in SUBSET Pin /\ on = SetToSeq(Switches(d, ups, b))
    BY <2>1 DEF Switches
  <2> HIDE DEF ups, on
  <2>3. Switching(on, d, ups, b)
    BY <2>1, <2>2, SwitchProperties
  <2> QED BY <2>1, <2>3 DEF Switching
<1>2. /\ off \in Seq(SerCommand)
      /\ \A i \in 1..Len(off) : off[i].device = d /\ off[i].on = FALSE
      /\ \A p \in downs : \E i \in 1..Len(off) : Places(off, CommandsFor(d, p)) = {i}
      /\ \A p : p \notin downs => Places(off, CommandsFor(d, p)) = {}
      /\ downs = {} => off = <<>>
  <2>1. PICK b \in BOOLEAN : b = FALSE
    OBVIOUS
  <2>2. downs \in SUBSET Pin /\ off = SetToSeq(Switches(d, downs, b))
    BY <2>1 DEF Switches
  <2> HIDE DEF downs, off
  <2>3. Switching(off, d, downs, b)
    BY <2>1, <2>2, SwitchProperties
  <2> QED BY <2>1, <2>3 DEF Switching
<1>3. diff = on \o off
  BY DEF Diff
<1> HIDE DEF on, off
<1>4. /\ diff \in Seq(SerCommand) /\ Len(diff) = Len(on) + Len(off)
      /\ \A i \in 1..(Len(on) + Len(off)) : diff[i] = IF i <= Len(on) THEN on[i] ELSE off[i - Len(on)]
      /\ Len(on) \in Nat /\ Len(off) \in Nat
  BY <1>1, <1>2, <1>3, ConcatProperties, LenProperties
<1>5. ASSUME NEW i \in 1..Len(diff) PROVE diff[i].device = d
  <2>1. CASE i <= Len(on)
    BY <1>1, <1>4, <2>1
  <2>2. CASE ~(i <= Len(on))
    <3>1. i - Len(on) \in 1..Len(off) /\ diff[i] = off[i - Len(on)]
      BY <1>4, <2>2
    <3> QED BY <1>2, <3>1
  <2> QED BY <2>1, <2>2
<1>6. ASSUME NEW p \in Pin
      PROVE  \/ /\ \E i : i \in 1..Len(diff) /\ Places(diff, CommandsFor(d, p)) = {i}
                                             /\ (diff[i].on <=> p \in next)
             \/ Places(diff, CommandsFor(d, p)) = {} /\ (p \in active <=> p \in next)
  <2> DEFINE T == CommandsFor(d, p)
  <2>1. \A i : i \in Places(diff, T) <=>
                 i \in Places(on, T) \/ (i \in Nat /\ i - Len(on) \in Places(off, T))
    BY <1>1, <1>2, <1>3, PlacesOfConcat
  <2>2. CASE p \in next \ active
    <3>1. PICK i \in 1..Len(on) : Places(on, T) = {i}
      BY <1>1, <2>2
    <3>2. Places(off, T) = {}
      BY <1>2, <2>2
    <3>3. Places(diff, T) = {i}
      BY <2>1, <3>1, <3>2
    <3>4. i \in 1..Len(diff) /\ diff[i] = on[i]
      BY <1>4, <3>1
    <3> QED BY <1>1, <2>2, <3>1, <3>3, <3>4
  <2>3. CASE p \in active \ next
    <3>1. PICK i \in 1..Len(off) : Places(off, T) = {i}
      BY <1>2, <2>3
    <3>2. Places(on, T) = {}
      BY <1>1, <2>3
    <3> DEFINE l == Len(on) + i
    <3>3. l \in Nat /\ l - Len(on) = i /\ l \in 1..Len(diff) /\ ~(l <= Len(on))
      BY <1>4, <3>1
    <3>4. diff[l] = off[i]
      BY <1>4, <3>3
    <3>5. \A k \in Nat : k - Len(on) = i => k = l
      BY <1>4, <3>1
    <3> HIDE DEF l
    <3>6. Places(diff, T) = {l}
      BY <2>1, <3>1, <3>2, <3>3, <3>5
    <3> QED BY <1>2, <2>3, <3>1, <3>3, <3>4, <3>6
  <2>4. CASE p \in active <=> p \in next
    <3>1. Places(on, T) = {} /\ Places(off, T) = {}
      BY <1>1, <1>2, <2>4
    <3> QED BY <2>1, <2>4, <3>1
  <2> QED BY <2>2, <2>3, <2>4
<1>7. active = next => diff = <<>>
  <2>1. active = next => Len(on) = 0 /\ Len(off) = 0
    BY <1>1, <1>2
  <2> QED BY <1>4, <2>1, EmptySeq
<1> QED BY <1>4, <1>5, <1>6, <1>7 DEF Difference

\* Commands for the difference bring the pins from one set to the other.
LEMMA AppendAgrees ==
  ASSUME NEW d \in Nat \ {0}, NEW active \in SUBSET Pin, NEW next \in SUBSET Pin,
         NEW chain \in Seq(SerCommand), NEW board, NEW p \in Pin,
         Agrees(chain, board, active, d, p)
  PROVE  Agrees(chain \o Diff(d, active, next), board, next, d, p)
<1> DEFINE T == CommandsFor(d, p)
<1>1. PICK diff : diff = Diff(d, active, next)
  OBVIOUS
<1>2. /\ diff \in Seq(SerCommand)
      /\ \/ /\ \E i : i \in 1..Len(diff) /\ Places(diff, T) = {i} /\ (diff[i].on <=> p \in next)
         \/ Places(diff, T) = {} /\ (p \in active <=> p \in next)
  <2>1. Difference(diff, d, active, next)
    BY <1>1, DiffProperties
  <2> QED BY <2>1 DEF Difference
<1>3. PICK chain2 : chain2 = chain \o diff
  OBVIOUS
<1>4. \A i : i \in Places(chain2, T) <=>
               i \in Places(chain, T) \/ (i \in Nat /\ i - Len(chain) \in Places(diff, T))
  BY <1>2, <1>3, PlacesOfConcat
<1>5. /\ Len(chain2) = Len(chain) + Len(diff) /\ Len(chain) \in Nat /\ Len(diff) \in Nat
      /\ \A i \in 1..(Len(chain) + Len(diff)) :
           chain2[i] = IF i <= Len(chain) THEN chain[i] ELSE diff[i - Len(chain)]
  BY <1>2, <1>3, ConcatProperties, LenProperties
<1>6. \A i \in Places(chain, T) : i \in 1..Len(chain) /\ chain2[i] = chain[i]
  <2>1. \A i \in Places(chain, T) : i \in 1..Len(chain)
    BY DEF Places
  <2> QED BY <1>5, <2>1
<1>7. LastDecides(chain, active, T, p) /\ (Places(chain, T) = {} => (p \in board <=> p \in active))
  BY DEF Agrees
<1> HIDE DEF T
<1>8. ASSUME NEW i \in 1..Len(diff), Places(diff, T) = {i}, diff[i].on <=> p \in next
      PROVE  LastDecides(chain2, next, T, p) /\ Places(chain2, T) # {}
  <2>1. PICK l \in Nat : l = Len(chain) + i
    BY <1>5
  <2>2. l - Len(chain) = i /\ l \in 1..(Len(chain) + Len(diff)) /\ ~(l <= Len(chain))
    BY <1>5, <2>1
  <2>3. \A k \in Nat : k - Len(chain) = i => k = l
    BY <1>5, <2>1
  <2>4. chain2[l] = diff[i]
    BY <1>5, <2>2
  <2>5. l \in Places(chain2, T)
    BY <1>4, <1>8, <2>1, <2>2
  <2>6. ASSUME NEW k \in Places(chain2, T), \A j \in Places(chain2, T) : j <= k
        PROVE  k = l
    <3>1. l <= k
      BY <2>5, <2>6
    <3>2. k \notin Places(chain, T)
      BY <1>5, <1>6, <2>1, <2>2, <3>1
    <3> QED BY <1>4, <1>8, <2>3, <3>2
  <2> QED BY <1>8, <2>4, <2>5, <2>6 DEF LastDecides
<1>9. ASSUME Places(diff, T) = {}, p \in active <=> p \in next
      PROVE  /\ LastDecides(chain2, next, T, p)
             /\ Places(chain2, T) = {} => (p \in board <=> p \in next)
  <2>1. Places(chain2, T) = Places(chain, T)
    BY <1>4, <1>9
  <2> QED BY <1>6, <1>7, <1>9, <2>1 DEF LastDecides
<1>10. Agrees(chain2, board, next, d, p)
  BY <1>2, <1>8, <1>9 DEF Agrees, T
<1> QED BY <1>1, <1>3, <1>10

\* What flushFromGraph, connecting, stopping the engine and resetting the pins share.
LEMMA EnqueueKeeps ==
  ASSUME NEW d \in Nat \ {0}, NEW active \in SUBSET Pin, NEW next \in SUBSET Pin,
         NEW board, NEW last \in Nat, d <= last, NEW status,
         serChain \in Seq(SerCommand), \A i \in 1..Len(serChain) : serChain[i].device <= last,
         ~serBroken => \A p \in Pin : Agrees(serChain, board, active, d, p),
         Enqueued(Diff(d, active, next), status)
  PROVE  /\ serChain' \in Seq(SerCommand)
         /\ \A i \in 1..Len(serChain') : serChain'[i].device <= last
         /\ ~serBroken => \A p \in Pin : Agrees(serChain', board, next, d, p)
         /\ active = next => serChain' = serChain
<1>1. PICK diff : diff = Diff(d, active, next)
  OBVIOUS
<1>2. /\ diff \in Seq(SerCommand)
      /\ \A i \in 1..Len(diff) : diff[i].device = d
      /\ active = next => diff = <<>>
  <2>1. Difference(diff, d, active, next)
    BY <1>1, DiffProperties
  <2> QED BY <2>1 DEF Difference
<1>3. serChain' = IF serBroken THEN serChain ELSE serChain \o diff
  BY <1>1 DEF Enqueued
<1>4. CASE serBroken
  BY <1>3, <1>4
<1>5. CASE ~serBroken
  <2>1. serChain' = serChain \o diff
    BY <1>3, <1>5
  <2>2. /\ serChain' \in Seq(SerCommand) /\ Len(serChain') = Len(serChain) + Len(diff)
        /\ \A i \in 1..(Len(serChain) + Len(diff)) :
             serChain'[i] = IF i <= Len(serChain) THEN serChain[i] ELSE diff[i - Len(serChain)]
        /\ Len(serChain) \in Nat /\ Len(diff) \in Nat
    BY <1>2, <2>1, ConcatProperties, LenProperties
  <2>3. ASSUME NEW i \in 1..Len(serChain') PROVE serChain'[i].device <= last
    <3>1. CASE i <= Len(serChain)
      <4>1. i \in 1..Len(serChain) /\ serChain'[i] = serChain[i]
        BY <2>2, <3>1
      <4> QED BY <4>1
    <3>2. CASE ~(i <= Len(serChain))
      <4>1. i - Len(serChain) \in 1..Len(diff) /\ serChain'[i] = diff[i - Len(serChain)]
        BY <2>2, <3>2
      <4> QED BY <1>2, <4>1
    <3> QED BY <3>1, <3>2
  <2>4. \A p \in Pin : Agrees(serChain', board, next, d, p)
    <3>1. ASSUME NEW p \in Pin PROVE Agrees(serChain', board, next, d, p)
      BY <1>1, <1>5, <2>1, AppendAgrees
    <3> QED BY <3>1
  <2>5. active = next => serChain' = serChain
    BY <1>2, <2>1, ConcatEmptySeq
  <2> QED BY <2>2, <2>3, <2>4, <2>5
<1> QED BY <1>4, <1>5

\* The same for the board that is connected.
LEMMA SwitchingKeeps ==
  ASSUME SerTypeOK, Agreed, serDevice # 0, NEW next \in SUBSET Pin, NEW status,
         Enqueued(Diff(serDevice, serActive, next), status)
  PROVE  /\ serChain' \in Seq(SerCommand)
         /\ \A i \in 1..Len(serChain') : serChain'[i].device <= serCalls
         /\ ~serBroken => \A p \in Pin : Agrees(serChain', serBoard, next, serDevice, p)
         /\ serActive = next => serChain' = serChain
<1>1. /\ serDevice \in Nat \ {0} /\ serDevice <= serCalls /\ serCalls \in Nat
      /\ serActive \in SUBSET Pin /\ serChain \in Seq(SerCommand)
      /\ \A i \in 1..Len(serChain) : serChain[i].device <= serCalls
  BY DEF SerTypeOK
<1>2. ~serBroken => \A p \in Pin : Agrees(serChain, serBoard, serActive, serDevice, p)
  BY DEF Agreed
<1> QED BY <1>1, <1>2, EnqueueKeeps

LEMMA FlushKeepsSer ==
  ASSUME SerInv, NEW pins \in SUBSET Pin, FlushFromGraph(pins), serWanted' \in SUBSET Pin,
         UNCHANGED <<serBoard, serDevice, serBroken, serAwaits, serCalls>>
  PROVE  SerInv'
<1>1. SerTypeOK /\ Agreed /\ AwaitsAll /\ Off
  BY DEF SerInv
<1>2. CASE serDevice # 0 /\ serStatus = "connected"
  <2>1. /\ Enqueued(Diff(serDevice, serActive, pins), "connected") /\ serActive' = pins
        /\ serLeft' = (serLeft \/ (serAwaits # {} /\ serActive # pins))
    BY <1>2 DEF FlushFromGraph
  <2>2. /\ serChain' \in Seq(SerCommand)
        /\ \A i \in 1..Len(serChain') : serChain'[i].device <= serCalls
        /\ ~serBroken => \A p \in Pin : Agrees(serChain', serBoard, pins, serDevice, p)
        /\ serActive = pins => serChain' = serChain
    BY <1>1, <1>2, <2>1, SwitchingKeeps
  <2>3. SerTypeOK'
    BY <1>1, <2>1, <2>2 DEF SerTypeOK
  <2>4. Agreed'
    BY <2>1, <2>2 DEF Agreed
  <2>5. AwaitsAll'
    BY <1>1, <2>1, <2>2 DEF AwaitsAll
  <2>6. Off'
    BY <1>2 DEF Off
  <2> QED BY <2>3, <2>4, <2>5, <2>6 DEF SerInv
<1>3. CASE ~(serDevice # 0 /\ serStatus = "connected")
  <2>1. UNCHANGED <<serActive, serChain, serLeft>>
    BY <1>3 DEF FlushFromGraph
  <2> QED BY <1>1, <2>1 DEF SerInv, SerTypeOK, Agreed, AwaitsAll, Off
<1> QED BY <1>2, <1>3

\* The pins are reset, and what awaits the chain keeps awaiting all of it.
LEMMA StopKeepsSer ==
  ASSUME SerInv, EngineStops PROVE SerInv'
<1>1. /\ SerTypeOK /\ Agreed /\ AwaitsAll /\ serDevice # 0 /\ {} \in SUBSET Pin
      /\ Enqueued(Diff(serDevice, serActive, {}), serStatus)
  BY DEF SerInv, EngineStops, Resets
<1>2. /\ serChain' \in Seq(SerCommand)
      /\ \A i \in 1..Len(serChain') : serChain'[i].device <= serCalls
      /\ ~serBroken => \A p \in Pin : Agrees(serChain', serBoard, {}, serDevice, p)
      /\ serActive = {} => serChain' = serChain
  BY <1>1, SwitchingKeeps
<1>3. /\ serActive' = {} /\ serWanted' \in SUBSET Pin
      /\ UNCHANGED <<serBoard, serDevice, serBroken, serAwaits, serLeft, serCalls>>
  BY DEF EngineStops, Resets
<1>4. SerTypeOK'
  BY <1>1, <1>2, <1>3 DEF SerTypeOK
<1>5. Agreed'
  BY <1>2, <1>3 DEF Agreed
<1>6. AwaitsAll' /\ Off'
  BY <1>1, <1>2, <1>3 DEF AwaitsAll, Off
<1> QED BY <1>4, <1>5, <1>6 DEF SerInv

LEMMA DisconnectKeepsSer ==
  ASSUME SerInv, Disconnect PROVE SerInv'
<1>1. /\ SerTypeOK /\ Agreed /\ AwaitsAll /\ Off
      /\ UNCHANGED <<serWanted, serBoard, serDevice, serBroken, serLeft>>
  BY DEF SerInv, Disconnect
<1>2. CASE serDevice = 0
  <2>1. UNCHANGED <<serActive, serChain, serAwaits, serCalls>>
    BY <1>2 DEF Disconnect
  <2> QED BY <1>1, <2>1 DEF SerInv, SerTypeOK, Agreed, AwaitsAll, Off
<1>3. CASE serDevice # 0
  <2>1. /\ Enqueued(Diff(serDevice, serActive, {}), serStatus) /\ {} \in SUBSET Pin
        /\ serActive' = {} /\ serCalls' = serCalls + 1
        /\ serAwaits' = IF serBroken THEN serAwaits ELSE serAwaits \cup {Len(serChain')}
    BY <1>3 DEF Disconnect, Resets, AwaitChain
  <2>2. /\ serChain' \in Seq(SerCommand)
        /\ \A i \in 1..Len(serChain') : serChain'[i].device <= serCalls
        /\ ~serBroken => \A p \in Pin : Agrees(serChain', serBoard, {}, serDevice, p)
        /\ serActive = {} => serChain' = serChain
    BY <1>1, <1>3, <2>1, SwitchingKeeps
  <2>3. SerTypeOK'
    <3>1. Len(serChain') \in Nat
      BY <2>2, LenProperties
    <3>2. serAwaits' \in SUBSET Nat
      BY <1>1, <2>1, <3>1 DEF SerTypeOK
    <3>3. serCalls' \in Nat /\ serDevice' \in 0..serCalls'
      BY <1>1, <2>1 DEF SerTypeOK
    <3>4. \A i \in 1..Len(serChain') : serChain'[i].device <= serCalls'
      <4>1. ASSUME NEW i \in 1..Len(serChain') PROVE serChain'[i].device <= serCalls'
        <5>1. serChain'[i] \in SerCommand
          BY <2>2, ElementOfSeq
        <5>2. serChain'[i].device \in Nat /\ serChain'[i].device <= serCalls
          BY <2>2, <5>1 DEF SerCommand
        <5> QED BY <1>1, <2>1, <5>2 DEF SerTypeOK
      <4> QED BY <4>1
    <3> QED BY <1>1, <2>1, <2>2, <3>2, <3>3, <3>4 DEF SerTypeOK
  <2>4. Agreed'
    BY <1>1, <2>1, <2>2 DEF Agreed
  <2>5. AwaitsAll'
    BY <1>1, <1>3, <2>1, <2>2 DEF AwaitsAll
  <2>6. Off'
    BY <1>1, <1>3 DEF Off
  <2> QED BY <2>3, <2>4, <2>5, <2>6 DEF SerInv
<1> QED BY <1>2, <1>3

\* The head of the chain takes effect if it is for this device.
LEMMA WriteAgrees ==
  ASSUME NEW chain \in Seq(SerCommand), chain # <<>>, NEW d, NEW p \in Pin,
         NEW board, NEW board2, NEW active, NEW c, c = Head(chain),
         board2 = IF c.device # d THEN board
                  ELSE IF c.on THEN board \cup {c.pin} ELSE board \ {c.pin},
         Agrees(chain, board, active, d, p)
  PROVE  Agrees(Tail(chain), board2, active, d, p)
<1> DEFINE T == CommandsFor(d, p)
<1>1. PICK rest : rest = Tail(chain)
  OBVIOUS
<1>2. /\ rest \in Seq(SerCommand) /\ Len(rest) = Len(chain) - 1
      /\ \A i \in 1..Len(rest) : rest[i] = chain[i + 1]
      /\ c \in SerCommand /\ c = chain[1] /\ Len(chain) \in Nat \ {0}
  BY <1>1, HeadTailProperties, EmptySeq
<1>3. /\ \A j : j \in Places(rest, T) <=> j \in Nat \ {0} /\ j + 1 \in Places(chain, T)
      /\ 1 \in Places(chain, T) <=> c \in T
  BY <1>1, PlacesOfTail
<1>4. c \in T <=> c.device = d /\ c.pin = p
  BY <1>2 DEF SerCommand, CommandsFor
<1>5. \A j \in Places(chain, T) : j \in 1..Len(chain)
  BY DEF Places
<1>6. \A j \in Places(rest, T) : j \in 1..Len(rest)
  BY DEF Places
<1>7. LastDecides(chain, active, T, p) /\ (Places(chain, T) = {} => (p \in board <=> p \in active))
  BY DEF Agrees
<1> HIDE DEF T
<1>8. \A j \in Places(chain, T) : j # 1 => j - 1 \in Places(rest, T) /\ (j - 1) + 1 = j
  <2>1. ASSUME NEW j \in Places(chain, T), j # 1 PROVE j - 1 \in Places(rest, T) /\ (j - 1) + 1 = j
    <3>1. j - 1 \in Nat \ {0} /\ (j - 1) + 1 = j
      BY <1>2, <1>5, <2>1
    <3> QED BY <1>3, <2>1, <3>1
  <2> QED BY <2>1
<1>9. LastDecides(rest, active, T, p)
  <2>1. ASSUME NEW i \in Places(rest, T), \A j \in Places(rest, T) : j <= i
        PROVE  rest[i].on <=> p \in active
    <3>1. i + 1 \in Places(chain, T) /\ rest[i] = chain[i + 1] /\ i \in Nat \ {0}
      BY <1>2, <1>3, <1>6
    <3>2. ASSUME NEW j \in Places(chain, T) PROVE j <= i + 1
      <4>1. CASE j = 1
        BY <3>1, <4>1
      <4>2. CASE j # 1
        <5>1. j - 1 <= i /\ j \in Nat
          BY <1>2, <1>5, <1>8, <2>1, <4>2
        <5> QED BY <3>1, <5>1
      <4> QED BY <4>1, <4>2
    <3> QED BY <1>7, <3>1, <3>2 DEF LastDecides
  <2> QED BY <2>1 DEF LastDecides
<1>10. ASSUME Places(rest, T) = {} PROVE p \in board2 <=> p \in active
  <2>1. \A j \in Places(chain, T) : j = 1
    BY <1>8, <1>10
  <2>2. CASE c \in T
    <3>1. 1 \in Places(chain, T) /\ \A j \in Places(chain, T) : j <= 1
      BY <1>3, <2>1, <2>2
    <3>2. chain[1].on <=> p \in active
      BY <1>7, <3>1 DEF LastDecides
    <3> QED BY <1>2, <1>4, <2>2, <3>2
  <2>3. CASE c \notin T
    <3>1. Places(chain, T) = {}
      BY <1>3, <2>1, <2>3
    <3>2. p \in board2 <=> p \in board
      BY <1>4, <2>3
    <3> QED BY <1>7, <3>1, <3>2
  <2> QED BY <2>2, <2>3
<1> QED BY <1>1, <1>9, <1>10 DEF Agrees, T

LEMMA WriteKeepsSer ==
  ASSUME SerInv, WriteCommand PROVE SerInv'
<1>1. SerTypeOK /\ Agreed /\ AwaitsAll /\ Off
  BY DEF SerInv
<1>2. PICK c : c = Head(serChain)
  OBVIOUS
<1>3. /\ serChain \in Seq(SerCommand) /\ serChain # <<>> /\ serChain' = Tail(serChain)
      /\ serBoard' = IF c.device # serDevice THEN serBoard
                     ELSE IF c.on THEN serBoard \cup {c.pin} ELSE serBoard \ {c.pin}
      /\ serAwaits' = {IF n = 0 THEN 0 ELSE n - 1 : n \in serAwaits}
      /\ UNCHANGED <<serWanted, serActive, serDevice, serBroken, serLeft, serCalls>>
  BY <1>1, <1>2 DEF WriteCommand, SerTypeOK
<1>4. /\ Tail(serChain) \in Seq(SerCommand) /\ Len(Tail(serChain)) = Len(serChain) - 1
      /\ \A i \in 1..Len(Tail(serChain)) : Tail(serChain)[i] = serChain[i + 1]
      /\ c \in SerCommand /\ Len(serChain) \in Nat \ {0}
  BY <1>2, <1>3, HeadTailProperties, EmptySeq
<1>5. SerTypeOK'
  <2>1. serBoard' \subseteq Pin
    BY <1>1, <1>3, <1>4 DEF SerTypeOK, SerCommand
  <2>2. ASSUME NEW i \in 1..Len(serChain') PROVE serChain'[i].device <= serCalls
    <3>1. i + 1 \in 1..Len(serChain) /\ serChain'[i] = serChain[i + 1]
      BY <1>3, <1>4
    <3> QED BY <1>1, <3>1 DEF SerTypeOK
  <2>3. serAwaits' \in SUBSET Nat
    BY <1>1, <1>3 DEF SerTypeOK
  <2> QED BY <1>1, <1>3, <1>4, <2>1, <2>2, <2>3 DEF SerTypeOK
<1>6. Agreed'
  <2>1. ASSUME serDevice # 0, ~serBroken, NEW p \in Pin
        PROVE  Agrees(Tail(serChain), serBoard', serActive, serDevice, p)
    <3>1. Agrees(serChain, serBoard, serActive, serDevice, p)
      BY <1>1, <2>1 DEF Agreed
    <3> QED BY <1>2, <1>3, <3>1, WriteAgrees
  <2> QED BY <1>3, <2>1 DEF Agreed
<1>7. AwaitsAll'
  BY <1>1, <1>3, <1>4 DEF AwaitsAll
<1>8. Off'
  <2>1. c.device # 0
    BY <1>4 DEF SerCommand
  <2> QED BY <1>1, <1>3, <2>1 DEF Off
<1> QED BY <1>5, <1>6, <1>7, <1>8 DEF SerInv

LEMMA FailKeepsSer ==
  ASSUME SerInv, WriteFails PROVE SerInv'
<1>1. SerTypeOK /\ AwaitsAll /\ Off
  BY DEF SerInv
<1>2. /\ serChain # <<>> /\ serChain' = <<>> /\ serBroken' = TRUE
      /\ serAwaits' = serAwaits \cap {0}
      /\ UNCHANGED <<serWanted, serActive, serBoard, serDevice, serLeft, serCalls>>
  BY DEF WriteFails
<1>3. SerTypeOK'
  BY <1>1, <1>2 DEF SerTypeOK
<1>4. Len(serChain) # 0
  BY <1>1, <1>2, EmptySeq DEF SerTypeOK
<1>5. AwaitsAll' /\ Agreed' /\ Off'
  BY <1>1, <1>2, <1>4 DEF AwaitsAll, Agreed, Off
<1> QED BY <1>3, <1>5 DEF SerInv

\* No command of the chain is for a board that has just been connected.
LEMMA OpensKeepsSer ==
  ASSUME SerInv, ConnectOpens PROVE SerInv'
<1>1. SerTypeOK
  BY DEF SerInv
<1>2. PICK d \in Nat \ {0} : d = serCalls + 1
  BY <1>1 DEF SerTypeOK
<1>3. /\ serCalls' = d /\ serDevice' = d /\ serBoard' = {}
      /\ serActive' = serWanted /\ serLeft' = (serAwaits # {})
      /\ UNCHANGED <<serWanted, serBroken, serAwaits>>
      /\ Enqueued(Diff(d, {}, serWanted), "connected")
  BY <1>2 DEF ConnectOpens
<1>4. /\ serChain \in Seq(SerCommand)
      /\ \A i \in 1..Len(serChain) : serChain[i].device <= d /\ serChain[i].device # d
  <2>1. serChain \in Seq(SerCommand) /\ \A i \in 1..Len(serChain) : serChain[i].device <= serCalls
    BY <1>1 DEF SerTypeOK
  <2>2. \A i \in 1..Len(serChain) : serChain[i] \in SerCommand
    BY <2>1, ElementOfSeq
  <2>3. \A i \in 1..Len(serChain) : serChain[i].device \in Nat /\ serCalls \in Nat
    BY <1>1, <2>2 DEF SerCommand, SerTypeOK
  <2> QED BY <1>2, <2>1, <2>3
<1>5. PICK none : none = {}
  OBVIOUS
<1>6. \A p \in Pin : Agrees(serChain, none, none, d, p)
  <2>1. ASSUME NEW p \in Pin PROVE Agrees(serChain, none, none, d, p)
    <3>1. Places(serChain, CommandsFor(d, p)) = {}
      BY <1>4 DEF Places, CommandsFor
    <3> QED BY <3>1 DEF Agrees, LastDecides
  <2> QED BY <2>1
<1>7. /\ serChain' \in Seq(SerCommand)
      /\ \A i \in 1..Len(serChain') : serChain'[i].device <= d
      /\ ~serBroken => \A p \in Pin : Agrees(serChain', none, serWanted, d, p)
  <2>1. none \in SUBSET Pin /\ serWanted \in SUBSET Pin /\ d \in Nat /\ d <= d
    BY <1>1, <1>5 DEF SerTypeOK
  <2>2. PICK status : status = "connected"
    OBVIOUS
  <2>3. Enqueued(Diff(d, none, serWanted), status)
    BY <1>3, <1>5, <2>2
  <2> QED BY <1>4, <1>6, <2>1, <2>3, EnqueueKeeps
<1>8. SerTypeOK'
  BY <1>1, <1>2, <1>3, <1>7 DEF SerTypeOK
<1>9. Agreed' /\ AwaitsAll' /\ Off'
  BY <1>3, <1>5, <1>7 DEF Agreed, AwaitsAll, Off
<1> QED BY <1>8, <1>9 DEF SerInv

\* With the chain written, the board shows what is active.
LEMMA WrittenAgrees ==
  ASSUME SerInv, serDevice # 0, ~serBroken, serChain = <<>>
  PROVE  serBoard = serActive
<1>1. ASSUME NEW p \in Pin PROVE p \in serBoard <=> p \in serActive
  <2>1. Agrees(serChain, serBoard, serActive, serDevice, p)
    BY DEF SerInv, Agreed
  <2>2. Places(serChain, CommandsFor(serDevice, p)) = {}
    BY EmptySeq DEF Places
  <2> QED BY <2>1, <2>2 DEF Agrees
<1> QED BY <1>1 DEF SerInv, SerTypeOK

LEMMA CloseKeepsSer ==
  ASSUME SerInv, CloseAllDevices PROVE SerInv'
<1>1. SerTypeOK /\ AwaitsAll /\ Off
  BY DEF SerInv
<1>2. /\ 0 \in serAwaits /\ serAwaits' = serAwaits \ {0} /\ serDevice' = 0
      /\ UNCHANGED <<serWanted, serActive, serBoard, serChain, serBroken, serLeft, serCalls>>
  BY DEF CloseAllDevices
<1>3. SerTypeOK'
  BY <1>1, <1>2 DEF SerTypeOK
<1>4. ~serLeft => serBoard = {}
  <2>1. CASE serDevice = 0
    BY <1>1, <2>1 DEF Off
  <2>2. CASE serDevice # 0
    <3>1. ~serLeft => serActive = {} /\ Len(serChain) = 0 /\ ~serBroken
      BY <1>1, <1>2, <2>2 DEF AwaitsAll
    <3>2. Len(serChain) = 0 => serChain = <<>>
      BY <1>1, EmptySeq DEF SerTypeOK
    <3> QED BY <2>2, <3>1, <3>2, WrittenAgrees
  <2> QED BY <2>1, <2>2
<1>5. Agreed' /\ AwaitsAll' /\ Off'
  BY <1>2, <1>4 DEF Agreed, AwaitsAll, Off
<1> QED BY <1>3, <1>5 DEF SerInv

\* The inductive invariant of the bridge to the boards.
THEOREM SerInvariance == SerSpec => []SerInv
<1>1. SerInit => SerInv
  BY EmptySeq DEF SerInit, SerInv, SerTypeOK, Agreed, AwaitsAll, Off
<1>2. SerInv /\ [SerNext]_serVars => SerInv'
  <2> SUFFICES ASSUME SerInv, [SerNext]_serVars PROVE SerInv'
    OBVIOUS
  <2>1. CASE ConnectStarts \/ UNCHANGED serVars
    <3>1. UNCHANGED <<serWanted, serActive, serBoard, serDevice, serChain, serBroken, serAwaits, serLeft, serCalls>>
      BY <2>1 DEF ConnectStarts, serVars
    <3> QED BY <3>1 DEF SerInv, SerTypeOK, Agreed, AwaitsAll, Off
  <2>2. CASE GraphChanges
    <3>1. PICK pins \in SUBSET Pin : serWanted' = pins /\ FlushFromGraph(pins)
      BY <2>2 DEF GraphChanges
    <3>2. UNCHANGED <<serBoard, serDevice, serBroken, serAwaits, serCalls>>
      BY <2>2 DEF GraphChanges
    <3> QED BY <3>1, <3>2, FlushKeepsSer
  <2>3. CASE Tick
    <3>1. serWanted \in SUBSET Pin /\ serWanted' = serWanted /\ FlushFromGraph(serWanted)
      BY <2>3 DEF Tick, SerInv, SerTypeOK
    <3>2. UNCHANGED <<serBoard, serDevice, serBroken, serAwaits, serCalls>>
      BY <2>3 DEF Tick
    <3> QED BY <3>1, <3>2, FlushKeepsSer
  <2>4. CASE EngineStops
    BY <2>4, StopKeepsSer
  <2>5. CASE WriteCommand
    BY <2>5, WriteKeepsSer
  <2>6. CASE WriteFails
    BY <2>6, FailKeepsSer
  <2>7. CASE ConnectOpens
    BY <2>7, OpensKeepsSer
  <2>8. CASE ConnectFails
    <3>1. /\ serDevice' = 0 /\ serLeft' = (serLeft \/ serDevice # 0)
          /\ UNCHANGED <<serWanted, serActive, serBoard, serChain, serBroken, serAwaits, serCalls>>
      BY <2>8 DEF ConnectFails
    <3>2. SerTypeOK'
      BY <3>1 DEF SerInv, SerTypeOK
    <3>3. Agreed' /\ AwaitsAll' /\ Off'
      BY <3>1 DEF SerInv, Agreed, AwaitsAll, Off
    <3> QED BY <3>2, <3>3 DEF SerInv
  <2>9. CASE Disconnect
    BY <2>9, DisconnectKeepsSer
  <2>10. CASE CloseAllDevices
    BY <2>10, CloseKeepsSer
  <2> QED BY <2>1, <2>2, <2>3, <2>4, <2>5, <2>6, <2>7, <2>8, <2>9, <2>10 DEF SerNext
<1> QED BY <1>1, <1>2, PTL DEF SerSpec

\* PinsFollow: while writes succeed, the board shows what the bridge takes for
\* active once the chain is written.  With no device in the map the board has
\* its pins off, unless it was connected, or a tick switched its pins, while a
\* disconnect was under way, or a failing connect closed it as it was.
THEOREM BoardsFollow == SerSpec => []PinsFollow
<1>1. SerInv => PinsFollow
  BY WrittenAgrees DEF SerInv, Off, PinsFollow
<1> QED BY <1>1, SerInvariance, PTL
-----------------------------------------------------------------------------
(* Pairing a display *)

PairTypeOK ==
  /\ pairPort \in Nat /\ pairTaken \in Nat
  /\ pairOffers \subseteq Nat \ {0} /\ pairSaid \subseteq Nat \ {0}
  /\ pairSent \in Seq([due : BOOLEAN, arrived : BOOLEAN])
  /\ pairReady \in BOOLEAN /\ pairStale \in BOOLEAN

\* What is ready is ready on the port that the display took.
ReadyIsPaired == pairReady /\ ~pairStale => pairTaken = pairPort /\ pairPort # 0

\* A display that has taken an offer is in local mode, and none that has not
\* settled is owed a control.
TakenIsLocal == pairTaken # 0 => pairPage = "local"
NothingOwed == ~Listens => \A i \in DOMAIN pairSent : ~pairSent[i].due

\* What is said to be ready on the port that was taken is about this page.
PairInv == PairTypeOK /\ ReadyIsPaired /\ TakenIsLocal /\ NothingOwed /\ ControlsReach

LEMMA PairInitially == PairInit => PairInv
<1> SUFFICES ASSUME PairInit PROVE PairInv
  OBVIOUS
<1>1. PairTypeOK /\ ReadyIsPaired /\ TakenIsLocal
  <2>1. /\ pairReady = FALSE /\ pairPort = 0 /\ pairOffers = {} /\ pairSaid = {} /\ pairTaken = 0
        /\ pairSent = <<>> /\ pairStale = FALSE
    BY DEF PairInit
  <2>2. pairSent \in Seq([due : BOOLEAN, arrived : BOOLEAN])
    BY <2>1, EmptySeq
  <2> QED BY <2>1, <2>2 DEF PairTypeOK, ReadyIsPaired, TakenIsLocal
<1>2. DOMAIN pairSent = {}
  BY DEF PairInit
<1> QED BY <1>1, <1>2 DEF PairInv, NothingOwed, ControlsReach

\* The steps of the manager that send nothing, by a timer, by hand or by news.
LEMMA ManagerKeepsPair ==
  ASSUME PairInv,
         OpenDisplay \/ PairTimerFires \/ Reconnect \/ HearDisplays \/ (\E p \in pairSaid : HearReady(p))
  PROVE  PairInv'
<1>1. PairTypeOK /\ ReadyIsPaired /\ TakenIsLocal /\ NothingOwed /\ ControlsReach
  BY DEF PairInv
<1>2. UNCHANGED <<pairPage, pairTaken, pairFlight, pairSent>>
  BY DEF OpenDisplay, PairTimerFires, Reconnect, HearDisplays, HearReady, PairDisplay, managerSide,
         displaySide
<1>3. PairTypeOK' /\ ReadyIsPaired'
  <2>1. CASE OpenDisplay \/ HearDisplays
    BY <1>1, <2>1 DEF OpenDisplay, HearDisplays, PairTypeOK, ReadyIsPaired, displaySide
  <2>2. CASE PairTimerFires
    BY <1>1, <2>2 DEF PairTimerFires, TimerPairs, PairDisplay, PairTypeOK, ReadyIsPaired, managerSide,
                      displaySide
  <2>3. CASE Reconnect
    BY <1>1, <2>3 DEF Reconnect, PairDisplay, PairTypeOK, ReadyIsPaired, displaySide
  <2>4. CASE \E p \in pairSaid : HearReady(p)
    BY <1>1, <2>4 DEF HearReady, PairTypeOK, ReadyIsPaired, displaySide
  <2> QED BY <2>1, <2>2, <2>3, <2>4
<1>4. TakenIsLocal' /\ NothingOwed' /\ ControlsReach'
  BY <1>1, <1>2 DEF TakenIsLocal, NothingOwed, ControlsReach, Listens
<1> QED BY <1>3, <1>4 DEF PairInv

LEMMA SendKeepsPair ==
  ASSUME PairInv, SendControl PROVE PairInv'
<1> DEFINE local == pairStatus = "connected"
           ready == local /\ pairReady
           id == Len(pairSent) + 1
           new == [due |-> Listens /\ ~pairStale /\ (ready \/ (pairKnown /\ pairPresent)), arrived |-> FALSE]
<1>1. PairTypeOK /\ ReadyIsPaired /\ TakenIsLocal /\ NothingOwed /\ ControlsReach
  BY DEF PairInv
<1>2. /\ pairFlight' = pairFlight
           \cup (IF local THEN {[id |-> id, over |-> pairPort]} ELSE {})
           \cup (IF ~ready /\ pairKnown THEN {[id |-> id, over |-> 0]} ELSE {})
      /\ pairSent' = Append(pairSent, new)
      /\ UNCHANGED <<managerSide, displaySide, pairLeft, pairOffers, pairSaid, pairStale>>
  BY DEF SendControl
<1>3. new \in [due : BOOLEAN, arrived : BOOLEAN]
  OBVIOUS
<1>4. new.due => Listens /\ ~pairStale /\ (ready \/ (pairKnown /\ pairPresent))
  OBVIOUS
<1>5. UNCHANGED <<pairReady, pairPort, pairPage, pairTaken, pairOffers, pairSaid, pairStale>>
  BY <1>2 DEF managerSide, displaySide
<1>6. new.due => \E c \in pairFlight' : c.id = id /\ (c.over = 0 \/ c.over = pairTaken)
  <2>1. CASE ready
    <3>1. [id |-> id, over |-> pairPort] \in pairFlight'
      BY <1>2, <2>1
    <3>2. new.due => pairTaken = pairPort
      BY <1>1, <1>4, <2>1 DEF ReadyIsPaired
    <3> QED BY <3>1, <3>2
  <2>2. CASE ~ready
    <3>1. new.due => pairKnown
      BY <1>4, <2>2
    <3>2. pairKnown => [id |-> id, over |-> 0] \in pairFlight'
      BY <1>2, <2>2
    <3> QED BY <3>1, <3>2
  <2> QED BY <2>1, <2>2
<1>7. pairFlight \subseteq pairFlight'
  BY <1>2
<1> HIDE DEF new, local, ready
<1>8. /\ pairSent' \in Seq([due : BOOLEAN, arrived : BOOLEAN])
      /\ DOMAIN pairSent' = (DOMAIN pairSent) \cup {id}
      /\ \A i \in DOMAIN pairSent : pairSent'[i] = pairSent[i] /\ pairSent'[id] = new
      /\ pairSent'[id] = new
  <2>1. pairSent \in Seq([due : BOOLEAN, arrived : BOOLEAN])
    BY <1>1 DEF PairTypeOK
  <2> QED BY <1>2, <1>3, <2>1, AppendProperties, LenProperties
<1>9. PairTypeOK' /\ ReadyIsPaired' /\ TakenIsLocal'
  BY <1>1, <1>5, <1>8 DEF PairTypeOK, ReadyIsPaired, TakenIsLocal
<1>10. NothingOwed'
  BY <1>1, <1>4, <1>5, <1>8 DEF NothingOwed, Listens
<1>11. ControlsReach'
  <2>1. ASSUME NEW i \in DOMAIN pairSent', pairSent'[i].due
        PROVE  \/ pairSent'[i].arrived
               \/ \E c \in pairFlight' : c.id = i /\ (c.over = 0 \/ c.over = pairTaken')
    <3>1. CASE i \in DOMAIN pairSent
      BY <1>1, <1>5, <1>7, <1>8, <2>1, <3>1 DEF ControlsReach
    <3>2. CASE i = id
      BY <1>5, <1>6, <1>8, <2>1, <3>2
    <3> QED BY <1>8, <3>1, <3>2
  <2> QED BY <2>1 DEF ControlsReach
<1> QED BY <1>9, <1>10, <1>11 DEF PairInv

\* The steps of the display that execute nothing, up to taking an offer.
LEMMA DisplayKeepsPair ==
  ASSUME PairInv,
         InitializeDisplay \/ PresenceConnects \/ PairTimesOut \/ AssetsLoaded
           \/ (\E p \in pairOffers : OfferArrives(p))
  PROVE  PairInv'
<1>1. PairTypeOK /\ ReadyIsPaired /\ TakenIsLocal /\ NothingOwed /\ ControlsReach
  BY DEF PairInv
<1>2. UNCHANGED <<pairReady, pairPort, pairFlight, pairSent>>
  BY DEF InitializeDisplay, PresenceConnects, PairTimesOut, AssetsLoaded, OfferArrives, managerSide
<1>3. PairTypeOK'
  <2>1. CASE InitializeDisplay \/ PresenceConnects \/ PairTimesOut
    BY <1>1, <1>2, <2>1 DEF InitializeDisplay, PresenceConnects, PairTimesOut, PairTypeOK
  <2>2. CASE AssetsLoaded
    BY <1>1, <1>2, <2>2 DEF AssetsLoaded, SaysReady, PairTypeOK
  <2>3. CASE \E p \in pairOffers : OfferArrives(p)
    BY <1>1, <1>2, <2>3 DEF OfferArrives, SaysReady, PairTypeOK
  <2> QED BY <2>1, <2>2, <2>3
<1>4. CASE InitializeDisplay \/ PresenceConnects \/ PairTimesOut \/ AssetsLoaded
  <2>1. UNCHANGED <<pairTaken, pairStale>>
    BY <1>4 DEF InitializeDisplay, PresenceConnects, PairTimesOut, AssetsLoaded
  <2>2. pairPage' = pairPage \/ (pairPage \in {"unloaded", "pending"} /\ pairPage' \in {"pending", "server"})
    BY <1>4 DEF InitializeDisplay, PresenceConnects, PairTimesOut, AssetsLoaded
  <2>3. ReadyIsPaired' /\ TakenIsLocal'
    BY <1>1, <1>2, <2>1, <2>2 DEF ReadyIsPaired, TakenIsLocal
  <2>4. NothingOwed'
    BY <1>1, <1>2, <2>2 DEF NothingOwed, Listens
  <2>5. ControlsReach'
    BY <1>1, <1>2, <2>1 DEF ControlsReach
  <2> QED BY <1>3, <2>3, <2>4, <2>5 DEF PairInv
<1>5. CASE \E p \in pairOffers : OfferArrives(p)
  <2>1. PICK p \in pairOffers : OfferArrives(p)
    BY <1>5
  <2>2. CASE pairPage \in {"pending", "server"}
    <3>1. pairPage' = "local" /\ pairTaken' = p /\ pairStale' = (pairStale /\ p # pairPort)
      BY <2>1, <2>2 DEF OfferArrives
    <3>2. pairTaken = 0
      BY <1>1, <2>2 DEF TakenIsLocal
    <3>3. ReadyIsPaired'
      <4>1. ~(pairReady /\ ~pairStale)
        BY <1>1, <3>2 DEF ReadyIsPaired
      <4>2. p # 0
        BY <1>1, <2>1 DEF PairTypeOK
      <4>3. CASE p = pairPort
        BY <1>2, <3>1, <4>2, <4>3 DEF ReadyIsPaired
      <4>4. CASE p # pairPort
        BY <1>2, <3>1, <4>1, <4>4 DEF ReadyIsPaired
      <4> QED BY <4>3, <4>4
    <3>4. TakenIsLocal' /\ NothingOwed' /\ ControlsReach'
      BY <1>1, <1>2, <3>1, <3>2 DEF TakenIsLocal, NothingOwed, ControlsReach, Listens
    <3> QED BY <1>3, <3>3, <3>4 DEF PairInv
  <2>3. CASE pairPage \notin {"pending", "server"}
    <3>1. UNCHANGED <<pairPage, pairTaken, pairStale>>
      BY <2>1, <2>3 DEF OfferArrives
    <3> QED BY <1>1, <1>2, <1>3, <3>1
            DEF PairInv, ReadyIsPaired, TakenIsLocal, NothingOwed, ControlsReach, Listens
  <2> QED BY <2>2, <2>3
<1> QED BY <1>4, <1>5

LEMMA ArrivalKeepsPair ==
  ASSUME PairInv, NEW c \in pairFlight, ControlArrives(c) PROVE PairInv'
<1>1. PairTypeOK /\ ReadyIsPaired /\ TakenIsLocal /\ NothingOwed /\ ControlsReach
  BY DEF PairInv
<1>2. /\ IF c.over = 0 THEN pairPage # "unloaded" ELSE c.over = pairTaken
      /\ pairFlight' = pairFlight \ {c}
      /\ pairSent' = IF Listens THEN [pairSent EXCEPT ![c.id].arrived = TRUE] ELSE pairSent
      /\ UNCHANGED <<pairReady, pairPort, pairPage, pairTaken, pairOffers, pairSaid, pairStale>>
  BY DEF ControlArrives, managerSide, displaySide
<1>3. pairSent \in Seq([due : BOOLEAN, arrived : BOOLEAN])
  BY <1>1 DEF PairTypeOK
<1>4. /\ pairSent' \in Seq([due : BOOLEAN, arrived : BOOLEAN])
      /\ DOMAIN pairSent' = DOMAIN pairSent
      /\ \A i \in DOMAIN pairSent :
           /\ pairSent'[i].due = pairSent[i].due
           /\ i # c.id => pairSent'[i] = pairSent[i]
           /\ i = c.id => pairSent'[i].arrived = (Listens \/ pairSent[i].arrived)
  <2>1. CASE Listens
    <3>1. pairSent' = [pairSent EXCEPT ![c.id].arrived = TRUE]
      BY <1>2, <2>1
    <3>2. /\ DOMAIN pairSent = 1..Len(pairSent) /\ Len(pairSent) \in Nat
          /\ \A i \in 1..Len(pairSent) : pairSent[i] \in [due : BOOLEAN, arrived : BOOLEAN]
      BY <1>3, ElementOfSeq, LenProperties
    <3>3. DOMAIN pairSent' = DOMAIN pairSent
      BY <3>1
    <3>4. \A i \in DOMAIN pairSent :
            pairSent'[i] = IF i = c.id THEN [pairSent[i] EXCEPT !.arrived = TRUE] ELSE pairSent[i]
      BY <3>1
    <3>5. \A i \in DOMAIN pairSent : /\ pairSent'[i] \in [due : BOOLEAN, arrived : BOOLEAN]
                                     /\ pairSent'[i].due = pairSent[i].due
                                     /\ i = c.id => pairSent'[i].arrived = TRUE
      BY <3>2, <3>4
    <3>6. pairSent' \in Seq([due : BOOLEAN, arrived : BOOLEAN])
      <4>1. pairSent' \in [1..Len(pairSent) -> [due : BOOLEAN, arrived : BOOLEAN]]
        <5>1. pairSent' \in [DOMAIN pairSent -> [due : BOOLEAN, arrived : BOOLEAN]]
          BY <3>1, <3>3, <3>5
        <5> QED BY <3>2, <5>1
      <4> QED BY <1>3, <3>2, <4>1
    <3> QED BY <2>1, <3>3, <3>4, <3>5, <3>6
  <2>2. CASE ~Listens
    <3>1. \A i \in DOMAIN pairSent : pairSent[i].arrived \in BOOLEAN
      <4>1. DOMAIN pairSent = 1..Len(pairSent)
        BY <1>3, LenProperties
      <4>2. \A i \in DOMAIN pairSent : pairSent[i] \in [due : BOOLEAN, arrived : BOOLEAN]
        BY <1>3, <4>1, ElementOfSeq
      <4> QED BY <4>2
    <3> QED BY <1>2, <1>3, <2>2, <3>1
  <2> QED BY <2>1, <2>2
<1>5. PairTypeOK' /\ ReadyIsPaired' /\ TakenIsLocal'
  BY <1>1, <1>2, <1>4 DEF PairTypeOK, ReadyIsPaired, TakenIsLocal
<1>6. NothingOwed'
  BY <1>1, <1>2, <1>4 DEF NothingOwed, Listens
<1>7. ControlsReach'
  <2>1. ASSUME NEW i \in DOMAIN pairSent', pairSent'[i].due
        PROVE  \/ pairSent'[i].arrived
               \/ \E d \in pairFlight' : d.id = i /\ (d.over = 0 \/ d.over = pairTaken')
    <3>1. i \in DOMAIN pairSent /\ pairSent[i].due
      BY <1>4, <2>1
    <3>2. Listens
      BY <1>1, <3>1 DEF NothingOwed
    <3>3. CASE i = c.id
      BY <1>4, <3>1, <3>2, <3>3
    <3>4. CASE i # c.id
      BY <1>1, <1>2, <1>4, <3>1, <3>4 DEF ControlsReach
    <3> QED BY <3>3, <3>4
  <2> QED BY <2>1 DEF ControlsReach
<1> QED BY <1>5, <1>6, <1>7 DEF PairInv

LEMMA ReloadKeepsPair ==
  ASSUME PairInv, ReloadDisplay PROVE PairInv'
<1>1. PairTypeOK
  BY DEF PairInv
<1>2. /\ pairPage' = "unloaded" /\ pairTaken' = 0 /\ pairStale' = (pairStale \/ pairReady)
      /\ pairSent' = [i \in DOMAIN pairSent |-> [pairSent[i] EXCEPT !.due = FALSE]]
      /\ UNCHANGED <<pairReady, pairPort, pairOffers, pairSaid>>
  BY DEF ReloadDisplay, managerSide
<1>3. /\ pairSent' \in Seq([due : BOOLEAN, arrived : BOOLEAN])
      /\ \A i \in DOMAIN pairSent' : ~pairSent'[i].due
  <2>1. /\ pairSent \in Seq([due : BOOLEAN, arrived : BOOLEAN])
        /\ DOMAIN pairSent = 1..Len(pairSent) /\ Len(pairSent) \in Nat
        /\ \A i \in 1..Len(pairSent) : pairSent[i] \in [due : BOOLEAN, arrived : BOOLEAN]
    BY <1>1, ElementOfSeq, LenProperties DEF PairTypeOK
  <2>2. pairSent' \in [1..Len(pairSent) -> [due : BOOLEAN, arrived : BOOLEAN]]
    BY <1>2, <2>1
  <2>3. \A i \in DOMAIN pairSent' : ~pairSent'[i].due
    BY <1>2, <2>1
  <2> QED BY <2>1, <2>2, <2>3
<1>4. PairTypeOK' /\ ReadyIsPaired' /\ TakenIsLocal'
  BY <1>1, <1>2, <1>3 DEF PairTypeOK, ReadyIsPaired, TakenIsLocal
<1>5. NothingOwed' /\ ControlsReach'
  BY <1>3 DEF NothingOwed, ControlsReach
<1> QED BY <1>4, <1>5 DEF PairInv

\* The inductive invariant of the pairing.
THEOREM PairInvariance == PairSpec => []PairInv
<1>1. PairInv /\ [PairNext]_pairVars => PairInv'
  <2> SUFFICES ASSUME PairInv, [PairNext]_pairVars PROVE PairInv'
    OBVIOUS
  <2>1. CASE OpenDisplay \/ PairTimerFires \/ Reconnect \/ HearDisplays \/ (\E p \in pairSaid : HearReady(p))
    BY <2>1, ManagerKeepsPair
  <2>2. CASE SendControl
    BY <2>2, SendKeepsPair
  <2>3. CASE InitializeDisplay \/ PresenceConnects \/ PairTimesOut \/ AssetsLoaded
               \/ (\E p \in pairOffers : OfferArrives(p))
    BY <2>3, DisplayKeepsPair
  <2>4. CASE \E c \in pairFlight : ControlArrives(c)
    BY <2>4, ArrivalKeepsPair
  <2>5. CASE ReloadDisplay
    BY <2>5, ReloadKeepsPair
  <2>6. CASE UNCHANGED pairVars
    BY <2>6 DEF pairVars, PairInv, PairTypeOK, ReadyIsPaired, TakenIsLocal, NothingOwed, ControlsReach,
                Listens
  <2> QED BY <2>1, <2>2, <2>3, <2>4, <2>5, <2>6 DEF PairNext
<1> QED BY <1>1, PairInitially, PTL DEF PairSpec

\* ControlsReach: a control sent to a display that listens is executed or on
\* its way to it, whatever the order of retries, offers, time-out and answer,
\* unless the display was reloaded or paired anew after it was ready.
THEOREM DisplaysAreReached == PairSpec => []ControlsReach
BY PairInvariance, PTL DEF PairInv
-----------------------------------------------------------------------------
(* Readiness reports *)

Perms == [kind : {"permissions"}, is : BOOLEAN]
Preloads == [kind : {"preload"}, is : Readiness]
Lists == [kind : {"list"}, is : Record \cup {RepNone}]
Shows == [mic : BOOLEAN \cup {RepNone}, ready : Readiness \cup {RepNone}]

RepTypeOK ==
  /\ repLink \in {"down", "up", "registered"}
  /\ repPage \in [preload : Readiness, mic : BOOLEAN]
  /\ repLast \in Readiness \cup {RepNone}
  /\ repToServer \in Seq(Perms \cup Preloads)
  /\ repRecord \in Record \cup {RepNone}
  /\ repViewers \subseteq Viewer /\ repTold \subseteq repViewers
  /\ repToViewer \in [Viewer -> Seq(Lists \cup Preloads)]
  /\ repView \in [Viewer -> Shows]

\* The server has a record of a client that is up, and a page that is
\* registered has noted the permission it has.
UpIsRecorded ==
  /\ repLink # "down" => repRecord # RepNone
  /\ repLink = "registered" => repLastMic = repPage.mic

\* The last status reported on a change is older than what is to come.
LastIsOld ==
  repLast # RepNone =>
    \/ repLast.manifest < repPage.preload.manifest
    \/ /\ repLast.manifest = repPage.preload.manifest
       /\ repPage.preload.status = "loading" => repLast.status = "loading"

\* The server has the permission, or hears of it.
MicComes ==
  repLink = "registered" =>
    /\ LastIs(repToServer, Perms, Permissions(repPage.mic))
    /\ Places(repToServer, Perms) = {} => repRecord = [mic |-> repPage.mic]

\* A manager shows the record of the server, or hears of it.
MicOf(record) == IF record = RepNone THEN RepNone ELSE record.mic
ListComes(list, view, record) ==
  /\ LastIs(list, Lists, ClientList(record))
  /\ Places(list, Lists) = {} => view.mic = MicOf(record)

\* A manager shows a status, or hears of it after the last list that resets it.
StatusComes(list, view, status) ==
  /\ LastIs(list, Preloads, Preload(status))
  /\ Places(list, Preloads) = {} => view.ready = status
  /\ \A i \in Places(list, {ClientList(RepNone)}) : \E j \in Places(list, Preloads) : i < j

ReadyComes ==
  repLink = "registered" /\ repPage.preload.status # "idle" =>
    /\ LastIs(repToServer, Preloads, Preload(repPage.preload))
    /\ Places(repToServer, Preloads) = {} =>
         \A m \in repTold : StatusComes(repToViewer[m], repView[m], repPage.preload)

ListsCome == \A m \in repViewers : ListComes(repToViewer[m], repView[m], repRecord)

RepInv == RepTypeOK /\ UpIsRecorded /\ LastIsOld /\ MicComes /\ ListsCome /\ ReadyComes

\* Messages of one kind are not of another.
LEMMA MessageKinds ==
  /\ \A g \in BOOLEAN : Permissions(g) \in Perms /\ Permissions(g) \notin Preloads
  /\ \A s \in Readiness : Preload(s) \in Preloads /\ Preload(s) \notin Perms /\ Preload(s) \notin Lists
                          /\ Preload(s) # ClientList(RepNone)
  /\ \A r \in Record \cup {RepNone} : ClientList(r) \in Lists /\ ClientList(r) \notin Preloads
  /\ \A r \in Record : ClientList(r) # ClientList(RepNone)
<1>1. \A r \in Record : ClientList(r) # ClientList(RepNone)
  <2>1. \A r : ClientList(r).is = r
    BY DEF ClientList
  <2> QED BY <2>1, ReportAssumption DEF ReportAssumption
<1> QED BY <1>1 DEF Permissions, Preload, ClientList, Perms, Preloads, Lists

\* A list of the record keeps what is to come, and brings the record.
LEMMA ListsForwarded ==
  ASSUME NEW list \in Seq(Lists \cup Preloads), NEW view, NEW record \in Record \cup {RepNone}
  PROVE  /\ Append(list, ClientList(record)) \in Seq(Lists \cup Preloads)
         /\ ListComes(Append(list, ClientList(record)), view, record)
<1>1. ClientList(record) \in Lists /\ ClientList(record) \in Lists \cup Preloads
  BY MessageKinds
<1> QED BY <1>1, LastOfAppend, AppendProperties DEF ListComes

LEMMA StatusSurvivesList ==
  ASSUME NEW list \in Seq(Lists \cup Preloads), NEW view, NEW record \in Record, NEW status,
         StatusComes(list, view, status)
  PROVE  StatusComes(Append(list, ClientList(record)), view, status)
<1>1. /\ ClientList(record) \in Lists \cup Preloads /\ ClientList(record) \notin Preloads
      /\ ClientList(record) \notin {ClientList(RepNone)}
  BY MessageKinds
<1>2. PICK list2 : list2 = Append(list, ClientList(record))
  OBVIOUS
<1>3. Places(list2, Preloads) = Places(list, Preloads) /\ LastIs(list2, Preloads, Preload(status))
  BY <1>1, <1>2, LastOfAppend DEF StatusComes
<1>4. Places(list2, {ClientList(RepNone)}) = Places(list, {ClientList(RepNone)})
  BY <1>1, <1>2, LastOfAppend
<1>5. StatusComes(list2, view, status)
  BY <1>3, <1>4 DEF StatusComes
<1> QED BY <1>2, <1>5

\* A status that is forwarded is the last one, and leaves the lists alone.
LEMMA StatusForwarded ==
  ASSUME NEW list \in Seq(Lists \cup Preloads), NEW view, NEW status \in Readiness, NEW record
  PROVE  /\ Append(list, Preload(status)) \in Seq(Lists \cup Preloads)
         /\ StatusComes(Append(list, Preload(status)), view, status)
         /\ ListComes(list, view, record) => ListComes(Append(list, Preload(status)), view, record)
<1>1. /\ Preload(status) \in Lists \cup Preloads /\ Preload(status) \in Preloads
      /\ Preload(status) \notin Lists /\ Preload(status) \notin {ClientList(RepNone)}
  BY MessageKinds
<1>2. PICK list2 : list2 = Append(list, Preload(status))
  OBVIOUS
<1>3. LastIs(list2, Preloads, Preload(status)) /\ Places(list2, Preloads) # {}
  BY <1>1, <1>2, LastOfAppend
<1>4. \A i \in Places(list2, {ClientList(RepNone)}) : \E j \in Places(list2, Preloads) : i < j
  <2>1. Len(list) \in Nat
    BY LenProperties
  <2>2. \A i \in Places(list2, {ClientList(RepNone)}) : i \in 1..Len(list)
    BY <1>1, <1>2, PlacesOfAppend
  <2>3. Len(list) + 1 \in Places(list2, Preloads)
    BY <1>1, <1>2, PlacesOfAppend
  <2> QED BY <2>1, <2>2, <2>3
<1>5. ListComes(list, view, record) => ListComes(list2, view, record)
  BY <1>1, <1>2, LastOfAppend DEF ListComes
<1>6. list2 \in Seq(Lists \cup Preloads)
  BY <1>1, <1>2, AppendProperties
<1>7. StatusComes(list2, view, status)
  BY <1>3, <1>4 DEF StatusComes
<1> QED BY <1>2, <1>5, <1>6, <1>7

\* What a manager reads brings it closer to what is to come.
LEMMA ReadingComes ==
  ASSUME NEW list \in Seq(Lists \cup Preloads), list # <<>>, NEW view \in Shows,
         NEW record \in Record \cup {RepNone}, NEW view2, view2 = Applied(view, Head(list))
  PROVE  /\ Tail(list) \in Seq(Lists \cup Preloads) /\ view2 \in Shows
         /\ ListComes(list, view, record) => ListComes(Tail(list), view2, record)
<1>1. PICK e \in Lists \cup Preloads : e = Head(list)
  BY HeadTailProperties
<1>2. Tail(list) \in Seq(Lists \cup Preloads)
  BY HeadTailProperties
<1>3. Seen(view) \in Readiness
  <2>1. Of("connected", 0) \in Readiness
    BY DEF Of, Readiness
  <2>2. view.ready \in Readiness \cup {RepNone}
    BY DEF Shows
  <2> QED BY <2>1, <2>2 DEF Seen
<1>4. CASE e \in Lists
  <2>1. e.kind = "list" /\ e.is \in Record \cup {RepNone} /\ e = ClientList(e.is)
    BY <1>4 DEF Lists, ClientList
  <2>2. view2 = IF e.is = RepNone THEN Unknown ELSE [mic |-> e.is.mic, ready |-> Seen(view)]
    BY <1>1, <2>1 DEF Applied
  <2>3. view2 \in Shows /\ view2.mic = MicOf(e.is)
    BY <1>3, <2>1, <2>2 DEF Shows, Unknown, Record, MicOf
  <2>4. ASSUME ListComes(list, view, record) PROVE ListComes(Tail(list), view2, record)
    <3>1. LastIs(list, Lists, ClientList(record))
      BY <2>4 DEF ListComes
    <3>2. /\ LastIs(Tail(list), Lists, ClientList(record))
          /\ Places(Tail(list), Lists) = {} =>
               Places(list, Lists) = {} \/ (Head(list) \in Lists /\ Head(list) = ClientList(record))
      BY <3>1, LastOfTail
    <3>3. 1 \in Places(list, Lists)
      BY <1>1, <1>4, PlacesOfTail
    <3>4. Places(Tail(list), Lists) = {} => e.is = record
      BY <1>1, <2>1, <3>2, <3>3 DEF ClientList
    <3> QED BY <2>3, <3>2, <3>4 DEF ListComes
  <2> QED BY <1>2, <2>3, <2>4
<1>5. CASE e \in Preloads
  <2>1. e.kind = "preload" /\ e.is \in Readiness /\ e \notin Lists
    BY <1>5 DEF Preloads, Lists
  <2>2. view2 = [view EXCEPT !.ready = IF e.is.status = "idle" THEN Seen(view) ELSE e.is]
    BY <1>1, <2>1 DEF Applied
  <2>3. view2 \in Shows /\ view2.mic = view.mic
    BY <1>3, <2>1, <2>2 DEF Shows
  <2>4. ASSUME ListComes(list, view, record) PROVE ListComes(Tail(list), view2, record)
    <3>1. LastIs(list, Lists, ClientList(record))
      BY <2>4 DEF ListComes
    <3>2. /\ LastIs(Tail(list), Lists, ClientList(record))
          /\ Places(Tail(list), Lists) = {} =>
               Places(list, Lists) = {} \/ (Head(list) \in Lists /\ Head(list) = ClientList(record))
      BY <3>1, LastOfTail
    <3> QED BY <1>1, <2>1, <2>3, <2>4, <3>2 DEF ListComes
  <2> QED BY <1>2, <2>3, <2>4
<1> QED BY <1>4, <1>5

LEMMA StatusRead ==
  ASSUME NEW list \in Seq(Lists \cup Preloads), list # <<>>, NEW view \in Shows,
         NEW status \in Readiness, status.status # "idle",
         NEW view2, view2 = Applied(view, Head(list)), StatusComes(list, view, status)
  PROVE  StatusComes(Tail(list), view2, status)
<1>1. PICK e \in Lists \cup Preloads : e = Head(list)
  BY HeadTailProperties
<1>2. PICK rest : rest = Tail(list)
  OBVIOUS
<1>3. LastIs(list, Preloads, Preload(status))
  BY DEF StatusComes
<1>4. /\ LastIs(rest, Preloads, Preload(status))
      /\ Places(rest, Preloads) = {} =>
           Places(list, Preloads) = {} \/ (e \in Preloads /\ e = Preload(status))
  BY <1>1, <1>2, <1>3, LastOfTail
<1>5. /\ \A j : j \in Places(rest, Preloads) <=> j \in Nat \ {0} /\ j + 1 \in Places(list, Preloads)
      /\ \A j : j \in Places(rest, {ClientList(RepNone)}) <=>
                  j \in Nat \ {0} /\ j + 1 \in Places(list, {ClientList(RepNone)})
      /\ 1 \in Places(list, {ClientList(RepNone)}) <=> e \in {ClientList(RepNone)}
      /\ 1 \in Places(list, Preloads) <=> e \in Preloads
  BY <1>1, <1>2, PlacesOfTail
<1>6. ASSUME NEW i \in Places(rest, {ClientList(RepNone)})
      PROVE  \E j \in Places(rest, Preloads) : i < j
  <2>1. i \in Nat \ {0} /\ i + 1 \in Places(list, {ClientList(RepNone)})
    BY <1>5, <1>6
  <2>2. PICK j \in Places(list, Preloads) : i + 1 < j
    BY <2>1 DEF StatusComes
  <2>3. j \in Nat
    BY LenProperties DEF Places
  <2>4. j - 1 \in Nat \ {0} /\ (j - 1) + 1 = j /\ i < j - 1
    BY <2>1, <2>2, <2>3
  <2>5. j - 1 \in Places(rest, Preloads)
    BY <1>5, <2>2, <2>4
  <2> QED BY <2>4, <2>5
<1>7. ASSUME Places(rest, Preloads) = {} PROVE view2.ready = status
  <2>1. CASE e \in Preloads
    <3>1. e = Preload(status)
      BY <1>4, <1>5, <1>7, <2>1
    <3>2. e.kind = "preload" /\ e.is = status
      BY <3>1 DEF Preload
    <3>3. view2 = [view EXCEPT !.ready = status]
      BY <1>1, <3>2 DEF Applied
    <3> QED BY <3>3 DEF Shows
  <2>2. CASE e \notin Preloads
    <3>1. e.kind = "list" /\ e.is \in Record \cup {RepNone} /\ e = ClientList(e.is)
      BY <1>1, <2>2 DEF Lists, ClientList
    <3>2. Places(list, Preloads) = {}
      BY <1>4, <1>7, <2>2
    <3>3. e # ClientList(RepNone) /\ view.ready = status
      BY <1>5, <3>2 DEF StatusComes
    <3>4. e.is # RepNone
      BY <3>1, <3>3
    <3>5. view2 = [mic |-> e.is.mic, ready |-> Seen(view)]
      BY <1>1, <3>1, <3>4 DEF Applied
    <3>6. Seen(view) = status
      BY <3>3, ReportAssumption DEF Seen, ReportAssumption
    <3> QED BY <3>5, <3>6
  <2> QED BY <2>1, <2>2
<1>8. StatusComes(rest, view2, status)
  BY <1>4, <1>6, <1>7 DEF StatusComes
<1> QED BY <1>2, <1>8

\* What is forwarded comes after what was on its way, at each of the managers.
LEMMA ForwardedLists ==
  ASSUME RepTypeOK, NEW to, NEW record \in Record \cup {RepNone}, NEW lists,
         lists = Forward(ClientList(record), to)
  PROVE  /\ lists \in [Viewer -> Seq(Lists \cup Preloads)]
         /\ \A m \in Viewer : m \in to => /\ lists[m] = Append(repToViewer[m], ClientList(record))
                                          /\ \A view : ListComes(lists[m], view, record)
<1>1. \A m \in Viewer : repToViewer[m] \in Seq(Lists \cup Preloads)
  BY DEF RepTypeOK
<1>2. \A m \in Viewer : /\ Append(repToViewer[m], ClientList(record)) \in Seq(Lists \cup Preloads)
                        /\ \A view : ListComes(Append(repToViewer[m], ClientList(record)), view, record)
  BY <1>1, ListsForwarded
<1>3. \A m \in Viewer : lists[m] = IF m \in to THEN Append(repToViewer[m], ClientList(record))
                                   ELSE repToViewer[m]
  BY DEF Forward
<1>4. lists = [m \in Viewer |-> lists[m]]
  BY DEF Forward
<1>5. \A m \in Viewer : lists[m] \in Seq(Lists \cup Preloads)
  BY <1>1, <1>2, <1>3
<1>6. lists \in [Viewer -> Seq(Lists \cup Preloads)]
  BY <1>4, <1>5
<1> QED BY <1>2, <1>3, <1>6

LEMMA ForwardedStatus ==
  ASSUME RepTypeOK, NEW status \in Readiness, NEW lists, lists = Forward(Preload(status), repViewers)
  PROVE  /\ lists \in [Viewer -> Seq(Lists \cup Preloads)]
         /\ \A m \in repViewers : \A view : StatusComes(lists[m], view, status)
         /\ \A m \in repViewers : \A view, record :
              ListComes(repToViewer[m], view, record) => ListComes(lists[m], view, record)
<1>1. \A m \in Viewer : repToViewer[m] \in Seq(Lists \cup Preloads)
  BY DEF RepTypeOK
<1>2. repViewers \subseteq Viewer
  BY DEF RepTypeOK
<1>3. \A m \in Viewer : lists[m] = IF m \in repViewers THEN Append(repToViewer[m], Preload(status))
                                   ELSE repToViewer[m]
  BY DEF Forward
<1>4. lists = [m \in Viewer |-> lists[m]]
  BY DEF Forward
<1>5. \A m \in Viewer : lists[m] \in Seq(Lists \cup Preloads)
  BY <1>1, <1>3, StatusForwarded
<1>6. lists \in [Viewer -> Seq(Lists \cup Preloads)]
  BY <1>4, <1>5
<1>7. \A m \in repViewers : \A view : StatusComes(lists[m], view, status)
  BY <1>1, <1>2, <1>3, StatusForwarded
<1>8. \A m \in repViewers : \A view, record :
        ListComes(repToViewer[m], view, record) => ListComes(lists[m], view, record)
  BY <1>1, <1>2, <1>3, StatusForwarded
<1> QED BY <1>6, <1>7, <1>8

\* After an update of the state both reports are on their way, the last of their kinds.
LEMMA StateReported ==
  ASSUME RepTypeOK
  PROVE  /\ repToServer \o StateReports \in Seq(Perms \cup Preloads)
         /\ LastIs(repToServer \o StateReports, Perms, Permissions(repPage.mic))
         /\ Places(repToServer \o StateReports, Perms) # {}
         /\ LastIs(repToServer \o StateReports, Preloads, Preload(repPage.preload))
         /\ Places(repToServer \o StateReports, Preloads) # {}
<1>1. PICK g \in BOOLEAN : g = repPage.mic
  BY DEF RepTypeOK
<1>2. PICK s \in Readiness : s = repPage.preload
  BY DEF RepTypeOK
<1>3. /\ Permissions(g) \in Perms \cup Preloads /\ Preload(s) \in Perms \cup Preloads
      /\ Permissions(g) \in Perms /\ Permissions(g) \notin Preloads
      /\ Preload(s) \in Preloads /\ Preload(s) \notin Perms
  BY MessageKinds
<1>4. PICK p \in Perms \cup Preloads, q \in Perms \cup Preloads : p = Permissions(g) /\ q = Preload(s)
  BY <1>3
<1>5. p \in Perms /\ p \notin Preloads /\ q \in Preloads /\ q \notin Perms
  BY <1>3, <1>4
<1>6. repToServer \in Seq(Perms \cup Preloads)
  BY DEF RepTypeOK
<1>7. PICK one \in Seq(Perms \cup Preloads) : one = Append(repToServer, p)
  BY <1>6, AppendProperties
<1>8. PICK two \in Seq(Perms \cup Preloads) : two = Append(one, q)
  BY AppendProperties
<1>9. repToServer \o StateReports = two
  <2>1. repToServer \o <<p, q>> = Append(Append(repToServer, p), q)
    BY <1>6
  <2> QED BY <1>1, <1>2, <1>4, <1>7, <1>8, <2>1 DEF StateReports
<1>10. LastIs(one, Perms, p) /\ Places(one, Perms) # {}
  BY <1>5, <1>6, <1>7, LastOfAppend
<1>11. LastIs(two, Perms, p) /\ Places(two, Perms) # {}
  <2>1. Places(two, Perms) = Places(one, Perms)
    BY <1>5, <1>8, LastOfAppend
  <2>2. LastIs(two, Perms, p)
    BY <1>5, <1>8, <1>10, LastOfAppend
  <2> QED BY <1>10, <2>1, <2>2
<1>12. LastIs(two, Preloads, q) /\ Places(two, Preloads) # {}
  <2>1. /\ Places(Append(one, q), Preloads) # {}
        /\ q = q => LastIs(Append(one, q), Preloads, q)
    BY <1>5, LastOfAppend, Zenon
  <2> QED BY <1>8, <2>1
<1> QED BY <1>1, <1>2, <1>4, <1>9, <1>11, <1>12

LEMMA RepStarts ==
  ASSUME ReportInit PROVE RepInv
<1>1. NewPage \in [preload : Readiness, mic : BOOLEAN] /\ Unknown \in Shows
  BY DEF NewPage, Of, Readiness, Unknown, Shows
<1>2. RepTypeOK
  BY <1>1 DEF ReportInit, RepTypeOK
<1>3. UpIsRecorded /\ LastIsOld /\ MicComes /\ ListsCome /\ ReadyComes
  BY DEF ReportInit, UpIsRecorded, LastIsOld, MicComes, ListsCome, ReadyComes
<1> QED BY <1>2, <1>3 DEF RepInv

LEMMA StateChangesKeep ==
  ASSUME RepInv, repLink # "down", repLink' = "registered", StateChanges,
         UNCHANGED <<repPage, repLast, repServer, repToViewer, repView>>
  PROVE  RepInv'
<1>1. /\ repToServer' \in Seq(Perms \cup Preloads)
      /\ LastIs(repToServer', Perms, Permissions(repPage.mic)) /\ Places(repToServer', Perms) # {}
      /\ LastIs(repToServer', Preloads, Preload(repPage.preload)) /\ Places(repToServer', Preloads) # {}
  BY StateReported DEF StateChanges, RepInv
<1>2. /\ repPage' = repPage /\ repLast' = repLast /\ repRecord' = repRecord /\ repViewers' = repViewers
      /\ repToViewer' = repToViewer /\ repView' = repView
      /\ repLastMic' = repPage.mic /\ repTold' = repViewers
  BY DEF StateChanges, repServer
<1>3. RepTypeOK'
  BY <1>1, <1>2 DEF RepInv, RepTypeOK
<1>4. UpIsRecorded' /\ LastIsOld'
  BY <1>2 DEF RepInv, UpIsRecorded, LastIsOld
<1>5. MicComes'
  BY <1>1, <1>2 DEF MicComes
<1>6. ListsCome'
  BY <1>2 DEF RepInv, ListsCome
<1>7. ReadyComes'
  BY <1>1, <1>2 DEF ReadyComes
<1> QED BY <1>3, <1>4, <1>5, <1>6, <1>7 DEF RepInv

LEMMA PreloadChangesKeeps ==
  ASSUME RepInv, PreloadChanges PROVE RepInv'
<1>1. PICK s \in NextPreload(repPage.preload) :
        /\ repPage' = [repPage EXCEPT !.preload = s]
        /\ SendsChange(s # repLast, Preload(s))
        /\ repLast' = Notes(repLast, s)
  BY DEF PreloadChanges
<1>2. PICK old \in Readiness : old = repPage.preload
  BY DEF RepInv, RepTypeOK
<1>3. /\ s \in Readiness
      /\ s.manifest = old.manifest + 1 \/ (s.manifest = old.manifest /\ old.status = "loading"
                                            /\ s.status # "loading")
  <2>1. old.manifest \in Nat
    BY DEF Readiness
  <2>2. CASE s \in {Of(t, old.manifest + 1) : t \in {"loading", "ready", "error"}}
    BY <2>1, <2>2 DEF Of, Readiness
  <2>3. CASE old.status = "loading" /\ s \in {Of(t, old.manifest) : t \in {"ready", "error"}}
    BY <2>1, <2>3 DEF Of, Readiness
  <2> QED BY <1>1, <1>2, <2>2, <2>3 DEF NextPreload
<1>4. /\ repLink' = repLink /\ repLastMic' = repLastMic /\ repRecord' = repRecord
      /\ repViewers' = repViewers /\ repToViewer' = repToViewer /\ repView' = repView
      /\ repTold' = repTold
  BY DEF PreloadChanges, repServer
<1>5. repPage' \in [preload : Readiness, mic : BOOLEAN] /\ repPage'.preload = s
      /\ repPage'.mic = repPage.mic
  BY <1>1, <1>3 DEF RepInv, RepTypeOK
<1>6. repLast # RepNone => /\ repLast \in Readiness
                           /\ \/ repLast.manifest < old.manifest
                              \/ /\ repLast.manifest = old.manifest
                                 /\ old.status = "loading" => repLast.status = "loading"
  BY <1>2 DEF RepInv, RepTypeOK, LastIsOld
<1>7. repLast # RepNone => /\ repLast # s
                           /\ \/ repLast.manifest < s.manifest
                              \/ repLast.manifest = s.manifest /\ s.status # "loading"
  <2>1. old.manifest \in Nat /\ (repLast # RepNone => repLast.manifest \in Nat)
    BY <1>6 DEF Readiness
  <2> QED BY <1>3, <1>6, <2>1
<1>8. s # repLast
  BY <1>3, <1>7, ReportAssumption DEF ReportAssumption
<1>9. Preload(s) \in Preloads /\ Preload(s) \notin Perms /\ Preload(s) \in Perms \cup Preloads
  BY <1>3, MessageKinds
<1>10. repToServer \in Seq(Perms \cup Preloads)
  BY DEF RepInv, RepTypeOK
<1>11. repToServer' = IF repLink = "registered" THEN Append(repToServer, Preload(s)) ELSE repToServer
  BY <1>1, <1>8 DEF SendsChange
<1>12. repToServer' \in Seq(Perms \cup Preloads)
  BY <1>9, <1>10, <1>11, AppendProperties
<1>13. repLast' \in Readiness \cup {RepNone}
  BY <1>1, <1>3 DEF Notes, RepInv, RepTypeOK
<1>14. RepTypeOK'
  BY <1>4, <1>5, <1>12, <1>13 DEF RepInv, RepTypeOK
<1>15. UpIsRecorded'
  BY <1>4, <1>5 DEF RepInv, UpIsRecorded
<1>16. LastIsOld'
  <2>1. CASE repLink = "registered"
    <3>1. repLast' = s
      BY <1>1, <2>1 DEF Notes
    <3> QED BY <1>5, <3>1 DEF LastIsOld
  <2>2. CASE repLink # "registered"
    <3>1. repLast' = repLast
      BY <1>1, <2>2 DEF Notes
    <3> QED BY <1>5, <1>7, <3>1 DEF LastIsOld
  <2> QED BY <2>1, <2>2
<1>17. MicComes' /\ ReadyComes'
  <2>1. CASE repLink = "registered"
    <3>1. PICK list : list = Append(repToServer, Preload(s))
      OBVIOUS
    <3>2. /\ LastIs(list, Preloads, Preload(s)) /\ Places(list, Preloads) # {}
          /\ Places(list, Perms) = Places(repToServer, Perms)
          /\ LastIs(repToServer, Perms, Permissions(repPage.mic)) =>
               LastIs(list, Perms, Permissions(repPage.mic))
      BY <1>9, <1>10, <3>1, LastOfAppend
    <3>3. repToServer' = list
      BY <1>11, <2>1, <3>1
    <3>4. MicComes'
      BY <1>4, <1>5, <2>1, <3>2, <3>3 DEF RepInv, MicComes
    <3>5. ReadyComes'
      BY <1>5, <3>2, <3>3 DEF ReadyComes
    <3> QED BY <3>4, <3>5
  <2>2. CASE repLink # "registered"
    BY <1>4, <2>2 DEF MicComes, ReadyComes
  <2> QED BY <2>1, <2>2
<1>18. ListsCome'
  BY <1>4 DEF RepInv, ListsCome
<1> QED BY <1>14, <1>15, <1>16, <1>17, <1>18 DEF RepInv

LEMMA PermissionsChangeKeeps ==
  ASSUME RepInv, PermissionsChange PROVE RepInv'
<1> DEFINE g == ~ repPage.mic
<1>1. g \in BOOLEAN
  OBVIOUS
<1>2. repPage.mic \in BOOLEAN /\ g # repPage.mic
  BY DEF RepInv, RepTypeOK
<1>3. /\ repPage' = [repPage EXCEPT !.mic = g]
      /\ SendsChange(g # repLastMic, Permissions(g))
      /\ repLastMic' = Notes(repLastMic, g)
  BY DEF PermissionsChange
<1> HIDE DEF g
<1>4. /\ repLink' = repLink /\ repLast' = repLast /\ repRecord' = repRecord
      /\ repViewers' = repViewers /\ repToViewer' = repToViewer /\ repView' = repView
      /\ repTold' = repTold
  BY DEF PermissionsChange, repServer
<1>5. repPage' \in [preload : Readiness, mic : BOOLEAN] /\ repPage'.preload = repPage.preload
      /\ repPage'.mic = g
  BY <1>1, <1>3 DEF RepInv, RepTypeOK
<1>6. Permissions(g) \in Perms /\ Permissions(g) \notin Preloads /\ Permissions(g) \in Perms \cup Preloads
  BY <1>1, MessageKinds
<1>7. repToServer \in Seq(Perms \cup Preloads)
  BY DEF RepInv, RepTypeOK
<1>8. repLink = "registered" => g # repLastMic
  BY <1>2 DEF RepInv, UpIsRecorded
<1>9. repToServer' = IF repLink = "registered" THEN Append(repToServer, Permissions(g)) ELSE repToServer
  BY <1>3, <1>8 DEF SendsChange
<1>10. repToServer' \in Seq(Perms \cup Preloads)
  BY <1>6, <1>7, <1>9, AppendProperties
<1>11. RepTypeOK'
  BY <1>4, <1>5, <1>10 DEF RepInv, RepTypeOK
<1>12. UpIsRecorded'
  BY <1>3, <1>4, <1>5 DEF RepInv, UpIsRecorded, Notes
<1>13. LastIsOld'
  BY <1>4, <1>5 DEF RepInv, LastIsOld
<1>14. MicComes' /\ ReadyComes'
  <2>1. CASE repLink = "registered"
    <3>1. PICK e \in Perms \cup Preloads : e = Permissions(g)
      BY <1>6
    <3>2. PICK list : list = Append(repToServer, e)
      OBVIOUS
    <3>3. e \in Perms /\ e \notin Preloads
      BY <1>6, <3>1
    <3>4. LastIs(list, Perms, e) /\ Places(list, Perms) # {}
      BY <1>7, <3>2, <3>3, LastOfAppend
    <3>5. /\ Places(list, Preloads) = Places(repToServer, Preloads)
          /\ LastIs(repToServer, Preloads, Preload(repPage.preload)) =>
               LastIs(list, Preloads, Preload(repPage.preload))
      BY <1>7, <3>2, <3>3, LastOfAppend
    <3>6. repToServer' = list
      BY <1>9, <2>1, <3>1, <3>2
    <3>7. MicComes'
      BY <1>5, <3>1, <3>4, <3>6 DEF MicComes
    <3>8. ReadyComes'
      BY <1>4, <1>5, <2>1, <3>5, <3>6 DEF RepInv, ReadyComes
    <3> QED BY <3>7, <3>8
  <2>2. CASE repLink # "registered"
    BY <1>4, <2>2 DEF MicComes, ReadyComes
  <2> QED BY <2>1, <2>2
<1>15. ListsCome'
  BY <1>4 DEF RepInv, ListsCome
<1> QED BY <1>11, <1>12, <1>13, <1>14, <1>15 DEF RepInv

LEMMA ServerReadsKeeps ==
  ASSUME RepInv, ServerReads PROVE RepInv'
<1>1. /\ repToServer # <<>> /\ repToServer' = Tail(repToServer)
      /\ repLink' = repLink /\ repPage' = repPage /\ repLast' = repLast /\ repLastMic' = repLastMic
      /\ repViewers' = repViewers /\ repView' = repView /\ repTold' = repTold
  BY DEF ServerReads, repClient
<1>2. PICK e \in Perms \cup Preloads : e = Head(repToServer)
  BY <1>1, HeadTailProperties DEF RepInv, RepTypeOK
<1>3. repToServer \in Seq(Perms \cup Preloads) /\ repToServer' \in Seq(Perms \cup Preloads)
  BY <1>1, HeadTailProperties DEF RepInv, RepTypeOK
<1>4. LastIsOld'
  BY <1>1 DEF RepInv, LastIsOld
<1>5. ASSUME NEW T, NEW x, LastIs(repToServer, T, x)
      PROVE  /\ LastIs(repToServer', T, x)
             /\ Places(repToServer', T) = {} => Places(repToServer, T) = {} \/ (e \in T /\ e = x)
  BY <1>1, <1>2, <1>3, <1>5, LastOfTail
<1>6. repTold \subseteq repViewers /\ repViewers \subseteq Viewer
      /\ \A m \in Viewer : repToViewer[m] \in Seq(Lists \cup Preloads)
  BY DEF RepInv, RepTypeOK
<1>7. 1 \in Places(repToServer, Perms) <=> e \in Perms
  BY <1>1, <1>2, <1>3, PlacesOfTail
<1>8. 1 \in Places(repToServer, Preloads) <=> e \in Preloads
  BY <1>1, <1>2, <1>3, PlacesOfTail
<1>9. CASE e.kind = "permissions" /\ repRecord' = [mic |-> e.is]
           /\ repToViewer' = Forward(ClientList(repRecord'), repViewers)
  <2>1. e \in Perms /\ e \notin Preloads /\ e.is \in BOOLEAN /\ e = Permissions(e.is)
    BY <1>2, <1>9 DEF Perms, Preloads, Permissions
  <2>2. PICK record \in Record : record = [mic |-> e.is]
    BY <2>1 DEF Record
  <2>3. /\ repToViewer' \in [Viewer -> Seq(Lists \cup Preloads)]
        /\ \A m \in Viewer : m \in repViewers =>
             /\ repToViewer'[m] = Append(repToViewer[m], ClientList(record))
             /\ \A view : ListComes(repToViewer'[m], view, record)
    <3>1. PICK lists : lists = Forward(ClientList(record), repViewers)
      OBVIOUS
    <3>2. /\ lists \in [Viewer -> Seq(Lists \cup Preloads)]
          /\ \A m \in Viewer : m \in repViewers =>
               /\ lists[m] = Append(repToViewer[m], ClientList(record))
               /\ \A view : ListComes(lists[m], view, record)
      BY <3>1, ForwardedLists DEF RepInv
    <3>3. repToViewer' = lists
      BY <1>9, <2>2, <3>1
    <3> QED BY <3>2, <3>3
  <2>4. RepTypeOK'
    BY <1>1, <1>3, <1>9, <2>2, <2>3 DEF RepInv, RepTypeOK
  <2>5. UpIsRecorded'
    BY <1>1, <1>9, <2>2, ReportAssumption DEF RepInv, UpIsRecorded, ReportAssumption
  <2>6. ListsCome'
    BY <1>1, <1>6, <1>9, <2>2, <2>3 DEF ListsCome
  <2>7. MicComes'
    <3> SUFFICES ASSUME repLink = "registered"
                 PROVE  /\ LastIs(repToServer', Perms, Permissions(repPage.mic))
                        /\ Places(repToServer', Perms) = {} => repRecord' = [mic |-> repPage.mic]
      BY <1>1 DEF MicComes
    <3>1. LastIs(repToServer, Perms, Permissions(repPage.mic))
      BY DEF RepInv, MicComes
    <3>2. Places(repToServer', Perms) = {} => e = Permissions(repPage.mic)
      BY <1>5, <1>7, <2>1, <3>1
    <3>3. e = Permissions(repPage.mic) => e.is = repPage.mic
      BY DEF Permissions
    <3> QED BY <1>5, <1>9, <3>1, <3>2, <3>3
  <2>8. ReadyComes'
    <3> SUFFICES ASSUME repLink = "registered", repPage.preload.status # "idle"
                 PROVE  /\ LastIs(repToServer', Preloads, Preload(repPage.preload))
                        /\ Places(repToServer', Preloads) = {} =>
                             \A m \in repTold : StatusComes(repToViewer'[m], repView[m], repPage.preload)
      BY <1>1 DEF ReadyComes
    <3>1. /\ LastIs(repToServer, Preloads, Preload(repPage.preload))
          /\ Places(repToServer, Preloads) = {} =>
               \A m \in repTold : StatusComes(repToViewer[m], repView[m], repPage.preload)
      BY DEF RepInv, ReadyComes
    <3>2. Places(repToServer', Preloads) = {} =>
            \A m \in repTold : StatusComes(repToViewer[m], repView[m], repPage.preload)
      BY <1>5, <2>1, <3>1
    <3>3. ASSUME NEW m \in repTold, StatusComes(repToViewer[m], repView[m], repPage.preload)
          PROVE  StatusComes(repToViewer'[m], repView[m], repPage.preload)
      <4>1. repToViewer[m] \in Seq(Lists \cup Preloads)
            /\ repToViewer'[m] = Append(repToViewer[m], ClientList(record))
        BY <1>6, <2>3
      <4> QED BY <3>3, <4>1, StatusSurvivesList
    <3> QED BY <1>5, <3>1, <3>2, <3>3
  <2> QED BY <1>4, <2>4, <2>5, <2>6, <2>7, <2>8 DEF RepInv
<1>10. CASE e.kind = "preload" /\ repToViewer' = Forward(e, repViewers) /\ repRecord' = repRecord
  <2>1. e \in Preloads /\ e \notin Perms /\ e.is \in Readiness /\ e = Preload(e.is)
    BY <1>2, <1>10 DEF Perms, Preloads, Preload
  <2>2. PICK status \in Readiness : status = e.is
    BY <2>1
  <2>3. /\ repToViewer' \in [Viewer -> Seq(Lists \cup Preloads)]
        /\ \A m \in repViewers : \A view : StatusComes(repToViewer'[m], view, status)
        /\ \A m \in repViewers : \A view, record :
             ListComes(repToViewer[m], view, record) => ListComes(repToViewer'[m], view, record)
    BY <1>10, <2>1, <2>2, ForwardedStatus DEF RepInv
  <2>4. RepTypeOK'
    BY <1>1, <1>3, <1>10, <2>3 DEF RepInv, RepTypeOK
  <2>5. UpIsRecorded'
    BY <1>1, <1>10 DEF RepInv, UpIsRecorded
  <2>6. ListsCome'
    BY <1>1, <1>10, <2>3 DEF RepInv, ListsCome
  <2>7. MicComes'
    <3> SUFFICES ASSUME repLink = "registered"
                 PROVE  /\ LastIs(repToServer', Perms, Permissions(repPage.mic))
                        /\ Places(repToServer', Perms) = {} => repRecord = [mic |-> repPage.mic]
      BY <1>1, <1>10 DEF MicComes
    <3>1. /\ LastIs(repToServer, Perms, Permissions(repPage.mic))
          /\ Places(repToServer, Perms) = {} => repRecord = [mic |-> repPage.mic]
      BY DEF RepInv, MicComes
    <3> QED BY <1>5, <2>1, <3>1
  <2>8. ReadyComes'
    <3> SUFFICES ASSUME repLink = "registered", repPage.preload.status # "idle"
                 PROVE  /\ LastIs(repToServer', Preloads, Preload(repPage.preload))
                        /\ Places(repToServer', Preloads) = {} =>
                             \A m \in repTold : StatusComes(repToViewer'[m], repView[m], repPage.preload)
      BY <1>1 DEF ReadyComes
    <3>1. LastIs(repToServer, Preloads, Preload(repPage.preload))
      BY DEF RepInv, ReadyComes
    <3>2. Places(repToServer', Preloads) = {} => e = Preload(repPage.preload)
      BY <1>5, <1>8, <2>1, <3>1
    <3>3. e = Preload(repPage.preload) => status = repPage.preload
      BY <2>2 DEF Preload
    <3> QED BY <1>5, <1>6, <2>3, <3>1, <3>2, <3>3
  <2> QED BY <1>4, <2>4, <2>5, <2>6, <2>7, <2>8 DEF RepInv
<1> QED BY <1>2, <1>9, <1>10 DEF ServerReads

LEMMA ClientConnectsKeeps ==
  ASSUME RepInv, ClientConnects PROVE RepInv'
<1>1. /\ repLink' = "up" /\ repToServer' = <<>>
      /\ repPage' = repPage /\ repLast' = repLast /\ repLastMic' = repLastMic
      /\ repViewers' = repViewers /\ repView' = repView /\ repTold' = repTold
      /\ repToViewer' = Forward(ClientList(repRecord'), repViewers)
  BY DEF ClientConnects
<1>2. repRecord' \in Record /\ repRecord' # RepNone
  <2>1. [mic |-> RepNone] \in Record
    BY DEF Record
  <2>2. repRecord' = IF repRecord = RepNone THEN [mic |-> RepNone] ELSE repRecord
    BY DEF ClientConnects
  <2>3. repRecord' \in Record
    BY <2>1, <2>2 DEF RepInv, RepTypeOK
  <2> QED BY <2>3, ReportAssumption DEF ReportAssumption
<1>3. PICK record \in Record : record = repRecord'
  BY <1>2
<1>4. /\ repToViewer' \in [Viewer -> Seq(Lists \cup Preloads)]
      /\ \A m \in Viewer : m \in repViewers => \A view : ListComes(repToViewer'[m], view, record)
  BY <1>1, <1>3, ForwardedLists DEF RepInv
<1>5. RepTypeOK'
  BY <1>1, <1>2, <1>4 DEF RepInv, RepTypeOK
<1>6. UpIsRecorded' /\ LastIsOld'
  BY <1>1, <1>2 DEF RepInv, UpIsRecorded, LastIsOld
<1>7. ListsCome'
  BY <1>1, <1>3, <1>4 DEF RepInv, RepTypeOK, ListsCome
<1>8. MicComes' /\ ReadyComes'
  BY <1>1 DEF MicComes, ReadyComes
<1> QED BY <1>5, <1>6, <1>7, <1>8 DEF RepInv

LEMMA ClientExpiresKeeps ==
  ASSUME RepInv, ClientExpires PROVE RepInv'
<1>1. /\ repLink' = "down" /\ repToServer' = <<>> /\ repRecord' = RepNone
      /\ repPage' = repPage /\ repLast' = repLast /\ repLastMic' = repLastMic
      /\ repViewers' = repViewers /\ repView' = repView /\ repTold' = repTold
      /\ repToViewer' = Forward(ClientList(RepNone), repViewers)
  BY DEF ClientExpires, repClient
<1>2. /\ repToViewer' \in [Viewer -> Seq(Lists \cup Preloads)]
      /\ \A m \in Viewer : m \in repViewers => \A view : ListComes(repToViewer'[m], view, RepNone)
  BY <1>1, ForwardedLists DEF RepInv
<1>3. RepTypeOK'
  BY <1>1, <1>2 DEF RepInv, RepTypeOK
<1>4. UpIsRecorded' /\ LastIsOld'
  BY <1>1 DEF RepInv, UpIsRecorded, LastIsOld
<1>5. ListsCome'
  BY <1>1, <1>2 DEF RepInv, RepTypeOK, ListsCome
<1>6. MicComes' /\ ReadyComes'
  BY <1>1 DEF MicComes, ReadyComes
<1> QED BY <1>3, <1>4, <1>5, <1>6 DEF RepInv

LEMMA ManagerConnectsKeeps ==
  ASSUME RepInv, ManagerConnects PROVE RepInv'
<1>1. PICK m \in Viewer \ repViewers : \E view \in {Unknown, repView[m]} :
        /\ repViewers' = repViewers \cup {m}
        /\ repToViewer' = Forward(ClientList(repRecord), repViewers')
        /\ repView' = [repView EXCEPT ![m] = view]
  BY DEF ManagerConnects
<1>2. PICK view \in {Unknown, repView[m]} :
        /\ repViewers' = repViewers \cup {m}
        /\ repToViewer' = Forward(ClientList(repRecord), repViewers')
        /\ repView' = [repView EXCEPT ![m] = view]
  BY <1>1
<1>3. /\ repLink' = repLink /\ repPage' = repPage /\ repLast' = repLast /\ repLastMic' = repLastMic
      /\ repToServer' = repToServer /\ repRecord' = repRecord /\ repTold' = repTold
  BY DEF ManagerConnects, repClient
<1>4. repTold \subseteq repViewers /\ repViewers \subseteq Viewer /\ repRecord \in Record \cup {RepNone}
      /\ \A n \in Viewer : repToViewer[n] \in Seq(Lists \cup Preloads)
  BY DEF RepInv, RepTypeOK
<1>5. PICK to : to = repViewers'
  OBVIOUS
<1>6. /\ repToViewer' \in [Viewer -> Seq(Lists \cup Preloads)]
      /\ \A n \in Viewer : n \in to => /\ repToViewer'[n] = Append(repToViewer[n], ClientList(repRecord))
                                       /\ \A v : ListComes(repToViewer'[n], v, repRecord)
  <2>1. PICK record \in Record \cup {RepNone} : record = repRecord
    BY <1>4
  <2>2. PICK lists : lists = Forward(ClientList(record), to)
    OBVIOUS
  <2>3. lists \in [Viewer -> Seq(Lists \cup Preloads)]
    BY <2>2, ForwardedLists DEF RepInv
  <2>4. \A n \in Viewer : n \in to => /\ lists[n] = Append(repToViewer[n], ClientList(record))
                                     /\ \A v : ListComes(lists[n], v, record)
    <3>1. RepTypeOK
      BY DEF RepInv
    <3>2. ASSUME NEW n \in Viewer, n \in to PROVE lists[n] = Append(repToViewer[n], ClientList(record))
      BY <2>2, <3>1, <3>2, ForwardedLists
    <3>3. ASSUME NEW n \in Viewer, n \in to, NEW v PROVE ListComes(lists[n], v, record)
      BY <2>2, <3>1, <3>3, ForwardedLists
    <3> QED BY <3>2, <3>3
  <2>5. repToViewer' = lists
    BY <1>2, <1>5, <2>1, <2>2
  <2> QED BY <2>1, <2>3, <2>4, <2>5
<1>7. view \in Shows
  BY <1>2 DEF RepInv, RepTypeOK, Unknown, Shows
<1>8. RepTypeOK'
  BY <1>2, <1>3, <1>6, <1>7 DEF RepInv, RepTypeOK
<1>9. UpIsRecorded' /\ LastIsOld' /\ MicComes'
  BY <1>3 DEF RepInv, UpIsRecorded, LastIsOld, MicComes
<1>10. ListsCome'
  <2>1. ASSUME NEW n \in to PROVE ListComes(repToViewer'[n], repView'[n], repRecord)
    <3>1. n \in Viewer
      BY <1>2, <1>4, <1>5, <2>1
    <3> QED BY <1>6, <2>1, <3>1
  <2> QED BY <1>3, <1>5, <2>1 DEF ListsCome
<1>11. ReadyComes'
  <2> SUFFICES ASSUME repLink = "registered", repPage.preload.status # "idle",
                      Places(repToServer, Preloads) = {}, NEW n \in repTold
               PROVE  StatusComes(repToViewer'[n], repView'[n], repPage.preload)
    BY <1>3 DEF RepInv, ReadyComes
  <2>1. StatusComes(repToViewer[n], repView[n], repPage.preload)
    BY DEF RepInv, ReadyComes
  <2>2. n \in Viewer /\ n \in to /\ n # m /\ repView'[n] = repView[n]
    BY <1>2, <1>4, <1>5 DEF RepInv, RepTypeOK
  <2>3. repRecord \in Record
    BY <1>4 DEF RepInv, UpIsRecorded
  <2>4. repToViewer'[n] = Append(repToViewer[n], ClientList(repRecord))
    BY <1>6, <2>2
  <2>5. StatusComes(Append(repToViewer[n], ClientList(repRecord)), repView[n], repPage.preload)
    BY <1>4, <2>1, <2>2, <2>3, StatusSurvivesList
  <2> QED BY <2>2, <2>4, <2>5
<1> QED BY <1>8, <1>9, <1>10, <1>11 DEF RepInv

LEMMA ManagerReadsKeeps ==
  ASSUME RepInv, NEW m \in Viewer, ManagerReads(m) PROVE RepInv'
<1>1. /\ repToViewer[m] # <<>>
      /\ repToViewer' = [repToViewer EXCEPT ![m] = Tail(repToViewer[m])]
      /\ repView' = [repView EXCEPT ![m] = Applied(repView[m], Head(repToViewer[m]))]
  BY DEF ManagerReads
<1>2. /\ repLink' = repLink /\ repPage' = repPage /\ repLast' = repLast /\ repLastMic' = repLastMic
      /\ repToServer' = repToServer /\ repRecord' = repRecord /\ repViewers' = repViewers
      /\ repTold' = repTold
  BY DEF ManagerReads, repClient, repServer
<1>3. PICK list \in Seq(Lists \cup Preloads), view \in Shows : list = repToViewer[m] /\ view = repView[m]
  BY DEF RepInv, RepTypeOK
<1>4. PICK view2 : view2 = Applied(view, Head(list))
  OBVIOUS
<1>5. repRecord \in Record \cup {RepNone} /\ repTold \subseteq repViewers /\ repViewers \subseteq Viewer
      /\ repToViewer \in [Viewer -> Seq(Lists \cup Preloads)] /\ repView \in [Viewer -> Shows]
  BY DEF RepInv, RepTypeOK
<1>6. /\ Tail(list) \in Seq(Lists \cup Preloads) /\ view2 \in Shows
      /\ ListComes(list, view, repRecord) => ListComes(Tail(list), view2, repRecord)
  BY <1>1, <1>3, <1>4, <1>5, ReadingComes
<1>7. /\ \A n \in Viewer : n # m => repToViewer'[n] = repToViewer[n] /\ repView'[n] = repView[n]
      /\ repToViewer'[m] = Tail(list) /\ repView'[m] = view2
  BY <1>1, <1>3, <1>4, <1>5
<1>8. RepTypeOK'
  <2>1. repToViewer' \in [Viewer -> Seq(Lists \cup Preloads)]
    BY <1>1, <1>3, <1>5, <1>6
  <2>2. repView' \in [Viewer -> Shows]
    BY <1>1, <1>3, <1>4, <1>5, <1>6
  <2> QED BY <1>2, <2>1, <2>2 DEF RepInv, RepTypeOK
<1>9. UpIsRecorded' /\ LastIsOld' /\ MicComes'
  BY <1>2 DEF RepInv, UpIsRecorded, LastIsOld, MicComes
<1>10. ListsCome'
  <2> SUFFICES ASSUME NEW n \in repViewers PROVE ListComes(repToViewer'[n], repView'[n], repRecord)
    BY <1>2 DEF ListsCome
  <2>1. ListComes(repToViewer[n], repView[n], repRecord)
    BY DEF RepInv, ListsCome
  <2>2. CASE n = m
    BY <1>3, <1>6, <1>7, <2>1, <2>2
  <2>3. CASE n # m
    BY <1>5, <1>7, <2>1, <2>3
  <2> QED BY <2>2, <2>3
<1>11. ReadyComes'
  <2> SUFFICES ASSUME repLink = "registered", repPage.preload.status # "idle",
                      Places(repToServer, Preloads) = {}, NEW n \in repTold
               PROVE  StatusComes(repToViewer'[n], repView'[n], repPage.preload)
    BY <1>2 DEF RepInv, ReadyComes
  <2>1. StatusComes(repToViewer[n], repView[n], repPage.preload)
    BY DEF RepInv, ReadyComes
  <2>2. PICK status \in Readiness : status = repPage.preload
    BY DEF RepInv, RepTypeOK
  <2>3. CASE n = m
    <3>1. StatusComes(list, view, status) /\ status.status # "idle" /\ list # <<>>
      BY <1>1, <1>3, <2>1, <2>2, <2>3
    <3>2. StatusComes(Tail(list), view2, status)
      BY <1>4, <3>1, StatusRead
    <3> QED BY <1>7, <2>2, <2>3, <3>2
  <2>4. CASE n # m
    BY <1>5, <1>7, <2>1, <2>4
  <2> QED BY <2>3, <2>4
<1> QED BY <1>8, <1>9, <1>10, <1>11 DEF RepInv

LEMMA LossesKeep ==
  ASSUME RepInv, ClientLoses \/ ManagerLoses \/ ServerRestarts PROVE RepInv'
<1>1. CASE ClientLoses
  <2>1. /\ repLink' = "down" /\ repRecord' = repRecord /\ repViewers' = repViewers
        /\ repToViewer' = repToViewer /\ repView' = repView /\ repTold' = repTold
    BY <1>1 DEF ClientLoses, repServer
  <2>2. repToServer' \in Seq(Perms \cup Preloads)
    <3>1. PICK n \in 0..Len(repToServer) : repToServer' = SubSeq(repToServer, 1, n)
      BY <1>1 DEF ClientLoses
    <3>2. repToServer \in Seq(Perms \cup Preloads)
      BY DEF RepInv, RepTypeOK
    <3> QED BY <3>1, <3>2
  <2>3. \/ repPage' = repPage /\ repLast' = repLast
        \/ repPage' = NewPage /\ repLast' = RepNone
    BY <1>1 DEF ClientLoses
  <2>4. NewPage \in [preload : Readiness, mic : BOOLEAN]
    BY DEF NewPage, Of, Readiness
  <2>5. RepTypeOK'
    BY <2>1, <2>2, <2>3, <2>4 DEF RepInv, RepTypeOK
  <2>6. UpIsRecorded' /\ MicComes' /\ ReadyComes'
    BY <2>1 DEF UpIsRecorded, MicComes, ReadyComes
  <2>7. LastIsOld'
    BY <2>3 DEF RepInv, LastIsOld
  <2>8. ListsCome'
    BY <2>1 DEF RepInv, ListsCome
  <2> QED BY <2>5, <2>6, <2>7, <2>8 DEF RepInv
<1>2. CASE ManagerLoses
  <2>1. PICK m \in repViewers :
          /\ repViewers' = repViewers \ {m} /\ repTold' = repTold \ {m}
          /\ repToViewer' = [repToViewer EXCEPT ![m] = <<>>]
    BY <1>2 DEF ManagerLoses
  <2>2. /\ repLink' = repLink /\ repPage' = repPage /\ repLast' = repLast
        /\ repLastMic' = repLastMic /\ repToServer' = repToServer /\ repRecord' = repRecord
        /\ repView' = repView
    BY <1>2 DEF ManagerLoses, repClient
  <2>3. \A n \in Viewer : n # m => repToViewer'[n] = repToViewer[n]
    BY <2>1 DEF RepInv, RepTypeOK
  <2>4. RepTypeOK'
    BY <2>1, <2>2 DEF RepInv, RepTypeOK
  <2>5. UpIsRecorded' /\ LastIsOld' /\ MicComes'
    BY <2>2 DEF RepInv, UpIsRecorded, LastIsOld, MicComes
  <2>6. repViewers \subseteq Viewer /\ repTold \subseteq repViewers
    BY DEF RepInv, RepTypeOK
  <2>7. ListsCome'
    BY <2>1, <2>2, <2>3, <2>6 DEF RepInv, ListsCome
  <2>8. ReadyComes'
    BY <2>1, <2>2, <2>3, <2>6 DEF RepInv, ReadyComes
  <2> QED BY <2>4, <2>5, <2>7, <2>8 DEF RepInv
<1>3. CASE ServerRestarts
  <2>1. /\ repLink' = "down" /\ repToServer' = <<>> /\ repRecord' = RepNone
        /\ repViewers' = {} /\ repToViewer' = [m \in Viewer |-> <<>>] /\ repTold' = {}
        /\ repPage' = repPage /\ repLast' = repLast /\ repLastMic' = repLastMic
        /\ repView' = repView
    BY <1>3 DEF ServerRestarts
  <2>2. RepTypeOK'
    BY <2>1 DEF RepInv, RepTypeOK
  <2>3. UpIsRecorded' /\ LastIsOld' /\ MicComes' /\ ListsCome' /\ ReadyComes'
    BY <2>1 DEF RepInv, UpIsRecorded, LastIsOld, MicComes, ListsCome, ReadyComes
  <2> QED BY <2>2, <2>3 DEF RepInv
<1> QED BY <1>1, <1>2, <1>3

\* What a page reports is on its way to every manager that does not show it yet.
THEOREM RepInvariance == RepSpec => []RepInv
<1>1. ReportInit => RepInv
  BY RepStarts
<1>2. RepInv /\ [RepNext]_repVars => RepInv'
  <2> SUFFICES ASSUME RepInv, [RepNext]_repVars PROVE RepInv'
    OBVIOUS
  <2>1. CASE ClientConnects
    BY <2>1, ClientConnectsKeeps
  <2>2. CASE Registered
    BY <2>2, StateChangesKeep DEF Registered
  <2>3. CASE Pong
    BY <2>3, StateChangesKeep DEF Pong
  <2>4. CASE PreloadChanges
    BY <2>4, PreloadChangesKeeps
  <2>5. CASE PermissionsChange
    BY <2>5, PermissionsChangeKeeps
  <2>6. CASE ServerReads
    BY <2>6, ServerReadsKeeps
  <2>7. CASE ClientExpires
    BY <2>7, ClientExpiresKeeps
  <2>8. CASE ManagerConnects
    BY <2>8, ManagerConnectsKeeps
  <2>9. ASSUME NEW m \in Viewer, ManagerReads(m) PROVE RepInv'
    BY <2>9, ManagerReadsKeeps
  <2>10. CASE ClientLoses \/ ManagerLoses \/ ServerRestarts
    BY <2>10, LossesKeep
  <2>11. CASE UNCHANGED repVars
    BY <2>11 DEF repVars, repClient, repServer, RepInv, RepTypeOK, UpIsRecorded, LastIsOld, MicComes,
                 ListsCome, ReadyComes
  <2> QED BY <2>1, <2>2, <2>3, <2>4, <2>5, <2>6, <2>7, <2>8, <2>9, <2>10, <2>11 DEF RepNext
<1> QED BY <1>1, <1>2, PTL DEF RepSpec

\* Once everything is read, every manager shows the permissions of the client,
\* and its readiness if it was there at the client's last update.
THEOREM ManagersAreInformed == RepSpec => []ManagersInformed
<1>1. RepInv => ManagersInformed
  <2> SUFFICES ASSUME RepInv, repLink = "registered", repToServer = <<>>,
                      NEW m \in repViewers, repToViewer[m] = <<>>
               PROVE  /\ repView[m].mic = repPage.mic
                      /\ m \in repTold /\ repPage.preload.status # "idle" =>
                           repView[m].ready = repPage.preload
    BY DEF ManagersInformed
  <2>1. \A T : Places(<<>>, T) = {}
    BY DEF Places
  <2>2. repRecord = [mic |-> repPage.mic] /\ repRecord # RepNone
    BY <2>1 DEF RepInv, MicComes, UpIsRecorded
  <2>3. repView[m].mic = MicOf(repRecord)
    BY <2>1 DEF RepInv, ListsCome, ListComes
  <2>4. repView[m].mic = repPage.mic
    BY <2>2, <2>3 DEF MicOf
  <2>5. ASSUME m \in repTold, repPage.preload.status # "idle"
        PROVE  repView[m].ready = repPage.preload
    BY <2>1, <2>5 DEF RepInv, ReadyComes, StatusComes
  <2> QED BY <2>4, <2>5
<1> QED BY <1>1, RepInvariance, PTL
=============================================================================
