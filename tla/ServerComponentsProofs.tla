----------------------- MODULE ServerComponentsProofs -----------------------
(***************************************************************************)
(* Theorems about the smaller components of the server: the runtime of the *)
(* AI agent, the ownership of groups, the asset store, and the semantic    *)
(* bus with its rollbacks; each for any values of its constants.           *)
(***************************************************************************)
EXTENDS AiAgentRuntime, AssetStore, GroupOwnership, SemanticBus, SequenceLemmas, FiniteSetTheorems

-----------------------------------------------------------------------------
(* The agent: what waits and what runs *)

AiTypeOK ==
  /\ aiNewest \in Nat
  /\ aiPending \in AiWaiting \cup {AiNone}
  /\ aiRun \in AiActive \cup {AiNone}

\* What waits waits behind a run and is the newest; if nothing waits, the
\* newest has started.
Served ==
  IF aiPending = AiNone THEN aiStarted = aiNewest
                        ELSE aiRun # AiNone /\ aiPending.id = aiNewest

AiInv == AiTypeOK /\ Served /\ PartialOnlyWhenStale

\* The next trigger runs at once or is what waits.
LEMMA EnqueueServes ==
  ASSUME AiInv, NEW p \in Priority, Enqueue(p), UNCHANGED aiApplied
  PROVE  AiInv'
<1> DEFINE t == [id |-> aiNewest + 1, priority |-> p]
<1>1. t \in AiWaiting /\ t.id = aiNewest' /\ aiNewest' \in Nat /\ t # AiNone
  BY AiNoneAssumption DEF AiInv, AiTypeOK, AiWaiting, Enqueue
<1>2. CASE aiRun = AiNone
  <2>1. aiRun' = Running(t) /\ aiStarted' = t.id /\ aiPending' = aiPending
    BY <1>2 DEF Enqueue, Starts
  <2>2. Running(t) \in AiActive
    BY <1>1 DEF Running, AiActive, AiInv, AiTypeOK
  <2>3. aiPending = AiNone
    BY <1>2 DEF AiInv, Served
  <2> HIDE DEF t
  <2> QED
    BY <1>1, <2>1, <2>2, <2>3, AiNoneAssumption
    DEF AiInv, AiTypeOK, Served, PartialOnlyWhenStale
<1>3. CASE aiRun # AiNone
  <2>1. /\ aiPending' = t
        /\ \E s \in BOOLEAN : aiRun' = [aiRun EXCEPT !.superseded = s]
    <3> DEFINE s == aiRun.superseded \/
                    Rank(p) >= Rank(IF aiPending = AiNone THEN "idle" ELSE aiPending.priority)
    <3>1. aiPending' = t /\ aiRun' = [aiRun EXCEPT !.superseded = s]
      BY <1>3 DEF Enqueue
    <3>2. s \in BOOLEAN
      OBVIOUS
    <3> HIDE DEF s
    <3> QED
      BY <3>1, <3>2
  <2>2. aiRun' \in AiActive /\ aiRun' # AiNone
    BY <1>3, <2>1, AiNoneAssumption DEF AiInv, AiTypeOK, AiActive
  <2> HIDE DEF t
  <2> QED
    BY <1>1, <2>1, <2>2 DEF AiInv, AiTypeOK, Served, PartialOnlyWhenStale
<1> QED
  BY <1>2, <1>3

\* When a run ends, what waits runs; when only a turn ends, the run goes on.
LEMMA TurnEndsServes ==
  ASSUME AiTypeOK, Served, aiRun # AiNone, NEW g, TurnEnds(g),
         UNCHANGED aiNewest
  PROVE  /\ aiPending' \in AiWaiting \cup {AiNone}
         /\ aiRun' \in AiActive \cup {AiNone}
         /\ Served'
<1>1. CASE aiRun.space < AiSpaces
  <2>1. aiRun' = [aiRun EXCEPT !.space = @ + 1, !.repairs = 0] /\ UNCHANGED <<aiPending, aiStarted>>
    BY <1>1 DEF TurnEnds
  <2>2. aiRun \in AiActive /\ aiRun.space + 1 \in Nat
    BY DEF AiTypeOK, AiActive
  <2>3. aiRun' \in AiActive
    BY <2>1, <2>2 DEF AiActive
  <2> QED
    BY <2>1, <2>3, AiNoneAssumption DEF AiTypeOK, Served
<1>2. CASE ~(aiRun.space < AiSpaces) /\ aiPending = AiNone
  BY <1>2 DEF TurnEnds, DrainNext, AiTypeOK, Served
<1>3. CASE ~(aiRun.space < AiSpaces) /\ aiPending # AiNone
  <2>1. aiRun' = Running(aiPending) /\ aiStarted' = aiPending.id /\ aiPending' = AiNone
    BY <1>3 DEF TurnEnds, DrainNext, Starts
  <2>2. aiRun' \in AiActive
    BY <1>3, <2>1 DEF Running, AiActive, AiWaiting, AiTypeOK
  <2> QED
    BY <1>3, <2>1, <2>2 DEF Served
<1> QED
  BY <1>1, <1>2, <1>3

\* A plan that fails is repaired or ends the turn.
LEMMA PlanFailsInv ==
  ASSUME AiInv, aiRun # AiNone, PlanFails, UNCHANGED aiNewest
  PROVE  AiInv'
<1>1. CASE aiRun.repairs < AiRepairs
  <2>1. aiRun' = [aiRun EXCEPT !.repairs = @ + 1] /\ UNCHANGED <<aiPending, aiStarted>> /\ Unapplied
    BY <1>1 DEF PlanFails
  <2>2. aiRun' \in AiActive /\ aiRun' # AiNone
    BY <2>1, AiNoneAssumption DEF AiInv, AiTypeOK, AiActive
  <2> QED
    BY <2>1, <2>2 DEF AiInv, AiTypeOK, Served, PartialOnlyWhenStale, Unapplied
<1>2. CASE ~(aiRun.repairs < AiRepairs)
  <2>1. TurnEnds(aiGraph) /\ Unapplied
    BY <1>2 DEF PlanFails
  <2> QED
    BY <2>1, TurnEndsServes DEF AiInv, AiTypeOK, PartialOnlyWhenStale, Unapplied
<1> QED
  BY <1>1, <1>2

\* A plan was tried on the snapshot and is applied to the graph of now: if
\* they are equal, so are the outcomes.
LEMMA PlanPassesInv ==
  ASSUME AiInv, aiRun # AiNone, NEW plan \in AiPlan, DryRun(plan), PlanPasses(plan),
         UNCHANGED aiNewest
  PROVE  AiInv'
<1>1. CASE aiRun.superseded
  BY <1>1, TurnEndsServes DEF PlanPasses, AiInv, AiTypeOK, PartialOnlyWhenStale, Unapplied
<1>2. CASE ~aiRun.superseded
  <2> DEFINE done == Applying(plan, aiGraph)
  <2>1. /\ aiGraph' = done.graph
        /\ aiApplied' = [whole |-> done.whole, stale |-> aiSeen # aiGraph]
        /\ TurnEnds(done.graph)
    BY <1>2 DEF PlanPasses
  <2>2. Applying(plan, aiSeen).whole
    BY DEF DryRun
  <2>3. PartialOnlyWhenStale'
    <3>1. CASE aiSeen = aiGraph
      BY <2>1, <2>2, <3>1 DEF PartialOnlyWhenStale
    <3>2. CASE aiSeen # aiGraph
      BY <2>1, <3>2 DEF PartialOnlyWhenStale
    <3> QED
      BY <3>1, <3>2
  <2> QED
    BY <2>1, <2>3, TurnEndsServes DEF AiInv, AiTypeOK
<1> QED
  BY <1>1, <1>2

LEMMA AiInitInv == AiInit => AiInv
BY DEF AiInit, AiInv, AiTypeOK, Served, PartialOnlyWhenStale

LEMMA AiNextInv == AiInv /\ [AiNext]_aiVars => AiInv'
<1> SUFFICES ASSUME AiInv, [AiNext]_aiVars PROVE AiInv'
    OBVIOUS
<1>1. ASSUME NEW p \in {"system", "user"}, Trigger(p) PROVE AiInv'
  BY <1>1, EnqueueServes DEF Trigger, Priority
<1>2. CASE HandleClientScreenshot
  BY <1>2, EnqueueServes DEF HandleClientScreenshot, Priority
<1>3. CASE QuietPasses \/ RunIdleTick \/ ScreenshotTimesOut
  BY <1>3 DEF QuietPasses, RunIdleTick, ScreenshotTimesOut, AiInv, AiTypeOK, Served,
              PartialOnlyWhenStale
<1>4. CASE CompletionArrives
  BY <1>4, PlanFailsInv, PlanPassesInv DEF CompletionArrives
<1>5. CASE CompletionFails
  BY <1>5, TurnEndsServes DEF CompletionFails, AiInv, AiTypeOK, PartialOnlyWhenStale, Unapplied
<1>6. ASSUME NEW op \in AiOp, ManagerEdits(op) PROVE AiInv'
  BY <1>6 DEF ManagerEdits, AiInv, AiTypeOK, Served, PartialOnlyWhenStale
<1>7. CASE UNCHANGED aiVars
  BY <1>7 DEF aiVars, AiInv, AiTypeOK, Served, PartialOnlyWhenStale
<1> QED
  BY <1>1, <1>2, <1>3, <1>4, <1>5, <1>6, <1>7 DEF AiNext

\* Triggers supersede runs and replace one another while they wait, but the
\* newest is never lost (enqueue and drain of AiAgentRuntimeService).
THEOREM NewestServed == AiSpec => []NewestIsServed
<1>1. AiInv => NewestIsServed
  BY DEF AiInv, Served, NewestIsServed
<1> QED
  BY <1>1, AiInitInv, AiNextInv, PTL DEF AiSpec

\* The dry run speaks for the graph of the snapshot: a plan is applied in part
\* only if the graph has changed since (dryRunCommands, applyPlanCommands).
THEOREM PartialWhenStale == AiSpec => []PartialOnlyWhenStale
<1>1. AiInv => PartialOnlyWhenStale
  BY DEF AiInv
<1> QED
  BY <1>1, AiInitInv, AiNextInv, PTL DEF AiSpec

-----------------------------------------------------------------------------
(* Groups: the owners below an owner *)

Owner == GrpActor \cup {GroupServer}
EntryType == [owner : Owner, below : Seq(Owner), archived : BOOLEAN]

\* What GroupsReturn says of one entry, owner by owner.
Returns(g, e) ==
  /\ e.below = <<>> => e.owner = GroupServer
  /\ e.below # <<>> => /\ e.below[1] = GroupServer
                       /\ e.owner # GroupServer
  /\ \A i \in 2..Len(e.below) : e.below[i] # GroupServer
  /\ g \in Managed /\ Len(e.below) = 1 => e.owner \in ByServices
  /\ g \in Managed /\ Len(e.below) > 1 => e.below[2] \in ByServices

Good(g, e) == e \in EntryType /\ Returns(g, e)

GrpInv ==
  /\ DOMAIN grpEntry = Group
  /\ \A g \in Group : Entered(g) => Good(g, grpEntry[g])

\* A new owner goes on top of the one before; a manager cannot be the first
\* after the server in a group that is open to all managers.
LEMMA ReclaimedIsGood ==
  ASSUME NEW g \in Group, NEW e, Good(g, e), NEW actor \in GrpActor,
         ~(g \in Managed /\ e.owner = GroupServer /\ actor \in ByManagers)
  PROVE  Good(g, Reclaimed(e, actor))
<1> DEFINE r == Reclaimed(e, actor)
<1>1. /\ r.owner = actor /\ r.below = Append(e.below, e.owner) /\ r \in EntryType
  <2>1. e \in EntryType
    BY DEF Good
  <2>2. /\ e.owner \in Owner /\ e.below \in Seq(Owner) /\ actor \in Owner
        /\ r = [e EXCEPT !.owner = actor, !.below = Append(e.below, e.owner)]
    BY <2>1 DEF EntryType, Reclaimed, Owner
  <2>3. Append(e.below, e.owner) \in Seq(Owner)
    BY <2>2
  <2> HIDE DEF r
  <2> QED
    BY <2>1, <2>2, <2>3 DEF EntryType
<1>2. /\ Len(r.below) = Len(e.below) + 1 /\ Len(e.below) \in Nat
      /\ r.below[Len(r.below)] = e.owner
      /\ \A i \in 1..Len(e.below) : r.below[i] = e.below[i]
  BY <1>1 DEF Good, EntryType
<1>3. actor # GroupServer
  BY GroupAssumption DEF GrpActor
<1>4. Returns(g, r)
  <2>1. r.below # <<>> /\ r.below[1] = GroupServer
    BY <1>1, <1>2 DEF Good, Returns, EntryType
  <2>2. \A i \in 2..Len(r.below) : r.below[i] # GroupServer
    BY <1>1, <1>2 DEF Good, Returns, EntryType
  <2>3. ASSUME g \in Managed, Len(r.below) = 1 PROVE r.owner \in ByServices
    <3>1. e.below = <<>>
      BY <1>2, <2>3 DEF Good, EntryType
    <3> QED
      BY <1>1, <3>1, <2>3 DEF Good, Returns, GrpActor
  <2>4. ASSUME g \in Managed, Len(r.below) > 1 PROVE r.below[2] \in ByServices
    <3>1. CASE Len(e.below) = 1
      BY <1>1, <1>2, <2>4, <3>1 DEF Good, Returns
    <3>2. CASE Len(e.below) > 1
      BY <1>1, <1>2, <2>4, <3>2 DEF Good, Returns
    <3>3. Len(e.below) = 1 \/ Len(e.below) > 1
      <4> DEFINE n == Len(e.below)
      <4>1. n \in Nat /\ n + 1 > 1
        BY <1>2, <2>4
      <4> HIDE DEF n
      <4>2. n = 1 \/ n > 1
        BY <4>1
      <4> QED
        BY <4>2 DEF n
    <3> QED
      BY <3>1, <3>2, <3>3
  <2> HIDE DEF r
  <2> QED
    BY <1>1, <1>3, <2>1, <2>2, <2>3, <2>4 DEF Returns
<1> QED
  BY <1>1, <1>4 DEF Good

\* A release uncovers the owner below.
LEMMA ReleasedIsGood ==
  ASSUME NEW g \in Group, NEW e, Good(g, e)
  PROVE  Good(g, Released(e))
<1> DEFINE r == Released(e)
<1>1. CASE e.below = <<>>
  BY <1>1 DEF Released
<1>2. CASE e.below # <<>>
  <2>1. e.below \in Seq(Owner) /\ Len(e.below) \in Nat /\ Len(e.below) > 0
    BY <1>2 DEF Good, EntryType
  <2>2. r.owner = e.below[Len(e.below)] /\ r.below = SubSeq(e.below, 1, Len(e.below) - 1)
    BY <1>2, <2>1 DEF Released, Last, Front, Good, EntryType
  <2>3. /\ r.below \in Seq(Owner) /\ Len(r.below) = Len(e.below) - 1
        /\ \A i \in 1..Len(r.below) : r.below[i] = e.below[i]
    BY <2>1, <2>2
  <2>4. r \in EntryType
    <3>1. e \in EntryType
      BY DEF Good
    <3>2. r = [e EXCEPT !.owner = r.owner, !.below = r.below]
      BY <1>2, <2>1, <2>2, <3>1 DEF Released, Last, Front, EntryType
    <3>3. r.owner \in Owner /\ r.below \in Seq(Owner)
      BY <2>1, <2>2, <2>3
    <3> HIDE DEF r
    <3> QED
      BY <3>1, <3>2, <3>3 DEF EntryType
  <2>5. Returns(g, r)
    <3> HIDE DEF r
    <3>1. r.below = <<>> => r.owner = GroupServer
      BY <2>1, <2>2, <2>3, <1>2 DEF Good, Returns
    <3>2. ASSUME r.below # <<>> PROVE r.below[1] = GroupServer /\ r.owner # GroupServer
      <4>1. Len(r.below) \in Nat \ {0}
        BY <3>2, <2>3, EmptySeq, LenProperties
      <4>2. Len(e.below) \in 2..Len(e.below) /\ 1 \in 1..Len(r.below)
        <5>1. PICK n \in Nat : n = Len(e.below)
          BY <2>1
        <5>2. Len(r.below) = n - 1
          BY <2>3, <5>1
        <5>3. n - 1 \in Nat \ {0}
          BY <4>1, <5>2
        <5>4. n \in 2..n /\ 1 \in 1..(n - 1)
          BY <5>3
        <5> QED BY <5>1, <5>2, <5>4
      <4>3. e.below[1] = GroupServer /\ \A i \in 2..Len(e.below) : e.below[i] # GroupServer
        BY <1>2 DEF Good, Returns
      <4> QED
        BY <2>2, <2>3, <4>2, <4>3
    <3>3. ASSUME NEW i \in 2..Len(r.below) PROVE r.below[i] # GroupServer
      <4>1. Len(r.below) = Len(e.below) - 1
        BY <2>3
      <4>2. i \in 1..Len(r.below) /\ i \in 2..Len(e.below)
        BY <2>1, <4>1
      <4>3. r.below[i] = e.below[i]
        BY <2>3, <4>2
      <4> QED BY <4>2, <4>3 DEF Good, Returns
    <3>4. g \in Managed /\ Len(r.below) = 1 => r.owner \in ByServices
      BY <2>1, <2>2, <2>3 DEF Good, Returns
    <3>5. g \in Managed /\ Len(r.below) > 1 => r.below[2] \in ByServices
      BY <2>1, <2>3 DEF Good, Returns
    <3> QED
      BY <3>1, <3>2, <3>3, <3>4, <3>5 DEF Returns
  <2> QED
    BY <2>4, <2>5 DEF Good
<1> QED
  BY <1>1, <1>2

LEMMA GrpInitInv == GrpInit => GrpInv
BY DEF GrpInit, GrpInv, Entered

\* Who is let through leaves the entry good, whatever the command.
LEMMA CommandIsGood ==
  ASSUME GrpInv, NEW g \in Group, NEW actor \in GrpActor, NEW command \in GrpCommand,
         Entered(g), Allowed(g, actor, command)
  PROVE  Good(g, After(g, actor, command))
<1> DEFINE e == grpEntry[g]
<1>1. Good(g, e)
  BY DEF GrpInv
<1>2. CASE OpenToManagers(g, actor)
  BY <1>1, <1>2 DEF After
<1>3. CASE ~OpenToManagers(g, actor) /\ command = "reclaim"
  <2>1. After(g, actor, command) = Reclaimed(e, actor)
    BY <1>3 DEF After
  <2> QED
    BY <1>1, <1>3, <2>1, ReclaimedIsGood DEF OpenToManagers
<1>4. CASE ~OpenToManagers(g, actor) /\ command = "release"
  BY <1>1, <1>4, ReleasedIsGood DEF After
<1>5. CASE ~OpenToManagers(g, actor) /\ command \in {"archive", "restore"}
  <2>1. After(g, actor, command) = [e EXCEPT !.archived = command = "archive"]
    BY <1>5 DEF After
  <2> QED
    BY <1>1, <2>1 DEF Good, EntryType, Returns
<1>6. CASE ~OpenToManagers(g, actor) /\ command = "control"
  BY <1>1, <1>6 DEF After
<1> QED
  BY <1>2, <1>3, <1>4, <1>5, <1>6 DEF GrpCommand

LEMMA GrpNextInv == GrpInv /\ [GrpNext]_grpEntry => GrpInv'
<1> SUFFICES ASSUME GrpInv, [GrpNext]_grpEntry PROVE GrpInv'
    OBVIOUS
<1>1. ASSUME NEW g \in Group, SetClientGroup(g) PROVE GrpInv'
  <2> DEFINE e == [owner |-> GroupServer, below |-> <<>>, archived |-> FALSE]
  <2>1. Good(g, e)
    BY DEF Good, EntryType, Owner, Returns
  <2> HIDE DEF e
  <2>2. grpEntry' = [grpEntry EXCEPT ![g] = e]
    BY <1>1 DEF SetClientGroup, e
  <2> QED
    BY <2>1, <2>2 DEF GrpInv, Entered
<1>2. ASSUME NEW g \in Group, NEW actor \in GrpActor, NEW command \in GrpCommand,
             HandleMessage(g, actor, command)
      PROVE  GrpInv'
  <2>1. CASE Entered(g)
    BY <1>2, <2>1, CommandIsGood DEF HandleMessage, GrpInv, Entered
  <2>2. CASE ~Entered(g)
    <3>1. After(g, actor, command) = grpEntry[g]
      BY <1>2, <2>2 DEF HandleMessage, Allowed, OpenToManagers, Owns, After
    <3> QED
      BY <1>2, <2>2, <3>1 DEF HandleMessage, GrpInv, Entered
  <2> QED
    BY <2>1, <2>2
<1>3. CASE UNCHANGED grpEntry
  BY <1>3 DEF GrpInv, Entered
<1> QED
  BY <1>1, <1>2, <1>3 DEF GrpNext

LEMMA GrpInvReturns == GrpInv => GroupsReturn
<1> SUFFICES ASSUME GrpInv, NEW g \in Group, Entered(g)
             PROVE  LET chain == Append(grpEntry[g].below, grpEntry[g].owner)
                    IN /\ chain[1] = GroupServer
                       /\ \A i \in 2..Len(chain) : chain[i] # GroupServer
                       /\ g \in Managed /\ Len(chain) > 1 => chain[2] \in ByServices
    BY DEF GroupsReturn
<1> DEFINE e == grpEntry[g]
           chain == Append(e.below, e.owner)
<1>1. e \in EntryType /\ Returns(g, e)
  BY DEF GrpInv, Good
<1>2. /\ Len(chain) = Len(e.below) + 1 /\ Len(e.below) \in Nat
      /\ chain[Len(chain)] = e.owner
      /\ \A i \in 1..Len(e.below) : chain[i] = e.below[i]
      /\ Len(e.below) = 0 <=> e.below = <<>>
  BY <1>1 DEF EntryType
<1> HIDE DEF chain, e
<1>3. chain[1] = GroupServer
  BY <1>1, <1>2 DEF Returns
<1>4. \A i \in 2..Len(chain) : chain[i] # GroupServer
  BY <1>1, <1>2 DEF Returns
<1>5. ASSUME g \in Managed, Len(chain) > 1 PROVE chain[2] \in ByServices
  <2>1. CASE Len(e.below) = 1
    BY <1>1, <1>2, <1>5, <2>1 DEF Returns
  <2>2. CASE Len(e.below) > 1
    BY <1>1, <1>2, <1>5, <2>2 DEF Returns
  <2>3. Len(e.below) = 1 \/ Len(e.below) > 1
    <3> DEFINE n == Len(e.below)
    <3>1. n \in Nat /\ n + 1 > 1
      BY <1>2, <1>5
    <3> HIDE DEF n
    <3>2. n = 1 \/ n > 1
      BY <3>1
    <3> QED
      BY <3>2 DEF n
  <2> QED
    BY <2>1, <2>2, <2>3
<1> QED
  BY <1>3, <1>4, <1>5 DEF chain, e

\* However managers and services reclaim and release, every group leads back
\* to the server, and no manager takes one that is open to all managers
\* (GroupOwnershipRegistry, enforceGroupOwnership).
THEOREM GroupsLeadBack == GrpSpec => []GroupsReturn
BY GrpInitInv, GrpNextInv, GrpInvReturns, PTL DEF GrpSpec

-----------------------------------------------------------------------------
(* Assets: what is under way *)

Stored   == [id : Nat, content : Content, generated : BOOLEAN, pinned : BOOLEAN]
Upload   == [do : {"upload"}, content : Content, generated : BOOLEAN, refs : SUBSET Nat]
Mutation == Upload \cup [do : {"delete", "pin"}, id : Nat]

\* One asset for each content.
OneEach(as) == \A a, b \in as : a.content = b.content => a = b

\* No asset of the index has content c.
Free(c) == \A a \in assets : a.content # c

\* An upload that makes room: its content is in no asset yet, and what it may
\* discard is still there.
MakesRoom(run) ==
  /\ run = [at |-> "room", op |-> run.op, left |-> run.left]
  /\ run.op \in Upload /\ Free(run.op.content)
  /\ run.left \subseteq {a \in assets : Discardable(a, run.op.refs)}

\* An upload that has its place.
HasPlace(run) ==
  /\ run = [at |-> run.at, op |-> run.op]
  /\ run.op \in Upload /\ Free(run.op.content)
  /\ run.op.generated => Cardinality(assets) < AssetMax
  /\ run.at = "index" => run.op.content \in assetFiles

\* A change of the index that is being written; a file may be unlinked only
\* if neither the index nor its copy lists it.
Writes(run) ==
  /\ run = [at |-> run.at, drop |-> run.drop, then |-> run.then]
  /\ run.drop # NoAsset => Free(run.drop)
  /\ run.at = "unlink" =>
       /\ run.drop # NoAsset
       /\ assetLost \/ \A a \in assetSaved : a.content # run.drop
  /\ run.then # NoAsset => MakesRoom(run.then)

\* Neither depends on anything but the index.
LEMMA RoomStays ==
  ASSUME NEW run, MakesRoom(run), UNCHANGED assets
  PROVE  MakesRoom(run)' /\ run.at = "room"
<1>1. run.at = "room"
  BY DEF MakesRoom
<1>2. MakesRoom(run)'
  BY DEF MakesRoom, Free
<1> QED BY <1>1, <1>2

UnderWay ==
  assetRun # NoAsset =>
    \/ assetRun.at = "room" /\ MakesRoom(assetRun)
    \/ assetRun.at \in {"store", "index"} /\ HasPlace(assetRun)
    \/ assetRun.at \in {"persist", "unlink"} /\ Writes(assetRun)

AssetTypes ==
  /\ assets \in SUBSET Stored /\ IsFiniteSet(assets) /\ OneEach(assets)
  /\ assetSaved \in SUBSET Stored /\ IsFiniteSet(assetSaved) /\ OneEach(assetSaved)
  /\ assetRefs \in SUBSET Nat
  /\ assetQueue \in Seq(Mutation)
  /\ assetIds \in Nat

AssetInv == AssetTypes /\ UnderWay /\ AssetsHaveFiles

LEMMA AssetInitInv == AssetInit => AssetInv
BY FS_EmptySet
DEF AssetInit, AssetInv, AssetTypes, OneEach, UnderWay, AssetsHaveFiles

\* Asking for a mutation touches nothing but the queue.
LEMMA AskedInv ==
  ASSUME AssetInv, NEW op \in Mutation, RunMutation(op)
  PROVE  AssetInv'
<1>1. assetQueue' \in Seq(Mutation)
  BY DEF AssetInv, AssetTypes, RunMutation
<1> QED
  BY <1>1 DEF AssetInv, AssetTypes, UnderWay, MakesRoom, HasPlace, Writes, Free, OneEach,
     AssetsHaveFiles, RunMutation

\* What an asset becomes when it is pinned or no longer.
Pinned(as, id) == {[a EXCEPT !.pinned = (a.id = id) # @] : a \in as}

LEMMA PinnedProperties ==
  ASSUME NEW as \in SUBSET Stored, IsFiniteSet(as), OneEach(as), NEW id
  PROVE  /\ Pinned(as, id) \in SUBSET Stored
         /\ IsFiniteSet(Pinned(as, id))
         /\ OneEach(Pinned(as, id))
         /\ \A b \in Pinned(as, id) : \E a \in as : a.content = b.content
<1> DEFINE Pin(a) == [a EXCEPT !.pinned = (a.id = id) # @]
<1>1. \A a \in as : Pin(a) \in Stored /\ Pin(a).content = a.content
  <2> TAKE a \in as
  <2>1. ((a.id = id) # a.pinned) \in BOOLEAN
    OBVIOUS
  <2>2. a \in Stored
    OBVIOUS
  <2> QED BY <2>1, <2>2 DEF Stored
<1>2. Pinned(as, id) = {Pin(a) : a \in as}
  BY DEF Pinned
<1> HIDE DEF Pin
<1>3. IsFiniteSet({Pin(a) : a \in as})
  <2> DEFINE f == [a \in as |-> Pin(a)]
             S == {Pin(a) : a \in as}
  <2>1. f \in Surjection(as, S)
    BY DEF Surjection
  <2> HIDE DEF f, S
  <2>2. IsFiniteSet(S)
    BY <2>1, FS_Surjection
  <2> QED BY <2>2 DEF S
<1>4. ASSUME NEW b \in Pinned(as, id), NEW c \in Pinned(as, id), b.content = c.content
      PROVE  b = c
  <2>1. PICK x \in as : b = Pin(x)
    BY <1>2
  <2>2. PICK y \in as : c = Pin(y)
    BY <1>2
  <2>3. x = y
    BY <1>1, <1>4, <2>1, <2>2 DEF OneEach
  <2> QED BY <2>1, <2>2, <2>3
<1>5. Pinned(as, id) \in SUBSET Stored
  BY <1>1, <1>2
<1>6. \A b \in Pinned(as, id) : \E a \in as : a.content = b.content
  BY <1>1, <1>2
<1>7. OneEach(Pinned(as, id))
  BY <1>4 DEF OneEach
<1> QED BY <1>2, <1>3, <1>5, <1>6, <1>7

\* The oldest of some assets is one of them.
LEMMA OldestIsOne ==
  ASSUME NEW left \in SUBSET Stored, left # {}
  PROVE  Oldest(left) \in left
<1>1. {a.id : a \in left} \in SUBSET Nat /\ {a.id : a \in left} # {}
  BY DEF Stored
<1>2. PICK n \in {a.id : a \in left} : \A m \in {a.id : a \in left} : n <= m
  BY <1>1, LeastExists
<1>3. \E a \in left : \A b \in left : a.id <= b.id
  BY <1>2
<1> QED BY <1>3 DEF Oldest

\* What is left of a set of assets by taking one out.
LEMMA Without1 ==
  ASSUME NEW a \in assets, AssetTypes
  PROVE  /\ assets \ {a} \in SUBSET Stored
         /\ IsFiniteSet(assets \ {a})
         /\ OneEach(assets \ {a})
         /\ \A b \in assets \ {a} : b.content # a.content
BY FS_RemoveElement DEF AssetTypes, OneEach

LEMMA BeginInv ==
  ASSUME AssetInv, Begin
  PROVE  AssetInv'
<1> DEFINE op == Head(assetQueue)
<1>1. /\ assetRun = NoAsset
      /\ op \in Mutation
      /\ assetQueue' \in Seq(Mutation)
      /\ UNCHANGED <<assetFiles, assetSaved, assetRefs, assetIds, assetCalls, assetLost>>
  BY HeadTailProperties DEF AssetInv, AssetTypes, Begin, MyTurn
<1> HIDE DEF op
<1>2. ASSUME UNCHANGED <<assets, assetRun>>
      PROVE  AssetInv'
  BY <1>1, <1>2 DEF AssetInv, AssetTypes, UnderWay, OneEach, AssetsHaveFiles
<1>3. CASE BeginDelete(op)
  <2>1. CASE \E a \in assets : a.id = op.id
    <3> DEFINE a == CHOOSE x \in assets : x.id = op.id
    <3>1. a \in assets
      BY <2>1
    <3>2. assets' = assets \ {a} /\ assetRun' = [at |-> "persist", drop |-> a.content, then |-> NoAsset]
      BY <1>3, <2>1 DEF BeginDelete, Goes
    <3> HIDE DEF a
    <3>3. AssetTypes'
      BY <1>1, <3>1, <3>2, Without1 DEF AssetInv, AssetTypes
    <3>4. Writes(assetRun)'
      BY <3>1, <3>2, Without1 DEF Writes, Free, AssetInv
    <3> QED BY <1>1, <3>2, <3>3, <3>4 DEF AssetInv, UnderWay, AssetsHaveFiles
  <2> QED BY <1>2, <1>3, <2>1 DEF BeginDelete
<1>4. CASE BeginPin(op)
  <2>1. CASE \E a \in assets : a.id = op.id
    <3>1. assets' = Pinned(assets, op.id) /\ assetRun' = [at |-> "persist", drop |-> NoAsset, then |-> NoAsset]
      BY <1>4, <2>1 DEF BeginPin, Changed, Pinned
    <3>2. AssetTypes' /\ \A b \in assets' : \E a \in assets : a.content = b.content
      BY <1>1, <3>1, PinnedProperties DEF AssetInv, AssetTypes
    <3>3. Writes(assetRun)'
      BY <3>1 DEF Writes
    <3> QED BY <1>1, <3>1, <3>2, <3>3 DEF AssetInv, UnderWay, AssetsHaveFiles
  <2> QED BY <1>2, <1>4, <2>1 DEF BeginPin
<1>5. CASE BeginUpload(op)
  <2>1. op \in Upload
    BY <1>1, <1>5 DEF BeginUpload, Mutation
  <2>2. CASE \E a \in assets : a.content = op.content
    BY <1>1, <1>2, <1>5, <2>2 DEF BeginUpload
  <2>3. CASE ~(\E a \in assets : a.content = op.content) /\ op.generated
    <3>1. assets' = assets /\ assetRun' = [at |-> "room", op |-> op, left |-> Candidates(op.refs)]
      BY <1>5, <2>3 DEF BeginUpload, Uploading
    <3>2. MakesRoom(assetRun)'
      BY <2>1, <2>3, <3>1 DEF MakesRoom, Free, Candidates
    <3> QED BY <1>1, <3>1, <3>2 DEF AssetInv, AssetTypes, UnderWay, OneEach, AssetsHaveFiles
  <2>4. CASE ~(\E a \in assets : a.content = op.content) /\ ~op.generated
    <3>1. assets' = assets /\ assetRun' = [at |-> "store", op |-> op]
      BY <1>5, <2>4 DEF BeginUpload
    <3>2. HasPlace(assetRun)'
      BY <2>1, <2>4, <3>1 DEF HasPlace, Free
    <3> QED BY <1>1, <3>1, <3>2 DEF AssetInv, AssetTypes, UnderWay, OneEach, AssetsHaveFiles
  <2> QED BY <2>2, <2>3, <2>4
<1> QED BY <1>3, <1>4, <1>5 DEF Begin, op

LEMMA EnsureCapacityInv ==
  ASSUME AssetInv, EnsureCapacity
  PROVE  AssetInv'
<1>0. PICK run : run = assetRun
  OBVIOUS
<1>1. /\ run # NoAsset /\ run.at = "room" /\ MakesRoom(run)
      /\ UNCHANGED <<assetFiles, assetSaved, assetRefs, assetQueue, assetIds, assetCalls, assetLost>>
  BY <1>0 DEF EnsureCapacity, AssetInv, UnderWay
<1>2. CASE Cardinality(assets) + 1 <= AssetMax
  <2>1. assetRun' = [at |-> "store", op |-> run.op] /\ assets' = assets
    BY <1>0, <1>2 DEF EnsureCapacity
  <2>2. Cardinality(assets) < AssetMax
    BY <1>2, FS_CardinalityType, AssetAssumption DEF AssetInv, AssetTypes, AssetAssumption
  <2>3. HasPlace(assetRun)'
    BY <1>1, <2>1, <2>2 DEF HasPlace, MakesRoom, Free
  <2> QED BY <1>1, <2>1, <2>3 DEF AssetInv, AssetTypes, UnderWay, OneEach, AssetsHaveFiles
<1>3. CASE ~(Cardinality(assets) + 1 <= AssetMax) /\ run.left = {}
  <2>1. assetRun' = NoAsset /\ assets' = assets
    BY <1>0, <1>3 DEF EnsureCapacity
  <2> QED BY <1>1, <2>1 DEF AssetInv, AssetTypes, UnderWay, OneEach, AssetsHaveFiles
<1>4. CASE ~(Cardinality(assets) + 1 <= AssetMax) /\ run.left # {}
  <2>0. PICK a, next : a = Oldest(run.left) /\ next = [run EXCEPT !.left = run.left \ {a}]
    OBVIOUS
  <2>1. run.left \in SUBSET Stored
    BY <1>1 DEF MakesRoom, AssetInv, AssetTypes
  <2>2. a \in run.left /\ a \in assets
    BY <1>1, <1>4, <2>0, <2>1, OldestIsOne DEF MakesRoom
  <2>3. assets' = assets \ {a} /\ assetRun' = [at |-> "persist", drop |-> a.content, then |-> next]
    BY <1>0, <1>4, <2>0 DEF EnsureCapacity, Goes
  <2>4. next = [at |-> "room", op |-> run.op, left |-> run.left \ {a}]
    BY <1>1, <2>0 DEF MakesRoom
  <2>5. AssetTypes'
    BY <1>1, <2>2, <2>3, Without1 DEF AssetInv, AssetTypes
  <2>6. MakesRoom(next)'
    <3>1. next.op = run.op /\ next.left = run.left \ {a}
      BY <2>4
    <3>2. next = [at |-> "room", op |-> next.op, left |-> next.left]
      BY <2>4
    <3>3. run.op \in Upload /\ \A b \in assets \ {a} : b.content # run.op.content
      BY <1>1 DEF MakesRoom, Free
    <3>4. run.left \ {a} \subseteq {b \in assets \ {a} : Discardable(b, run.op.refs)}
      BY <1>1 DEF MakesRoom
    <3> QED BY <2>3, <3>1, <3>2, <3>3, <3>4 DEF MakesRoom, Free, Discardable
  <2>7. Writes(assetRun)'
    <3>1. \A b \in assets' : b.content # a.content
      BY <2>2, <2>3, Without1 DEF AssetInv
    <3> QED BY <2>3, <2>6, <3>1 DEF Writes, Free
  <2> QED BY <1>1, <2>3, <2>5, <2>7 DEF AssetInv, UnderWay, AssetsHaveFiles
<1> QED BY <1>2, <1>3, <1>4

LEMMA MoveFileInv ==
  ASSUME AssetInv, MoveFile
  PROVE  AssetInv'
<1>1. /\ HasPlace(assetRun)
      /\ assetFiles' = assetFiles \cup {assetRun.op.content}
      /\ assetRun' = [assetRun EXCEPT !.at = "index"]
      /\ UNCHANGED <<assets, assetSaved, assetRefs, assetQueue, assetIds, assetCalls, assetLost>>
  BY DEF MoveFile, AssetInv, UnderWay
<1>2. assetRun' = [at |-> "index", op |-> assetRun.op]
  BY <1>1 DEF HasPlace
<1>3. HasPlace(assetRun)'
  BY <1>1, <1>2 DEF HasPlace, Free
<1> QED BY <1>1, <1>2, <1>3 DEF AssetInv, AssetTypes, UnderWay, OneEach, AssetsHaveFiles

LEMMA AddToIndexInv ==
  ASSUME AssetInv, AddToIndex
  PROVE  AssetInv'
<1> DEFINE a == [id |-> assetIds + 1, content |-> assetRun.op.content,
                 generated |-> assetRun.op.generated, pinned |-> FALSE]
<1>1. /\ HasPlace(assetRun) /\ assetRun.at = "index"
      /\ assetIds' = assetIds + 1
      /\ assets' = assets \cup {a}
      /\ assetRun' = [at |-> "persist", drop |-> NoAsset, then |-> NoAsset]
      /\ UNCHANGED <<assetFiles, assetSaved, assetRefs, assetQueue, assetCalls, assetLost>>
  BY DEF AddToIndex, AssetInv, UnderWay, Changed
<1>2. a \in Stored /\ a.content = assetRun.op.content
  BY <1>1 DEF HasPlace, Upload, Stored, AssetInv, AssetTypes
<1> HIDE DEF a
<1>3. a.content \in assetFiles /\ \A b \in assets : b.content # a.content
  BY <1>1, <1>2 DEF HasPlace, Free
<1>4. IsFiniteSet(assets') /\ OneEach(assets')
  BY <1>1, <1>3, FS_AddElement DEF AssetInv, AssetTypes, OneEach
<1>5. AssetTypes'
  BY <1>1, <1>2, <1>4 DEF AssetInv, AssetTypes
<1>6. Writes(assetRun)'
  BY <1>1 DEF Writes
<1> QED BY <1>1, <1>3, <1>5, <1>6 DEF AssetInv, UnderWay, AssetsHaveFiles

LEMMA IndexWrittenInv ==
  ASSUME AssetInv, IndexWritten
  PROVE  AssetInv'
<1>0. PICK run : run = assetRun
  OBVIOUS
<1>1. run # NoAsset /\ run.at = "persist" /\ Writes(run)
  BY <1>0 DEF IndexWritten, AssetInv, UnderWay
<1>2. PICK ok \in BOOLEAN :
        /\ assetSaved' = IF ok THEN assets ELSE assetSaved
        /\ assetLost' = (assetLost \/ ~ok)
        /\ assetRun' = IF run.drop = NoAsset THEN run.then ELSE [run EXCEPT !.at = "unlink"]
        /\ UNCHANGED <<assets, assetFiles, assetRefs, assetQueue, assetIds, assetCalls>>
  BY <1>0 DEF IndexWritten, Persist
<1>3. AssetTypes' /\ AssetsHaveFiles'
  BY <1>2 DEF AssetInv, AssetTypes, OneEach, AssetsHaveFiles
<1>4. CASE run.drop = NoAsset
  <2>1. ASSUME run.then # NoAsset
        PROVE  MakesRoom(run.then)' /\ run.then.at = "room"
    BY <1>1, <1>2, <2>1, RoomStays DEF Writes
  <2> QED BY <1>2, <1>3, <1>4, <2>1 DEF AssetInv, UnderWay
<1>5. CASE run.drop # NoAsset
  <2>1. assetRun' = [at |-> "unlink", drop |-> run.drop, then |-> run.then]
    BY <1>1, <1>2, <1>5 DEF Writes
  <2>2. ASSUME run.then # NoAsset
        PROVE  MakesRoom(run.then)'
    BY <1>1, <1>2, <2>2, RoomStays DEF Writes
  <2>3. assetLost' \/ \A a \in assetSaved' : a.content # run.drop
    BY <1>1, <1>2, <1>5 DEF Writes, Free
  <2>4. Free(run.drop)'
    BY <1>1, <1>2, <1>5 DEF Writes, Free
  <2>5. Writes(assetRun)'
    BY <1>5, <2>1, <2>2, <2>3, <2>4 DEF Writes
  <2> QED BY <1>3, <2>1, <2>5 DEF AssetInv, UnderWay
<1> QED BY <1>4, <1>5

LEMMA UnlinkInv ==
  ASSUME AssetInv, Unlink
  PROVE  AssetInv'
<1>0. PICK run : run = assetRun
  OBVIOUS
<1>1. /\ run # NoAsset /\ run.at = "unlink" /\ Writes(run)
      /\ assetFiles' = assetFiles \ {run.drop}
      /\ assetRun' = run.then
      /\ UNCHANGED <<assets, assetSaved, assetRefs, assetQueue, assetIds, assetCalls, assetLost>>
  BY <1>0 DEF Unlink, AssetInv, UnderWay
<1>2. AssetsHaveFiles'
  BY <1>1 DEF AssetInv, AssetsHaveFiles, Writes, Free
<1>3. ASSUME run.then # NoAsset
      PROVE  MakesRoom(run.then)' /\ run.then.at = "room"
  BY <1>1, <1>3, RoomStays DEF Writes
<1> QED BY <1>1, <1>2, <1>3 DEF AssetInv, AssetTypes, UnderWay, OneEach

LEMMA AssetNextInv == AssetInv /\ [AssetNext]_assetVars => AssetInv'
<1> SUFFICES ASSUME AssetInv, [AssetNext]_assetVars PROVE AssetInv'
  OBVIOUS
<1>0. 1..AssetCalls \subseteq Nat
  OBVIOUS
<1>1. ASSUME NEW c \in Content, NEW g \in BOOLEAN, UploadFromTempFile(c, g)
      PROVE  AssetInv'
  <2> DEFINE op == [do |-> "upload", content |-> c, generated |-> g, refs |-> assetRefs]
  <2>1. op \in Mutation /\ RunMutation(op)
    BY <1>1 DEF UploadFromTempFile, Mutation, Upload, AssetInv, AssetTypes
  <2> HIDE DEF op
  <2> QED BY <2>1, AskedInv
<1>2. ASSUME NEW id \in 1..AssetCalls, DeleteAsset(id) \/ UpdateAsset(id)
      PROVE  AssetInv'
  <2>1. \A d \in {"delete", "pin"} : [do |-> d, id |-> id] \in Mutation
    BY <1>0 DEF Mutation
  <2> QED BY <1>2, <2>1, AskedInv DEF DeleteAsset, UpdateAsset
<1>3. ASSUME NEW id \in 1..AssetCalls, Refer(id)
      PROVE  AssetInv'
  <2>1. assetRefs' \in SUBSET Nat
    BY <1>0, <1>3 DEF Refer, AssetInv, AssetTypes
  <2> QED
    BY <1>3, <2>1 DEF Refer, AssetInv, AssetTypes, UnderWay, MakesRoom, HasPlace, Writes, Free,
       OneEach, AssetsHaveFiles
<1>4. CASE StoreRestarts
  BY <1>4, EmptySeq
  DEF StoreRestarts, AssetInv, AssetTypes, UnderWay, OneEach, AssetsHaveFiles
<1>5. CASE UNCHANGED assetVars
  BY <1>5 DEF assetVars, AssetInv, AssetTypes, UnderWay, MakesRoom, HasPlace, Writes, Free,
     OneEach, AssetsHaveFiles
<1> QED
  BY <1>1, <1>2, <1>3, <1>4, <1>5, BeginInv, EnsureCapacityInv, MoveFileInv, AddToIndexInv,
     IndexWrittenInv, UnlinkInv
  DEF AssetNext

\* Wherever the server stops, what either copy of the index lists has its
\* file: the index is written before a file goes and after it has come
\* (uploadFromTempFile, deleteStoredAsset).
THEOREM IndexedAssetsHaveFiles == AssetSpec => []AssetsHaveFiles
BY AssetInitInv, AssetNextInv, PTL DEF AssetSpec, AssetInv

\* Room is made only at the expense of generated assets that nobody has pinned
\* and the graph did not refer to, although every discard waits for two writes
\* (ensureCapacityForIncomingAsset, runMutation).
THEOREM OnlySpareAssetsGo == AssetSpec => []DiscardsSpareAssets
<1>1. AssetInv => DiscardsSpareAssets
  BY DEF AssetInv, UnderWay, MakesRoom, HasPlace, DiscardsSpareAssets
<1> QED BY <1>1, AssetInitInv, AssetNextInv, PTL DEF AssetSpec

-----------------------------------------------------------------------------
(* The bus: what was announced, and what is kept of it *)

Partition == [status : {"none", "deployed", "running", "stopped"}, nodes : SUBSET BusNode, bound : Nat]
BusState  == [nodes : SUBSET BusNode, group : SUBSET BusNode, part : Partition,
              defined : BOOLEAN, owner : {"a", "b"}, rev : Nat]

\* A partition is what it was in the revision it is bound to.
BornIn(seen, s) ==
  IF s.part.status = "none"
  THEN s.part = NoPartition
  ELSE s.part.bound + 1 \in 1..Len(seen) /\ seen[s.part.bound + 1].part = s.part

\* The snapshots that went out, one for each revision.
Announced(seen) ==
  /\ seen \in Seq(BusState) /\ Len(seen) > 0
  /\ \A i \in 1..Len(seen) : seen[i].rev = i - 1 /\ BornIn(seen, seen[i])

\* Tokens keep states that were announced.
Kept(tokens, seen) ==
  /\ tokens \in Seq(BusState)
  /\ \A i \in 1..Len(tokens) : \E j \in 1..Len(seen) : tokens[i] = seen[j]

\* So does the history, but for custom definitions.
Undefined(s) == [s EXCEPT !.defined = FALSE]
Recalled(h, seen) == \E j \in 1..Len(seen) : h = seen[j] \/ h = Undefined(seen[j])
Recalls(history, seen) ==
  /\ history \in Seq(BusState) /\ Len(history) > 0
  /\ \A i \in 1..Len(history) : Recalled(history[i], seen)

BusGood(b) ==
  /\ Announced(b.seen) /\ b.state = b.seen[Len(b.seen)]
  /\ Kept(b.tokens, b.seen)
  /\ Recalls(b.history, b.seen)

\* Tokens are added, never replaced.
Longer(tokens, more) ==
  /\ Len(tokens) <= Len(more)
  /\ \A i \in 1..Len(tokens) : more[i] = tokens[i]

Referred(proposals, tokens) ==
  \A p \in proposals : p.token \in 1..Len(tokens) /\ tokens[p.token] = p.before

BusInv == BusGood(Bus) /\ Referred(busProposals, busTokens)

LEMMA UndefinedState ==
  ASSUME NEW s \in BusState
  PROVE  /\ Undefined(s) \in BusState
         /\ Undefined(s).part = s.part /\ Undefined(s).rev = s.rev
         /\ Undefined(Undefined(s)) = Undefined(s)
BY DEF Undefined, BusState

\* A command makes the next revision, and binds the partition to it if it
\* changes the partition.
LEMMA OutcomeProperties ==
  ASSUME NEW s \in BusState, NEW c \in BusCommand
  PROVE  LET r == [Outcome(s, c) EXCEPT !.rev = @ + 1]
         IN /\ r \in BusState /\ r.rev = s.rev + 1
            /\ \/ r.part = s.part
               \/ r.part.status # "none" /\ r.part.bound = s.rev + 1
<1> DEFINE o == Outcome(s, c)
<1>0. s.part \in Partition /\ s.rev \in Nat
  BY DEF BusState
<1>1. /\ o \in BusState /\ o.rev = s.rev
      /\ \/ o.part = s.part
         \/ o.part.status # "none" /\ o.part.bound = s.rev + 1
  <2>1. CASE c.do = "add"
    <3>1. c.node \in BusNode /\ o = [s EXCEPT !.nodes = s.nodes \cup {c.node}, !.group = s.group \cup {c.node}]
      BY <2>1 DEF BusCommand, Unexpecting, Expecting, Outcome
    <3> HIDE DEF o
    <3> QED BY <3>1 DEF BusState
  <2>2. CASE c.do = "remove"
    <3>1. c.node \in BusNode /\ o = [s EXCEPT !.nodes = s.nodes \ {c.node}, !.group = s.group \ {c.node}]
      BY <2>2 DEF BusCommand, Unexpecting, Expecting, Outcome
    <3> HIDE DEF o
    <3> QED BY <3>1 DEF BusState
  <2>3. CASE c.do \in {"define", "undefine"}
    <3>1. \E d \in BOOLEAN : o = [s EXCEPT !.defined = d]
      BY <2>3 DEF Outcome
    <3> HIDE DEF o
    <3> QED BY <3>1 DEF BusState
  <2>4. CASE c.do = "reclaim"
    <3>1. \E w \in {"a", "b"} : o = [s EXCEPT !.owner = w]
      BY <2>4 DEF Outcome
    <3> HIDE DEF o
    <3> QED BY <3>1 DEF BusState
  <2>5. CASE c.do \in {"deploy", "start", "stop"}
    <3>1. PICK status \in {"deployed", "running", "stopped"}, nodes \in SUBSET BusNode :
            o = Bound(s, status, nodes)
      <4>1. CASE c.do = "deploy"
        <5>1. {c.node} \in SUBSET BusNode /\ o = Bound(s, "deployed", {c.node})
          BY <4>1 DEF BusCommand, Unexpecting, Expecting, Outcome
        <5> QED BY <5>1
      <4>2. CASE c.do = "start"
        BY <1>0, <4>2 DEF Outcome, Partition
      <4>3. CASE c.do = "stop"
        BY <1>0, <4>3 DEF Outcome, Partition
      <4> QED BY <2>5, <4>1, <4>2, <4>3
    <3>2. PICK p : p = [status |-> status, nodes |-> nodes, bound |-> s.rev + 1]
      OBVIOUS
    <3>3. p \in Partition /\ p.status # "none" /\ p.bound = s.rev + 1
      BY <1>0, <3>2 DEF Partition
    <3>4. o = [s EXCEPT !.part = p]
      BY <3>1, <3>2 DEF Bound
    <3> HIDE DEF o
    <3> QED BY <3>3, <3>4 DEF BusState
  <2> QED BY <2>1, <2>2, <2>3, <2>4, <2>5 DEF BusCommand, Unexpecting, Expecting
<1> HIDE DEF o
<1>2. o.rev + 1 \in Nat
  BY <1>0, <1>1
<1> QED BY <1>1, <1>2 DEF BusState, o

\* The next revision goes out, with a partition of its own or of before.
LEMMA AnnounceGood ==
  ASSUME NEW seen, Announced(seen), NEW r \in BusState, r.rev = Len(seen),
         BornIn(seen, r) \/ (r.part.status # "none" /\ r.part.bound = r.rev)
  PROVE  LET more == Append(seen, r)
         IN /\ Announced(more) /\ more[Len(more)] = r /\ Len(more) = Len(seen) + 1
            /\ \A i \in 1..Len(seen) : more[i] = seen[i]
<1> DEFINE more == Append(seen, r)
<1>1. /\ more \in Seq(BusState) /\ Len(more) = Len(seen) + 1 /\ Len(seen) \in Nat
      /\ more[Len(seen) + 1] = r
      /\ \A i \in 1..Len(seen) : more[i] = seen[i]
  BY AppendProperties, LenProperties DEF Announced
<1> HIDE DEF more
<1>2. ASSUME NEW s, BornIn(seen, s) PROVE BornIn(more, s)
  BY <1>1, <1>2 DEF BornIn
<1>3. BornIn(more, r)
  <2>1. CASE BornIn(seen, r)
    BY <1>2, <2>1
  <2>2. CASE r.part.status # "none" /\ r.part.bound = r.rev
    BY <1>1, <2>2 DEF BornIn
  <2> QED BY <2>1, <2>2
<1>4. ASSUME NEW i \in 1..Len(more) PROVE more[i].rev = i - 1 /\ BornIn(more, more[i])
  <2>1. CASE i = Len(seen) + 1
    BY <1>1, <1>3, <2>1
  <2>2. CASE i # Len(seen) + 1
    <3>1. i \in 1..Len(seen)
      BY <1>1, <2>2
    <3> QED BY <1>1, <1>2, <3>1 DEF Announced
  <2> QED BY <2>1, <2>2
<1>5. Announced(more)
  BY <1>1, <1>4 DEF Announced
<1> QED BY <1>1, <1>5 DEF more

\* What was announced stays announced.
LEMMA StaysKept ==
  ASSUME NEW seen, NEW more, Len(seen) \in Nat, Len(more) = Len(seen) + 1,
         \A i \in 1..Len(seen) : more[i] = seen[i],
         NEW tokens, Kept(tokens, seen), NEW history, Recalls(history, seen)
  PROVE  Kept(tokens, more) /\ Recalls(history, more)
<1>1. \A j \in 1..Len(seen) : j \in 1..Len(more) /\ more[j] = seen[j]
  OBVIOUS
<1>2. Kept(tokens, more)
  BY <1>1 DEF Kept
<1>3. Recalls(history, more)
  BY <1>1 DEF Recalls, Recalled
<1> QED BY <1>2, <1>3

LEMMA RecordedGood ==
  ASSUME NEW seen, NEW history, Recalls(history, seen), NEW s \in BusState, Recalled(s, seen)
  PROVE  Recalls(Recorded(history, s), seen)
<1>1. CASE Recorded(history, s) = history
  BY <1>1
<1>2. CASE Recorded(history, s) = Append(history, s)
  <2> DEFINE more == Append(history, s)
  <2>1. /\ more \in Seq(BusState) /\ Len(more) = Len(history) + 1 /\ Len(history) \in Nat
        /\ more[Len(history) + 1] = s
        /\ \A i \in 1..Len(history) : more[i] = history[i]
    BY AppendProperties, LenProperties DEF Recalls
  <2> HIDE DEF more
  <2>2. ASSUME NEW i \in 1..Len(more) PROVE Recalled(more[i], seen)
    <3>1. i = Len(history) + 1 \/ i \in 1..Len(history)
      BY <2>1
    <3> QED BY <2>1, <3>1 DEF Recalls
  <2>3. Recalls(more, seen)
    BY <2>1, <2>2 DEF Recalls
  <2> QED BY <1>2, <2>3 DEF more
<1> QED BY <1>1, <1>2 DEF Recorded

LEMMA StepGood ==
  ASSUME NEW b, BusGood(b), NEW c \in BusCommand
  PROVE  /\ BusGood(Step(b, c))
         /\ Longer(b.tokens, Step(b, c).tokens)
         /\ Len(Step(b, c).tokens) = Len(b.tokens) + 1 /\ Len(b.tokens) \in Nat
         /\ Step(b, c).tokens[Len(b.tokens) + 1] = b.state
<1> DEFINE next == [Outcome(b.state, c) EXCEPT !.rev = @ + 1]
           seen == Append(b.seen, next)
<1>0. b.seen \in Seq(BusState) /\ Len(b.seen) \in Nat /\ Len(b.seen) \in 1..Len(b.seen)
  BY LenProperties DEF BusGood, Announced
<1>1. b.state \in BusState /\ b.state.rev = Len(b.seen) - 1 /\ BornIn(b.seen, b.state)
  BY <1>0, ElementOfSeq DEF BusGood, Announced
<1>2. /\ Step(b, c).state = next /\ Step(b, c).tokens = Append(b.tokens, b.state)
      /\ Step(b, c).history = Recorded(b.history, next) /\ Step(b, c).seen = seen
  BY DEF Step
<1>3. /\ next \in BusState /\ next.rev = Len(b.seen)
      /\ BornIn(b.seen, next) \/ (next.part.status # "none" /\ next.part.bound = next.rev)
  <2>1. /\ next \in BusState /\ next.rev = b.state.rev + 1
        /\ \/ next.part = b.state.part
           \/ next.part.status # "none" /\ next.part.bound = b.state.rev + 1
    BY <1>1, OutcomeProperties
  <2> HIDE DEF next
  <2> QED BY <1>0, <1>1, <2>1 DEF BornIn
<1> HIDE DEF next
<1>4. /\ Announced(seen) /\ seen[Len(seen)] = next /\ Len(seen) = Len(b.seen) + 1
      /\ \A i \in 1..Len(b.seen) : seen[i] = b.seen[i]
  BY <1>3, AnnounceGood DEF BusGood
<1> HIDE DEF seen
<1>5. Kept(b.tokens, seen) /\ Recalls(b.history, seen)
  BY <1>0, <1>4, StaysKept DEF BusGood
<1>6. Recalls(Recorded(b.history, next), seen)
  <2>1. Recalled(next, seen)
    <3>1. Len(seen) \in 1..Len(seen)
      BY <1>0, <1>4
    <3> QED BY <1>4, <3>1 DEF Recalled
  <2> QED BY <1>3, <1>5, <2>1, RecordedGood
<1>7. /\ Append(b.tokens, b.state) \in Seq(BusState) /\ Len(b.tokens) \in Nat
      /\ Len(Append(b.tokens, b.state)) = Len(b.tokens) + 1
      /\ Append(b.tokens, b.state)[Len(b.tokens) + 1] = b.state
      /\ \A i \in 1..Len(b.tokens) : Append(b.tokens, b.state)[i] = b.tokens[i]
  BY <1>1, AppendProperties, LenProperties DEF BusGood, Kept
<1>8. Kept(Append(b.tokens, b.state), seen)
  <2>1. Len(b.seen) \in 1..Len(seen) /\ seen[Len(b.seen)] = b.state
    BY <1>0, <1>4 DEF BusGood
  <2>2. ASSUME NEW i \in 1..(Len(b.tokens) + 1)
        PROVE  \E j \in 1..Len(seen) : Append(b.tokens, b.state)[i] = seen[j]
    <3>1. CASE i = Len(b.tokens) + 1
      BY <1>7, <2>1, <3>1
    <3>2. CASE i # Len(b.tokens) + 1
      <4>1. i \in 1..Len(b.tokens)
        BY <1>7, <3>2
      <4> QED BY <1>5, <1>7, <4>1 DEF Kept
    <3> QED BY <3>1, <3>2
  <2> QED BY <1>7, <2>2 DEF Kept
<1>9. BusGood(Step(b, c))
  BY <1>2, <1>4, <1>6, <1>8 DEF BusGood
<1>10. Longer(b.tokens, Append(b.tokens, b.state))
  BY <1>7 DEF Longer
<1> QED BY <1>2, <1>7, <1>9, <1>10

\* A rollback makes a new revision of a state that was announced.
LEMMA RestoredGood ==
  ASSUME BusInv, NEW s \in BusState, Recalled(s, busSeen)
  PROVE  BusGood(Restored(s)) /\ Restored(s).tokens = busTokens
<1> DEFINE next == NewRevision(s)
           seen == Append(busSeen, next)
<1>0. /\ Announced(busSeen) /\ bus = busSeen[Len(busSeen)] /\ Len(busSeen) \in Nat
      /\ Kept(busTokens, busSeen) /\ Recalls(busHistory, busSeen)
  BY LenProperties DEF BusInv, BusGood, Bus, Announced
<1>1. /\ Restored(s).state = next /\ Restored(s).tokens = busTokens /\ Restored(s).seen = seen
      /\ Restored(s).history = Recorded(busHistory, Undefined(next))
  BY DEF Restored, Undefined
<1>2. bus.rev = Len(busSeen) - 1
  BY <1>0 DEF Announced
<1>3. next \in BusState /\ next.rev = Len(busSeen) /\ next.part = s.part
  <2>1. next = [s EXCEPT !.rev = Len(busSeen)]
    BY <1>0, <1>2 DEF NewRevision
  <2> HIDE DEF next
  <2> QED BY <1>0, <2>1 DEF BusState
<1>4. BornIn(busSeen, next)
  <2>1. PICK j \in 1..Len(busSeen) : s.part = busSeen[j].part
    <3>1. PICK j \in 1..Len(busSeen) : s = busSeen[j] \/ s = Undefined(busSeen[j])
      BY DEF Recalled
    <3>2. busSeen[j] \in BusState
      BY <1>0, ElementOfSeq DEF Announced
    <3> QED BY <3>1, <3>2, UndefinedState
  <2> HIDE DEF next
  <2> QED BY <1>0, <1>3, <2>1 DEF Announced, BornIn
<1> HIDE DEF next
<1>5. /\ Announced(seen) /\ seen[Len(seen)] = next /\ Len(seen) = Len(busSeen) + 1
      /\ \A i \in 1..Len(busSeen) : seen[i] = busSeen[i]
  BY <1>0, <1>3, <1>4, AnnounceGood
<1> HIDE DEF seen
<1>6. Kept(busTokens, seen) /\ Recalls(busHistory, seen)
  BY <1>0, <1>5, StaysKept
<1>7. Recalls(Recorded(busHistory, Undefined(next)), seen)
  <2>1. Len(seen) \in 1..Len(seen)
    BY <1>0, <1>5
  <2>2. Recalled(Undefined(next), seen)
    BY <1>5, <2>1 DEF Recalled
  <2> QED BY <1>3, <1>6, <2>2, UndefinedState, RecordedGood
<1> QED BY <1>1, <1>5, <1>6, <1>7 DEF BusGood

\* The bus after each of some commands, as ApplyCommands folds them.
UnlessFold(f, g, cs, n) ==
  f = [s \in SUBSET (1..n) |-> IF s = {} THEN g ELSE Unless(f[s \ {Max(s)}], cs[Max(s)])]

LEMMA UnlessFoldExists ==
  ASSUME NEW g, NEW cs, NEW n \in Nat
  PROVE  \E f : UnlessFold(f, g, cs, n)
<1> DEFINE K == {k \in Nat : \E f : UnlessFold(f, g, cs, k)}
<1>1. 0 \in K
  <2>1. SUBSET (1..0) = {{}}
    OBVIOUS
  <2>2. UnlessFold([s \in SUBSET (1..0) |-> g], g, cs, 0)
    BY <2>1 DEF UnlessFold
  <2> QED BY <2>2
<1>2. ASSUME NEW k \in K PROVE k + 1 \in K
  <2>1. PICK f : UnlessFold(f, g, cs, k)
    OBVIOUS
  <2>2. k \in Nat
    OBVIOUS
  <2> DEFINE h == [s \in SUBSET (1..(k + 1)) |->
                     IF k + 1 \in s THEN Unless(f[s \ {k + 1}], cs[k + 1]) ELSE f[s]]
  <2>3. \A s \in SUBSET (1..(k + 1)) : k + 1 \notin s => s \in SUBSET (1..k)
    BY <2>2
  <2>4. \A s \in SUBSET (1..k) : s \in SUBSET (1..(k + 1)) /\ k + 1 \notin s
    BY <2>2
  <2>5. \A s \in SUBSET (1..k) : h[s] = f[s]
    BY <2>4
  <2>6. ASSUME NEW s \in SUBSET (1..(k + 1))
        PROVE  h[s] = IF s = {} THEN g ELSE Unless(h[s \ {Max(s)}], cs[Max(s)])
    <3>1. CASE k + 1 \in s
      <4>1. Max(s) = k + 1
        BY <2>2, <3>1, MaxOfInitial
      <4>2. s \ {k + 1} \in SUBSET (1..k)
        BY <2>2
      <4>3. h[s] = Unless(f[s \ {k + 1}], cs[k + 1])
        BY <3>1
      <4>4. h[s \ {k + 1}] = f[s \ {k + 1}]
        BY <2>5, <4>2
      <4> QED BY <3>1, <4>1, <4>3, <4>4
    <3>2. CASE k + 1 \notin s
      <4>1. s \in SUBSET (1..k) /\ s \ {Max(s)} \in SUBSET (1..k)
        BY <2>3, <3>2
      <4>2. f[s] = IF s = {} THEN g ELSE Unless(f[s \ {Max(s)}], cs[Max(s)])
        BY <2>1, <4>1 DEF UnlessFold
      <4> QED BY <2>5, <4>1, <4>2
    <3> QED BY <3>1, <3>2
  <2> HIDE DEF h
  <2>7. h = [s \in SUBSET (1..(k + 1)) |-> h[s]]
    BY DEF h
  <2>8. UnlessFold(h, g, cs, k + 1)
    BY <2>6, <2>7 DEF UnlessFold
  <2> QED BY <2>2, <2>8
<1> HIDE DEF K
<1>3. K = Nat
  BY <1>1, <1>2, SetInduction DEF K
<1> QED BY <1>3 DEF K

LEMMA ApplyCommandsSteps ==
  ASSUME NEW cs \in Seq(BusCommand)
  PROVE  \E after : /\ after[0] = [bus |-> Bus, whole |-> TRUE]
                    /\ \A i \in 1..Len(cs) : after[i] = Unless(after[i - 1], cs[i])
                    /\ ApplyCommands(cs) = after[Len(cs)].bus
<1> DEFINE g == [bus |-> Bus, whole |-> TRUE]
           f == CHOOSE f : UnlessFold(f, g, cs, Len(cs))
<1>1. Len(cs) \in Nat /\ DOMAIN cs = 1..Len(cs)
  BY LenProperties
<1> HIDE DEF g
<1>2. UnlessFold(f, g, cs, Len(cs))
  BY <1>1, UnlessFoldExists
<1>3. FoldLeft(Unless, g, cs) = f[1..Len(cs)]
  BY <1>1 DEF FoldLeft, MapThenFoldSet, UnlessFold
<1> HIDE DEF f
<1> DEFINE after == [i \in 0..Len(cs) |-> f[1..i]]
<1>4. after[0] = g
  <2>1. 1..0 = {} /\ 0 \in 0..Len(cs) /\ {} \in SUBSET (1..Len(cs))
    BY <1>1
  <2>2. f[{}] = g
    BY <1>2, <2>1 DEF UnlessFold
  <2> QED BY <2>1, <2>2
<1>5. ASSUME NEW i \in 1..Len(cs) PROVE after[i] = Unless(after[i - 1], cs[i])
  <2>1. /\ i \in Nat \ {0} /\ 1..i \in SUBSET (1..Len(cs)) /\ i \in 1..i
        /\ i \in 0..Len(cs) /\ i - 1 \in 0..Len(cs)
        /\ (1..i) \ {i} = 1..(i - 1)
    BY <1>1
  <2>2. Max(1..i) = i
    BY <2>1, MaxOfInitial
  <2>3. f[1..i] = Unless(f[(1..i) \ {Max(1..i)}], cs[Max(1..i)])
    BY <1>2, <2>1 DEF UnlessFold
  <2> QED BY <2>1, <2>2, <2>3
<1>6. ApplyCommands(cs) = after[Len(cs)].bus
  BY <1>1, <1>3 DEF ApplyCommands, g
<1> HIDE DEF after
<1> QED BY <1>4, <1>5, <1>6 DEF g

\* On the way: a good bus whose tokens are those of b and of the commands since.
Underway(b, acc) ==
  /\ acc = [bus |-> acc.bus, whole |-> acc.whole]
  /\ BusGood(acc.bus) /\ Longer(b.tokens, acc.bus.tokens)
  /\ Len(acc.bus.tokens) \in Nat
  /\ IF Len(acc.bus.tokens) = Len(b.tokens)
     THEN acc.bus.state = b.state
     ELSE acc.bus.tokens[Len(b.tokens) + 1] = b.state

LEMMA UnlessUnderway ==
  ASSUME NEW b, Len(b.tokens) \in Nat, NEW acc, Underway(b, acc), NEW c \in BusCommand
  PROVE  Underway(b, Unless(acc, c))
<1>1. PICK d, w : d = acc.bus /\ w = acc.whole
  OBVIOUS
<1>2. acc = [bus |-> d, whole |-> w] /\ BusGood(d) /\ Longer(b.tokens, d.tokens)
  BY <1>1 DEF Underway
<1>3. CASE w /\ Valid(d.state, c)
  <2>1. PICK e : e = Step(d, c)
    OBVIOUS
  <2>2. Unless(acc, c) = [bus |-> e, whole |-> w]
    <3>1. Unless(acc, c) = [acc EXCEPT !.bus = e]
      BY <1>1, <1>3, <2>1 DEF Unless
    <3> QED BY <1>2, <3>1
  <2>3. /\ BusGood(e) /\ Longer(d.tokens, e.tokens) /\ Len(e.tokens) = Len(d.tokens) + 1
        /\ Len(d.tokens) \in Nat /\ e.tokens[Len(d.tokens) + 1] = d.state
    BY <1>2, <2>1, StepGood
  <2>4. Longer(b.tokens, e.tokens)
    BY <1>2, <2>3 DEF Longer
  <2>5. Len(e.tokens) # Len(b.tokens) /\ Len(e.tokens) \in Nat
    BY <1>2, <2>3 DEF Longer
  <2>6. e.tokens[Len(b.tokens) + 1] = b.state
    <3>1. CASE Len(d.tokens) = Len(b.tokens)
      BY <1>1, <2>3, <3>1 DEF Underway
    <3>2. CASE Len(d.tokens) # Len(b.tokens)
      <4>1. Len(b.tokens) + 1 \in 1..Len(d.tokens)
        BY <1>2, <2>3, <3>2 DEF Longer
      <4> QED BY <1>1, <2>3, <3>2, <4>1 DEF Underway, Longer
    <3> QED BY <3>1, <3>2
  <2> QED BY <2>2, <2>3, <2>4, <2>5, <2>6 DEF Underway
<1>4. CASE ~(w /\ Valid(d.state, c))
  <2>1. Unless(acc, c) = [acc EXCEPT !.whole = FALSE]
    BY <1>1, <1>4 DEF Unless
  <2>2. Unless(acc, c) = [bus |-> d, whole |-> FALSE]
    BY <1>2, <2>1
  <2> QED BY <1>1, <2>2 DEF Underway
<1> QED BY <1>3, <1>4

\* Whole or in part, whatever their number.
LEMMA ApplyCommandsGood ==
  ASSUME BusInv, NEW cs \in Seq(BusCommand)
  PROVE  LET b == ApplyCommands(cs)
         IN /\ BusGood(b) /\ Longer(busTokens, b.tokens)
            /\ Len(b.tokens) # Len(busTokens) => b.tokens[Len(busTokens) + 1] = bus
            /\ Len(b.tokens) \in Nat
<1>1. PICK after : /\ after[0] = [bus |-> Bus, whole |-> TRUE]
                   /\ \A i \in 1..Len(cs) : after[i] = Unless(after[i - 1], cs[i])
                   /\ ApplyCommands(cs) = after[Len(cs)].bus
  BY ApplyCommandsSteps
<1>0. Bus.tokens = busTokens /\ Bus.state = bus /\ Len(busTokens) \in Nat /\ BusGood(Bus)
  BY LenProperties DEF Bus, BusInv, BusGood, Kept
<1>2. Len(cs) \in Nat /\ \A i \in 1..Len(cs) : cs[i] \in BusCommand
  BY LenProperties, ElementOfSeq
<1> DEFINE K == {i \in Nat : i <= Len(cs) => Underway(Bus, after[i])}
<1>3. 0 \in K
  <2>1. Longer(Bus.tokens, Bus.tokens)
    BY <1>0 DEF Longer
  <2> QED BY <1>0, <1>1, <2>1 DEF Underway
<1>4. ASSUME NEW i \in K PROVE i + 1 \in K
  <2>1. ASSUME i + 1 <= Len(cs) PROVE Underway(Bus, after[i + 1])
    <3>1. i \in Nat /\ i + 1 \in 1..Len(cs) /\ (i + 1) - 1 = i /\ Underway(Bus, after[i])
      BY <1>2, <2>1
    <3>2. after[i + 1] = Unless(after[i], cs[i + 1])
      BY <1>1, <3>1
    <3> QED BY <1>0, <1>2, <3>1, <3>2, UnlessUnderway
  <2> QED BY <2>1
<1> HIDE DEF K
<1>5. K = Nat
  BY <1>3, <1>4, SetInduction DEF K
<1>6. Underway(Bus, after[Len(cs)])
  BY <1>2, <1>5 DEF K
<1> QED BY <1>0, <1>1, <1>6 DEF Underway

LEMMA BecomingInv ==
  ASSUME NEW b, BusGood(b), Becoming(b), NEW proposals, Referred(proposals, b.tokens),
         busProposals' = proposals
  PROVE  BusInv'
BY DEF BusInv, BusGood, Bus, Becoming

LEMMA StillReferred ==
  ASSUME NEW tokens, NEW more, Len(tokens) \in Nat, Len(more) \in Nat, Longer(tokens, more),
         NEW proposals, Referred(proposals, tokens)
  PROVE  Referred(proposals, more)
<1>1. \A i \in 1..Len(tokens) : i \in 1..Len(more) /\ more[i] = tokens[i]
  BY DEF Longer
<1> QED BY <1>1 DEF Referred

LEMMA BusInitInv == BusInit => BusInv
<1> SUFFICES ASSUME BusInit PROVE BusInv
  OBVIOUS
<1>1. bus \in BusState /\ bus.part = NoPartition /\ bus.rev = 0 /\ NoPartition.status = "none"
  BY DEF BusInit, BusState, Partition, NoPartition
<1>2. busSeen = <<bus>> /\ busTokens = <<>> /\ busHistory = <<Undefined(bus)>> /\ busProposals = {}
  BY DEF BusInit, Undefined
<1>3. Undefined(bus) \in BusState
  BY <1>1, UndefinedState
<1>4. Announced(busSeen)
  BY <1>1, <1>2 DEF Announced, BornIn
<1>5. Kept(busTokens, busSeen)
  BY <1>2, EmptySeq DEF Kept
<1>6. Recalls(busHistory, busSeen)
  BY <1>2, <1>3 DEF Recalls, Recalled
<1> QED BY <1>1, <1>2, <1>4, <1>5, <1>6 DEF BusInv, BusGood, Bus, Referred

LEMMA BusNextInv == BusInv /\ [BusNext]_busVars => BusInv'
<1> SUFFICES ASSUME BusInv, [BusNext]_busVars PROVE BusInv'
  OBVIOUS
<1>0. /\ BusGood(Bus) /\ Bus.tokens = busTokens /\ Referred(busProposals, busTokens)
      /\ Len(busTokens) \in Nat
  BY LenProperties DEF BusInv, Bus, BusGood, Kept
<1>1. ASSUME NEW c \in BusCommand, Dispatch(c) PROVE BusInv'
  <2>1. Becoming(Step(Bus, c)) /\ busProposals' = busProposals
    BY <1>1 DEF Dispatch
  <2>2. /\ BusGood(Step(Bus, c)) /\ Longer(busTokens, Step(Bus, c).tokens)
        /\ Len(Step(Bus, c).tokens) \in Nat
    BY <1>0, StepGood
  <2>3. Referred(busProposals, Step(Bus, c).tokens)
    BY <1>0, <2>2, StillReferred
  <2> QED BY <2>1, <2>2, <2>3, BecomingInv
<1>2. ASSUME NEW s \in BusState, Recalled(s, busSeen), Becoming(Restored(s)), UNCHANGED busProposals
      PROVE  BusInv'
  <2>1. BusGood(Restored(s)) /\ Restored(s).tokens = busTokens
    BY <1>2, RestoredGood
  <2> QED BY <1>0, <1>2, <2>1, BecomingInv
<1>3. ASSUME NEW t \in DOMAIN busTokens, Rollback(t), UNCHANGED busProposals PROVE BusInv'
  <2>1. Kept(busTokens, busSeen) /\ t \in 1..Len(busTokens)
    BY <1>0, LenProperties DEF BusGood, Bus, Kept
  <2>2. busTokens[t] \in BusState /\ Recalled(busTokens[t], busSeen)
    BY <2>1, ElementOfSeq DEF Kept, Recalled
  <2> QED BY <1>2, <1>3, <2>2 DEF Rollback
<1>4. ASSUME NEW r \in 0..BusRevisions, RollbackToRevision(r) PROVE BusInv'
  <2>1. PICK i \in DOMAIN busHistory : Becoming(Restored(busHistory[i]))
    BY <1>4 DEF RollbackToRevision
  <2>2. Recalls(busHistory, busSeen) /\ i \in 1..Len(busHistory)
    BY <1>0, LenProperties DEF BusGood, Bus, Recalls
  <2>3. busHistory[i] \in BusState /\ Recalled(busHistory[i], busSeen)
    BY <2>2, ElementOfSeq DEF Recalls
  <2> QED BY <1>2, <1>4, <2>1, <2>3 DEF RollbackToRevision
<1>5. ASSUME NEW c \in BusCommand, NEW d \in BusCommand, ExecuteProposal(<<c, d>>) PROVE BusInv'
  <2>1. PICK b : b = ApplyCommands(<<c, d>>)
    OBVIOUS
  <2>2. <<c, d>> \in Seq(BusCommand)
    OBVIOUS
  <2>3. /\ BusGood(b) /\ Longer(busTokens, b.tokens) /\ Len(b.tokens) \in Nat
        /\ Len(b.tokens) # Len(busTokens) => b.tokens[Len(busTokens) + 1] = bus
    BY <2>1, <2>2, ApplyCommandsGood
  <2> DEFINE p == [before |-> bus, token |-> Len(busTokens) + 1]
  <2>4. /\ Becoming(b) /\ Len(b.tokens) > Len(busTokens)
        /\ busProposals' = busProposals \cup {p}
    BY <1>5, <2>1 DEF ExecuteProposal, RollbackReference
  <2>5. p.token \in 1..Len(b.tokens) /\ b.tokens[p.token] = p.before
    BY <1>0, <2>3, <2>4
  <2> HIDE DEF p
  <2>6. Referred(busProposals, b.tokens)
    BY <1>0, <2>3, StillReferred
  <2>7. Referred(busProposals \cup {p}, b.tokens)
    BY <2>5, <2>6 DEF Referred
  <2> QED BY <2>3, <2>4, <2>7, BecomingInv
<1>6. CASE UNCHANGED busVars
  BY <1>6 DEF busVars, BusInv, BusGood, Bus
<1> QED BY <1>1, <1>3, <1>4, <1>5, <1>6 DEF BusNext

\* Wherever rollbacks have been to, an actor that names the revision it was
\* shown for a partition finds the partition as it was shown, or is refused
\* (validateRevision, boundRevision in applySemanticCommand): every bound
\* revision is the one in which that partition first went out.
THEOREM RevisionsNamePartitions == BusSpec => []ExpectedIsFresh
<1>1. BusInv => ExpectedIsFresh
  <2> SUFFICES ASSUME BusInv, NEW i \in DOMAIN busSeen,
                      BoundRevision(busSeen[i]) = BoundRevision(bus)
               PROVE  busSeen[i].part = bus.part
    BY DEF ExpectedIsFresh
  <2>1. Announced(busSeen) /\ bus = busSeen[Len(busSeen)]
    BY DEF BusInv, BusGood, Bus
  <2>2. DOMAIN busSeen = 1..Len(busSeen) /\ Len(busSeen) \in 1..Len(busSeen)
    BY <2>1, LenProperties DEF Announced
  <2>3. PICK j \in 1..Len(busSeen) : bus = busSeen[j] /\ bus.rev = j - 1 /\ BornIn(busSeen, bus)
    BY <2>1, <2>2 DEF Announced
  <2>4. busSeen[i].rev = i - 1 /\ BornIn(busSeen, busSeen[i]) /\ i \in 1..Len(busSeen)
    BY <2>1, <2>2 DEF Announced
  <2>5. CASE busSeen[i].part.status = "none" /\ bus.part.status = "none"
    BY <2>3, <2>4, <2>5 DEF BornIn
  <2>6. CASE busSeen[i].part.status # "none" /\ bus.part.status # "none"
    BY <2>3, <2>4, <2>6 DEF BornIn, BoundRevision
  <2>7. CASE busSeen[i].part.status = "none" /\ bus.part.status # "none"
    <3>1. bus.part.bound + 1 = i
      BY <2>3, <2>4, <2>7 DEF BornIn, BoundRevision
    <3> QED BY <2>3, <2>7, <3>1 DEF BornIn
  <2>8. CASE busSeen[i].part.status # "none" /\ bus.part.status = "none"
    <3>1. busSeen[i].part.bound + 1 = j
      BY <2>3, <2>4, <2>8 DEF BornIn, BoundRevision
    <3> QED BY <2>3, <2>4, <2>8, <3>1 DEF BornIn
  <2> QED BY <2>5, <2>6, <2>7, <2>8
<1> QED BY <1>1, BusInitInv, BusNextInv, PTL DEF BusSpec

\* The token of a proposal keeps the state before its first command, however
\* much of it was applied, and the history keeps what was announced
\* (executeProposal, rollback, rollbackToRevision).
THEOREM RollbacksRestore == BusSpec => []RollbackRestores
<1>1. BusInv => RollbackRestores
  <2> SUFFICES ASSUME BusInv PROVE RollbackRestores
    OBVIOUS
  <2>1. \A p \in busProposals : busTokens[p.token] = p.before
    BY DEF BusInv, Referred
  <2>2. ASSUME NEW i \in DOMAIN busHistory
        PROVE  \E j \in DOMAIN busSeen :
                 busHistory[i] \in {busSeen[j], [busSeen[j] EXCEPT !.defined = FALSE]}
    <3>1. Recalls(busHistory, busSeen) /\ Announced(busSeen)
      BY DEF BusInv, BusGood, Bus
    <3>2. i \in 1..Len(busHistory) /\ DOMAIN busSeen = 1..Len(busSeen)
      BY <3>1, LenProperties DEF Recalls, Announced
    <3> QED BY <3>1, <3>2 DEF Recalls, Recalled, Undefined
  <2> QED BY <2>1, <2>2 DEF RollbackRestores
<1> QED BY <1>1, BusInitInv, BusNextInv, PTL DEF BusSpec
=============================================================================
