----------------------------- MODULE AssetStore -----------------------------
(***************************************************************************)
(* The asset store of the server: files kept under the hash of their       *)
(* content, an index of assets, and the copy of the index on disk.         *)
(* Uploads, deletions and changes are mutations that run one after the     *)
(* other, each through several awaits: files are moved and unlinked, and   *)
(* the index is written, at which a write may fail and the server may      *)
(* stop.  Generated assets give way to one another when the store is full, *)
(* unless they are pinned or the graph refers to them.                     *)
(***************************************************************************)
EXTENDS Naturals, Sequences, FiniteSets

CONSTANTS
  Content,       \* what files contain, up to equality of the hash; all of size one
  AssetMax,      \* maxTotalBytes
  AssetCalls,    \* bound: mutations asked for
  NoAsset

ASSUME AssetAssumption == AssetMax \in Nat \ {0} /\ AssetCalls \in Nat

VARIABLES
  assets,        \* the index
  assetFiles,    \* contents whose file is in the data directory
  assetSaved,    \* the index on disk
  assetRefs,     \* assets the graph refers to
  assetQueue,    \* mutations that wait for their turn
  assetRun,      \* the mutation under way
  assetIds,      \* assets stored so far
  assetCalls,    \* mutations asked for so far
  assetLost      \* a write of the index has failed since the first start

assetVars == <<assets, assetFiles, assetSaved, assetRefs, assetQueue, assetRun, assetIds, assetCalls, assetLost>>

Asset == [id : 1..AssetCalls, content : Content, generated : BOOLEAN, pinned : BOOLEAN]

AssetInit ==
  /\ assets = {} /\ assetFiles = {} /\ assetSaved = {} /\ assetRefs = {}
  /\ assetQueue = <<>> /\ assetRun = NoAsset
  /\ assetIds = 0 /\ assetCalls = 0 /\ assetLost = FALSE

-----------------------------------------------------------------------------
(* Asking for a mutation *)

\* runMutation: behind the mutations that were asked for before.
RunMutation(op) ==
  /\ assetCalls < AssetCalls
  /\ assetCalls' = assetCalls + 1
  /\ assetQueue' = Append(assetQueue, op)
  /\ UNCHANGED <<assets, assetFiles, assetSaved, assetRefs, assetRun, assetIds, assetLost>>

\* The references are collected before the upload waits for its turn.
UploadFromTempFile(content, generated) ==
  RunMutation([do |-> "upload", content |-> content, generated |-> generated, refs |-> assetRefs])

DeleteAsset(id) == RunMutation([do |-> "delete", id |-> id])

\* Seeded fault: a change does not wait for the mutation under way.
PinAtOnce(id) ==
  /\ assetCalls < AssetCalls
  /\ assetCalls' = assetCalls + 1
  /\ \E a \in assets : a.id = id
  /\ assets' = {[a EXCEPT !.pinned = (a.id = id) # @] : a \in assets}
  /\ UNCHANGED <<assetFiles, assetSaved, assetRefs, assetQueue, assetRun, assetIds, assetLost>>

UpdateAsset(id) == RunMutation([do |-> "pin", id |-> id])

-----------------------------------------------------------------------------
(* Running it *)

\* isAutoDiscardCandidate
Discardable(a, refs) == a.generated /\ ~a.pinned /\ a.id \notin refs

\* Candidates for discarding, of which the oldest goes first.
Candidates(refs) == {a \in assets : Discardable(a, refs)}
Oldest(left) == CHOOSE a \in left : \A b \in left : a.id <= b.id

\* Seeded fault: the file is unlinked before the index is written.
FileFirst(a, then) ==
  [at |-> "unlink", drop |-> a.content, then |-> [at |-> "persist", drop |-> NoAsset, then |-> then]]

\* An asset is out of the index: that is written, then its file is unlinked.
Goes(a, then) == [at |-> "persist", drop |-> a.content, then |-> then]
Changed == [at |-> "persist", drop |-> NoAsset, then |-> NoAsset]

\* An upload with the candidates it may still discard and the room they leave.
Uploading(op) == [at |-> "room", op |-> op, left |-> Candidates(op.refs)]

BeginDelete(op) ==
  /\ op.do = "delete"
  /\ IF \E a \in assets : a.id = op.id
     THEN LET a == CHOOSE x \in assets : x.id = op.id
          IN assets' = assets \ {a} /\ assetRun' = Goes(a, NoAsset)
     ELSE UNCHANGED <<assets, assetRun>>

BeginPin(op) ==
  /\ op.do = "pin"
  /\ IF \E a \in assets : a.id = op.id
     THEN assets' = {[a EXCEPT !.pinned = (a.id = op.id) # @] : a \in assets} /\ assetRun' = Changed
     ELSE UNCHANGED <<assets, assetRun>>

\* A content that is stored already is not stored again.
BeginUpload(op) ==
  /\ op.do = "upload"
  /\ UNCHANGED assets
  /\ assetRun' = IF \E a \in assets : a.content = op.content THEN NoAsset
                 ELSE IF op.generated THEN Uploading(op) ELSE [at |-> "store", op |-> op]

\* The one before has ended, well or not.
MyTurn == assetQueue # <<>> /\ assetRun = NoAsset

Begin ==
  /\ MyTurn
  /\ LET op == Head(assetQueue) IN BeginDelete(op) \/ BeginPin(op) \/ BeginUpload(op)
  /\ assetQueue' = Tail(assetQueue)
  /\ UNCHANGED <<assetFiles, assetSaved, assetRefs, assetIds, assetCalls, assetLost>>

\* ensureCapacityForIncomingAsset: discard until there is room, or refuse.
EnsureCapacity ==
  /\ assetRun # NoAsset /\ assetRun.at = "room"
  /\ IF Cardinality(assets) + 1 <= AssetMax
     THEN assetRun' = [at |-> "store", op |-> assetRun.op] /\ UNCHANGED assets
     ELSE IF assetRun.left = {}
     THEN assetRun' = NoAsset /\ UNCHANGED assets
     ELSE LET a == Oldest(assetRun.left)
          IN assets' = assets \ {a} /\ assetRun' = Goes(a, [assetRun EXCEPT !.left = @ \ {a}])
  /\ UNCHANGED <<assetFiles, assetSaved, assetRefs, assetQueue, assetIds, assetCalls, assetLost>>

\* moveFile
MoveFile ==
  /\ assetRun # NoAsset /\ assetRun.at = "store"
  /\ assetFiles' = assetFiles \cup {assetRun.op.content}
  /\ assetRun' = [assetRun EXCEPT !.at = "index"]
  /\ UNCHANGED <<assets, assetSaved, assetRefs, assetQueue, assetIds, assetCalls, assetLost>>

AddToIndex ==
  /\ assetRun # NoAsset /\ assetRun.at = "index"
  /\ assetIds' = assetIds + 1
  /\ assets' = assets \cup {[id |-> assetIds', content |-> assetRun.op.content,
                             generated |-> assetRun.op.generated, pinned |-> FALSE]}
  /\ assetRun' = Changed
  /\ UNCHANGED <<assetFiles, assetSaved, assetRefs, assetQueue, assetCalls, assetLost>>

\* enqueuePersist, awaited: a failure is logged and no more.
Persist(ok) ==
  /\ assetSaved' = IF ok THEN assets ELSE assetSaved
  /\ assetLost' = (assetLost \/ ~ok)
  /\ assetRun' = IF assetRun.drop = NoAsset THEN assetRun.then ELSE [assetRun EXCEPT !.at = "unlink"]
  /\ UNCHANGED assetFiles

IndexWritten ==
  /\ assetRun # NoAsset /\ assetRun.at = "persist"
  /\ \E ok \in BOOLEAN : Persist(ok)
  /\ UNCHANGED <<assets, assetRefs, assetQueue, assetIds, assetCalls>>

Unlink ==
  /\ assetRun # NoAsset /\ assetRun.at = "unlink"
  /\ assetFiles' = assetFiles \ {assetRun.drop}
  /\ assetRun' = assetRun.then
  /\ UNCHANGED <<assets, assetSaved, assetRefs, assetQueue, assetIds, assetCalls, assetLost>>

-----------------------------------------------------------------------------
(* Around the store *)

\* A manager or the AI makes a node of the graph use an asset, or no longer.
Refer(id) ==
  /\ assetRefs' = IF id \in assetRefs THEN assetRefs \ {id} ELSE assetRefs \cup {id}
  /\ \E a \in assets : a.id = id
  /\ UNCHANGED <<assets, assetFiles, assetSaved, assetQueue, assetRun, assetIds, assetCalls, assetLost>>

\* init, after a stop at any point: what was under way or waiting is gone.
StoreRestarts ==
  /\ assets' = assetSaved
  /\ assetQueue' = <<>> /\ assetRun' = NoAsset
  /\ UNCHANGED <<assetFiles, assetSaved, assetRefs, assetIds, assetCalls, assetLost>>

AssetNext ==
  \/ \E c \in Content, g \in BOOLEAN : UploadFromTempFile(c, g)
  \/ \E id \in 1..AssetCalls : DeleteAsset(id) \/ UpdateAsset(id) \/ Refer(id)
  \/ Begin \/ EnsureCapacity \/ MoveFile \/ AddToIndex \/ IndexWritten \/ Unlink
  \/ StoreRestarts

AssetSpec == AssetInit /\ [][AssetNext]_assetVars

-----------------------------------------------------------------------------
(* Properties *)

\* Wherever the server stops, what the index on disk lists has its file, and
\* what the index in memory lists can be served; unless a write of the index
\* failed, which the service only logs.
AssetsHaveFiles ==
  assetLost \/ \A a \in assets \cup assetSaved : a.content \in assetFiles

\* When an upload makes room, it gives up only assets that were generated,
\* that nobody has pinned by then, and that the graph did not refer to when
\* the upload was asked for; and the store does not grow past its limit by a
\* generated asset.
DiscardsSpareAssets ==
  /\ assetRun # NoAsset /\ assetRun.at = "room" =>
       \A a \in assetRun.left : a \in assets /\ Discardable(a, assetRun.op.refs)
  /\ assetRun # NoAsset /\ assetRun.at \in {"store", "index"} /\ assetRun.op.generated =>
       Cardinality(assets) < AssetMax
=============================================================================
