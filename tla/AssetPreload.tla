---------------------------- MODULE AssetPreload ----------------------------
(***************************************************************************)
(* MultimediaCore of a client or display: the assets of a manifest are     *)
(* loaded ahead by a few concurrent workers.  A new manifest aborts the    *)
(* run of the old one, whose workers end when they next look; an asset     *)
(* that is wanted at once is fetched with priority, and workers wait for   *)
(* it.  The state that the core reports is written by all of them.         *)
(***************************************************************************)
EXTENDS Naturals, Sequences, FiniteSets, SequencesExt

CONSTANTS
  PreloadAsset,  \* assets
  OtherRef,      \* references that name no asset
  Manifest,      \* manifests, each a sequence of references
  BadManifest,   \* those whose entries do not validate
  Workers,       \* concurrency
  MaxRuns,       \* bound: runs of the preload
  MaxUrgent,     \* bound: priority fetches
  NoManifest

ASSUME PreloadAssumption ==
  /\ Manifest \subseteq Seq(PreloadAsset \cup OtherRef) /\ BadManifest \subseteq Manifest
  /\ Workers \in Nat \ {0} /\ MaxRuns \in Nat /\ MaxUrgent \in Nat
  /\ PreloadAsset \cap {"loop", "waiting", "resumed", "done"} = {}

VARIABLES
  preManifest,   \* this.manifest
  preState,      \* the state subscribers see
  preRuns,       \* runs so far, the last one is runSeq
  preHave,       \* assets in the cache
  preWanted,     \* priorityFetchedUrls
  preUrgent,     \* priority fetches under way
  prePaused,     \* priorityPauseSignal is set
  preFetched,    \* priority fetches started so far
  preLate        \* an aborted run has written the state after the next began

preVars == <<preManifest, preState, preRuns, preHave, preWanted, preUrgent, prePaused, preFetched, preLate>>

Shown(status, m, loaded) == [status |-> status, manifest |-> m, loaded |-> loaded]

PreInit ==
  /\ preManifest = NoManifest /\ preState = Shown("idle", NoManifest, 0)
  /\ preRuns = <<>> /\ preHave = {} /\ preWanted = {}
  /\ preUrgent = {} /\ prePaused = FALSE /\ preFetched = 0 /\ preLate = FALSE

-----------------------------------------------------------------------------
(* Manifests *)

Current == Len(preRuns)
Aborted(r) == r # Current

\* preloadNow: the run before is aborted; a manifest without assets is ready.
PreloadNow(m) ==
  /\ Current < MaxRuns
  /\ preRuns' = Append(preRuns,
       [manifest |-> m, next |-> 1, loaded |-> 0, failed |-> FALSE, over |-> m = <<>>,
        workers |-> [w \in 1..Workers |-> IF m = <<>> THEN "done" ELSE "loop"]])
  /\ preState' = Shown(IF m = <<>> THEN "ready" ELSE "loading", m, 0)

SetAssetManifest(m) ==
  /\ IF m \in BadManifest
     THEN preState' = Shown("error", m, 0) /\ UNCHANGED <<preManifest, preRuns>>
     ELSE /\ m # preManifest
          /\ preManifest' = m
          /\ PreloadNow(m)
  /\ UNCHANGED <<preHave, preWanted, preUrgent, prePaused, preFetched, preLate>>

-----------------------------------------------------------------------------
(* Workers *)

\* A worker of run r reports; it does not look whether r is aborted.
Reports(r, loaded) ==
  /\ preState' = Shown("loading", preRuns[r].manifest, loaded)
  /\ preLate' = (preLate \/ Aborted(r))

Becomes(runs, r, w, s) == [runs EXCEPT ![r].workers[w] = s]

\* nextIndex and loaded, which the workers of a run share.
Takes(runs, r) == [runs EXCEPT ![r].next = @ + 1]
Counts(runs, r) == [runs EXCEPT ![r].loaded = @ + 1]

\* The next round of a worker: it ends, waits for a priority fetch, skips what
\* is no asset or was fetched with priority, or asks for the next one.
WorkerLoops(r, w) ==
  LET run == preRuns[r]
  IN /\ run.workers[w] \in {"loop", "resumed"}
     /\ IF Aborted(r) THEN preRuns' = Becomes(preRuns, r, w, "done") /\ UNCHANGED <<preState, preLate>>
        ELSE IF prePaused /\ run.workers[w] = "loop"
        THEN preRuns' = Becomes(preRuns, r, w, "waiting") /\ UNCHANGED <<preState, preLate>>
        ELSE IF run.next > Len(run.manifest)
        THEN preRuns' = Takes(Becomes(preRuns, r, w, "done"), r) /\ UNCHANGED <<preState, preLate>>
        ELSE LET a == run.manifest[run.next]
             IN IF a \in PreloadAsset \ preWanted
                THEN preRuns' = Takes(Becomes(preRuns, r, w, a), r) /\ UNCHANGED <<preState, preLate>>
                ELSE /\ preRuns' = Counts(Takes(Becomes(preRuns, r, w, "loop"), r), r)
                     /\ Reports(r, run.loaded + 1)
     /\ UNCHANGED <<preManifest, preHave, preWanted, preUrgent, prePaused, preFetched>>

\* ensureCached has ended well: its last awaits do not look at the signal.
AssetCached(r, w) ==
  LET run == preRuns[r]
  IN /\ run.workers[w] \in PreloadAsset
     /\ preHave' = preHave \cup {run.workers[w]}
     /\ preRuns' = Counts(Becomes(preRuns, r, w, "loop"), r)
     /\ Reports(r, run.loaded + 1)
     /\ UNCHANGED <<preManifest, preWanted, preUrgent, prePaused, preFetched>>

\* It has failed, as often as it is tried, or because it was aborted.
AssetFails(r, w) ==
  /\ preRuns[r].workers[w] \in PreloadAsset
  /\ preRuns' = [Becomes(preRuns, r, w, "done") EXCEPT ![r].failed = TRUE]
  /\ UNCHANGED <<preManifest, preState, preHave, preWanted, preUrgent, prePaused, preFetched, preLate>>

\* Seeded fault: the end of a run does not ask whether it is the last one.
AlwaysCounts(r) == TRUE

\* The signal and the run number.
StillCounts(r) == ~Aborted(r)

RunEnds(r) ==
  LET run == preRuns[r]
  IN /\ ~run.over /\ \A w \in 1..Workers : run.workers[w] = "done"
     /\ preRuns' = [preRuns EXCEPT ![r].over = TRUE]
     /\ preState' = IF ~StillCounts(r) THEN preState
                    ELSE IF run.failed THEN Shown("error", run.manifest, run.loaded)
                    ELSE Shown("ready", run.manifest, Len(run.manifest))
     /\ UNCHANGED <<preManifest, preHave, preWanted, preUrgent, prePaused, preFetched, preLate>>

-----------------------------------------------------------------------------
(* Priority *)

\* prioritizeFetch of an asset that is not cached.
PrioritizeFetch(a) ==
  /\ a \notin preHave /\ a \notin preUrgent /\ preFetched < MaxUrgent
  /\ preFetched' = preFetched + 1
  /\ preUrgent' = preUrgent \cup {a}
  /\ prePaused' = (prePaused \/ Current > 0)
  /\ UNCHANGED <<preManifest, preState, preRuns, preHave, preWanted, preLate>>

\* Seeded fault: one of the workers that wait is resumed.
ResumeOne(s) == [r \in DOMAIN s |->
  LET waiting == {w \in 1..Workers : s[r].workers[w] = "waiting"}
  IN [s[r] EXCEPT !.workers = [w \in 1..Workers |->
        IF w \in waiting /\ \A v \in waiting : w <= v THEN "resumed" ELSE @[w]]]]

Resume(s) == [r \in DOMAIN s |->
  [s[r] EXCEPT !.workers = [w \in 1..Workers |-> IF @[w] = "waiting" THEN "resumed" ELSE @[w]]]]

\* Whatever became of it, workers go on, another fetch under way or not.
PriorityFetchEnds(a, ok) ==
  /\ a \in preUrgent
  /\ preUrgent' = preUrgent \ {a}
  /\ preHave' = IF ok THEN preHave \cup {a} ELSE preHave
  /\ preWanted' = IF ok THEN preWanted \cup {a} ELSE preWanted
  /\ prePaused' = FALSE
  /\ preRuns' = IF prePaused THEN Resume(preRuns) ELSE preRuns
  /\ UNCHANGED <<preManifest, preState, preFetched, preLate>>

PreNext ==
  \/ \E m \in Manifest : SetAssetManifest(m)
  \/ \E r \in 1..Current, w \in 1..Workers : WorkerLoops(r, w) \/ AssetCached(r, w) \/ AssetFails(r, w)
  \/ \E r \in 1..Current : RunEnds(r)
  \/ \E a \in PreloadAsset : PrioritizeFetch(a) \/ \E ok \in BOOLEAN : PriorityFetchEnds(a, ok)

PreSpec == PreInit /\ [][PreNext]_preVars

-----------------------------------------------------------------------------
(* Properties *)

\* A core that reports a manifest ready has every asset of it, whatever runs
\* were aborted on the way and whichever asset a worker skipped.
ReadyIsTrue ==
  preState.status = "ready" => ToSet(preState.manifest) \cap PreloadAsset \subseteq preHave

\* When nothing is under way the core reports the end of the last run, ready
\* or failed, or a manifest it refused; no worker is left waiting for a
\* priority fetch that is over.  The exception is a worker of an aborted run
\* that reported its progress late.
PreloadSettles ==
  LET resting(run) ==
        \/ run.over
        \/ {run.workers[w] : w \in 1..Workers} \in {{"waiting"}, {"waiting", "done"}}
  IN preUrgent = {} /\ Current > 0 /\ (\A r \in 1..Current : resting(preRuns[r]))
     => \/ preState.status = "error"
        \/ preState.status = "ready" /\ preState.manifest = preManifest
        \/ preLate
=============================================================================
