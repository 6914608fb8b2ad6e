---------------------------- MODULE MCComponents ----------------------------
(* Components that share no state, checked side by side: in each behaviour  *)
(* one of them, the subject, moves and the others rest, so that their state *)
(* spaces add up where a composition would multiply them.                   *)
EXTENDS AiAgentRuntime, AssetStore, AssetPreload, SerialBridge, PrintQueue, DisplayPairing,
        GroupOwnership, SemanticBus, NodeRuntime, ReadinessReports

CONSTANTS p1, p2, noAsset

Manifests == {<<p1, noAsset, p2>>, <<p2>>, <<p1>>}
BadManifests == {<<p1>>}

CONSTANTS n1, n2

SinkOrder == <<n1, n2>>

\* Contents of assets are told apart only by being equal or not.
SymContents == Permutations(Content)

VARIABLE subject

Init ==
  /\ subject \in {"agent", "assets", "preload", "serial", "print", "pairing", "groups", "bus",
                "runtime", "reports"}
  /\ AiInit /\ (subject # "agent" => aiGraph = {})
  /\ AssetInit /\ PreInit /\ SerInit /\ PrtInit /\ PairInit /\ GrpInit /\ BusInit
  /\ ReportInit
  /\ RtInit /\ (subject # "runtime" => \A n \in RtNode : rtValue[n] = CHOOSE b \in RtBundle : TRUE)

Next ==
  /\ UNCHANGED subject
  /\ \/ subject = "agent" /\ AiNext
     \/ subject # "agent" /\ UNCHANGED aiVars
  /\ \/ subject = "assets" /\ AssetNext
     \/ subject # "assets" /\ UNCHANGED assetVars
  /\ \/ subject = "preload" /\ PreNext
     \/ subject # "preload" /\ UNCHANGED preVars
  /\ \/ subject = "serial" /\ SerNext
     \/ subject # "serial" /\ UNCHANGED serVars
  /\ \/ subject = "print" /\ PrtNext
     \/ subject # "print" /\ UNCHANGED prtVars
  /\ \/ subject = "pairing" /\ PairNext
     \/ subject # "pairing" /\ UNCHANGED pairVars
  /\ \/ subject = "groups" /\ GrpNext
     \/ subject # "groups" /\ UNCHANGED grpEntry
  /\ \/ subject = "bus" /\ BusNext
     \/ subject # "bus" /\ UNCHANGED busVars
  /\ \/ subject = "runtime" /\ RtNext
     \/ subject # "runtime" /\ UNCHANGED rtVars
  /\ \/ subject = "reports" /\ RepNext
     \/ subject # "reports" /\ UNCHANGED repVars

vars == <<subject, aiVars, assetVars, preVars, serVars, prtVars, pairVars, grpEntry, busVars, rtVars,
          repVars>>

Spec == Init /\ [][Next]_vars
=============================================================================
