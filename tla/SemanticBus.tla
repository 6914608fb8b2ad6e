----------------------------- MODULE SemanticBus -----------------------------
(***************************************************************************)
(* A semantic command bus with its rollbacks, and the proposals of the AI  *)
(* that are executed on it.  A command makes the next revision; a token    *)
(* keeps the state before it, and the history the state after it unless    *)
(* nothing changed that the semantic hash tells apart.  A rollback makes a *)
(* new revision of an old state.  A partition is bound to the revision     *)
(* that changed it last, which commands on it may name as expected.        *)
(***************************************************************************)
EXTENDS Naturals, Sequences, SequencesExt

CONSTANTS
  BusNode,       \* nodes, all of them in one group while they exist
  BusRevisions   \* bound: the last revision

ASSUME BusAssumption == BusRevisions \in Nat

VARIABLES
  bus,           \* the state: nodes, group, partition, a custom definition, owner, revision
  busTokens,     \* rollbackSnapshots
  busHistory,    \* entries of the semantic history
  busSeen,       \* states in the snapshots that went out, by revision
  busProposals   \* proposals with a rollback reference: the state before, the token

busVars == <<bus, busTokens, busHistory, busSeen, busProposals>>

NoPartition == [status |-> "none", nodes |-> {}, bound |-> 0]

BusInit ==
  /\ bus = [nodes |-> {}, group |-> {}, part |-> NoPartition, defined |-> TRUE, owner |-> "a", rev |-> 0]
  /\ busTokens = <<>>
  /\ busHistory = <<[bus EXCEPT !.defined = FALSE]>>
  /\ busSeen = <<bus>>
  /\ busProposals = {}

-----------------------------------------------------------------------------
(* Commands *)

Unexpecting == [do : {"add", "remove"}, node : BusNode] \cup [do : {"define", "undefine", "reclaim"}]
Expecting == [do : {"deploy", "start", "stop"}, node : BusNode, expected : 0..BusRevisions]
BusCommand == Unexpecting \cup Expecting

\* What an expected revision is compared with.
BoundRevision(s) == IF s.part.status = "none" THEN s.rev ELSE s.part.bound

\* validateSemanticCommandDetailed; a node that is added again is replaced.
Valid(s, c) ==
  CASE c.do = "remove" -> c.node \in s.nodes
    [] c.do = "deploy" -> c.node \in s.nodes /\ c.expected = BoundRevision(s)
    [] c.do = "start" -> s.part.status # "none" /\ c.expected = BoundRevision(s)
    [] c.do = "stop" -> c.expected = BoundRevision(s)
    [] OTHER -> TRUE

\* A partition that is changed is bound to the revision that changes it.
Bound(s, status, nodes) ==
  [s EXCEPT !.part = [status |-> status, nodes |-> nodes, bound |-> s.rev + 1]]

\* applySemanticCommand; a partition that is stopped before it was deployed is
\* entered without nodes.
Outcome(s, c) ==
  CASE c.do = "add" -> [s EXCEPT !.nodes = @ \cup {c.node}, !.group = @ \cup {c.node}]
    [] c.do = "remove" -> [s EXCEPT !.nodes = @ \ {c.node}, !.group = @ \ {c.node}]
    [] c.do \in {"define", "undefine"} -> [s EXCEPT !.defined = c.do = "define"]
    [] c.do = "reclaim" -> [s EXCEPT !.owner = IF @ = "a" THEN "b" ELSE "a"]
    [] c.do = "deploy" -> Bound(s, "deployed", {c.node})
    [] c.do = "start" -> Bound(s, "running", s.part.nodes)
    [] c.do = "stop" -> Bound(s, "stopped", s.part.nodes)

\* createSemanticHash: neither the owner of a group nor a bound revision.
Hashed(s) == <<s.nodes, s.group, s.part.status, s.part.nodes, s.defined>>

Recorded(history, s) == IF Hashed(Last(history)) = Hashed(s) THEN history ELSE Append(history, s)

\* One command that is valid, on a bus with its tokens and its history.
Step(b, c) ==
  LET next == [Outcome(b.state, c) EXCEPT !.rev = @ + 1]
  IN [state |-> next, tokens |-> Append(b.tokens, b.state),
      history |-> Recorded(b.history, next), seen |-> Append(b.seen, next)]

Bus == [state |-> bus, tokens |-> busTokens, history |-> busHistory, seen |-> busSeen]

Becoming(b) ==
  /\ b.state.rev <= BusRevisions
  /\ bus' = b.state /\ busTokens' = b.tokens /\ busHistory' = b.history /\ busSeen' = b.seen

Dispatch(c) ==
  /\ Valid(bus, c)
  /\ Becoming(Step(Bus, c))
  /\ UNCHANGED busProposals

-----------------------------------------------------------------------------
(* Rollbacks *)

\* Seeded fault: the revision is restored as well.
SameRevision(s) == s

NewRevision(s) == [s EXCEPT !.rev = bus.rev + 1]

\* The history is told of no custom definition.
Restored(s) ==
  LET next == NewRevision(s)
  IN [state |-> next, tokens |-> busTokens,
      history |-> Recorded(busHistory, [next EXCEPT !.defined = FALSE]), seen |-> Append(busSeen, next)]

Rollback(t) == Becoming(Restored(busTokens[t]))

RollbackToRevision(r) ==
  /\ \E i \in DOMAIN busHistory :
       /\ busHistory[i].rev = r /\ \A j \in 1..(i - 1) : busHistory[j].rev # r
       /\ Becoming(Restored(busHistory[i]))
  /\ UNCHANGED busProposals

-----------------------------------------------------------------------------
(* Proposals *)

\* dryRunCommands: each command alone, on the state as it is.
DryRunPasses(commands) == \A i \in DOMAIN commands : Valid(bus, commands[i])

\* applyCommands: one after the other until one is refused.
Unless(acc, c) ==
  IF acc.whole /\ Valid(acc.bus.state, c)
  THEN [acc EXCEPT !.bus = Step(acc.bus, c)] ELSE [acc EXCEPT !.whole = FALSE]

ApplyCommands(commands) == FoldLeft(Unless, [bus |-> Bus, whole |-> TRUE], commands).bus

\* Seeded fault: the reference is to the token of the last command.
LastToken(before, after) == after

\* The token of the first command.
RollbackReference(before, after) == before + 1

\* Whole or in part, a proposal that has changed something can be undone.
ExecuteProposal(commands) ==
  LET after == ApplyCommands(commands)
  IN /\ DryRunPasses(commands)
     /\ Becoming(after)
     /\ Len(after.tokens) > Len(busTokens)
     /\ busProposals' = busProposals \cup
          {[before |-> bus, token |-> RollbackReference(Len(busTokens), Len(after.tokens))]}

BusNext ==
  \/ \E c \in BusCommand : Dispatch(c)
  \/ \E t \in DOMAIN busTokens : Rollback(t) /\ UNCHANGED busProposals
  \/ \E r \in 0..BusRevisions : RollbackToRevision(r)
  \/ \E c, d \in BusCommand : ExecuteProposal(<<c, d>>)

BusSpec == BusInit /\ [][BusNext]_busVars

-----------------------------------------------------------------------------
(* Properties *)

\* A partition cannot change behind an actor that names the revision it saw:
\* if the revision that a snapshot gave for the partition passes validation,
\* the partition is as that snapshot showed it, however many rollbacks were
\* between.
ExpectedIsFresh ==
  \A i \in DOMAIN busSeen :
    BoundRevision(busSeen[i]) = BoundRevision(bus) => busSeen[i].part = bus.part

\* Undoing a proposal restores what was there before its first command, though
\* its dry run has tried each command alone and it may have been applied in
\* part; and going back to a revision restores what was announced under it,
\* except for custom definitions, which the history forgets.
RollbackRestores ==
  /\ \A p \in busProposals : busTokens[p.token] = p.before
  /\ \A i \in DOMAIN busHistory :
       \E j \in DOMAIN busSeen :
         busHistory[i] \in {busSeen[j], [busSeen[j] EXCEPT !.defined = FALSE]}
=============================================================================
