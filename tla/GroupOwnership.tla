--------------------------- MODULE GroupOwnership ---------------------------
(***************************************************************************)
(* Who owns a group of clients, as the server sees it when it lets the     *)
(* commands of managers and services through.  A group is entered when a   *)
(* client joins it; whoever reclaims it is put on top of the owners it had *)
(* before, and a release gives it back to the one below.  Groups that the  *)
(* server makes for single clients stay under every manager's command.     *)
(***************************************************************************)
EXTENDS Naturals, Sequences, SequencesExt

CONSTANTS
  Group,         \* groups
  Managed,       \* those the server makes: client:<id> and display
  ByManagers,    \* actors of role manager
  ByServices,    \* actors of another role that may command groups
  GroupServer,   \* server-process
  GroupSteps,    \* bound: owners of a group
  NoGroup

ASSUME GroupAssumption ==
  /\ Managed \subseteq Group
  /\ GroupServer \notin ByManagers \cup ByServices
  /\ GroupSteps \in Nat

VARIABLE
  grpEntry       \* groupOwnership

GrpActor == ByManagers \cup ByServices
GrpCommand == {"reclaim", "release", "archive", "restore", "control"}

Entered(g) == grpEntry[g] # NoGroup

GrpInit == grpEntry = [g \in Group |-> NoGroup]

-----------------------------------------------------------------------------

\* setClientGroup, when a client joins; an entry that exists is kept.
SetClientGroup(g) ==
  /\ ~Entered(g)
  /\ grpEntry' = [grpEntry EXCEPT ![g] = [owner |-> GroupServer, below |-> <<>>, archived |-> FALSE]]

\* Seeded fault: the owner before is forgotten.
Replaced(e, actor) == [e EXCEPT !.owner = actor]

Reclaimed(e, actor) == [e EXCEPT !.owner = actor, !.below = Append(@, e.owner)]

\* The last owner cannot be popped.
Released(e) == IF e.below = <<>> THEN e ELSE [e EXCEPT !.owner = Last(e.below), !.below = Front(@)]

\* isServerManagedClientGroup
OpenToManagers(g, actor) ==
  Entered(g) /\ g \in Managed /\ grpEntry[g].owner = GroupServer /\ actor \in ByManagers

Owns(g, actor) == Entered(g) /\ grpEntry[g].owner = actor

\* enforceGroupOwnership: what passes.  Every group is transferable once it is
\* entered; a group that is not can be commanded by anybody.
Allowed(g, actor, command) ==
  \/ OpenToManagers(g, actor)
  \/ command = "reclaim" /\ Entered(g)
  \/ command = "control" /\ ~Entered(g)
  \/ command # "reclaim" /\ Owns(g, actor)

\* What a command that passes does to the entry; nothing if the group is open
\* to managers anyway.
After(g, actor, command) ==
  LET e == grpEntry[g]
  IN IF OpenToManagers(g, actor) THEN e
     ELSE CASE command = "reclaim" -> Reclaimed(e, actor)
            [] command = "release" -> Released(e)
            [] command \in {"archive", "restore"} -> [e EXCEPT !.archived = command = "archive"]
            [] OTHER -> e

HandleMessage(g, actor, command) ==
  /\ Allowed(g, actor, command)
  /\ Entered(g) /\ command = "reclaim" => Len(grpEntry[g].below) < GroupSteps
  /\ grpEntry' = [grpEntry EXCEPT ![g] = After(g, actor, command)]

GrpNext ==
  \/ \E g \in Group : SetClientGroup(g)
  \/ \E g \in Group, actor \in GrpActor, command \in GrpCommand : HandleMessage(g, actor, command)

GrpSpec == GrpInit /\ [][GrpNext]_grpEntry

-----------------------------------------------------------------------------
(* Properties *)

\* However managers and services take groups from one another, a group can be
\* handed back down to the server, which owned it first and is on nobody's
\* shoulders; and no manager takes a group that is open to all of them, except
\* from a service that holds it.
GroupsReturn ==
  \A g \in Group :
    Entered(g) =>
      LET chain == Append(grpEntry[g].below, grpEntry[g].owner)
      IN /\ chain[1] = GroupServer
         /\ \A i \in 2..Len(chain) : chain[i] # GroupServer
         /\ g \in Managed /\ Len(chain) > 1 => chain[2] \in ByServices
=============================================================================
