----------------------------- MODULE PrintQueue -----------------------------
(***************************************************************************)
(* The manager's bridge to the printers of the server.  What a print node  *)
(* shows is printed when it changes: the bridge remembers the signature of *)
(* what it took last, and submits jobs one after the other to the server,  *)
(* which refuses printers it does not know (any more).                     *)
(***************************************************************************)
EXTENDS Naturals, Sequences, SequencesExt, FiniteSets

CONSTANTS
  PrintNode,     \* nodes connected to the printer
  Sheet,         \* payloads, up to their signature
  PrintChanges,  \* bound: changes of the graph
  PrintConfigs,  \* bound: configurations of a server
  Blank          \* no payload

ASSUME PrintAssumption == IsFiniteSet(PrintNode) /\ PrintChanges \in Nat /\ PrintConfigs \in Nat

VARIABLES
  prtWanted,     \* payload of each node
  prtPrinted,    \* this.printed
  prtChain,      \* jobs of the submit chain
  prtOnline,     \* the printer is connected and the engine runs
  prtPaper,      \* sheets that came out, by node
  prtRefused,    \* nodes whose last job was refused
  prtChanges,    \* changes of the graph so far
  prtConfigs     \* configurations so far

prtVars == <<prtWanted, prtPrinted, prtChain, prtOnline, prtPaper, prtRefused, prtChanges, prtConfigs>>

NothingPrinted == [n \in PrintNode |-> Blank]

PrtInit ==
  /\ prtWanted = NothingPrinted /\ prtPrinted = NothingPrinted /\ prtChain = <<>>
  /\ prtOnline = FALSE /\ prtPaper = [n \in PrintNode |-> <<>>] /\ prtRefused = {}
  /\ prtChanges = 0 /\ prtConfigs = 1

-----------------------------------------------------------------------------

\* Seeded fault: what is taken is not remembered.
Forgetting(printed) == printed

\* diffPrinterBridgeJobs: what is remembered after a flush; a node that shows
\* nothing is no route and keeps its entry.
NextPrinted(printed) ==
  [n \in PrintNode |-> IF prtWanted[n] = Blank THEN printed[n] ELSE prtWanted[n]]

Jobs(printed) ==
  SetToSeq({[node |-> n, sheet |-> prtWanted[n]] :
              n \in {m \in PrintNode : prtWanted[m] \notin {Blank, printed[m]}}})

\* flushFromGraph and enqueueJobs, at a tick or a change of the graph.
FlushJobs ==
  /\ prtOnline /\ Jobs(prtPrinted) # <<>>
  /\ prtChain' = prtChain \o Jobs(prtPrinted)
  /\ prtPrinted' = NextPrinted(prtPrinted)
  /\ UNCHANGED <<prtWanted, prtOnline, prtPaper, prtRefused, prtChanges, prtConfigs>>

SheetChanges(n, sheet) ==
  /\ prtChanges < PrintChanges /\ prtWanted[n] # sheet
  /\ prtChanges' = prtChanges + 1
  /\ prtWanted' = [prtWanted EXCEPT ![n] = sheet]
  /\ UNCHANGED <<prtPrinted, prtChain, prtOnline, prtPaper, prtRefused, prtConfigs>>

\* The printer is connected or disconnected, the engine starts or stops.
SwitchPrinting ==
  /\ prtOnline' = ~prtOnline
  /\ UNCHANGED <<prtWanted, prtPrinted, prtChain, prtPaper, prtRefused, prtChanges, prtConfigs>>

\* configure, for another server: the chain goes on.
ConfigurePrinting ==
  /\ prtConfigs < PrintConfigs
  /\ prtConfigs' = prtConfigs + 1
  /\ prtPrinted' = NothingPrinted /\ prtOnline' = FALSE
  /\ UNCHANGED <<prtWanted, prtChain, prtPaper, prtRefused, prtChanges>>

\* submitJob and submitPrintJob: a refused job is reported and forgotten.
SubmitJob(ok) ==
  /\ prtChain # <<>>
  /\ LET job == Head(prtChain)
     IN /\ prtPaper' = IF ok THEN [prtPaper EXCEPT ![job.node] = Append(@, job.sheet)] ELSE prtPaper
        /\ prtRefused' = IF ok THEN prtRefused \ {job.node} ELSE prtRefused \cup {job.node}
  /\ prtChain' = Tail(prtChain)
  /\ UNCHANGED <<prtWanted, prtPrinted, prtOnline, prtChanges, prtConfigs>>

PrtNext ==
  \/ FlushJobs \/ SwitchPrinting \/ ConfigurePrinting
  \/ \E n \in PrintNode, sheet \in Sheet \cup {Blank} : SheetChanges(n, sheet)
  \/ \E ok \in BOOLEAN : SubmitJob(ok)

PrtSpec == PrtInit /\ [][PrtNext]_prtVars

-----------------------------------------------------------------------------
(* Properties *)

\* Ticks, switching the printer and reconnecting print nothing twice: a node
\* prints one sheet for each change, and once more for each new server.  And
\* once the chain is submitted, its last sheet is what it shows, unless the
\* server refused that job.
PrintsChanges ==
  /\ \A n \in PrintNode : Len(prtPaper[n]) <= prtChanges + prtConfigs - 1
  /\ prtOnline /\ prtChain = <<>> /\ Jobs(prtPrinted) = <<>> =>
       \A n \in PrintNode \ prtRefused :
         prtWanted[n] # Blank => prtPaper[n] # <<>> /\ Last(prtPaper[n]) = prtWanted[n]
=============================================================================
