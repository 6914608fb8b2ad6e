---------------------------- MODULE LatestValue ----------------------------
(***************************************************************************)
(* What the delivery contract promises for a latest-state key: of the      *)
(* values given to it, numbered as they are accepted, the audience sees an *)
(* increasing selection.  Values in between may be replaced, but none is   *)
(* shown twice and none after a newer one.                                 *)
(***************************************************************************)
EXTENDS Integers, Sequences

CONSTANT Key

VARIABLES
  accepted,      \* the newest value accepted for each key
  log            \* the values each key's audience was given, in order

vars == <<accepted, log>>

Init ==
  /\ accepted = [k \in Key |-> 0]
  /\ log = [k \in Key |-> <<>>]

\* The values shown are a selection of the accepted ones, newest last.
Increasing(s, n) ==
  \A i \in 1..Len(s) : s[i] \in 1..n /\ (i > 1 => s[i - 1] < s[i])

\* A step accepts at most one more value of each key, and what the audience
\* was given stays given.
Next ==
  \A k \in Key :
    /\ accepted'[k] \in {accepted[k], accepted[k] + 1}
    /\ Len(log[k]) <= Len(log'[k])
    /\ \A i \in 1..Len(log[k]) : log'[k][i] = log[k][i]
    /\ Increasing(log'[k], accepted'[k])

Spec == Init /\ [][Next]_vars
=============================================================================
