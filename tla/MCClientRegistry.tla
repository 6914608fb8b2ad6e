-------------------------- MODULE MCClientRegistry --------------------------
(* Instances of ClientRegistry for TLC. *)
EXTENDS ClientRegistry, TLC

CONSTANTS t1, d1, i1, i2

\* Tabs of one browser have one deviceId.
OneDevice == [t \in Tab |-> d1]

\* t1 has an instanceId of its own.  With a third tab the other two share
\* one: "Duplicate tab" copies sessionStorage.
Instances == [t \in Tab |-> IF t = t1 THEN i1 ELSE i2]

SymSockets == Permutations(Socket)
=============================================================================
