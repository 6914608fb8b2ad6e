------------------------- MODULE MCPatchDeployment -------------------------
(* Two clients, of which one lacks a capability the patch requires. *)
EXTENDS PatchDeployment
=============================================================================
