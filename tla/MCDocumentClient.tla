-------------------------- MODULE MCDocumentClient --------------------------
(***************************************************************************)
(* Two clients, of one document or of two, and two plugins.                *)
(***************************************************************************)
EXTENDS DocumentClient, TLC

Symmetry == Permutations(Clients) \cup Permutations(Plugins)
=============================================================================
