--------------------------- MODULE MCCorpusFetch ---------------------------
(***************************************************************************)
(* Two fetchers on one directory, two quick items and an unsafe one, a kill. *)
(***************************************************************************)
EXTENDS CorpusFetch, TLC

CONSTANTS a, b
=============================================================================
