---------------------------- MODULE MCDocsIndex ----------------------------
(* Two sources are enough for two manifest updates to meet; four calls are *)
(* an index, a removal or second index, a search, and one that overlaps.   *)
(* Two models make one upgrade of the binary.                              *)
EXTENDS DocsIndex, TLC

SourceSymmetry == Permutations(Sources)
=============================================================================
