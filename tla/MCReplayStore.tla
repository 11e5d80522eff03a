---------------------------- MODULE MCReplayStore ----------------------------
(***************************************************************************)
(* Small instances of ReplayStore: up to four submissions of one caller    *)
(* operation carrying either of two request bodies.                        *)
(***************************************************************************)
EXTENDS ReplayStore, TLC

CONSTANTS c1, c2, c3, c4, body1, body2

CallerSymmetry == Permutations(Callers) \cup Permutations(Contents)
=============================================================================
