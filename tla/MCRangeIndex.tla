---------------------------- MODULE MCRangeIndex ----------------------------
(***************************************************************************)
(* Instances of RangeIndex for TLC: a key type of five values.                  *)
(***************************************************************************)
EXTENDS RangeIndex

CONSTANTS v1, v2, none

MCMinKey == 0
MCMaxKey == 4

\* OSM identifiers never reach the largest int64.
MCKeys == 0..3

\* Callers of a narrow key type may use all of it.
MCAllKeys == MCMinKey..MCMaxKey

MCValues == {v1, v2}
MCOneValue == {v1}
=============================================================================
