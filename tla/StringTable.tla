----------------------------- MODULE StringTable -----------------------------
(***************************************************************************)
(* The tables of strings of both cache file formats (uniqueMap, dedupMap): *)
(* a string's number is the count of the strings that came before it, and  *)
(* the empty string has number 0.                                          *)
(***************************************************************************)
EXTENDS Integers, SequencesExt

CONSTANT Empty   \* the empty string

Add(uniqueMap, val) ==
  IF val \in DOMAIN uniqueMap THEN uniqueMap
  ELSE [v \in DOMAIN uniqueMap \union {val} |->
          IF v = val THEN Cardinality(DOMAIN uniqueMap) ELSE uniqueMap[v]]

UniqueMap(vals) == FoldLeft(Add, [v \in {Empty} |-> 0], vals)

\* The strings by number; the string of number n is at place n + 1.
Slice(uniqueMap) ==
  [i \in 1..Cardinality(DOMAIN uniqueMap) |->
     CHOOSE val \in DOMAIN uniqueMap : uniqueMap[val] = i - 1]
=============================================================================
