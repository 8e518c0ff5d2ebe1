------------------------------- MODULE KeyMap -------------------------------
(***************************************************************************)
(* What internal/rangeindex promises its callers: a map from single keys   *)
(* to values.  "The public API is point-based [...].  The range creation,  *)
(* merging, and splitting happens transparently inside the index"          *)
(* (index.go:6-8), so nothing here speaks of segments.                     *)
(***************************************************************************)
CONSTANTS
  Keys,      \* the keys callers use
  Values,    \* the values callers store
  Absent     \* the answer for a key that is not covered: not a value

VARIABLES
  map,       \* the value of every key, or Absent
  op         \* the last call and what it returned

vars == <<map, op>>

Call(name, key, arg, ret) ==
  [name |-> name, key |-> key, arg |-> arg, ret |-> ret]

Init ==
  /\ map = [k \in Keys |-> Absent]
  /\ op = Call("New", Absent, Absent, Absent)

Set(k, v) ==
  /\ map' = [map EXCEPT ![k] = v]
  /\ op' = Call("Set", k, v, Absent)

Delete(k) ==
  /\ map' = [map EXCEPT ![k] = Absent]
  /\ op' = Call("Delete", k, Absent, Absent)

SetIfAbsent(k, v) ==
  /\ map' = [map EXCEPT ![k] = IF @ = Absent THEN v ELSE @]
  /\ op' = Call("SetIfAbsent", k, v, map[k] = Absent)

Clear ==
  /\ map' = [k \in Keys |-> Absent]
  /\ op' = Call("Clear", Absent, Absent, Absent)

Get(k) ==
  /\ op' = Call("Get", k, Absent, map[k])
  /\ UNCHANGED map

Next ==
  \/ \E k \in Keys, v \in Values : Set(k, v) \/ SetIfAbsent(k, v)
  \/ \E k \in Keys : Delete(k) \/ Get(k)
  \/ Clear

Spec == Init /\ [][Next]_vars
=============================================================================
