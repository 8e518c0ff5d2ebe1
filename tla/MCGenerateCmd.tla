--------------------------- MODULE MCGenerateCmd ---------------------------
(***************************************************************************)
(* Every command line with one input or two, with the two outputs at one   *)
(* path, and with an output that is the empty string; a heap of two sizes; *)
(* a tick or none.                                                         *)
(***************************************************************************)
EXTENDS GenerateCmd

CONSTANT none

MCFlags ==
  {g \in [stats : BOOLEAN, profile : BOOLEAN, heap : BOOLEAN, endpoint : BOOLEAN,
          inputs : 1..2, outputs : SUBSET Formats, onePath : BOOLEAN, blank : BOOLEAN] :
     g.blank => g.outputs = {}}
=============================================================================
