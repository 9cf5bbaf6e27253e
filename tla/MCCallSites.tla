---------------------------- MODULE MCCallSites -----------------------------
(* An import, a function that calls it, and one that calls the second and,   *)
(* through the table, any of them.                                           *)
EXTENDS CallSites, TLC

CONSTANTS b1, b2

Does(callee, indirect, constants) ==
  [callee |-> callee, indirect |-> indirect, constants |-> constants]

MCBody     == [callee : 0 .. 4, indirect : BOOLEAN, constants : BOOLEAN]
MCDeclared == <<NULL, Does(1, FALSE, TRUE), Does(2, TRUE, FALSE)>>
MCTable    == <<1, 2>>
MCInjected == {Does(2, FALSE, TRUE)}

Symmetry == Permutations(Block)
=============================================================================
