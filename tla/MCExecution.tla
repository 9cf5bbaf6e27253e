---------------------------- MODULE MCExecution -----------------------------
(* Modules with a memory of one page and no maximum, of two pages at most,   *)
(* without a memory section, and with an imported memory.                    *)
EXTENDS Execution, TLC

CONSTANTS b1, b2

MCModuleMemory ==
  { [imported |-> FALSE, initPages |-> 1, maxPages |-> 0],
    [imported |-> FALSE, initPages |-> 2, maxPages |-> 2],
    [imported |-> FALSE, initPages |-> 0, maxPages |-> 0],
    [imported |-> TRUE,  initPages |-> 0, maxPages |-> 0] }

Symmetry == Permutations(Block)
=============================================================================
