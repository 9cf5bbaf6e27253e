---------------------------- MODULE MCModuleLife -----------------------------
(* One module whose start function and exported function call an import, and *)
(* one whose start function has index 0.                                     *)
EXTENDS ModuleLife

CONSTANTS m1, m2, log, run, add

Imported(name) ==
  [name |-> name, import |-> TRUE, body |-> FALSE, calls |-> {}, nullary |-> FALSE]
Defined(name, calls, nullary) ==
  [name |-> name, import |-> FALSE, body |-> TRUE, calls |-> calls, nullary |-> nullary]

MCContents ==
  [m \in Module |->
     IF m = m1
     THEN [functions |-> <<Imported(log), Defined(run, {0}, TRUE), Defined(add, {0}, FALSE)>>,
           startFunction |-> 1, expressions |-> TRUE]
     ELSE [functions |-> <<Defined(run, {}, TRUE), Defined(log, {}, FALSE)>>,
           startFunction |-> 0, expressions |-> FALSE]]
=============================================================================
