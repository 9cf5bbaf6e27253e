----------------------------- MODULE MCFuncTypes -----------------------------
(* One value type, and the signatures () -> (), () -> i32 and (i32) -> ():   *)
(* the last two have the same types in the same number.                     *)
EXTENDS FuncTypes, TLC

CONSTANTS a1, a2, a3, a4, m1, m2

MCValueType == <<"i32">>

MCSignature ==
  { [rets |-> <<>>, args |-> <<>>],
    [rets |-> <<"i32">>, args |-> <<>>],
    [rets |-> <<>>, args |-> <<"i32">>] }

Symmetry == Permutations(Address) \cup Permutations(Module)
=============================================================================
