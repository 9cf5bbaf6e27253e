----------------------------- MODULE Signatures ------------------------------
(***************************************************************************)
(* What the modules of an environment see of function types.  A module has *)
(* a list of signatures and functions that have one of them each; whether  *)
(* an indirect call or a link goes through depends on nothing but the two  *)
(* signatures.  There are no addresses here and nothing is shared.         *)
(***************************************************************************)
EXTENDS Sequences, Integers

CONSTANTS
  Module,     \* the M3Module objects of the environment
  Signature   \* [rets, args]: sequences of value types

VARIABLES
  types,      \* the signatures of each module, by type index
  functions,  \* the signature of each function of a module, by function index
  answer      \* the last request, and what it was told

vars == <<types, functions, answer>>

\* Module m asks for signature sig, for its function f (0 if for none).
Answer(m, sig, f, told) == [module |-> m, sig |-> sig, function |-> f, told |-> told]

Nothing == [told |-> "nothing"]

Init ==
  /\ types = [m \in Module |-> <<>>]
  /\ functions = [m \in Module |-> <<>>]
  /\ answer = Nothing

AddType(m, sig) ==
  /\ types' = [types EXCEPT ![m] = Append(@, sig)]
  /\ answer' = Answer(m, sig, 0, "added")
  /\ UNCHANGED functions

AddFunction(m, i) ==
  /\ functions' = [functions EXCEPT ![m] = Append(@, types[m][i])]
  /\ answer' = Answer(m, types[m][i], Len(functions'[m]), "added")
  /\ UNCHANGED types

\* A type and a function that has it.
AddBoth(m, sig) ==
  /\ types' = [types EXCEPT ![m] = Append(@, sig)]
  /\ functions' = [functions EXCEPT ![m] = Append(@, sig)]
  /\ answer' = Answer(m, sig, Len(functions'[m]), "added")

\* The only comparison there is: of two signatures.
Compare(m, sig, f) ==
  /\ answer' = Answer(m, sig, f, IF sig = functions[m][f] THEN "match" ELSE "mismatch")
  /\ UNCHANGED <<types, functions>>

Forget(m) ==
  /\ types' = [types EXCEPT ![m] = <<>>]
  /\ functions' = [functions EXCEPT ![m] = <<>>]
  /\ answer' = Nothing

Next ==
  \E m \in Module :
    \/ \E sig \in Signature : AddType(m, sig)
    \/ \E i \in DOMAIN types[m] : AddFunction(m, i)
    \/ \E sig \in Signature : AddBoth(m, sig)
    \/ \E f \in DOMAIN functions[m], sig \in Signature : Compare(m, sig, f)
    \/ Forget(m)

Spec == Init /\ [][Next]_vars
=============================================================================
