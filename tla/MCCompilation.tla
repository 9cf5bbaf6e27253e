---------------------------- MODULE MCCompilation ----------------------------
(* Two runtimes of one environment: a function f and an import h in r1, an  *)
(* import g in r2.                                                          *)
EXTENDS Compilation

CONSTANTS r1, r2, scratch, f, g, h

MCHome == (f :> r1) @@ (h :> r1) @@ (g :> r2)
=============================================================================
