-------------------------- MODULE MCStartAnalysis --------------------------
(* Two functions of one module and one of another.                         *)
EXTENDS StartAnalysis

CONSTANTS f1, f2, f3
MCFuncs == {f1, f2, f3}
MCHome == [f \in MCFuncs |-> IF f = f3 THEN "second" ELSE "first"]
=============================================================================
