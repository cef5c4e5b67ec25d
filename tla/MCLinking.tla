----------------------------- MODULE MCLinking -----------------------------
(* A library of two functions, and a program that imports two names in one *)
(* package, of which it exports one again under the other name.            *)
EXTENDS Linking

Own(k) == <<"own", k>>
MCImports == [lib |-> {}, app |-> {<<"p", "a">>, <<"p", "b">>}]
MCExports ==
  [lib |-> [a |-> Own(1), b |-> Own(2)],
   app |-> [b |-> <<"p", "a">>]]
=============================================================================
