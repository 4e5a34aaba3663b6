----------------------------- MODULE MCAsapClang -----------------------------
(* Two objects with up to two executions of each check; the levels ask for   *)
(* one of two checks, or for half of their cost.                             *)
EXTENDS AsapClang

CONSTANTS o1, o2

MCObjects == {o1, o2}
MCLevels  == {<<"sanity", 1>>, <<"cost", 1>>, <<"sanity", 0>>}
=============================================================================
