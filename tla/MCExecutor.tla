----------------------------- MODULE MCExecutor -----------------------------
(* A small instance of Executor for TLC.                                   *)
EXTENDS Executor, TLC

CONSTANTS a, b, loose

(* b needs a; b is the root, and nothing needs loose.                      *)
PairDeps  == (a :> <<>>) @@ (b :> <<a>>) @@ (loose :> <<>>)
PairRoots == <<b>>
=============================================================================
