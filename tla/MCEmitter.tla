----------------------------- MODULE MCEmitter -----------------------------
(* Small instances of Emitter for TLC.                                     *)
EXTENDS Emitter

O(k, a, s) == [keepGoing |-> k, addModules |-> a, strip |-> s]

(* A plain node, and one that is a package and a module.                   *)
TwoKinds == {[module |-> b, package |-> b] : b \in BOOLEAN}

(* No flag, -k with all modules, packages stripped, and all three.         *)
FourOptions == {O(FALSE, FALSE, FALSE), O(TRUE, TRUE, FALSE),
                O(FALSE, FALSE, TRUE), O(TRUE, TRUE, TRUE)}

StripKeepGoing == {O(TRUE, FALSE, TRUE)}
=============================================================================
