----------------------------- MODULE BuildOrder -----------------------------
(***************************************************************************)
(* What a build promises, whatever threads, queues and batches produce it: *)
(* every node is settled at most once and for good; it is built when it    *)
(* was found in the cache or when every dependency has been built, and it  *)
(* fails of itself or because a dependency has failed.                     *)
(***************************************************************************)
EXTENDS Naturals, Sequences

CONSTANTS Node, Deps, MayBeCached

VARIABLE status

DepSet(n) == {Deps[n][i] : i \in 1..Len(Deps[n])}

Init == status = [n \in Node |-> "open"]

CacheHit(n) ==
  /\ n \in MayBeCached
  /\ status[n] = "open"
  /\ status' = [status EXCEPT ![n] = "built"]

Build(n) ==
  /\ status[n] = "open"
  /\ \A d \in DepSet(n) : status[d] = "built"
  /\ status' = [status EXCEPT ![n] = "built"]

(* The command fails; it was not started before the inputs were there.     *)
Fail(n) ==
  /\ status[n] = "open"
  /\ \A d \in DepSet(n) : status[d] = "built"
  /\ status' = [status EXCEPT ![n] = "failed"]

Broken(n) ==
  /\ status[n] = "open"
  /\ \E d \in DepSet(n) : status[d] = "failed"
  /\ status' = [status EXCEPT ![n] = "failed"]

Next == \E n \in Node : CacheHit(n) \/ Build(n) \/ Fail(n) \/ Broken(n)

Spec == Init /\ [][Next]_status
=============================================================================
