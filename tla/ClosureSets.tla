---------------------------- MODULE ClosureSets -----------------------------
(***************************************************************************)
(* What the include scanner needs of its closure store: the closure of a   *)
(* file (or of the members of an include cycle, which share one) is a set  *)
(* of files, collected from single files and from whole closures that are  *)
(* already stored.  A child that has been collected already is skipped.    *)
(***************************************************************************)
EXTENDS Naturals

CONSTANTS File, None

VARIABLES
  stored,    \* file -> set of files, or None
  owners,    \* files whose closure is being collected; {} between walks
  acc        \* files collected so far

vars == <<stored, owners, acc>>

Init ==
  /\ stored = [f \in File |-> None]
  /\ owners = {}
  /\ acc = {}

Begin(T) ==
  /\ owners = {}
  /\ T # {}
  /\ owners' = T
  /\ acc' = T
  /\ UNCHANGED stored

AddOne(f) ==
  /\ owners # {}
  /\ acc' = acc \union {f}
  /\ UNCHANGED <<stored, owners>>

AddClosure(ch) ==
  /\ owners # {}
  /\ ch \notin acc
  /\ stored[ch] # None
  /\ acc' = acc \union stored[ch]
  /\ UNCHANGED <<stored, owners>>

Put ==
  /\ owners # {}
  /\ stored' = [f \in File |-> IF f \in owners THEN acc ELSE stored[f]]
  /\ owners' = {}
  /\ acc' = {}

Next ==
  \/ \E T \in SUBSET File : Begin(T)
  \/ \E f \in File : AddOne(f) \/ AddClosure(f)
  \/ Put

Spec == Init /\ [][Next]_vars
=============================================================================
