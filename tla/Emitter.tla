------------------------------ MODULE Emitter ------------------------------
(***************************************************************************)
(* StreamingEmitter (node_emitter.go): the generator reserves and emits    *)
(* nodes in any order it likes, and finish hands the ones to be published  *)
(* to onNode, dependencies first, in passes over what is still pending.    *)
(*                                                                         *)
(* A NodeRef is an index of `nodes`; a slot that was reserved and not yet  *)
(* filled holds Nil.  A node is abstracted to its build dependencies and   *)
(* to the two properties finish looks at.                                  *)
(***************************************************************************)
EXTENDS Integers, Sequences, FiniteSets

CONSTANTS
  MaxNodes,     \* bound: slots
  MaxResults,   \* bound: calls of result
  Option,       \* the combinations of flags a command line may have
  Kind,         \* whether a node may be a module (Node.Module) and whether it
                \* may be a package (KV.P is PK or UN)
  Nil

(* -k, --add-modules-to-results and --strip-packages-from-results.         *)
OptionRec == [keepGoing : BOOLEAN, addModules : BOOLEAN, strip : BOOLEAN]

ASSUME EmitterAssumption ==
  /\ MaxNodes \in Nat /\ MaxResults \in Nat
  /\ Option \subseteq OptionRec
  /\ Kind \subseteq [module : BOOLEAN, package : BOOLEAN]

VARIABLES
  opts,         \* what the flags are; only finish reads them
  nodes, results, deferred, publicationRoots,
  phase, exportEligible, pending, cursor, next, resolved, delivered, returned

vars == <<opts, nodes, results, deferred, publicationRoots, phase, exportEligible,
          pending, cursor, next, resolved, delivered, returned>>
genVars == <<opts, nodes, results, deferred, publicationRoots>>

Ref == 1..MaxNodes
NodeRec == {[deps |-> d, module |-> k.module, package |-> k.package] :
              d \in SUBSET Ref, k \in Kind}
Elems(s) == {s[i] : i \in 1..Len(s)}

(* An empty slot is no node.                                               *)
ASSUME NilAssumption == Nil \notin NodeRec

TypeOK ==
  /\ opts \in Option \cup {Nil}
  /\ nodes \in Seq(NodeRec \cup {Nil}) /\ Len(nodes) <= MaxNodes
  /\ results \in Seq(Ref)
  /\ deferred \in BOOLEAN
  /\ publicationRoots \subseteq Ref
  /\ phase \in {"gen", "pass", "results", "done", "thrown", "panic"}
  /\ exportEligible \subseteq Ref
  /\ pending \in Seq(Ref) /\ next \in Seq(Ref) /\ cursor \in Nat \ {0}
  /\ resolved \subseteq Ref
  /\ delivered \in Seq(Ref)
  /\ returned \in Seq(Ref)

Init ==
  /\ opts = Nil
  /\ nodes = <<>> /\ results = <<>>
  /\ deferred = FALSE /\ publicationRoots = {}
  /\ phase = "gen"
  /\ exportEligible = {}
  /\ pending = <<>> /\ next = <<>> /\ cursor = 1
  /\ resolved = {}
  /\ delivered = <<>> /\ returned = <<>>
-----------------------------------------------------------------------------
(***************************************************************************)
(* Generation.                                                             *)
(***************************************************************************)
Unfinished == <<opts, phase, exportEligible, pending, cursor, next, resolved,
                delivered, returned>>

Reserve ==
  /\ phase = "gen"
  /\ Len(nodes) < MaxNodes
  /\ nodes' = Append(nodes, Nil)
  /\ UNCHANGED <<results, deferred, publicationRoots, Unfinished>>

(* A fault for ResolveOrPend: the index is taken after the push.           *)
PendAfterPush(id) ==
  publicationRoots' = IF deferred THEN publicationRoots
                      ELSE publicationRoots \cup {id + 1}

(* resolveOrPend: publication may be put off, and then the node is only    *)
(* exported if something published needs it.                               *)
ResolveOrPend(id) ==
  publicationRoots' = IF deferred THEN publicationRoots
                      ELSE publicationRoots \cup {id}

Emit(n) ==
  /\ phase = "gen"
  /\ Len(nodes) < MaxNodes
  /\ n.deps \subseteq 1..Len(nodes)
  /\ nodes' = Append(nodes, n)
  /\ ResolveOrPend(Len(nodes) + 1)
  /\ UNCHANGED <<results, deferred, Unfinished>>

(* Filling a slot again replaces the node, as the code does.               *)
EmitReserved(n, id) ==
  /\ phase = "gen"
  /\ id \in 1..Len(nodes)
  /\ n.deps \subseteq 1..Len(nodes)
  /\ nodes' = [nodes EXCEPT ![id] = n]
  /\ ResolveOrPend(id)
  /\ UNCHANGED <<results, deferred, Unfinished>>

Result(r) ==
  /\ phase = "gen"
  /\ r \in 1..Len(nodes)
  /\ nodes[r] # Nil
  /\ Len(results) < MaxResults
  /\ results' = Append(results, r)
  /\ UNCHANGED <<nodes, deferred, publicationRoots, Unfinished>>

(* deferPublication > 0, between the begin and the end of whatever is      *)
(* emitted on demand; the nesting depth is abstracted away.                *)
DeferPublication ==
  /\ phase = "gen"
  /\ deferred' = ~deferred
  /\ UNCHANGED <<nodes, results, publicationRoots, Unfinished>>
-----------------------------------------------------------------------------
(***************************************************************************)
(* finish.                                                                 *)
(***************************************************************************)
DepsIn(ns, r) == IF ns[r] = Nil THEN {} ELSE ns[r].deps

(* reachableNodes: the roots and all they need; an empty slot is reached   *)
(* and leads nowhere.                                                      *)
ReachableNodes(ns, roots) ==
  {r \in DOMAIN ns :
     \A S \in SUBSET DOMAIN ns :
       roots \subseteq S /\ (\A x \in S : DepsIn(ns, x) \subseteq S) => r \in S}

(* A set of indices in the order in which a loop over a slice meets them.  *)
Ascending(S) ==
  CHOOSE s \in [1..Cardinality(S) -> S] :
    Elems(s) = S /\ \A i, j \in 1..Cardinality(S) : i < j => s[i] < s[j]

(* What a loop that copies the elements at these indices makes of s.       *)
Kept(s, indices) ==
  [k \in 1..Cardinality(indices) |-> s[Ascending(indices)[k]]]

KeepIf(s, S) == Kept(s, {i \in 1..Len(s) : s[i] \in S})

(* A fault for StartPasses: the results are not part of the frontier.      *)
ResultsNotInFrontier(ns, rs) ==
  LET eligible == ReachableNodes(ns, publicationRoots) IN
  /\ nodes' = ns
  /\ results' = rs
  /\ exportEligible' = eligible
  /\ pending' = Ascending({r \in eligible : ns[r] # Nil})
  /\ phase' = "pass"

(* publicationFrontier, reachableNodes and the first list of pending nodes. *)
StartPasses(ns, rs) ==
  LET eligible == ReachableNodes(ns, publicationRoots \cup Elems(rs)) IN
  /\ nodes' = ns
  /\ results' = rs
  /\ exportEligible' = eligible
  /\ pending' = Ascending({r \in eligible : ns[r] # Nil})
  /\ phase' = "pass"

NotPackages == {r \in Elems(results) : ~nodes[r].package}

(* A fault for Finish: packages go, what only they need stays.             *)
StripResultsOnly(o) ==
  /\ phase = "gen"
  /\ ~deferred
  /\ opts' = o
  /\ StartPasses(nodes, IF o.strip
                          THEN KeepIf(results, NotPackages)
                          ELSE results)
  /\ UNCHANGED <<deferred, publicationRoots, cursor, next, resolved, delivered,
                 returned>>

(* stripPackageResults: results that are packages go, and with them every  *)
(* node the other results do not need.  An empty slot among those makes    *)
(* the walk dereference nil.                                               *)
Finish(o) ==
  /\ phase = "gen"
  /\ ~deferred
  /\ opts' = o
  /\ IF o.strip
       THEN LET rs == KeepIf(results, NotPackages)
                live == ReachableNodes(nodes, Elems(rs))
            IN IF \E r \in live : nodes[r] = Nil
                 THEN /\ phase' = "panic"
                      /\ UNCHANGED <<nodes, results, exportEligible, pending>>
                 ELSE StartPasses([r \in 1..Len(nodes) |->
                                     IF r \in live THEN nodes[r] ELSE Nil], rs)
       ELSE StartPasses(nodes, results)
  /\ UNCHANGED <<deferred, publicationRoots, cursor, next, resolved, delivered,
                 returned>>

(* A fault for HasUnresolvedDeps: one resolved dependency is enough.       *)
NoneResolved(id) == nodes[id].deps # {} /\ nodes[id].deps \cap resolved = {}

HasUnresolvedDeps(id) == ~(nodes[id].deps \subseteq resolved)

(* One node of a pass: kept for the next pass, or handed to onNode.        *)
PassStep ==
  /\ phase = "pass"
  /\ cursor <= Len(pending)
  /\ LET id == pending[cursor] IN
       \/ /\ HasUnresolvedDeps(id)
          /\ next' = Append(next, id)
          /\ UNCHANGED <<resolved, delivered>>
       \/ /\ ~HasUnresolvedDeps(id)
          /\ resolved' = resolved \cup {id}
          /\ delivered' = Append(delivered, id)
          /\ UNCHANGED next
  /\ cursor' = cursor + 1
  /\ UNCHANGED <<genVars, phase, exportEligible, pending, returned>>

(* The end of a pass that handed something over: the next one begins.      *)
NextPass ==
  /\ phase = "pass"
  /\ cursor > Len(pending)
  /\ pending = <<>> \/ Len(next) < Len(pending)
  /\ pending' = next
  /\ next' = <<>>
  /\ cursor' = 1
  /\ phase' = IF next = <<>> THEN "results" ELSE "pass"
  /\ UNCHANGED <<genVars, exportEligible, resolved, delivered, returned>>

(* A fault for Stuck: the results are left as they are.                    *)
StuckKeepsResults ==
  /\ phase = "pass"
  /\ cursor > Len(pending)
  /\ pending # <<>>
  /\ Len(next) = Len(pending)
  /\ phase' = IF opts.keepGoing THEN "results" ELSE "thrown"
  /\ exportEligible' = exportEligible \ Elems(next)
  /\ UNCHANGED <<genVars, cursor, pending, next, resolved, delivered, returned>>

(* A pass that handed nothing over ends in an exception; under -k          *)
(* dropUnresolvable gives up the nodes left and the results among them.    *)
Stuck ==
  /\ phase = "pass"
  /\ cursor > Len(pending)
  /\ pending # <<>>
  /\ Len(next) = Len(pending)
  /\ IF opts.keepGoing
       THEN /\ phase' = "results"
            /\ exportEligible' = exportEligible \ Elems(next)
            /\ results' = KeepIf(results, resolved)
       ELSE /\ phase' = "thrown"
            /\ UNCHANGED <<results, exportEligible>>
  /\ UNCHANGED <<opts, nodes, deferred, publicationRoots, cursor, pending, next,
                 resolved, delivered, returned>>

(* dedupResultRefs: the first occurrence of each stays.                    *)
DedupResultRefs(s) ==
  Kept(s, {i \in 1..Len(s) : \A j \in 1..(i - 1) : s[j] # s[i]})

ModuleRefs ==
  Ascending({r \in exportEligible : nodes[r] # Nil /\ nodes[r].module})

Return ==
  /\ phase = "results"
  /\ results' = IF opts.addModules THEN results \o ModuleRefs ELSE results
  /\ returned' = DedupResultRefs(results')
  /\ phase' = "done"
  /\ UNCHANGED <<opts, nodes, deferred, publicationRoots, exportEligible, cursor,
                 pending, next, resolved, delivered>>

Finished ==
  /\ phase \in {"done", "thrown", "panic"}
  /\ UNCHANGED vars
-----------------------------------------------------------------------------
Next ==
  \/ Reserve
  \/ \E n \in NodeRec : Emit(n)
  \/ \E n \in NodeRec, id \in Ref : EmitReserved(n, id)
  \/ \E r \in Ref : Result(r)
  \/ DeferPublication
  \/ (\E o \in Option : Finish(o))
  \/ PassStep \/ NextPass \/ Stuck \/ Return
  \/ Finished

Spec == Init /\ [][Next]_vars
-----------------------------------------------------------------------------
(* onNode sees a node after all its dependencies, and once: the executor   *)
(* reads the uids and the futures of the dependencies without a check.     *)
DeliveredInOrder ==
  \A i \in 1..Len(delivered) :
    LET earlier == {delivered[j] : j \in 1..(i - 1)} IN
    /\ nodes[delivered[i]].deps \subseteq earlier
    /\ delivered[i] \notin earlier

(* What can be delivered at all: nothing it needs is an empty slot or      *)
(* depends on itself.                                                      *)
Needs(r) == ReachableNodes(nodes, {r})
Deliverable(r) ==
  \A x \in Needs(r) :
    /\ nodes[x] # Nil
    /\ x \notin ReachableNodes(nodes, DepsIn(nodes, x))

Published == ReachableNodes(nodes, publicationRoots \cup Elems(results))

(* finish delivers every published node that can be built -- under -k the  *)
(* ones beside a cycle or a missing producer too -- and throws only when   *)
(* there is one that cannot.                                               *)
FinishExact ==
  /\ phase = "done" =>
       \A r \in Published : r \in Elems(delivered) <=> Deliverable(r)
  /\ phase = "thrown" => \E r \in Published : ~Deliverable(r)

(* Every result returned has been delivered, so run and installRoot find   *)
(* its future; none is returned twice, and --add-modules-to-results leaves  *)
(* out no module that was delivered.                                       *)
ResultsDelivered ==
  phase = "done" =>
    /\ Elems(returned) \subseteq Elems(delivered)
    /\ opts.addModules =>
         {r \in Elems(delivered) : nodes[r].module} \subseteq Elems(returned)
    /\ \A i, j \in 1..Len(returned) : returned[i] = returned[j] => i = j

(* --strip-packages-from-results leaves no package among the results, save *)
(* the modules --add-modules-to-results puts back.  It delivers what the   *)
(* remaining results need, whatever had been published, and nothing else;  *)
(* under -k also what only the results given up would have needed.         *)
StripExact ==
  phase = "done" /\ opts.strip =>
    LET needed == ReachableNodes(nodes, Elems(results)) IN
    /\ ~opts.addModules => \A r \in Elems(returned) : ~nodes[r].package
    /\ needed \subseteq Elems(delivered)
    /\ ~opts.keepGoing => Elems(delivered) = needed

(* Under -k a producer that was never emitted is survived.                 *)
KeepGoingSurvives ==
  phase \in {"thrown", "panic"} => ~opts.keepGoing
=============================================================================
