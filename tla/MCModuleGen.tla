---------------------------- MODULE MCModuleGen ----------------------------
(* Small source trees for ModuleGen and ModuleReplay.                      *)
EXTENDS ModuleReplay, TLC

CONSTANTS a, b, c, d

Empty == [m \in Module |-> <<>>]

(* Every module raises a warning, and so does every generator.             *)
Blank ==
  [targets |-> <<>>, peers |-> Empty, tools |-> Empty, before |-> Empty, after |-> Empty,
   uses |-> Empty, needs |-> Empty, genTools |-> Empty, linked |-> {}, broken |-> {}, gen |-> {}, script |-> {},
   warn |-> Module, warnGen |-> {}, throwGen |-> {},
   throw |-> [m \in Module |-> "never"], keepGoing |-> FALSE]

Root(m)    == [m |-> m, root |-> TRUE]
Recurse(m) == [m |-> m, root |-> FALSE]

TargetLists == {<<Root(a)>>, <<Root(a), Recurse(b), Root(c)>>, <<Root(b), Recurse(d), Root(a)>>}

(* A module may throw.                                                     *)
Throws ==
  {[Blank EXCEPT !.throw[m] = x] : m \in {b, c}, x \in {"reading", "emitting"}} \cup {Blank}

(* A sibling that knows nothing of it, and two that generate each other.   *)
Siblings ==
  {[Blank EXCEPT !.before[m] = <<d>>, !.throw[d] = x] : m \in {a, b}, x \in {"never", "emitting"}}
  \cup
  {[Blank EXCEPT !.before[xy[1]] = <<xy[2]>>, !.after[xy[2]] = <<xy[1]>>, !.throw[b] = t] :
     xy \in {<<b, c>>, <<c, b>>, <<c, d>>, <<d, b>>}, t \in {"never", "emitting"}}

(* A tool, also one that needs itself.                                     *)
Tools ==
  {[Blank EXCEPT !.tools[b] = <<d>>, !.tools[c] = tc, !.throw[d] = x] :
     tc \in {<<>>, <<d>>, <<b, d>>}, x \in {"never", "reading"}}

(* A peer that cannot be evaluated.                                        *)
Broken ==
  {[Blank EXCEPT !.peers[b] = <<d>>, !.peers[c] = <<d>>, !.broken = {d}],
   [Blank EXCEPT !.before[a] = <<c>>, !.tools[c] = <<b>>, !.peers[b] = <<d>>, !.peers[a] = <<d>>, !.broken = {d}]}

(* Generated files of b and c.                                             *)
Generators ==
  {[Blank EXCEPT !.gen = {b, c}, !.warnGen = {b, c}, !.uses[a] = ua, !.uses[c] = uc, !.uses[d] = <<c>>,
                 !.needs[b] = n, !.script = s, !.throwGen = t, !.before[b] = e] :
     ua \in {<<b>>, <<c, b>>}, uc \in {<<>>, <<b>>, <<c>>}, n \in {<<>>, <<c>>},
     s \in {{}, {b, c}}, t \in {{}, {b}}, e \in {<<>>, <<d>>}}

(* Generators that ask for tools, also for one whose module is the user or *)
(* has the generated file.                                                 *)
GeneratorTools ==
  {[Blank EXCEPT !.gen = {b, c}, !.warnGen = {b, c}, !.uses[a] = <<b>>, !.uses[c] = <<b>>, !.uses[d] = <<c>>,
                 !.genTools[b] = g, !.genTools[c] = <<d>>, !.tools[c] = t, !.throw[d] = x] :
     g \in {<<d>>, <<c, d>>}, t \in {<<>>, <<d>>}, x \in {"never", "emitting"}}

(* A tool that a module the command line recurses into shares with a root. *)
SharedTools ==
  {[Blank EXCEPT !.targets = t, !.tools[a] = <<d>>, !.tools[b] = tb, !.tools[c] = <<d>>,
                 !.peers[d] = pd, !.peers[c] = pc, !.keepGoing = k] :
     t \in {<<Root(b), Recurse(a), Root(c)>>, <<Root(b), Recurse(d), Recurse(a), Root(c)>>},
     tb \in {<<>>, <<d>>}, pd \in {<<>>, <<c>>}, pc \in {<<>>, <<a>>}, k \in BOOLEAN}

(* Every feature over peers with and without cycles.                       *)
Over(features) ==
  {[f EXCEPT !.targets = t, !.peers[a] = @ \o pa, !.peers[b] = pb \o @, !.peers[c] = pc \o @,
             !.peers[d] = pd, !.linked = l, !.keepGoing = k] :
    f \in features, t \in TargetLists, pa \in {<<b, c>>, <<c, b>>}, pb \in {<<>>, <<c>>, <<c, a>>},
    pc \in {<<>>, <<b>>}, pd \in {<<>>, <<b>>}, l \in {{}, {a}}, k \in BOOLEAN}

TestProjects ==
  {p \in Over(Throws \cup Siblings \cup Tools \cup Broken \cup Generators \cup GeneratorTools) :
     p.broken = {} \/ d \notin Roots(p)} \cup SharedTools
=============================================================================
