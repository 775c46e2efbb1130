-------------------------- MODULE ModuleGen_proof --------------------------
(***************************************************************************)
(* Proofs that generating modules keeps frames apart and puts back what it *)
(* changed (FrameSafe and Restored of ModuleGen), for every source tree.   *)
(*                                                                         *)
(* The variables the generator counts with are functions of the stack of   *)
(* activations.  A part of the invariant says so with a witness: a         *)
(* function of the depth that begins at 0 and changes at every activation  *)
(* by what that activation did.  Pushing an activation extends the         *)
(* witness and popping one cuts it, so two lemmas per part, one for a push *)
(* and one for a pop, serve every action; replacing the top is both.       *)
(***************************************************************************)
EXTENDS ModuleGen, FiniteSetTheorems, SequenceTheorems, TLAPS

Demand == {"none", "self", "linked"}
Via    == {"root", "recursed", "peer", "tool", "sibling"}
Framed == {"peers", "tools", "register", "uses", "finish"}
Early  == {"before", "read", "peers", "tools", "register"}
Body   == Framed \cup {"before", "read", "after"}

ModuleAct ==
  [kind : {"module"}, m : Module, demand : Demand, via : Via, pc : Body \cup {"enter", "leave"},
   i : Nat \ {0}, deferred : BOOLEAN, warnings : Nat, parent : Nat, outer : Nat, at : Nat,
   frame : Nat, res : Nat]

FireAct ==
  [kind : {"fire"}, m : Module, pc : {"tools", "uses", "fired"}, i : Nat \ {0}, pending : Pending, previous : Nat]

Act == ModuleAct \cup FireAct

IsModule(a) == a.kind = "module"
IsFire(a)   == a.kind = "fire"
Begun(a)    == IsModule(a) /\ a.pc # "enter"
InBody(a)   == IsModule(a) /\ a.pc \in Body
Nested(a)   == IsFire(a) \/ a.pc \in Body

IsSeq(s) == s \in Seq({s[i] : i \in 1..Len(s)})

Typed ==
  /\ project \in Projects /\ jobs \in Seq([m : Module, root : BOOLEAN])
  /\ stack \in Seq(Act)
  /\ ret.via \in Via \cup {"nobody"} /\ ret.outer \in Nat
  /\ exc \in BOOLEAN /\ exit \in {"no", "ok", "failed"}
  /\ memo \in [Module -> Nat] /\ IsSeq(results)
  /\ walking \subseteq Module /\ defers \in Int
  /\ sink \in Nat /\ IsSeq(warnings)
  /\ frames \in Seq(Nat) /\ frameDepth \in Int /\ frameSerial \in Nat
  /\ store \in Seq([serial : Nat, pending : Int])
  /\ pending \in [Module -> Pending \cup {Nil}]
  /\ log \in Seq([step : {"visit", "use", "publish"}, module : Nat, end : Nat])
  /\ bodies \in [Module -> Nat]

(* Only the last activation is about to begin or to return, and not while  *)
(* an exception or an answer is on its way to it.                          *)
Shape ==
  /\ \A i \in 1..Len(stack) : (i < Len(stack) \/ exc \/ Returning) => Nested(stack[i])
  /\ exc => ~Returning

(* What holds of every activation by itself.                               *)
Local(s) ==
  \A i \in 1..Len(s) : IsModule(s[i]) =>
    /\ s[i].frame # 0 <=> s[i].pc \in Framed
    /\ s[i].via = "sibling" => s[i].demand = "none"

(* Publication is deferred once for every activation that defers it.       *)
Defers(a) == IF IsModule(a) THEN a.pc \in Body /\ a.demand = "none" ELSE a.pending.publication

Deferral(s, d) ==
  /\ d \in [0..Len(s) -> Nat] /\ d[0] = 0
  /\ \A i \in 1..Len(s) : d[i] = IF Defers(s[i]) THEN d[i - 1] + 1 ELSE d[i - 1]
  /\ \A i, j \in 0..Len(s) : i <= j => d[i] <= d[j]
  /\ \A i \in 1..Len(s) : Begun(s[i]) => (s[i].deferred <=> (s[i].demand = "none" \/ d[i - 1] > 0))

(* The modules being generated.                                            *)
Walks(s, walk) ==
  /\ \A m \in Module : m \in walk <=> \E i \in 1..Len(s) : InBody(s[i]) /\ s[i].m = m
  /\ \A i, j \in 1..Len(s) : i # j /\ InBody(s[i]) /\ InBody(s[j]) => s[i].m # s[j].m

(* Where warnings go.                                                      *)
Into(a) == IF a.via = "sibling" THEN 0 ELSE a.outer

SinkStep(a, from, to) ==
  IF IsFire(a) THEN to = from
  ELSE /\ a.outer = from
       /\ Begun(a) => a.parent = Into(a)
       /\ to = IF Begun(a) /\ a.deferred THEN a.warnings ELSE Into(a)

Sinks(s, g) ==
  /\ g[0] = 0
  /\ \A i \in 1..Len(s) : SinkStep(s[i], g[i - 1], g[i])

(* The log: a visit without an end is still on the stack.                  *)
Visits(s, l) ==
  /\ \A i \in 1..Len(s) : Begun(s[i]) => s[i].at \in 1..Len(l)
  /\ \A k \in 1..Len(l) : l[k].end > k \/ \E i \in 1..Len(s) : Begun(s[i]) /\ s[i].at = k

(* An exception that nothing will catch.                                   *)
Doomed(s) == exc /\ ~project.keepGoing /\ \A i \in 1..Len(s) : IsModule(s[i]) => ~s[i].deferred

Once ==
  /\ \A m \in Module : bodies[m] <= 1
  /\ \A m \in walking : bodies[m] # 0
  /\ \A m \in Module : bodies[m] = 1 => (memo[m] # 0 \/ m \in walking \/ Doomed(stack))
  /\ \A i \in 1..Len(stack) : IsModule(stack[i]) /\ stack[i].pc = "after" => memo[stack[i].m] # 0

(* Frames.  What an activation took from ctx.frames when it pushed.        *)
Taken(a) == IF IsModule(a) THEN a.frame ELSE a.previous

Depth(s, h) ==
  /\ h \in [0..Len(s) -> Nat] /\ h[0] = 0
  /\ \A i \in 1..Len(s) : h[i] = IF Taken(s[i]) # 0 THEN h[i - 1] + 1 ELSE h[i - 1]
  /\ \A i, j \in 0..Len(s) : i <= j => h[i] <= h[j]

Apart(s, h, fs, n) ==
  /\ h[Len(s)] <= Len(fs)
  /\ \A k \in 1..Len(fs) : fs[k] \in 1..n
  /\ \A i \in 1..Len(s) : Taken(s[i]) \in 0..n
  /\ \A i, j \in 1..Len(s) : i # j /\ Taken(s[i]) # 0 => Taken(s[i]) # Taken(s[j])
  /\ \A i \in 1..Len(s), k \in (h[Len(s)] + 1)..Len(fs) : Taken(s[i]) # fs[k]
  /\ \A k, l \in (h[Len(s)] + 1)..Len(fs) : k # l => fs[k] # fs[l]
  /\ \A i \in 1..Len(s) : IsModule(s[i]) /\ s[i].frame # 0 => fs[h[i]] = s[i].frame

(* Generators that have not ended, and the frames that wait for them.      *)
Firing(s, o)    == \E i \in 1..Len(s) : IsFire(s[i]) /\ s[i].m = o
FiringIn(s, f)  == {o \in Module : \E i \in 1..Len(s) : IsFire(s[i]) /\ s[i].m = o /\ s[i].pending.frame = f}
WaitingIn(p, f) == {o \in Module : p[o] # Nil /\ p[o].frame = f}

Waits(s, p, st) ==
  /\ \A i \in 1..Len(s) : IsFire(s[i]) => p[s[i].m] = Nil
  /\ \A i, j \in 1..Len(s) : i # j /\ IsFire(s[i]) /\ IsFire(s[j]) => s[i].m # s[j].m
  /\ \A f \in 1..Len(st) : /\ IsFiniteSet(FiringIn(s, f) \cup WaitingIn(p, f))
                           /\ st[f].pending = Cardinality(FiringIn(s, f) \cup WaitingIn(p, f))
  /\ \A o \in Module : p[o] # Nil => /\ p[o].frame \in 1..Len(st)
                                     /\ st[p[o].frame].serial = p[o].serial
  /\ \A i \in 1..Len(s) : IsFire(s[i]) => /\ s[i].pending.frame \in 1..Len(st)
                                          /\ st[s[i].pending.frame].serial = s[i].pending.serial

(* A module that has not registered its file has no generator.             *)
Unregistered(s, p, b) ==
  \A m \in Module :
    (b[m] = 0 \/ \E i \in 1..Len(s) : IsModule(s[i]) /\ s[i].m = m /\ s[i].pc \in Early)
      => p[m] = Nil /\ ~Firing(s, m)

SinkIs(v) == IF ret.via = "sibling" THEN ret.outer = v ELSE sink = v

DeferOf(s, k)         == \E d : Deferral(s, d) /\ d[Len(s)] = k
SinkOf(s, v)          == \E g : Sinks(s, g) /\ g[Len(s)] = v
FrameOf(s, fs, k, n)  == \E h : Depth(s, h) /\ h[Len(s)] = k /\ Apart(s, h, fs, n)

SinkPart == \E v : SinkOf(stack, v) /\ SinkIs(v)

GenInv ==
  /\ Typed /\ Shape /\ Local(stack)
  /\ DeferOf(stack, defers) /\ Walks(stack, walking) /\ Once
  /\ SinkPart /\ Visits(stack, log)
  /\ FrameOf(stack, frames, frameDepth, Len(store))
  /\ Waits(stack, pending, store) /\ Unregistered(stack, pending, bodies)
-----------------------------------------------------------------------------
(***************************************************************************)
(* Stacks.                                                                 *)
(***************************************************************************)
(* Activations that differ in where they are, and in nothing that a part   *)
(* of the invariant tells apart.                                           *)
AlikeAct(a, b) ==
  /\ b.kind = a.kind /\ b.m = a.m
  /\ IsFire(a) => b.pending = a.pending /\ b.previous = a.previous
  /\ IsModule(a) => /\ b.demand = a.demand /\ b.via = a.via /\ b.deferred = a.deferred
                    /\ b.warnings = a.warnings /\ b.parent = a.parent /\ b.outer = a.outer
                    /\ b.at = a.at /\ b.frame = a.frame /\ b.res = a.res
                    /\ b.pc = "enter" <=> a.pc = "enter"
                    /\ b.pc \in Body <=> a.pc \in Body
                    /\ b.pc \in Framed <=> a.pc \in Framed
                    /\ b.pc \in Early => a.pc \in Early
                    /\ b.pc = "after" => a.pc = "after"

Alike(s, t) == Len(t) = Len(s) /\ \A i \in 1..Len(s) : AlikeAct(s[i], t[i])

(* f is what lies below the top of s.                                      *)
Below(s, f) == Len(s) = Len(f) + 1 /\ \A i \in 1..Len(f) : s[i] = f[i]

LEMMA KindFacts ==
  ASSUME NEW a \in Act
  PROVE  /\ a.kind \in {"module", "fire"} /\ a.m \in Module
         /\ IsModule(a) => a \in ModuleAct /\ ~IsFire(a)
         /\ IsFire(a) => a \in FireAct /\ ~IsModule(a)
BY DEF Act, ModuleAct, FireAct, IsModule, IsFire

LEMMA AlikeDeferral ==
  ASSUME NEW s \in Seq(Act), NEW t \in Seq(Act), Alike(s, t), NEW d, Deferral(s, d)
  PROVE  Deferral(t, d)
<1>1. \A i \in 1..Len(s) : s[i] \in Act /\ t[i] \in Act
  BY DEF Alike
<1>2. \A i \in 1..Len(s) : (Defers(t[i]) <=> Defers(s[i])) /\ (Begun(t[i]) <=> Begun(s[i]))
  BY <1>1, KindFacts DEF Alike, AlikeAct, Defers, Begun, IsModule, IsFire
<1>3. \A i \in 1..Len(s) : Begun(s[i]) => t[i].deferred = s[i].deferred /\ t[i].demand = s[i].demand
  BY <1>1 DEF Alike, AlikeAct, Begun
<1> QED
  BY <1>1, <1>2, <1>3 DEF Deferral, Alike

LEMMA AlikeWalks ==
  ASSUME NEW s \in Seq(Act), NEW t \in Seq(Act), Alike(s, t), NEW walk, Walks(s, walk)
  PROVE  Walks(t, walk)
<1>2. \A i \in 1..Len(s) : (InBody(t[i]) <=> InBody(s[i])) /\ t[i].m = s[i].m
  BY DEF Alike, AlikeAct, InBody, IsModule
<1> QED
  BY <1>2 DEF Walks, Alike

LEMMA AlikeSinks ==
  ASSUME NEW s \in Seq(Act), NEW t \in Seq(Act), Alike(s, t), NEW g, Sinks(s, g)
  PROVE  Sinks(t, g)
<1>1. \A i \in 1..Len(s) : s[i] \in Act /\ t[i] \in Act
  BY DEF Alike
<1>2. \A i \in 1..Len(s) :
      /\ IsFire(t[i]) <=> IsFire(s[i])
      /\ Begun(t[i]) <=> Begun(s[i])
      /\ ~IsFire(s[i]) => /\ Into(t[i]) = Into(s[i]) /\ t[i].outer = s[i].outer
                          /\ t[i].deferred = s[i].deferred
                          /\ t[i].warnings = s[i].warnings /\ t[i].parent = s[i].parent
  BY <1>1, KindFacts DEF Alike, AlikeAct, Begun, Into, IsModule, IsFire
<1>3. \A i \in 1..Len(s) : \A u, v : SinkStep(s[i], u, v) => SinkStep(t[i], u, v)
  BY <1>2 DEF SinkStep
<1> QED
  BY <1>3 DEF Sinks, Alike

LEMMA AlikeVisits ==
  ASSUME NEW s \in Seq(Act), NEW t \in Seq(Act), Alike(s, t), NEW l, Visits(s, l)
  PROVE  Visits(t, l)
<1>2. \A i \in 1..Len(s) : (Begun(t[i]) <=> Begun(s[i])) /\ (Begun(s[i]) => t[i].at = s[i].at)
  BY DEF Alike, AlikeAct, Begun, IsModule
<1> QED
  BY <1>2 DEF Visits, Alike

LEMMA AlikeFrames ==
  ASSUME NEW s \in Seq(Act), NEW t \in Seq(Act), Alike(s, t), NEW h, Depth(s, h),
         NEW fs, NEW n, Apart(s, h, fs, n)
  PROVE  Depth(t, h) /\ Apart(t, h, fs, n)
<1>1. \A i \in 1..Len(s) : s[i] \in Act /\ t[i] \in Act
  BY DEF Alike
<1>2. \A i \in 1..Len(s) :
      /\ Taken(t[i]) = Taken(s[i])
      /\ IsModule(t[i]) <=> IsModule(s[i])
      /\ IsModule(s[i]) => t[i].frame = s[i].frame
  BY <1>1, KindFacts DEF Alike, AlikeAct, Taken, IsModule, IsFire
<1>3. Depth(t, h)
  BY <1>2 DEF Depth, Alike
<1>4. Apart(t, h, fs, n)
  BY <1>2 DEF Apart, Alike
<1> QED
  BY <1>3, <1>4

LEMMA AlikeFires ==
  ASSUME NEW s \in Seq(Act), NEW t \in Seq(Act), Alike(s, t)
  PROVE  /\ \A i \in 1..Len(s) : /\ IsFire(t[i]) <=> IsFire(s[i])
                                 /\ IsFire(s[i]) => t[i].m = s[i].m /\ t[i].pending = s[i].pending
         /\ \A f : FiringIn(t, f) = FiringIn(s, f)
         /\ \A o : Firing(t, o) <=> Firing(s, o)
<1>1. \A i \in 1..Len(s) :
      /\ IsFire(t[i]) <=> IsFire(s[i])
      /\ IsFire(s[i]) => t[i].m = s[i].m /\ t[i].pending = s[i].pending
  BY DEF Alike, AlikeAct, IsFire
<1>2. \A f : FiringIn(t, f) = FiringIn(s, f)
  BY <1>1 DEF FiringIn, Alike
<1>3. \A o : Firing(t, o) <=> Firing(s, o)
  BY <1>1 DEF Firing, Alike
<1> QED
  BY <1>1, <1>2, <1>3

LEMMA AlikeWaits ==
  ASSUME NEW s \in Seq(Act), NEW t \in Seq(Act), Alike(s, t), NEW p, NEW st, Waits(s, p, st)
  PROVE  Waits(t, p, st)
<1>1. Len(t) = Len(s)
  BY DEF Alike
<1>2. /\ \A i \in 1..Len(s) : /\ IsFire(t[i]) <=> IsFire(s[i])
                              /\ IsFire(s[i]) => t[i].m = s[i].m /\ t[i].pending = s[i].pending
      /\ \A f : FiringIn(t, f) = FiringIn(s, f)
  BY AlikeFires
<1>3. \A i \in 1..Len(t) : IsFire(t[i]) => p[t[i].m] = Nil
  <2>1. \A i \in 1..Len(s) : IsFire(s[i]) => p[s[i].m] = Nil
    BY DEF Waits
  <2> QED
    BY ONLY <1>1, <1>2, <2>1
<1>4. \A i, j \in 1..Len(t) : i # j /\ IsFire(t[i]) /\ IsFire(t[j]) => t[i].m # t[j].m
  <2>1. \A i, j \in 1..Len(s) : i # j /\ IsFire(s[i]) /\ IsFire(s[j]) => s[i].m # s[j].m
    BY DEF Waits
  <2> QED
    BY ONLY <1>1, <1>2, <2>1
<1>5. \A f \in 1..Len(st) : /\ IsFiniteSet(FiringIn(t, f) \cup WaitingIn(p, f))
                            /\ st[f].pending = Cardinality(FiringIn(t, f) \cup WaitingIn(p, f))
  <2>1. \A f \in 1..Len(st) : /\ IsFiniteSet(FiringIn(s, f) \cup WaitingIn(p, f))
                              /\ st[f].pending = Cardinality(FiringIn(s, f) \cup WaitingIn(p, f))
    BY DEF Waits
  <2> QED
    BY ONLY <1>2, <2>1
<1>6. \A i \in 1..Len(t) : IsFire(t[i]) => /\ t[i].pending.frame \in 1..Len(st)
                                          /\ st[t[i].pending.frame].serial = t[i].pending.serial
  <2>1. \A i \in 1..Len(s) : IsFire(s[i]) => /\ s[i].pending.frame \in 1..Len(st)
                                            /\ st[s[i].pending.frame].serial = s[i].pending.serial
    BY DEF Waits
  <2> QED
    BY ONLY <1>1, <1>2, <2>1
<1>7. \A o \in Module : p[o] # Nil => /\ p[o].frame \in 1..Len(st)
                                     /\ st[p[o].frame].serial = p[o].serial
  BY DEF Waits
<1> QED
  BY ONLY <1>3, <1>4, <1>5, <1>6, <1>7 DEF Waits

LEMMA AlikeUnregistered ==
  ASSUME NEW s \in Seq(Act), NEW t \in Seq(Act), Alike(s, t), NEW p, NEW b, Unregistered(s, p, b)
  PROVE  Unregistered(t, p, b)
<1>1. \A i \in 1..Len(s) : IsModule(t[i]) /\ t[i].pc \in Early
                            => IsModule(s[i]) /\ s[i].pc \in Early /\ s[i].m = t[i].m
  BY DEF Alike, AlikeAct, IsModule
<1>2. Len(t) = Len(s)
  BY DEF Alike
<1>3. \A o : Firing(t, o) <=> Firing(s, o)
  BY AlikeFires
<1> QED
  BY <1>1, <1>2, <1>3 DEF Unregistered

LEMMA AlikeLocal ==
  ASSUME NEW s \in Seq(Act), NEW t \in Seq(Act), Alike(s, t), Local(s)
  PROVE  Local(t)
BY DEF Local, Alike, AlikeAct, IsModule

-----------------------------------------------------------------------------
(***************************************************************************)
(* Popping.                                                                *)
(***************************************************************************)
LEMMA PopDeferral ==
  ASSUME NEW s \in Seq(Act), NEW f \in Seq(Act), Below(s, f), NEW d, Deferral(s, d)
  PROVE  /\ Deferral(f, [i \in 0..Len(f) |-> d[i]])
         /\ d[Len(s)] = IF Defers(s[Len(s)]) THEN d[Len(f)] + 1 ELSE d[Len(f)]
         /\ d[Len(f)] \in Nat /\ d[Len(s)] \in Nat
<1>1. Len(f) \in Nat /\ Len(s) = Len(f) + 1 /\ \A i \in 1..Len(f) : f[i] = s[i]
  BY DEF Below
<1>2. /\ Len(s) \in 1..Len(s) /\ Len(s) - 1 = Len(f)
      /\ Len(f) \in 0..Len(s) /\ Len(s) \in 0..Len(s) /\ 0 \in 0..Len(f)
      /\ \A i \in 0..Len(f) : i \in 0..Len(s)
      /\ \A i \in 1..Len(f) : i \in 1..Len(s) /\ i \in 0..Len(f) /\ i - 1 \in 0..Len(f)
  BY <1>1
<1>3. d[Len(f)] \in Nat /\ d[Len(s)] \in Nat
  BY <1>2 DEF Deferral
<1>4. d[Len(s)] = IF Defers(s[Len(s)]) THEN d[Len(f)] + 1 ELSE d[Len(f)]
  BY <1>2 DEF Deferral
<1>5. PICK c : c = [i \in 0..Len(f) |-> d[i]]
  OBVIOUS
<1>6. \A i \in 0..Len(f) : c[i] = d[i]
  BY <1>5
<1>7. c \in [0..Len(f) -> Nat] /\ c[0] = 0
  <2>1. \A i \in 0..Len(f) : d[i] \in Nat
    BY <1>2 DEF Deferral
  <2>2. d[0] = 0
    BY DEF Deferral
  <2> QED
    BY <1>2, <1>5, <1>6, <2>1, <2>2
<1>8. \A i \in 1..Len(f) : c[i] = IF Defers(f[i]) THEN c[i - 1] + 1 ELSE c[i - 1]
  <2> SUFFICES ASSUME NEW i \in 1..Len(f)
               PROVE  c[i] = IF Defers(f[i]) THEN c[i - 1] + 1 ELSE c[i - 1]
    OBVIOUS
  <2>1. c[i] = d[i] /\ c[i - 1] = d[i - 1] /\ f[i] = s[i] /\ i \in 1..Len(s)
    BY <1>1, <1>2, <1>6
  <2>2. d[i] = IF Defers(s[i]) THEN d[i - 1] + 1 ELSE d[i - 1]
    BY <2>1 DEF Deferral
  <2> QED
    BY <2>1, <2>2
<1>9. \A i, j \in 0..Len(f) : i <= j => c[i] <= c[j]
  <2>1. \A i, j \in 0..Len(f) : i <= j => d[i] <= d[j]
    BY <1>2 DEF Deferral
  <2> QED
    BY ONLY <2>1, <1>6
<1>10. \A i \in 1..Len(f) : Begun(f[i]) => (f[i].deferred <=> f[i].demand = "none" \/ c[i - 1] > 0)
  <2> SUFFICES ASSUME NEW i \in 1..Len(f), Begun(f[i])
               PROVE  f[i].deferred <=> f[i].demand = "none" \/ c[i - 1] > 0
    OBVIOUS
  <2>1. c[i - 1] = d[i - 1] /\ f[i] = s[i] /\ i \in 1..Len(s)
    BY <1>1, <1>2, <1>6
  <2>2. s[i].deferred <=> s[i].demand = "none" \/ d[i - 1] > 0
    BY <2>1 DEF Deferral
  <2> QED
    BY <2>1, <2>2
<1>11. Deferral(f, c)
  BY <1>7, <1>8, <1>9, <1>10 DEF Deferral
<1> QED
  BY <1>3, <1>4, <1>5, <1>11

LEMMA PopWalks ==
  ASSUME NEW s \in Seq(Act), NEW f \in Seq(Act), Below(s, f), NEW walk, Walks(s, walk)
  PROVE  Walks(f, IF InBody(s[Len(s)]) THEN walk \ {s[Len(s)].m} ELSE walk)
<1>1. Len(f) \in Nat /\ Len(s) = Len(f) + 1 /\ \A i \in 1..Len(f) : f[i] = s[i]
  BY DEF Below
<1> QED
  BY <1>1 DEF Walks

LEMMA PopSinks ==
  ASSUME NEW s \in Seq(Act), NEW f \in Seq(Act), Below(s, f), NEW g, Sinks(s, g)
  PROVE  Sinks(f, g) /\ SinkStep(s[Len(s)], g[Len(f)], g[Len(s)])
<1>1. Len(f) \in Nat /\ Len(s) = Len(f) + 1 /\ \A i \in 1..Len(f) : f[i] = s[i]
  BY DEF Below
<1> QED
  BY <1>1 DEF Sinks

(* gs is fs with the frame x in the slot k, if there is one.               *)
PutBack(fs, gs, k, x) ==
  Len(gs) = Len(fs) /\ \A j \in 1..Len(fs) : gs[j] = IF j = k /\ x # 0 THEN x ELSE fs[j]

LEMMA PopDepth ==
  ASSUME NEW s \in Seq(Act), NEW f \in Seq(Act), Below(s, f), NEW h, Depth(s, h)
  PROVE  Depth(f, [i \in 0..Len(f) |-> h[i]])
<1>1. Len(f) \in Nat /\ Len(s) = Len(f) + 1 /\ \A i \in 1..Len(f) : f[i] = s[i]
  BY DEF Below
<1> QED
  BY <1>1 DEF Depth

LEMMA PopFrames ==
  ASSUME NEW s \in Seq(Act), NEW f \in Seq(Act), Below(s, f),
         NEW fs \in Seq(Nat), NEW gs \in Seq(Nat), NEW n \in Nat, NEW q, FrameOf(s, fs, q, n),
         PutBack(fs, gs, q, Taken(s[Len(s)]))
  PROVE  /\ Taken(s[Len(s)]) # 0 => FrameOf(f, gs, q - 1, n)
         /\ Taken(s[Len(s)]) = 0 => FrameOf(f, gs, q, n)
<1>h. PICK h : Depth(s, h) /\ h[Len(s)] = q /\ Apart(s, h, fs, n)
  BY DEF FrameOf
<1>i. Depth(s, h) /\ Apart(s, h, fs, n)
  BY <1>h
<1> USE <1>i
<1>1. Len(f) \in Nat /\ Len(s) = Len(f) + 1 /\ \A i \in 1..Len(f) : f[i] = s[i]
  BY DEF Below
<1>2. Depth(f, [i \in 0..Len(f) |-> h[i]])
  BY PopDepth
<1>a. Len(s) \in 1..Len(s) /\ Len(s) - 1 = Len(f)
  BY <1>1
<1>3. h[Len(s)] = IF Taken(s[Len(s)]) # 0 THEN h[Len(f)] + 1 ELSE h[Len(f)]
  BY <1>a DEF Depth
<1>e0. PICK e : e = Taken(s[Len(s)])
  OBVIOUS
<1>4. /\ h[Len(s)] \in Nat /\ h[Len(f)] \in Nat /\ h[Len(s)] <= Len(fs)
      /\ \A i \in 1..Len(f) : h[i] \in Nat /\ h[i] <= h[Len(f)]
  <2>1. \A i \in 1..Len(f) : i \in 0..Len(s) /\ i <= Len(f)
    BY <1>1
  <2>2. Len(f) \in 0..Len(s) /\ Len(s) \in 0..Len(s)
    BY <1>1
  <2>3. h[Len(s)] \in Nat /\ h[Len(f)] \in Nat
    BY <2>2 DEF Depth
  <2>4. \A i \in 1..Len(f) : h[i] \in Nat /\ h[i] <= h[Len(f)]
    BY <2>1, <2>2 DEF Depth
  <2>5. h[Len(s)] <= Len(fs)
    BY DEF Apart
  <2> QED
    BY <2>3, <2>4, <2>5
<1>b. PICK a : a = h[Len(f)]
  OBVIOUS
<1>c. PICK b : b = h[Len(s)]
  OBVIOUS
<1>d. a \in Nat /\ b \in Nat /\ b <= Len(fs) /\ b = IF e # 0 THEN a + 1 ELSE a
  BY <1>b, <1>c, <1>3, <1>4, <1>e0
<1>e. \A k \in 1..Len(fs) : gs[k] = IF k = b /\ e # 0 THEN e ELSE fs[k]
  BY <1>c, <1>h, <1>e0 DEF PutBack
<1>l. Len(gs) = Len(fs)
  BY DEF PutBack
<1>5. e \in 0..n
  BY <1>a, <1>e0 DEF Apart
<1>f. \A k \in 1..Len(fs) : fs[k] \in 1..n
  BY DEF Apart
<1>6. \A k \in 1..Len(gs) : gs[k] \in 1..n
  <2> SUFFICES ASSUME NEW k \in 1..Len(gs)
               PROVE  gs[k] \in 1..n
    OBVIOUS
  <2>1. k \in 1..Len(fs)
    BY <1>l
  <2>2. CASE k = b /\ e # 0
    <3>1. gs[k] = e
      BY <2>1, <2>2, <1>e
    <3>2. e \in 1..n
      BY <2>2, <1>5
    <3> QED
      BY <3>1, <3>2
  <2>3. CASE ~(k = b /\ e # 0)
    BY <2>1, <2>3, <1>e, <1>f
  <2> QED
    BY <2>2, <2>3
<1>7. \A i \in 1..Len(f) : e # 0 => Taken(f[i]) # e
  BY <1>1, <1>a, <1>e0 DEF Apart
<1>8. /\ \A k \in (b + 1)..Len(fs) : e # fs[k]
      /\ \A i \in 1..Len(f), k \in (b + 1)..Len(fs) : Taken(f[i]) # fs[k]
      /\ \A k, l \in (b + 1)..Len(fs) : k # l => fs[k] # fs[l]
  <2>1. \A i \in 1..Len(s), k \in (b + 1)..Len(fs) : Taken(s[i]) # fs[k]
    BY <1>c DEF Apart
  <2>2. \A k, l \in (b + 1)..Len(fs) : k # l => fs[k] # fs[l]
    BY <1>c DEF Apart
  <2>3. \A i \in 1..Len(f) : i \in 1..Len(s) /\ f[i] = s[i]
    BY <1>1
  <2> QED
    BY <2>1, <2>2, <2>3, <1>a, <1>e0
<1>g. \A k \in (a + 1)..Len(gs) : \/ k = b /\ e # 0 /\ gs[k] = e
                                  \/ k \in (b + 1)..Len(fs) /\ gs[k] = fs[k]
  BY <1>d, <1>e, <1>l, SMTT(30)
<1>9. \A i \in 1..Len(f), k \in (a + 1)..Len(gs) : Taken(f[i]) # gs[k]
  BY ONLY <1>7, <1>8, <1>g
<1>10. \A k, l \in (a + 1)..Len(gs) : k # l => gs[k] # gs[l]
  BY ONLY <1>8, <1>g
<1>11. \A i \in 1..Len(f) : IsModule(f[i]) /\ f[i].frame # 0 => gs[h[i]] = f[i].frame
  <2> SUFFICES ASSUME NEW i \in 1..Len(f), IsModule(f[i]), f[i].frame # 0
               PROVE  gs[h[i]] = f[i].frame
    OBVIOUS
  <2>1. fs[h[i]] = f[i].frame /\ Taken(f[i]) # 0
    BY <1>1 DEF Apart, Taken
  <2>2. i \in 1..Len(s) /\ i - 1 \in 0..Len(s) /\ f[i] = s[i]
    BY <1>1
  <2>3. h[i] = h[i - 1] + 1 /\ h[i - 1] \in Nat
    BY <2>1, <2>2 DEF Depth
  <2>4. h[i] \in Nat /\ h[i] <= a
    BY <1>4, <1>b
  <2>5. h[i] \in 1..Len(fs)
    <3>1. Len(fs) \in Nat /\ a <= b
      BY <1>d
    <3>2. 1 <= h[i]
      BY <2>3, <2>4
    <3> QED
      BY <3>1, <3>2, <2>4, <1>d
  <2>6. ~(h[i] = b /\ e # 0)
    BY <2>4, <1>d
  <2> QED
    BY <2>1, <2>5, <2>6, <1>e
<1>12. \A i \in 1..Len(f) : Taken(f[i]) \in 0..n
  <2>1. \A i \in 1..Len(f) : i \in 1..Len(s) /\ f[i] = s[i]
    BY <1>1
  <2> QED
    BY <2>1 DEF Apart
<1>13. \A i, j \in 1..Len(f) : i # j /\ Taken(f[i]) # 0 => Taken(f[i]) # Taken(f[j])
  BY <1>1 DEF Apart
<1> DEFINE k0 == [i \in 0..Len(f) |-> h[i]]
<1>14. k0[Len(f)] = a /\ \A i \in 1..Len(f) : k0[i] = h[i]
  BY <1>1, <1>b
<1>15. Apart(f, k0, gs, n)
  <2> HIDE DEF k0
  <2>1. a <= Len(gs)
    BY <1>d, <1>l
  <2> QED
    BY <2>1, <1>14, <1>6, <1>12, <1>13, <1>9, <1>10, <1>11 DEF Apart
<1>16. k0[Len(f)] = IF Taken(s[Len(s)]) # 0 THEN q - 1 ELSE q
  BY <1>3, <1>4, <1>14, <1>b, <1>h
<1> HIDE DEF k0
<1>17. Depth(f, k0)
  BY <1>2 DEF k0
<1> QED
  BY <1>15, <1>16, <1>17 DEF FrameOf

LEMMA PopModuleFires ==
  ASSUME NEW s \in Seq(Act), NEW f \in Seq(Act), Below(s, f), IsModule(s[Len(s)])
  PROVE  /\ \A x : FiringIn(f, x) = FiringIn(s, x)
         /\ \A o : Firing(f, o) <=> Firing(s, o)
<1>1. Len(f) \in Nat /\ Len(s) = Len(f) + 1 /\ \A i \in 1..Len(f) : f[i] = s[i]
  BY DEF Below
<1>2. ~IsFire(s[Len(s)])
  BY DEF IsModule, IsFire
<1>3. \A i \in 1..Len(s) : IsFire(s[i]) => i \in 1..Len(f) /\ f[i] = s[i]
  BY <1>1, <1>2
<1>4. \A i \in 1..Len(f) : i \in 1..Len(s) /\ f[i] = s[i]
  BY <1>1
<1>5. \A x : FiringIn(f, x) = FiringIn(s, x)
  BY <1>3, <1>4 DEF FiringIn
<1>6. \A o : Firing(f, o) <=> Firing(s, o)
  BY <1>3, <1>4 DEF Firing
<1> QED
  BY <1>5, <1>6

LEMMA PopModuleWaits ==
  ASSUME NEW s \in Seq(Act), NEW f \in Seq(Act), Below(s, f), IsModule(s[Len(s)]),
         NEW p, NEW st, Waits(s, p, st)
  PROVE  Waits(f, p, st)
<1>1. Len(f) \in Nat /\ Len(s) = Len(f) + 1 /\ \A i \in 1..Len(f) : f[i] = s[i]
  BY DEF Below
<1>2. \A i \in 1..Len(f) : i \in 1..Len(s) /\ f[i] = s[i]
  BY <1>1
<1>3. \A x : FiringIn(f, x) = FiringIn(s, x)
  BY PopModuleFires
<1> QED
  BY <1>2, <1>3 DEF Waits

LEMMA PopLocal ==
  ASSUME NEW s \in Seq(Act), NEW f \in Seq(Act), Below(s, f), Local(s)
  PROVE  Local(f)
<1>1. Len(f) \in Nat /\ Len(s) = Len(f) + 1 /\ \A i \in 1..Len(f) : f[i] = s[i]
  BY DEF Below
<1> QED
  BY <1>1 DEF Local

(* A visit ends when its activation is popped.                             *)
LEMMA PopVisits ==
  ASSUME NEW s \in Seq(Act), NEW f \in Seq(Act), Below(s, f), NEW l, NEW l2, Visits(s, l),
         Len(l2) = Len(l), IsModule(s[Len(s)]), Begun(s[Len(s)]),
         \A k \in 1..Len(l) : k # s[Len(s)].at => l2[k] = l[k],
         l2[s[Len(s)].at].end > s[Len(s)].at
  PROVE  Visits(f, l2)
<1>1. Len(f) \in Nat /\ Len(s) = Len(f) + 1 /\ \A i \in 1..Len(f) : f[i] = s[i]
  BY DEF Below
<1>2. \A i \in 1..Len(f) : i \in 1..Len(s) /\ f[i] = s[i]
  BY <1>1
<1>3. \A i \in 1..Len(s) : i = Len(s) \/ i \in 1..Len(f)
  BY <1>1
<1>4. \A i \in 1..Len(f) : Begun(f[i]) => f[i].at \in 1..Len(l2)
  BY <1>2 DEF Visits
<1>5. \A k \in 1..Len(l2) : l2[k].end > k \/ \E i \in 1..Len(f) : Begun(f[i]) /\ f[i].at = k
  <2> SUFFICES ASSUME NEW k \in 1..Len(l2), k # s[Len(s)].at
               PROVE  l2[k].end > k \/ \E i \in 1..Len(f) : Begun(f[i]) /\ f[i].at = k
    OBVIOUS
  <2>1. l2[k] = l[k]
    OBVIOUS
  <2>2. l[k].end > k \/ \E i \in 1..Len(s) : Begun(s[i]) /\ s[i].at = k
    BY DEF Visits
  <2> QED
    BY <2>1, <2>2, <1>2, <1>3
<1> QED
  BY <1>4, <1>5 DEF Visits

LEMMA PopFireVisits ==
  ASSUME NEW s \in Seq(Act), NEW f \in Seq(Act), Below(s, f), NEW l, Visits(s, l), ~Begun(s[Len(s)])
  PROVE  Visits(f, l)
<1>1. Len(f) \in Nat /\ Len(s) = Len(f) + 1 /\ \A i \in 1..Len(f) : f[i] = s[i]
  BY DEF Below
<1>2. \A i \in 1..Len(f) : i \in 1..Len(s) /\ f[i] = s[i]
  BY <1>1
<1>3. \A i \in 1..Len(s) : i = Len(s) \/ i \in 1..Len(f)
  BY <1>1
<1> QED
  BY <1>2, <1>3 DEF Visits

(* A generator ends, and its frame waits for one less.                     *)
LEMMA PopFireWaits ==
  ASSUME NEW s \in Seq(Act), NEW f \in Seq(Act), Below(s, f), IsFire(s[Len(s)]),
         NEW p, NEW st \in Seq([serial : Nat, pending : Int]),
         NEW st2 \in Seq([serial : Nat, pending : Int]), Waits(s, p, st),
         Len(st2) = Len(st),
         \A x \in 1..Len(st) :
           /\ st2[x].serial = st[x].serial
           /\ st2[x].pending = IF x = s[Len(s)].pending.frame THEN st[x].pending - 1 ELSE st[x].pending
  PROVE  Waits(f, p, st2)
<1>1. Len(f) \in Nat /\ Len(s) = Len(f) + 1 /\ \A i \in 1..Len(f) : f[i] = s[i]
  BY DEF Below
<1>2. \A i \in 1..Len(f) : i \in 1..Len(s) /\ f[i] = s[i] /\ i # Len(s)
  BY <1>1
<1>3. \A i \in 1..Len(s) : i = Len(s) \/ i \in 1..Len(f)
  BY <1>1
<1>4. Len(s) \in 1..Len(s) /\ s[Len(s)] \in Act
  BY <1>1
<1>5. PICK e : e = s[Len(s)]
  OBVIOUS
<1>6. IsFire(e) /\ e.m \in Module /\ p[e.m] = Nil
  BY <1>4, <1>5, KindFacts DEF Waits
<1>7. \A i \in 1..Len(f) : IsFire(f[i]) => f[i].m # e.m
  BY <1>2, <1>4, <1>5 DEF Waits
<1>8. ASSUME NEW x \in 1..Len(st2)
      PROVE  /\ IsFiniteSet(FiringIn(f, x) \cup WaitingIn(p, x))
             /\ st2[x].pending = Cardinality(FiringIn(f, x) \cup WaitingIn(p, x))
  <2>1. PICK A : A = FiringIn(s, x) \cup WaitingIn(p, x)
    OBVIOUS
  <2>2. PICK B : B = FiringIn(f, x) \cup WaitingIn(p, x)
    OBVIOUS
  <2>3. IsFiniteSet(A) /\ st[x].pending = Cardinality(A)
    BY <2>1 DEF Waits
  <2>4. e.m \notin B
    BY <1>6, <1>7, <2>2 DEF FiringIn, WaitingIn
  <2>f. FiringIn(f, x) \subseteq FiringIn(s, x)
    BY <1>2 DEF FiringIn
  <2>g. \A o \in FiringIn(s, x) : o \in FiringIn(f, x) \/ (o = e.m /\ x = e.pending.frame)
    <3> SUFFICES ASSUME NEW o \in FiringIn(s, x)
                 PROVE  o \in FiringIn(f, x) \/ (o = e.m /\ x = e.pending.frame)
      OBVIOUS
    <3>1. PICK i \in 1..Len(s) : IsFire(s[i]) /\ s[i].m = o /\ s[i].pending.frame = x
      BY DEF FiringIn
    <3>2. CASE i = Len(s)
      BY <3>1, <3>2, <1>5
    <3>3. CASE i \in 1..Len(f)
      BY <3>1, <3>3, <1>2 DEF FiringIn
    <3> QED
      BY <3>2, <3>3, <1>3
  <2>5. CASE x = e.pending.frame
    <3>1. e.m \in A
      BY <1>4, <1>5, <1>6, <2>1, <2>5 DEF FiringIn
    <3>2. B = A \ {e.m}
      <4>1. B \subseteq A \ {e.m}
        BY <2>1, <2>2, <2>4, <2>f
      <4>2. A \ {e.m} \subseteq B
        BY <2>1, <2>2, <2>g
      <4> QED
        BY <4>1, <4>2
    <3>3. IsFiniteSet(B) /\ Cardinality(B) = Cardinality(A) - 1
      BY <2>3, <3>1, <3>2, FS_RemoveElement
    <3> QED
      BY <3>3, <2>2, <2>3, <2>5, <1>5
  <2>6. CASE x # e.pending.frame
    <3>1. FiringIn(f, x) = FiringIn(s, x)
      BY <2>6, <2>f, <2>g
    <3> QED
      BY <3>1, <2>1, <2>3, <2>6, <1>5
  <2> QED
    BY <2>5, <2>6
<1>9. \A i \in 1..Len(f) : IsFire(f[i]) => p[f[i].m] = Nil
  BY <1>2 DEF Waits
<1>10. \A i, j \in 1..Len(f) : i # j /\ IsFire(f[i]) /\ IsFire(f[j]) => f[i].m # f[j].m
  <2>1. \A i, j \in 1..Len(s) : i # j /\ IsFire(s[i]) /\ IsFire(s[j]) => s[i].m # s[j].m
    BY DEF Waits
  <2> QED
    BY <1>2, <2>1
<1>11. \A o \in Module : p[o] # Nil => p[o].frame \in 1..Len(st2) /\ st2[p[o].frame].serial = p[o].serial
  BY DEF Waits
<1>12. \A i \in 1..Len(f) : IsFire(f[i]) => /\ f[i].pending.frame \in 1..Len(st2)
                                            /\ st2[f[i].pending.frame].serial = f[i].pending.serial
  <2>1. \A i \in 1..Len(s) : IsFire(s[i]) => /\ s[i].pending.frame \in 1..Len(st)
                                             /\ st[s[i].pending.frame].serial = s[i].pending.serial
    BY DEF Waits
  <2> QED
    BY <1>2, <2>1, ZenonT(60)
<1> QED
  BY <1>8, <1>9, <1>10, <1>11, <1>12 DEF Waits

LEMMA PopUnregistered ==
  ASSUME NEW s \in Seq(Act), NEW f \in Seq(Act), Below(s, f), NEW p, NEW b, Unregistered(s, p, b)
  PROVE  Unregistered(f, p, b)
<1>1. Len(f) \in Nat /\ Len(s) = Len(f) + 1 /\ \A i \in 1..Len(f) : f[i] = s[i]
  BY DEF Below
<1>2. \A i \in 1..Len(f) : i \in 1..Len(s) /\ f[i] = s[i]
  BY <1>1
<1>3. \A o : Firing(f, o) => Firing(s, o)
  BY <1>2 DEF Firing
<1> QED
  BY <1>2, <1>3 DEF Unregistered

-----------------------------------------------------------------------------
(***************************************************************************)
(* Pushing: s is f with one more activation.                               *)
(***************************************************************************)
LEMMA PushDeferral ==
  ASSUME NEW s \in Seq(Act), NEW f \in Seq(Act), Below(s, f), NEW d, Deferral(f, d),
         Begun(s[Len(s)]) =>
           (s[Len(s)].deferred <=> (s[Len(s)].demand = "none" \/ d[Len(f)] > 0))
  PROVE  \E d2 : /\ Deferral(s, d2)
                 /\ d2[Len(s)] = IF Defers(s[Len(s)]) THEN d[Len(f)] + 1 ELSE d[Len(f)]
<1>1. Len(f) \in Nat /\ Len(s) = Len(f) + 1 /\ \A i \in 1..Len(f) : s[i] = f[i]
  BY DEF Below
<1>2. PICK w \in {0, 1} : w = IF Defers(s[Len(s)]) THEN 1 ELSE 0
  OBVIOUS
<1>3. PICK d2 : d2 = [i \in 0..Len(s) |-> IF i = Len(s) THEN d[Len(f)] + w ELSE d[i]]
  OBVIOUS
<1>4. d[Len(f)] \in Nat /\ d \in [0..Len(f) -> Nat] /\ d[0] = 0
  BY <1>1 DEF Deferral
<1>5. /\ d2 \in [0..Len(s) -> Nat] /\ d2[0] = 0
      /\ d2[Len(s)] = d[Len(f)] + w /\ \A i \in 0..Len(f) : d2[i] = d[i]
  BY <1>1, <1>3, <1>4
<1>6. \A i \in 1..Len(s) : d2[i] = IF Defers(s[i]) THEN d2[i - 1] + 1 ELSE d2[i - 1]
  <2> SUFFICES ASSUME NEW i \in 1..Len(s)
               PROVE  d2[i] = IF Defers(s[i]) THEN d2[i - 1] + 1 ELSE d2[i - 1]
    OBVIOUS
  <2>1. CASE i = Len(s)
    BY <2>1, <1>1, <1>2, <1>4, <1>5, SMTT(30)
  <2>2. CASE i \in 1..Len(f)
    <3>1. i - 1 \in 0..Len(f) /\ i \in 0..Len(f)
      BY <2>2, <1>1
    <3> QED
      BY <3>1, <2>2, <1>1, <1>5 DEF Deferral
  <2> QED
    BY <2>1, <2>2, <1>1
<1>7. \A i, j \in 0..Len(s) : i <= j => d2[i] <= d2[j]
  <2>1. \A i, j \in 0..Len(f) : i <= j => d[i] <= d[j]
    BY DEF Deferral
  <2>2. \A i \in 0..Len(f) : d2[i] \in Nat /\ d2[i] <= d[Len(f)]
    BY <2>1, <1>1, <1>4, <1>5
  <2>3. \A i \in 0..Len(s) : i = Len(s) \/ i \in 0..Len(f)
    BY <1>1
  <2>4. d2[Len(s)] \in Nat /\ d[Len(f)] <= d2[Len(s)]
    BY <1>1, <1>4, <1>5
  <2> SUFFICES ASSUME NEW i \in 0..Len(s), NEW j \in 0..Len(s), i <= j PROVE d2[i] <= d2[j]
    OBVIOUS
  <2>5. CASE j \in 0..Len(f)
    <3>1. i \in 0..Len(f)
      BY <2>5, <1>1
    <3> QED
      BY <3>1, <2>1, <2>5, <1>5
  <2>6. CASE j = Len(s) /\ i = Len(s)
    BY <2>4, <2>6
  <2>7. CASE j = Len(s) /\ i \in 0..Len(f)
    BY <2>2, <2>4, <2>7, <1>4
  <2> QED
    BY <2>3, <2>5, <2>6, <2>7, <1>1
<1>8. \A i \in 1..Len(s) : Begun(s[i]) => (s[i].deferred <=> (s[i].demand = "none" \/ d2[i - 1] > 0))
  <2> SUFFICES ASSUME NEW i \in 1..Len(s), Begun(s[i])
               PROVE  s[i].deferred <=> (s[i].demand = "none" \/ d2[i - 1] > 0)
    OBVIOUS
  <2>1. CASE i = Len(s)
    BY <2>1, <1>1, <1>5
  <2>2. CASE i \in 1..Len(f)
    <3>1. i - 1 \in 0..Len(f)
      BY <2>2, <1>1
    <3> QED
      BY <3>1, <2>2, <1>1, <1>5 DEF Deferral
  <2> QED
    BY <2>1, <2>2, <1>1
<1>9. Deferral(s, d2)
  BY <1>5, <1>6, <1>7, <1>8 DEF Deferral
<1>10. d2[Len(s)] = IF Defers(s[Len(s)]) THEN d[Len(f)] + 1 ELSE d[Len(f)]
  BY <1>2, <1>4, <1>5
<1> QED
  BY <1>9, <1>10

LEMMA PushWalks ==
  ASSUME NEW s \in Seq(Act), NEW f \in Seq(Act), Below(s, f), NEW walk, Walks(f, walk),
         InBody(s[Len(s)]) => s[Len(s)].m \notin walk
  PROVE  Walks(s, IF InBody(s[Len(s)]) THEN walk \cup {s[Len(s)].m} ELSE walk)
<1>1. Len(f) \in Nat /\ Len(s) = Len(f) + 1 /\ \A i \in 1..Len(f) : s[i] = f[i]
  BY DEF Below
<1>2. \A i \in 1..Len(s) : i = Len(s) \/ (i \in 1..Len(f) /\ s[i] = f[i])
  BY <1>1
<1>3. \A i \in 1..Len(f) : i \in 1..Len(s) /\ s[i] = f[i]
  BY <1>1
<1>4. Len(s) \in 1..Len(s) /\ s[Len(s)].m \in Module
  BY <1>1, KindFacts
<1>5. \A i \in 1..Len(f) : f[i].m \in Module
  BY KindFacts
<1> QED
  BY <1>2, <1>3, <1>4, <1>5, SMTT(30) DEF Walks

LEMMA PushSinks ==
  ASSUME NEW s \in Seq(Act), NEW f \in Seq(Act), Below(s, f), NEW g, Sinks(f, g),
         NEW v, SinkStep(s[Len(s)], g[Len(f)], v)
  PROVE  \E g2 : Sinks(s, g2) /\ g2[Len(s)] = v
<1>1. Len(f) \in Nat /\ Len(s) = Len(f) + 1 /\ \A i \in 1..Len(f) : s[i] = f[i]
  BY DEF Below
<1>3. PICK g2 : g2 = [i \in 0..Len(s) |-> IF i = Len(s) THEN v ELSE g[i]]
  OBVIOUS
<1>4. g[0] = 0
  BY DEF Sinks
<1>5. /\ g2[0] = 0
      /\ g2[Len(s)] = v /\ \A i \in 0..Len(f) : g2[i] = g[i]
  BY <1>1, <1>3, <1>4
<1>6. ASSUME NEW i \in 1..Len(s)
      PROVE  SinkStep(s[i], g2[i - 1], g2[i])
  <2>1. CASE i = Len(s)
    BY <2>1, <1>1, <1>4, <1>5
  <2>2. CASE i \in 1..Len(f)
    <3>1. i - 1 \in 0..Len(f) /\ i \in 0..Len(f)
      BY <2>2, <1>1
    <3> QED
      BY <3>1, <2>2, <1>1, <1>5 DEF Sinks
  <2> QED
    BY <2>1, <2>2, <1>1
<1>7. Sinks(s, g2)
  BY <1>5, <1>6 DEF Sinks
<1> QED
  BY <1>5, <1>7

LEMMA PushVisits ==
  ASSUME NEW s \in Seq(Act), NEW f \in Seq(Act), Below(s, f), NEW l, NEW l2, Visits(f, l),
         Len(l) \in Nat, Len(l2) \in Nat, Len(l) <= Len(l2), \A k \in 1..Len(l) : l2[k] = l[k],
         Begun(s[Len(s)]) => s[Len(s)].at \in 1..Len(l2),
         \A k \in 1..Len(l2) : k \in 1..Len(l) \/ l2[k].end > k \/ (Begun(s[Len(s)]) /\ s[Len(s)].at = k)
  PROVE  Visits(s, l2)
<1>1. Len(f) \in Nat /\ Len(s) = Len(f) + 1 /\ \A i \in 1..Len(f) : s[i] = f[i]
  BY DEF Below
<1>2. \A i \in 1..Len(s) : i = Len(s) \/ (i \in 1..Len(f) /\ s[i] = f[i])
  BY <1>1
<1>3. \A i \in 1..Len(f) : i \in 1..Len(s) /\ s[i] = f[i]
  BY <1>1
<1>4. Len(s) \in 1..Len(s)
  BY <1>1
<1>5. \A i \in 1..Len(s) : Begun(s[i]) => s[i].at \in 1..Len(l2)
  BY <1>2 DEF Visits
<1>6. \A k \in 1..Len(l2) : l2[k].end > k \/ \E i \in 1..Len(s) : Begun(s[i]) /\ s[i].at = k
  BY <1>3, <1>4 DEF Visits
<1> QED
  BY <1>5, <1>6 DEF Visits

LEMMA PushLocal ==
  ASSUME NEW s \in Seq(Act), NEW f \in Seq(Act), Below(s, f), Local(f),
         IsModule(s[Len(s)]) => /\ s[Len(s)].frame # 0 <=> s[Len(s)].pc \in Framed
                                /\ s[Len(s)].via = "sibling" => s[Len(s)].demand = "none"
  PROVE  Local(s)
<1>1. Len(f) \in Nat /\ Len(s) = Len(f) + 1 /\ \A i \in 1..Len(f) : s[i] = f[i]
  BY DEF Below
<1>2. \A i \in 1..Len(s) : i = Len(s) \/ (i \in 1..Len(f) /\ s[i] = f[i])
  BY <1>1
<1> QED
  BY <1>2 DEF Local

LEMMA PushModuleWaits ==
  ASSUME NEW s \in Seq(Act), NEW f \in Seq(Act), Below(s, f), IsModule(s[Len(s)]),
         NEW p, NEW st, Waits(f, p, st)
  PROVE  Waits(s, p, st)
<1>1. Len(f) \in Nat /\ Len(s) = Len(f) + 1 /\ \A i \in 1..Len(f) : s[i] = f[i]
  BY DEF Below
<1>2. ~IsFire(s[Len(s)])
  BY DEF IsModule, IsFire
<1>3. \A i \in 1..Len(s) : IsFire(s[i]) => i \in 1..Len(f) /\ s[i] = f[i]
  BY <1>1, <1>2
<1>4. \A x : FiringIn(s, x) = FiringIn(f, x)
  BY PopModuleFires
<1> QED
  BY <1>3, <1>4 DEF Waits

LEMMA PushModuleUnregistered ==
  ASSUME NEW s \in Seq(Act), NEW f \in Seq(Act), Below(s, f), IsModule(s[Len(s)]),
         NEW p, NEW b, NEW b2, Unregistered(f, p, b),
         \A m \in Module : b2[m] = 0 => b[m] = 0,
         s[Len(s)].pc \in Early => p[s[Len(s)].m] = Nil /\ ~Firing(f, s[Len(s)].m)
  PROVE  Unregistered(s, p, b2)
<1>1. Len(f) \in Nat /\ Len(s) = Len(f) + 1 /\ \A i \in 1..Len(f) : s[i] = f[i]
  BY DEF Below
<1>2. \A i \in 1..Len(s) : i = Len(s) \/ (i \in 1..Len(f) /\ s[i] = f[i])
  BY <1>1
<1>3. \A o : Firing(s, o) <=> Firing(f, o)
  BY PopModuleFires
<1> QED
  BY <1>2, <1>3 DEF Unregistered

(* A generator begins: it waited for its frame, and still does.            *)
LEMMA PushFireWaits ==
  ASSUME NEW s \in Seq(Act), NEW f \in Seq(Act), Below(s, f), IsFire(s[Len(s)]),
         NEW p, NEW p2, NEW st, Waits(f, p, st),
         p[s[Len(s)].m] # Nil, s[Len(s)].pending = p[s[Len(s)].m],
         p2[s[Len(s)].m] = Nil, \A o \in Module : o # s[Len(s)].m => p2[o] = p[o]
  PROVE  Waits(s, p2, st)
<1>1. Len(f) \in Nat /\ Len(s) = Len(f) + 1 /\ \A i \in 1..Len(f) : s[i] = f[i]
  BY DEF Below
<1>2. \A i \in 1..Len(s) : i = Len(s) \/ (i \in 1..Len(f) /\ s[i] = f[i])
  BY <1>1
<1>3. \A i \in 1..Len(f) : i \in 1..Len(s) /\ s[i] = f[i]
  BY <1>1
<1>4. Len(s) \in 1..Len(s) /\ s[Len(s)] \in Act
  BY <1>1
<1>5. PICK e : e = s[Len(s)]
  OBVIOUS
<1>6. IsFire(e) /\ e.m \in Module /\ p[e.m] # Nil /\ e.pending = p[e.m] /\ p2[e.m] = Nil
  BY <1>4, <1>5, KindFacts
<1>7. \A i \in 1..Len(f) : IsFire(f[i]) => f[i].m # e.m /\ f[i].m \in Module /\ p[f[i].m] = Nil
  BY <1>6, KindFacts DEF Waits
<1>8. ASSUME NEW x
      PROVE  FiringIn(s, x) \cup WaitingIn(p2, x) = FiringIn(f, x) \cup WaitingIn(p, x)
  <2>1. ASSUME NEW o \in FiringIn(s, x)
        PROVE  o \in FiringIn(f, x) \cup WaitingIn(p, x)
    <3>1. PICK i \in 1..Len(s) : IsFire(s[i]) /\ s[i].m = o /\ s[i].pending.frame = x
      BY DEF FiringIn
    <3>2. CASE i = Len(s)
      BY <3>1, <3>2, <1>5, <1>6 DEF WaitingIn
    <3>3. CASE i \in 1..Len(f) /\ s[i] = f[i]
      BY <3>1, <3>3, <1>7 DEF FiringIn
    <3> QED
      BY <3>2, <3>3, <1>2
  <2>2. ASSUME NEW o \in WaitingIn(p2, x)
        PROVE  o \in WaitingIn(p, x)
    BY <1>5, <1>6 DEF WaitingIn
  <2>3. FiringIn(f, x) \subseteq FiringIn(s, x)
    BY <1>3 DEF FiringIn
  <2>4. ASSUME NEW o \in WaitingIn(p, x)
        PROVE  o \in FiringIn(s, x) \cup WaitingIn(p2, x)
    <3>1. CASE o = e.m
      BY <3>1, <1>4, <1>5, <1>6 DEF FiringIn, WaitingIn
    <3>2. CASE o # e.m
      BY <3>2, <1>5 DEF WaitingIn
    <3> QED
      BY <3>1, <3>2
  <2> QED
    BY <2>1, <2>2, <2>3, <2>4
<1>9. \A i \in 1..Len(s) : IsFire(s[i]) => p2[s[i].m] = Nil
  BY <1>2, <1>5, <1>6, <1>7
<1>10. \A i, j \in 1..Len(s) : i # j /\ IsFire(s[i]) /\ IsFire(s[j]) => s[i].m # s[j].m
  <2>1. \A i, j \in 1..Len(f) : i # j /\ IsFire(f[i]) /\ IsFire(f[j]) => f[i].m # f[j].m
    BY DEF Waits
  <2> QED
    BY <2>1, <1>2, <1>5, <1>7
<1>11. \A o \in Module : p2[o] # Nil => p2[o].frame \in 1..Len(st) /\ st[p2[o].frame].serial = p2[o].serial
  BY <1>5, <1>6 DEF Waits
<1>12. \A i \in 1..Len(s) : IsFire(s[i]) => /\ s[i].pending.frame \in 1..Len(st)
                                            /\ st[s[i].pending.frame].serial = s[i].pending.serial
  <2>1. \A i \in 1..Len(f) : IsFire(f[i]) => /\ f[i].pending.frame \in 1..Len(st)
                                             /\ st[f[i].pending.frame].serial = f[i].pending.serial
    BY DEF Waits
  <2>2. e.pending.frame \in 1..Len(st) /\ st[e.pending.frame].serial = e.pending.serial
    BY <1>6 DEF Waits
  <2> QED
    BY <2>1, <2>2, <1>2, <1>5
<1>13. \A x \in 1..Len(st) : /\ IsFiniteSet(FiringIn(s, x) \cup WaitingIn(p2, x))
                             /\ st[x].pending = Cardinality(FiringIn(s, x) \cup WaitingIn(p2, x))
  BY <1>8 DEF Waits
<1> QED
  BY <1>9, <1>10, <1>11, <1>12, <1>13 DEF Waits

LEMMA PushFireUnregistered ==
  ASSUME NEW s \in Seq(Act), NEW f \in Seq(Act), Below(s, f), IsFire(s[Len(s)]),
         NEW p, NEW p2, NEW b, Unregistered(f, p, b),
         p[s[Len(s)].m] # Nil, \A o \in Module : o # s[Len(s)].m => p2[o] = p[o]
  PROVE  Unregistered(s, p2, b)
<1>1. Len(f) \in Nat /\ Len(s) = Len(f) + 1 /\ \A i \in 1..Len(f) : s[i] = f[i]
  BY DEF Below
<1>2. \A i \in 1..Len(s) : i = Len(s) \/ (i \in 1..Len(f) /\ s[i] = f[i])
  BY <1>1
<1>3. PICK e : e = s[Len(s)]
  OBVIOUS
<1>4. ~IsModule(e) /\ e.m \in Module
  BY <1>1, <1>3, KindFacts DEF IsModule, IsFire
<1>5. SUFFICES ASSUME NEW m \in Module,
                      b[m] = 0 \/ \E i \in 1..Len(s) : IsModule(s[i]) /\ s[i].m = m /\ s[i].pc \in Early
               PROVE  p2[m] = Nil /\ ~Firing(s, m)
  BY DEF Unregistered
<1>6. b[m] = 0 \/ \E i \in 1..Len(f) : IsModule(f[i]) /\ f[i].m = m /\ f[i].pc \in Early
  BY <1>2, <1>3, <1>4, <1>5
<1>7. p[m] = Nil /\ ~Firing(f, m)
  BY <1>6 DEF Unregistered
<1>8. m # e.m
  BY <1>3, <1>7
<1>9. ~Firing(s, m)
  BY <1>2, <1>3, <1>7, <1>8 DEF Firing
<1> QED
  BY <1>3, <1>7, <1>8, <1>9

(* A frame nobody waits for may change its serial, and new ones may come.  *)
(* Frames that nothing waits for are used again, or there are new ones.    *)
Refreshed(st, st2) ==
  /\ Len(st) <= Len(st2)
  /\ \A x \in 1..Len(st) : /\ st2[x].pending = st[x].pending
                           /\ st2[x].serial = st[x].serial \/ st[x].pending = 0
  /\ \A x \in 1..Len(st2) : x \in 1..Len(st) \/ st2[x].pending = 0

LEMMA RefreshWaits ==
  ASSUME NEW s \in Seq(Act), NEW p, NEW st \in Seq([serial : Nat, pending : Int]),
         NEW st2 \in Seq([serial : Nat, pending : Int]), Waits(s, p, st), Refreshed(st, st2)
  PROVE  Waits(s, p, st2)
<1>0. /\ Len(st) <= Len(st2)
      /\ \A x \in 1..Len(st) : /\ st2[x].pending = st[x].pending
                               /\ st2[x].serial = st[x].serial \/ st[x].pending = 0
      /\ \A x \in 1..Len(st2) : x \in 1..Len(st) \/ st2[x].pending = 0
  BY DEF Refreshed
<1> USE <1>0
<1>1. ASSUME NEW x \in 1..Len(st), st[x].pending = 0
      PROVE  FiringIn(s, x) = {} /\ WaitingIn(p, x) = {}
  <2>1. PICK A : A = FiringIn(s, x) \cup WaitingIn(p, x)
    OBVIOUS
  <2>2. IsFiniteSet(A) /\ Cardinality(A) = 0
    BY <1>1, <2>1 DEF Waits
  <2>3. A = {}
    BY <2>2, FS_EmptySet
  <2> QED
    BY <2>1, <2>3
<1>2. \A o \in Module : p[o] # Nil => p[o].frame \in 1..Len(st) /\ st[p[o].frame].serial = p[o].serial
  BY DEF Waits
<1>3. \A i \in 1..Len(s) : IsFire(s[i]) => /\ s[i].pending.frame \in 1..Len(st)
                                           /\ st[s[i].pending.frame].serial = s[i].pending.serial
  BY DEF Waits
<1>4. \A i \in 1..Len(s) : s[i].m \in Module
  BY KindFacts
<1>a. \A x \in 1..Len(st) : x \in 1..Len(st2) /\ (st[x].pending # 0 => st2[x].serial = st[x].serial)
  <2>1. Len(st) \in Nat /\ Len(st2) \in Nat
    OBVIOUS
  <2>2. \A x \in 1..Len(st) : x \in 1..Len(st2)
    BY <2>1
  <2>3. \A x \in 1..Len(st) : st[x].pending # 0 => st2[x].serial = st[x].serial
    OBVIOUS
  <2> QED
    BY <2>2, <2>3
<1>5. ASSUME NEW o \in Module, p[o] # Nil
      PROVE  p[o].frame \in 1..Len(st2) /\ st2[p[o].frame].serial = p[o].serial
  <2>1. o \in WaitingIn(p, p[o].frame)
    BY <1>5 DEF WaitingIn
  <2>2. st[p[o].frame].pending # 0
    BY <2>1, <1>1, <1>2, <1>5
  <2> QED
    BY <2>2, <1>2, <1>5, <1>a
<1>6. ASSUME NEW i \in 1..Len(s), IsFire(s[i])
      PROVE  /\ s[i].pending.frame \in 1..Len(st2)
             /\ st2[s[i].pending.frame].serial = s[i].pending.serial
  <2>1. s[i].m \in FiringIn(s, s[i].pending.frame)
    BY <1>4, <1>6 DEF FiringIn
  <2>2. st[s[i].pending.frame].pending # 0
    BY <2>1, <1>1, <1>3, <1>6
  <2> QED
    BY <2>2, <1>3, <1>6, <1>a
<1>7. ASSUME NEW x \in 1..Len(st2)
      PROVE  /\ IsFiniteSet(FiringIn(s, x) \cup WaitingIn(p, x))
             /\ st2[x].pending = Cardinality(FiringIn(s, x) \cup WaitingIn(p, x))
  <2>1. CASE x \in 1..Len(st)
    BY <2>1 DEF Waits
  <2>2. CASE x \notin 1..Len(st)
    <3>1. FiringIn(s, x) = {} /\ WaitingIn(p, x) = {}
      BY <2>2, <1>2, <1>3 DEF FiringIn, WaitingIn
    <3>2. FiringIn(s, x) \cup WaitingIn(p, x) = {}
      BY <3>1
    <3> QED
      BY <2>2, <3>2, FS_EmptySet
  <2> QED
    BY <2>1, <2>2
<1> QED
  BY <1>5, <1>6, <1>7 DEF Waits

(* A module registers its file.                                            *)
(* A generator of the module m is announced to its frame y.                *)
Announced(p, p2, st, st2, m, y) ==
  /\ p[m] = Nil /\ p2[m] # Nil /\ p2[m].frame = y /\ p2[m].serial = st[y].serial
  /\ \A o \in Module : o # m => p2[o] = p[o]
  /\ Len(st2) = Len(st)
  /\ \A x \in 1..Len(st) : /\ st2[x].serial = st[x].serial
                           /\ st2[x].pending = IF x = y THEN st[x].pending + 1 ELSE st[x].pending

LEMMA RegisterWaits ==
  ASSUME NEW s \in Seq(Act), NEW p, NEW p2, NEW st \in Seq([serial : Nat, pending : Int]),
         NEW st2 \in Seq([serial : Nat, pending : Int]), Waits(s, p, st),
         NEW m \in Module, NEW y \in 1..Len(st), ~Firing(s, m), Announced(p, p2, st, st2, m, y)
  PROVE  Waits(s, p2, st2)
<1>0. /\ p[m] = Nil /\ p2[m] # Nil /\ p2[m].frame = y /\ p2[m].serial = st[y].serial
      /\ \A o \in Module : o # m => p2[o] = p[o]
      /\ Len(st2) = Len(st)
      /\ \A x \in 1..Len(st) : /\ st2[x].serial = st[x].serial
                               /\ st2[x].pending = IF x = y THEN st[x].pending + 1 ELSE st[x].pending
  BY DEF Announced
<1> USE <1>0
<1>1. \A i \in 1..Len(s) : IsFire(s[i]) => s[i].m # m /\ s[i].m \in Module
  BY KindFacts, SMTT(30) DEF Firing
<1>2. ASSUME NEW x \in 1..Len(st2)
      PROVE  /\ IsFiniteSet(FiringIn(s, x) \cup WaitingIn(p2, x))
             /\ st2[x].pending = Cardinality(FiringIn(s, x) \cup WaitingIn(p2, x))
  <2>1. PICK A : A = FiringIn(s, x) \cup WaitingIn(p, x)
    OBVIOUS
  <2>2. PICK B : B = FiringIn(s, x) \cup WaitingIn(p2, x)
    OBVIOUS
  <2>3. IsFiniteSet(A) /\ st[x].pending = Cardinality(A)
    BY <2>1 DEF Waits
  <2>4. m \notin A
    BY <1>1, <2>1 DEF FiringIn, WaitingIn
  <2>5. CASE x = y
    <3>0. WaitingIn(p2, x) = WaitingIn(p, x) \cup {m}
      <4>1. \A o \in Module : o # m => (o \in WaitingIn(p2, x) <=> o \in WaitingIn(p, x))
        BY <1>0 DEF WaitingIn
      <4>2. m \in WaitingIn(p2, x)
        BY <1>0, <2>5 DEF WaitingIn
      <4> QED
        BY <4>1, <4>2 DEF WaitingIn
    <3>1. B = A \cup {m}
      BY ONLY <2>1, <2>2, <3>0
    <3>2. IsFiniteSet(B) /\ Cardinality(B) = Cardinality(A) + 1
      BY <2>3, <2>4, <3>1, FS_AddElement
    <3> QED
      BY <3>2, <2>2, <2>3, <2>5
  <2>6. CASE x # y
    <3>0. WaitingIn(p2, x) = WaitingIn(p, x)
      <4>1. \A o \in Module : o # m => (o \in WaitingIn(p2, x) <=> o \in WaitingIn(p, x))
        BY <1>0 DEF WaitingIn
      <4>2. m \notin WaitingIn(p2, x) /\ m \notin WaitingIn(p, x)
        BY <1>0, <2>6 DEF WaitingIn
      <4> QED
        BY <4>1, <4>2 DEF WaitingIn
    <3>1. B = A
      BY ONLY <2>1, <2>2, <3>0
    <3> QED
      BY <3>1, <2>2, <2>3, <2>6
  <2> QED
    BY <2>5, <2>6
<1>3. \A i \in 1..Len(s) : IsFire(s[i]) => p2[s[i].m] = Nil
  <2>1. \A i \in 1..Len(s) : IsFire(s[i]) => p[s[i].m] = Nil
    BY DEF Waits
  <2> QED
    BY <1>1, <2>1
<1>4. \A i, j \in 1..Len(s) : i # j /\ IsFire(s[i]) /\ IsFire(s[j]) => s[i].m # s[j].m
  BY DEF Waits
<1>5. ASSUME NEW o \in Module, p2[o] # Nil
      PROVE  p2[o].frame \in 1..Len(st2) /\ st2[p2[o].frame].serial = p2[o].serial
  <2>1. CASE o = m
    BY <2>1
  <2>2. CASE o # m
    <3>1. p2[o] = p[o]
      BY <2>2
    <3>2. p[o].frame \in 1..Len(st) /\ st[p[o].frame].serial = p[o].serial
      BY <3>1, <1>5 DEF Waits
    <3> QED
      BY <3>1, <3>2
  <2> QED
    BY <2>1, <2>2
<1>6. \A i \in 1..Len(s) : IsFire(s[i]) => /\ s[i].pending.frame \in 1..Len(st2)
                                           /\ st2[s[i].pending.frame].serial = s[i].pending.serial
  BY DEF Waits
<1> QED
  BY <1>2, <1>3, <1>4, <1>5, <1>6 DEF Waits

LEMMA PushDepth ==
  ASSUME NEW s \in Seq(Act), NEW f \in Seq(Act), Below(s, f), NEW h, Depth(f, h)
  PROVE  \E h2 : /\ Depth(s, h2)
                 /\ h2[Len(s)] = IF Taken(s[Len(s)]) # 0 THEN h[Len(f)] + 1 ELSE h[Len(f)]
                 /\ \A i \in 0..Len(f) : h2[i] = h[i]
<1>1. Len(f) \in Nat /\ Len(s) = Len(f) + 1 /\ \A i \in 1..Len(f) : s[i] = f[i]
  BY DEF Below
<1>2. PICK w \in {0, 1} : w = IF Taken(s[Len(s)]) # 0 THEN 1 ELSE 0
  OBVIOUS
<1>3. PICK h2 : h2 = [i \in 0..Len(s) |-> IF i = Len(s) THEN h[Len(f)] + w ELSE h[i]]
  OBVIOUS
<1>4. h[Len(f)] \in Nat /\ h \in [0..Len(f) -> Nat] /\ h[0] = 0
  BY <1>1 DEF Depth
<1>5. /\ h2 \in [0..Len(s) -> Nat] /\ h2[0] = 0
      /\ h2[Len(s)] = h[Len(f)] + w /\ \A i \in 0..Len(f) : h2[i] = h[i]
  BY <1>1, <1>3, <1>4
<1>6. \A i \in 1..Len(s) : h2[i] = IF Taken(s[i]) # 0 THEN h2[i - 1] + 1 ELSE h2[i - 1]
  <2> SUFFICES ASSUME NEW i \in 1..Len(s)
               PROVE  h2[i] = IF Taken(s[i]) # 0 THEN h2[i - 1] + 1 ELSE h2[i - 1]
    OBVIOUS
  <2>1. CASE i = Len(s)
    BY <2>1, <1>1, <1>2, <1>4, <1>5
  <2>2. CASE i \in 1..Len(f)
    <3>1. i - 1 \in 0..Len(f) /\ i \in 0..Len(f)
      BY <2>2, <1>1
    <3> QED
      BY <3>1, <2>2, <1>1, <1>5 DEF Depth
  <2> QED
    BY <2>1, <2>2, <1>1
<1>7. \A i, j \in 0..Len(s) : i <= j => h2[i] <= h2[j]
  <2>1. \A i, j \in 0..Len(f) : i <= j => h[i] <= h[j]
    BY DEF Depth
  <2>2. \A i \in 0..Len(f) : h2[i] \in Nat /\ h2[i] <= h[Len(f)]
    <3>1. \A i \in 0..Len(f) : i <= Len(f) /\ Len(f) \in 0..Len(f)
      BY <1>1
    <3> QED
      BY <2>1, <3>1, <1>4, <1>5
  <2>3. \A i \in 0..Len(s) : i = Len(s) \/ i \in 0..Len(f)
    BY <1>1
  <2> QED
    BY <2>1, <2>2, <2>3, <1>1, <1>2, <1>4, <1>5
<1>8. Depth(s, h2)
  BY <1>5, <1>6, <1>7 DEF Depth
<1>9. h2[Len(s)] = IF Taken(s[Len(s)]) # 0 THEN h[Len(f)] + 1 ELSE h[Len(f)]
  BY <1>2, <1>4, <1>5
<1> QED
  BY <1>5, <1>8, <1>9

(* An activation that takes no frame.                                      *)
LEMMA PushUnframed ==
  ASSUME NEW s \in Seq(Act), NEW f \in Seq(Act), Below(s, f), NEW h, Depth(f, h),
         NEW fs, NEW n \in Nat, Apart(f, h, fs, n), Taken(s[Len(s)]) = 0
  PROVE  \E h2 : Depth(s, h2) /\ h2[Len(s)] = h[Len(f)] /\ Apart(s, h2, fs, n)
<1>1. Len(f) \in Nat /\ Len(s) = Len(f) + 1 /\ \A i \in 1..Len(f) : s[i] = f[i]
  BY DEF Below
<1>2. \A i \in 1..Len(s) : i = Len(s) \/ (i \in 1..Len(f) /\ s[i] = f[i])
  BY <1>1
<1>3. PICK h2 : /\ Depth(s, h2) /\ h2[Len(s)] = h[Len(f)]
                /\ \A i \in 0..Len(f) : h2[i] = h[i]
  BY PushDepth
<1>4. PICK e : e = s[Len(s)]
  OBVIOUS
<1>5. Taken(e) = 0 /\ (IsModule(e) => e.frame = 0)
  BY <1>4 DEF Taken
<1>6. \A i \in 1..Len(s) : Taken(s[i]) \in 0..n
  BY <1>2, <1>4, <1>5 DEF Apart
<1>7. \A i, j \in 1..Len(s) : i # j /\ Taken(s[i]) # 0 => Taken(s[i]) # Taken(s[j])
  <2>1. \A i, j \in 1..Len(f) : i # j /\ Taken(f[i]) # 0 => Taken(f[i]) # Taken(f[j])
    BY DEF Apart
  <2> QED
    BY <2>1, <1>2, <1>4, <1>5
<1>8. \A k \in 1..Len(fs) : fs[k] \in 1..n
  BY DEF Apart
<1>9. PICK a : a = h[Len(f)]
  OBVIOUS
<1>10. \A i \in 1..Len(s), k \in (a + 1)..Len(fs) : Taken(s[i]) # fs[k]
  <2>1. \A i \in 1..Len(f), k \in (a + 1)..Len(fs) : Taken(f[i]) # fs[k]
    BY <1>9 DEF Apart
  <2>2. a \in Nat /\ a <= Len(fs)
    BY <1>1, <1>9 DEF Depth, Apart
  <2>3. \A k \in (a + 1)..Len(fs) : fs[k] # 0
    BY <2>2, <1>8
  <2> QED
    BY <2>1, <2>3, <1>2, <1>4, <1>5
<1>11. \A k, l \in (a + 1)..Len(fs) : k # l => fs[k] # fs[l]
  BY <1>9 DEF Apart
<1>12. \A i \in 1..Len(s) : IsModule(s[i]) /\ s[i].frame # 0 => fs[h2[i]] = s[i].frame
  <2>1. \A i \in 1..Len(f) : IsModule(f[i]) /\ f[i].frame # 0 => fs[h[i]] = f[i].frame
    BY DEF Apart
  <2>2. \A i \in 1..Len(f) : h2[i] = h[i]
    BY <1>1, <1>3
  <2> QED
    BY <2>1, <2>2, <1>2, <1>4, <1>5
<1>13. h2[Len(s)] = a /\ a <= Len(fs)
  BY <1>3, <1>9 DEF Apart
<1>14. Apart(s, h2, fs, n)
  BY <1>6, <1>7, <1>8, <1>10, <1>11, <1>12, <1>13 DEF Apart
<1> QED
  BY <1>3, <1>14

(* An activation that takes the frame r, which nobody else has.            *)
(* gs is fs with x in the slot above the depth k; r is the frame that was  *)
(* there, or a new one.                                                    *)
Placed(fs, gs, k, x) ==
  /\ Len(gs) = IF k = Len(fs) THEN Len(fs) + 1 ELSE Len(fs)
  /\ \A j \in 1..Len(gs) : gs[j] = IF j = k + 1 THEN x ELSE fs[j]

Free(fs, k, n, r) == r \notin 1..n \/ (k < Len(fs) /\ r = fs[k + 1])

LEMMA PushFramed ==
  ASSUME NEW s \in Seq(Act), NEW f \in Seq(Act), Below(s, f),
         NEW fs \in Seq(Nat), NEW gs \in Seq(Nat), NEW n \in Nat, NEW q, FrameOf(f, fs, q, n),
         NEW m \in Nat, n <= m, NEW x, x \in 1..m, Taken(s[Len(s)]) \in 1..m,
         IsModule(s[Len(s)]) => x = Taken(s[Len(s)]),
         Free(fs, q, n, Taken(s[Len(s)])), Placed(fs, gs, q, x)
  PROVE  FrameOf(s, gs, q + 1, m)
<1>h. PICK h : Depth(f, h) /\ h[Len(f)] = q /\ Apart(f, h, fs, n)
  BY DEF FrameOf
<1>i. Depth(f, h) /\ Apart(f, h, fs, n)
  BY <1>h
<1>r. PICK r : r = Taken(s[Len(s)])
  OBVIOUS
<1>t. r \in 1..m /\ x \in 1..m /\ Taken(s[Len(s)]) = r /\ (IsModule(s[Len(s)]) => x = r)
  BY <1>r
<1> USE <1>i
<1>1. Len(f) \in Nat /\ Len(s) = Len(f) + 1 /\ \A i \in 1..Len(f) : s[i] = f[i]
  BY DEF Below
<1>2. \A i \in 1..Len(s) : i = Len(s) \/ (i \in 1..Len(f) /\ s[i] = f[i])
  BY <1>1
<1>3. PICK h2 : /\ Depth(s, h2) /\ h2[Len(s)] = h[Len(f)] + 1
                /\ \A i \in 0..Len(f) : h2[i] = h[i]
  BY PushDepth, SMTT(30)
<1>4. PICK e : e = s[Len(s)]
  OBVIOUS
<1>5. Taken(e) = r /\ (IsModule(e) => e.frame = r /\ x = r)
  BY <1>4, <1>t DEF Taken
<1>6. PICK a : a = h[Len(f)]
  OBVIOUS
<1>7. /\ a \in Nat /\ a <= Len(fs) /\ Len(fs) \in Nat
      /\ \A i \in 1..Len(f) : h[i] \in Nat /\ h[i] <= a
  <2>1. \A i \in 1..Len(f) : i \in 0..Len(f) /\ i <= Len(f)
    BY <1>1
  <2>2. Len(f) \in 0..Len(f)
    BY <1>1
  <2>3. a \in Nat /\ a <= Len(fs) /\ Len(fs) \in Nat
    BY <2>2, <1>6 DEF Depth, Apart
  <2>4. \A i \in 1..Len(f) : h[i] \in Nat /\ h[i] <= a
    BY <2>1, <2>2, <1>6 DEF Depth
  <2> QED
    BY <2>3, <2>4
<1>8. /\ Len(gs) = IF a = Len(fs) THEN Len(fs) + 1 ELSE Len(fs)
      /\ \A k \in 1..Len(gs) : gs[k] = IF k = a + 1 THEN x ELSE fs[k]
      /\ r \notin 1..n \/ (a < Len(fs) /\ r = fs[a + 1])
  BY <1>6, <1>h, <1>r DEF Placed, Free
<1>9. /\ \A k \in 1..Len(fs) : fs[k] \in 1..n
      /\ \A i \in 1..Len(f) : Taken(f[i]) \in 0..n
      /\ \A i, j \in 1..Len(f) : i # j /\ Taken(f[i]) # 0 => Taken(f[i]) # Taken(f[j])
      /\ \A i \in 1..Len(f) : IsModule(f[i]) /\ f[i].frame # 0 => fs[h[i]] = f[i].frame
  BY DEF Apart
<1>10. /\ \A i \in 1..Len(f), k \in (a + 1)..Len(fs) : Taken(f[i]) # fs[k]
       /\ \A k, l \in (a + 1)..Len(fs) : k # l => fs[k] # fs[l]
  BY <1>6 DEF Apart
<1>11. \A i \in 1..Len(f) : Taken(f[i]) # r
  <2>1. CASE r \notin 1..n
    <3>1. \A v \in 0..n : v # r
      BY <2>1, <1>t
    <3> QED
      BY <3>1, <1>9
  <2>2. CASE a < Len(fs) /\ r = fs[a + 1]
    <3>1. a + 1 \in (a + 1)..Len(fs)
      BY <2>2, <1>7
    <3> QED
      BY <2>2, <3>1, <1>10
  <2> QED
    BY <2>1, <2>2, <1>8
<1>12. \A k \in (a + 2)..Len(gs) : k \in (a + 1)..Len(fs) /\ k \in 1..Len(gs) /\ k # a + 1 /\ gs[k] = fs[k]
  BY <1>7, <1>8
<1>13. \A k \in (a + 2)..Len(gs) : r # gs[k]
  <2> SUFFICES ASSUME NEW k \in (a + 2)..Len(gs)
               PROVE  r # fs[k]
    BY <1>12
  <2>1. k \in (a + 1)..Len(fs) /\ k # a + 1 /\ k \in 1..Len(fs)
    BY <1>7, <1>12
  <2>2. CASE r \notin 1..n
    BY <2>1, <2>2, <1>9
  <2>3. CASE a < Len(fs) /\ r = fs[a + 1]
    <3>1. a + 1 \in (a + 1)..Len(fs)
      BY <2>3, <1>7
    <3> QED
      BY <2>1, <2>3, <3>1, <1>10
  <2> QED
    BY <2>2, <2>3, <1>8
<1>14. \A k \in 1..Len(gs) : gs[k] \in 1..m
  <2> SUFFICES ASSUME NEW k \in 1..Len(gs)
               PROVE  gs[k] \in 1..m
    OBVIOUS
  <2>1. CASE k = a + 1
    <3>1. gs[k] = x
      BY <2>1, <1>8
    <3> QED
      BY <3>1, <1>t
  <2>2. CASE k # a + 1
    <3>1. k \in 1..Len(fs) /\ gs[k] = fs[k]
      BY <2>2, <1>7, <1>8
    <3> QED
      BY <3>1, <1>9
  <2> QED
    BY <2>1, <2>2
<1>15. \A i \in 1..Len(s) : Taken(s[i]) \in 0..m
  BY <1>2, <1>4, <1>5, <1>9, <1>t, SMTT(30)
<1>16. \A i, j \in 1..Len(s) : i # j /\ Taken(s[i]) # 0 => Taken(s[i]) # Taken(s[j])
  BY <1>2, <1>4, <1>5, <1>9, <1>11
<1>17. \A i \in 1..Len(s), k \in (a + 2)..Len(gs) : Taken(s[i]) # gs[k]
  <2> SUFFICES ASSUME NEW i \in 1..Len(s), NEW k \in (a + 2)..Len(gs)
               PROVE  Taken(s[i]) # gs[k]
    OBVIOUS
  <2>1. CASE i = Len(s)
    BY <2>1, <1>4, <1>5, <1>13
  <2>2. CASE i \in 1..Len(f) /\ s[i] = f[i]
    BY <2>2, <1>10, <1>12
  <2> QED
    BY <2>1, <2>2, <1>2
<1>18. \A k, l \in (a + 2)..Len(gs) : k # l => gs[k] # gs[l]
  BY <1>10, <1>12
<1>19. \A i \in 1..Len(s) : IsModule(s[i]) /\ s[i].frame # 0 => gs[h2[i]] = s[i].frame
  <2> SUFFICES ASSUME NEW i \in 1..Len(s), IsModule(s[i]), s[i].frame # 0
               PROVE  gs[h2[i]] = s[i].frame
    OBVIOUS
  <2>1. CASE i = Len(s)
    <3>1. h2[i] = a + 1 /\ s[i].frame = r /\ x = r
      BY <2>1, <1>3, <1>4, <1>5, <1>6
    <3>2. a + 1 \in 1..Len(gs)
      BY <1>7, <1>8
    <3> QED
      BY <3>1, <3>2, <1>8
  <2>2. CASE i \in 1..Len(f) /\ s[i] = f[i]
    <3>1. h2[i] = h[i] /\ fs[h[i]] = s[i].frame
      BY <2>2, <1>1, <1>3, <1>9
    <3>2. i - 1 \in 0..Len(f) /\ Taken(f[i]) # 0
      BY <2>2, <1>1 DEF Taken
    <3>3. h[i] = h[i - 1] + 1 /\ h[i - 1] \in Nat
      BY <2>2, <3>2 DEF Depth
    <3>4. h[i] \in 1..Len(gs) /\ h[i] # a + 1
      <4>0. h[i] \in Nat /\ h[i] <= a
        BY <2>2, <1>7
      <4>1. h[i] \in Nat /\ h[i] <= a /\ 1 <= h[i]
        BY <3>3, <4>0
      <4>2. Len(gs) \in Nat /\ a <= Len(gs)
        BY <1>7, <1>8
      <4>3. \A v, b, c \in Nat : 1 <= v /\ v <= b /\ b <= c => v \in 1..c /\ v # b + 1
        OBVIOUS
      <4> QED
        BY <4>1, <4>2, <4>3, <1>7
    <3> QED
      BY <3>1, <3>4, <1>8
  <2> QED
    BY <2>1, <2>2, <1>2
<1>20. h2[Len(s)] = a + 1 /\ a + 1 <= Len(gs) /\ h2[Len(s)] + 1 = a + 2
  <2>1. h2[Len(s)] = a + 1
    BY <1>3, <1>6
  <2>2. a + 1 <= Len(gs) /\ (a + 1) + 1 = a + 2
    BY <1>7, <1>8
  <2> QED
    BY <2>1, <2>2
<1>21. Apart(s, h2, gs, m)
  BY <1>14, <1>15, <1>16, <1>17, <1>18, <1>19, <1>20 DEF Apart
<1>22. h2[Len(s)] = q + 1
  BY <1>20, <1>6, <1>h
<1> QED
  BY <1>3, <1>21, <1>22 DEF FrameOf

-----------------------------------------------------------------------------
(***************************************************************************)
(* The parts that have a witness, without it.                              *)
(***************************************************************************)
LEMMA AlikeParts ==
  ASSUME NEW s \in Seq(Act), NEW t \in Seq(Act), Alike(s, t)
  PROVE  /\ \A k : DeferOf(s, k) => DeferOf(t, k)
         /\ \A v : SinkOf(s, v) => SinkOf(t, v)
         /\ \A fs, k, n : FrameOf(s, fs, k, n) => FrameOf(t, fs, k, n)
<1>1. Len(t) = Len(s)
  BY DEF Alike
<1>2. ASSUME NEW k, DeferOf(s, k)
      PROVE  DeferOf(t, k)
  BY <1>1, <1>2, AlikeDeferral DEF DeferOf
<1>3. ASSUME NEW v, SinkOf(s, v)
      PROVE  SinkOf(t, v)
  BY <1>1, <1>3, AlikeSinks DEF SinkOf
<1>4. ASSUME NEW fs, NEW k, NEW n, FrameOf(s, fs, k, n)
      PROVE  FrameOf(t, fs, k, n)
  BY <1>1, <1>4, AlikeFrames DEF FrameOf
<1> QED
  BY <1>2, <1>3, <1>4

LEMMA PopDefer ==
  ASSUME NEW s \in Seq(Act), NEW f \in Seq(Act), Below(s, f), NEW k, DeferOf(s, k)
  PROVE  /\ k \in Nat
         /\ Defers(s[Len(s)]) => DeferOf(f, k - 1) /\ k - 1 \in Nat
         /\ ~Defers(s[Len(s)]) => DeferOf(f, k)
         /\ Begun(s[Len(s)]) /\ ~s[Len(s)].deferred =>
              s[Len(s)].demand # "none" /\ DeferOf(f, 0)
<1>1. PICK d : Deferral(s, d) /\ d[Len(s)] = k
  BY DEF DeferOf
<1>2. PICK d2 : d2 = [i \in 0..Len(f) |-> d[i]]
  OBVIOUS
<1>3. /\ Deferral(f, d2)
      /\ d[Len(s)] = IF Defers(s[Len(s)]) THEN d[Len(f)] + 1 ELSE d[Len(f)]
      /\ d[Len(f)] \in Nat /\ d[Len(s)] \in Nat
  BY <1>1, <1>2, PopDeferral
<1>4. d2[Len(f)] = d[Len(f)]
  BY <1>2
<1>5. DeferOf(f, d[Len(f)])
  BY <1>3, <1>4 DEF DeferOf
<1>6. Len(s) \in 1..Len(s) /\ Len(s) - 1 = Len(f)
  BY DEF Below
<1>7. Begun(s[Len(s)]) => (s[Len(s)].deferred <=> (s[Len(s)].demand = "none" \/ d[Len(f)] > 0))
  BY <1>1, <1>6 DEF Deferral
<1>8. CASE Defers(s[Len(s)])
  <2>1. d[Len(f)] = k - 1
    BY <1>8, <1>1, <1>3
  <2>2. Begun(s[Len(s)]) /\ ~s[Len(s)].deferred => d[Len(f)] = 0
    BY <1>7, <1>3
  <2> QED
    BY <2>1, <2>2, <1>1, <1>3, <1>5, <1>7, <1>8
<1>9. CASE ~Defers(s[Len(s)])
  <2>1. d[Len(f)] = k
    BY <1>9, <1>1, <1>3
  <2>2. Begun(s[Len(s)]) /\ ~s[Len(s)].deferred => d[Len(f)] = 0
    BY <1>7, <1>3
  <2> QED
    BY <2>1, <2>2, <1>1, <1>3, <1>5, <1>7, <1>9
<1> QED
  BY <1>8, <1>9

LEMMA PushDefer ==
  ASSUME NEW s \in Seq(Act), NEW f \in Seq(Act), Below(s, f), NEW k, DeferOf(f, k),
         Begun(s[Len(s)]) => (s[Len(s)].deferred <=> (s[Len(s)].demand = "none" \/ k > 0))
  PROVE  /\ Defers(s[Len(s)]) => DeferOf(s, k + 1)
         /\ ~Defers(s[Len(s)]) => DeferOf(s, k)
<1>1. PICK d : Deferral(f, d) /\ d[Len(f)] = k
  BY DEF DeferOf
<1>2. PICK d2 : /\ Deferral(s, d2)
                /\ d2[Len(s)] = IF Defers(s[Len(s)]) THEN d[Len(f)] + 1 ELSE d[Len(f)]
  BY <1>1, PushDeferral
<1> QED
  BY <1>1, <1>2 DEF DeferOf

LEMMA PopSink ==
  ASSUME NEW s \in Seq(Act), NEW f \in Seq(Act), Below(s, f), NEW v, SinkOf(s, v)
  PROVE  \E u : SinkOf(f, u) /\ SinkStep(s[Len(s)], u, v)
<1>1. PICK g : Sinks(s, g) /\ g[Len(s)] = v
  BY DEF SinkOf
<1>2. Sinks(f, g) /\ SinkStep(s[Len(s)], g[Len(f)], v)
  BY <1>1, PopSinks
<1>3. SinkOf(f, g[Len(f)])
  BY <1>2 DEF SinkOf
<1> QED
  BY <1>2, <1>3

LEMMA PushSink ==
  ASSUME NEW s \in Seq(Act), NEW f \in Seq(Act), Below(s, f), NEW u, SinkOf(f, u),
         NEW v, SinkStep(s[Len(s)], u, v)
  PROVE  SinkOf(s, v)
<1>1. PICK g : Sinks(f, g) /\ g[Len(f)] = u
  BY DEF SinkOf
<1> QED
  BY <1>1, PushSinks DEF SinkOf

(* popFrame leaves the frame of a module where it is.                      *)
LEMMA PopModuleFrame ==
  ASSUME NEW s \in Seq(Act), NEW f \in Seq(Act), Below(s, f), IsModule(s[Len(s)]),
         NEW fs \in Seq(Nat), NEW n \in Nat, NEW k, FrameOf(s, fs, k, n)
  PROVE  /\ s[Len(s)].frame # 0 => FrameOf(f, fs, k - 1, n)
         /\ s[Len(s)].frame = 0 => FrameOf(f, fs, k, n)
<1>1. PICK h : Depth(s, h) /\ h[Len(s)] = k /\ Apart(s, h, fs, n)
  BY DEF FrameOf
<1>2. Taken(s[Len(s)]) = s[Len(s)].frame
  BY DEF Taken
<1>3. Len(s) \in 1..Len(s)
  BY DEF Below
<1>4. s[Len(s)].frame # 0 => fs[k] = s[Len(s)].frame
  BY <1>1, <1>3 DEF Apart
<1>5. PutBack(fs, fs, k, Taken(s[Len(s)]))
  BY <1>2, <1>4 DEF PutBack
<1> QED
  BY <1>2, <1>5, PopFrames

LEMMA PushUnframedOf ==
  ASSUME NEW s \in Seq(Act), NEW f \in Seq(Act), Below(s, f),
         NEW fs, NEW n \in Nat, NEW k, FrameOf(f, fs, k, n), Taken(s[Len(s)]) = 0
  PROVE  FrameOf(s, fs, k, n)
<1>1. PICK h : Depth(f, h) /\ h[Len(f)] = k /\ Apart(f, h, fs, n)
  BY DEF FrameOf
<1> QED
  BY <1>1, PushUnframed DEF FrameOf

-----------------------------------------------------------------------------
(***************************************************************************)
(* Steps that leave the stack as it is, but for where the top is.          *)
(***************************************************************************)
LEMMA QuietOnce ==
  ASSUME Once, stack \in Seq(Act), stack' \in Seq(Act), Alike(stack, stack'),
         exc => exc' /\ stack' = stack,
         UNCHANGED <<project, memo, bodies, walking>>
  PROVE  Once'
<1>1. Len(stack') = Len(stack)
  BY DEF Alike
<1>2. \A i \in 1..Len(stack) : IsModule(stack'[i]) /\ stack'[i].pc = "after"
        => IsModule(stack[i]) /\ stack[i].pc = "after" /\ stack[i].m = stack'[i].m
  BY DEF Alike, AlikeAct, IsModule
<1>3. Doomed(stack) => Doomed(stack)'
  BY DEF Doomed
<1> QED
  BY <1>1, <1>2, <1>3 DEF Once

LEMMA QuietStep ==
  ASSUME GenInv, Typed', Shape', Alike(stack, stack'),
         exc => exc' /\ stack' = stack,
         \A v : SinkIs(v) => SinkIs(v)',
         Visits(stack, log'), Waits(stack, pending', store'), Unregistered(stack', pending', bodies'),
         UNCHANGED <<project, memo, bodies, walking, defers, frames, frameDepth>>,
         Len(store') = Len(store)
  PROVE  GenInv'
<1>1. stack \in Seq(Act) /\ stack' \in Seq(Act) /\ Len(stack') = Len(stack)
  BY DEF GenInv, Typed, Alike
<1>2. Local(stack')
  BY <1>1, AlikeLocal DEF GenInv
<1>3. DeferOf(stack', defers')
  BY <1>1, AlikeParts DEF GenInv
<1>4. Walks(stack', walking')
  BY <1>1, AlikeWalks DEF GenInv
<1>5. Once'
  BY <1>1, QuietOnce DEF GenInv
<1>6. SinkPart'
  BY <1>1, AlikeParts DEF GenInv, SinkPart
<1>7. Visits(stack', log')
  BY <1>1, AlikeVisits
<1>8. FrameOf(stack', frames', frameDepth', Len(store'))
  BY <1>1, AlikeParts DEF GenInv
<1>9. Waits(stack', pending', store') /\ Unregistered(stack', pending', bodies')
  BY <1>1, AlikeWaits
<1> QED
  BY <1>2, <1>3, <1>4, <1>5, <1>6, <1>7, <1>8, <1>9 DEF GenInv

-----------------------------------------------------------------------------
(***************************************************************************)
(* Calling genModule.                                                      *)
(***************************************************************************)
LEMMA PushTop ==
  ASSUME NEW f \in Seq(Act), NEW e \in Act, NEW s, s = Append(f, e)
  PROVE  s \in Seq(Act) /\ Below(s, f) /\ s[Len(s)] = e
BY DEF Below

LEMMA AlikeNested ==
  ASSUME NEW s \in Seq(Act), NEW t \in Seq(Act), Alike(s, t), \A i \in 1..Len(s) : Nested(s[i])
  PROVE  \A i \in 1..Len(t) : Nested(t[i])
<1>1. \A i \in 1..Len(s) : s[i] \in Act /\ (IsModule(s[i]) \/ IsFire(s[i]))
  BY KindFacts DEF IsModule, IsFire
<1>2. Len(t) = Len(s)
  BY DEF Alike
<1>3. ASSUME NEW i \in 1..Len(s)
      PROVE  Nested(t[i])
  <2>1. CASE IsFire(s[i])
    BY <2>1 DEF Alike, AlikeAct, Nested, IsFire
  <2>2. CASE IsModule(s[i])
    <3>1. s[i].pc \in Body
      BY <2>2 DEF Nested, IsModule, IsFire
    <3>2. t[i].pc \in Body
      BY <2>2, <3>1 DEF Alike, AlikeAct
    <3> QED
      BY <3>2 DEF Nested
  <2> QED
    BY <2>1, <2>2, <1>1
<1> QED
  BY <1>2, <1>3

LEMMA CallOnce ==
  ASSUME Once, ~exc, NEW t \in Seq(Act), stack \in Seq(Act), Alike(stack, t), NEW e \in Act, e.pc # "after",
         stack' \in Seq(Act), Below(stack', t), stack'[Len(stack')] = e,
         UNCHANGED <<project, exc, memo, bodies, walking>>
  PROVE  Once'
<1>1. Len(t) = Len(stack) /\ Len(t) \in Nat
  BY DEF Alike
<1>2. \A i \in 1..Len(stack) : IsModule(t[i]) /\ t[i].pc = "after"
        => IsModule(stack[i]) /\ stack[i].pc = "after" /\ stack[i].m = t[i].m
  BY DEF Alike, AlikeAct, IsModule
<1>3. Len(stack') = Len(t) + 1 /\ stack'[Len(t) + 1] = e /\ \A i \in 1..Len(t) : stack'[i] = t[i]
  BY DEF Below
<1>4. \A i \in 1..Len(stack') : i = Len(t) + 1 \/ i \in 1..Len(t)
  BY <1>1, <1>3
<1>5. \A i \in 1..Len(stack') : IsModule(stack'[i]) /\ stack'[i].pc = "after" => memo'[stack'[i].m] # 0
  BY <1>1, <1>2, <1>3, <1>4 DEF Once
<1>6. ~Doomed(stack)
  BY DEF Doomed
<1> QED
  BY <1>5, <1>6 DEF Once

LEMMA CallStep ==
  ASSUME GenInv, Typed', ~exc, ~Returning,
         NEW t \in Seq(Act), Alike(stack, t), \A i \in 1..Len(t) : Nested(t[i]),
         NEW e \in ModuleAct, e.pc = "enter", e.frame = 0, e.outer = sink,
         e.via = "sibling" => e.demand = "none",
         stack' \in Seq(Act), Below(stack', t), stack'[Len(stack')] = e,
         sink' = IF e.via = "sibling" THEN 0 ELSE sink,
         UNCHANGED <<project, exc, ret, memo, bodies, walking, defers, log,
                     frames, frameDepth, store, pending>>
  PROVE  GenInv'
<1>1. stack \in Seq(Act) /\ Len(t) = Len(stack) /\ Len(t) \in Nat
  BY DEF GenInv, Typed, Alike
<1>2. e \in Act /\ IsModule(e) /\ ~IsFire(e) /\ ~Begun(e) /\ ~InBody(e) /\ Taken(e) = 0
  BY DEF Act, ModuleAct, IsModule, IsFire, Begun, InBody, Taken, Body, Framed
<1>3. stack' \in Seq(Act) /\ Below(stack', t) /\ stack'[Len(stack')] = e
  OBVIOUS
<1>4. Shape'
  <2>1. \A i \in 1..Len(stack') : i < Len(stack') => i \in 1..Len(t) /\ stack'[i] = t[i]
    BY <1>1, <1>3 DEF Below
  <2>2. ~exc' /\ ~Returning'
    BY DEF Returning
  <2> QED
    BY <2>1, <2>2 DEF Shape
<1>5. Local(stack')
  <2>1. Local(t)
    BY <1>1, AlikeLocal DEF GenInv
  <2>2. e.pc \notin Framed
    BY DEF Framed
  <2> QED
    BY <1>3, <2>1, <2>2, PushLocal
<1>6. DeferOf(stack', defers')
  <2>1. DeferOf(t, defers)
    BY <1>1, AlikeParts DEF GenInv
  <2>2. ~Defers(e)
    BY <1>2 DEF Defers, Body, Framed
  <2> QED
    BY <2>1, <2>2, <1>2, <1>3, PushDefer
<1>7. Walks(stack', walking')
  <2>1. Walks(t, walking)
    BY <1>1, AlikeWalks DEF GenInv
  <2> QED
    BY <2>1, <1>2, <1>3, PushWalks
<1>8. Once'
  BY <1>1, <1>2, CallOnce DEF GenInv
<1>9. SinkPart'
  <2>1. PICK v : SinkOf(stack, v) /\ SinkIs(v)
    BY DEF GenInv, SinkPart
  <2>2. SinkOf(t, v)
    BY <2>1, <1>1, AlikeParts
  <2>3. sink = v
    BY <2>1 DEF SinkIs, Returning
  <2>4. sink' = Into(e)
    BY DEF Into
  <2>5. SinkStep(e, v, sink')
    BY <2>3, <2>4, <1>2 DEF SinkStep
  <2>6. SinkOf(stack', sink')
    BY <2>2, <2>5, <1>3, PushSink
  <2>7. SinkIs(sink)'
    BY DEF SinkIs, Returning
  <2> QED
    BY <2>6, <2>7 DEF SinkPart
<1>10. Visits(stack', log')
  <2>1. Visits(t, log)
    BY <1>1, AlikeVisits DEF GenInv
  <2>2. Len(log) \in Nat
    BY DEF GenInv, Typed
  <2>3. ~Begun(stack'[Len(stack')])
    BY <1>2, <1>3
  <2>4. Len(log) <= Len(log) /\ \A k \in 1..Len(log) : log[k] = log[k]
    BY <2>2
  <2> QED
    BY <2>1, <2>2, <2>3, <2>4, <1>3, PushVisits
<1>11. FrameOf(stack', frames', frameDepth', Len(store'))
  <2>1. FrameOf(t, frames, frameDepth, Len(store))
    BY <1>1, AlikeParts DEF GenInv
  <2>2. Len(store) \in Nat
    BY DEF GenInv, Typed
  <2> QED
    BY <2>1, <2>2, <1>2, <1>3, PushUnframedOf
<1>12. Waits(stack', pending', store') /\ Unregistered(stack', pending', bodies')
  <2>1. Waits(t, pending, store) /\ Unregistered(t, pending, bodies)
    BY <1>1, AlikeWaits, AlikeUnregistered DEF GenInv
  <2>2. Waits(stack', pending, store)
    BY <2>1, <1>2, <1>3, PushModuleWaits
  <2>3. e.pc \notin Early
    BY DEF Early
  <2>4. Unregistered(stack', pending, bodies)
    BY <2>1, <2>3, <1>2, <1>3, PushModuleUnregistered
  <2> QED
    BY <2>2, <2>4
<1> QED
  BY <1>4, <1>5, <1>6, <1>7, <1>8, <1>9, <1>10, <1>11, <1>12 DEF GenInv

-----------------------------------------------------------------------------
(***************************************************************************)
(* Leaving a generator.                                                    *)
(***************************************************************************)
LEMMA PopOnce ==
  ASSUME Once, stack \in Seq(Act), stack' \in Seq(Act), Below(stack, stack'),
         UNCHANGED <<project, exc, memo, bodies, walking>>
  PROVE  Once'
<1>1. \A i \in 1..Len(stack') : i \in 1..Len(stack) /\ stack'[i] = stack[i]
  BY DEF Below
<1>2. Doomed(stack) => Doomed(stack)'
  BY <1>1 DEF Doomed
<1> QED
  BY <1>1, <1>2 DEF Once

LEMMA FireEndStep ==
  ASSUME GenInv, Typed', IsFire(Top), Below(stack, stack'),
         Len(store') = Len(store),
         \A x \in 1..Len(store) :
           /\ store'[x].serial = store[x].serial
           /\ store'[x].pending = IF x = Top.pending.frame THEN store[x].pending - 1 ELSE store[x].pending,
         PutBack(frames, frames', frameDepth, Top.previous),
         frameDepth' = IF Top.previous = 0 THEN frameDepth ELSE frameDepth - 1,
         defers' = IF Top.pending.publication THEN defers - 1 ELSE defers,
         UNCHANGED <<project, exc, ret, memo, bodies, walking, sink, log, pending>>
  PROVE  GenInv'
<1>1. stack \in Seq(Act) /\ stack' \in Seq(Act) /\ Len(stack') \in Nat /\ Len(stack) = Len(stack') + 1
  BY DEF GenInv, Typed, Below
<1>2. PICK e : e = stack[Len(stack)]
  OBVIOUS
<1>3. IsFire(e) /\ ~IsModule(e) /\ ~InBody(e) /\ ~Begun(e) /\ Taken(e) = e.previous
  BY <1>1, <1>2, KindFacts DEF Top, InBody, Begun, Taken, IsModule, IsFire
<1>4. Shape'
  <2>1. \A i \in 1..Len(stack') : i \in 1..Len(stack) /\ i < Len(stack) /\ stack'[i] = stack[i]
    BY <1>1 DEF Below
  <2>2. Returning' <=> Returning
    BY DEF Returning
  <2> QED
    BY <2>1, <2>2 DEF GenInv, Shape
<1>5. Local(stack')
  BY <1>1, PopLocal DEF GenInv
<1>6. DeferOf(stack', defers')
  <2>1. Defers(e) <=> Top.pending.publication
    BY <1>2, <1>3 DEF Defers, Top
  <2>2. (Defers(e) => DeferOf(stack', defers - 1)) /\ (~Defers(e) => DeferOf(stack', defers))
    BY <1>1, <1>2, PopDefer DEF GenInv
  <2> QED
    BY <2>1, <2>2
<1>7. Walks(stack', walking')
  BY <1>1, <1>2, <1>3, PopWalks DEF GenInv
<1>8. Once'
  BY <1>1, PopOnce DEF GenInv
<1>9. SinkPart'
  <2>1. PICK v : SinkOf(stack, v) /\ SinkIs(v)
    BY DEF GenInv, SinkPart
  <2>2. \E u : SinkOf(stack', u) /\ SinkStep(e, u, v)
    BY <2>1, <1>1, <1>2, PopSink
  <2>3. SinkOf(stack', v)
    BY <2>2, <1>3 DEF SinkStep
  <2>4. SinkIs(v)'
    BY <2>1 DEF SinkIs
  <2> QED
    BY <2>3, <2>4 DEF SinkPart
<1>10. Visits(stack', log')
  BY <1>1, <1>2, <1>3, PopFireVisits DEF GenInv
<1>11. FrameOf(stack', frames', frameDepth', Len(store'))
  <2>1. frames \in Seq(Nat) /\ frames' \in Seq(Nat) /\ Len(store) \in Nat
    BY DEF GenInv, Typed
  <2>2. Taken(e) = Top.previous
    BY <1>2, <1>3 DEF Top
  <2>3. /\ Taken(e) # 0 => FrameOf(stack', frames', frameDepth - 1, Len(store))
        /\ Taken(e) = 0 => FrameOf(stack', frames', frameDepth, Len(store))
    BY <2>1, <2>2, <1>1, <1>2, PopFrames DEF GenInv
  <2> QED
    BY <2>2, <2>3
<1>12. Waits(stack', pending', store') /\ Unregistered(stack', pending', bodies')
  <2>1. store \in Seq([serial : Nat, pending : Int]) /\ store' \in Seq([serial : Nat, pending : Int])
    BY DEF GenInv, Typed
  <2>2. Waits(stack', pending, store')
    BY <2>1, <1>1, PopFireWaits DEF GenInv, Top
  <2>3. Unregistered(stack', pending, bodies)
    BY <1>1, PopUnregistered DEF GenInv
  <2> QED
    BY <2>2, <2>3
<1> QED
  BY <1>4, <1>5, <1>6, <1>7, <1>8, <1>9, <1>10, <1>11, <1>12 DEF GenInv

-----------------------------------------------------------------------------
(***************************************************************************)
(* Sequences, and the stack.                                               *)
(***************************************************************************)
LEMMA IsSeqIn ==
  ASSUME NEW S, NEW s \in Seq(S)
  PROVE  IsSeq(s) /\ Len(s) \in Nat
BY DEF IsSeq

LEMMA IsSeqAppend ==
  ASSUME NEW s, IsSeq(s), NEW e
  PROVE  IsSeq(Append(s, e)) /\ Len(Append(s, e)) = Len(s) + 1 /\ Len(s) \in Nat
<1> DEFINE S == {s[i] : i \in 1..Len(s)} \cup {e}
<1>1. s \in Seq(S) /\ e \in S
  BY DEF IsSeq
<1> HIDE DEF S
<1>2. Append(s, e) \in Seq(S) /\ Len(Append(s, e)) = Len(s) + 1 /\ Len(s) \in Nat
  BY <1>1
<1> QED
  BY <1>2, IsSeqIn

LEMMA IsSeqExcept ==
  ASSUME NEW s, IsSeq(s), NEW t, NEW e, NEW k, t = [s EXCEPT ![k] = e]
  PROVE  IsSeq(t) /\ Len(t) = Len(s)
<1> DEFINE S == {s[i] : i \in 1..Len(s)} \cup {e}
<1>1. s \in Seq(S) /\ e \in S
  BY DEF IsSeq
<1> HIDE DEF S
<1>2. s \in [1..Len(s) -> S] /\ Len(s) \in Nat
  BY <1>1
<1>3. t \in [1..Len(s) -> S]
  BY <1>1, <1>2
<1>4. t \in Seq(S) /\ Len(t) = Len(s)
  BY <1>2, <1>3
<1> QED
  BY <1>4, IsSeqIn

LEMMA IsSeqMap ==
  ASSUME NEW s, IsSeq(s), NEW t, NEW T, t \in [DOMAIN s -> T]
  PROVE  IsSeq(t) /\ Len(t) = Len(s)
<1>2. s \in [1..Len(s) -> {s[i] : i \in 1..Len(s)}] /\ Len(s) \in Nat
  BY DEF IsSeq
<1>3. t \in [1..Len(s) -> T]
  BY <1>2
<1>4. t \in Seq(T) /\ Len(t) = Len(s)
  BY <1>2, <1>3
<1> QED
  BY <1>4, IsSeqIn

LEMMA TopFacts ==
  ASSUME NEW s, s \in Seq(Act), s # <<>>
  PROVE  /\ Len(s) \in Nat /\ Len(s) \in 1..Len(s) /\ s[Len(s)] \in Act
         /\ SubSeq(s, 1, Len(s) - 1) \in Seq(Act) /\ Below(s, SubSeq(s, 1, Len(s) - 1))
<1>1. Len(s) \in Nat /\ Len(s) \in 1..Len(s) /\ s[Len(s)] \in Act
  OBVIOUS
<1>2. PICK n : n = Len(s) - 1
  OBVIOUS
<1>3. n \in Nat /\ n + 1 = Len(s) /\ \A i \in 1..n : i \in 1..Len(s)
  BY <1>1, <1>2
<1>4. SubSeq(s, 1, n) \in Seq(Act) /\ Len(SubSeq(s, 1, n)) = n /\ \A i \in 1..n : SubSeq(s, 1, n)[i] = s[i]
  <2>1. SubSeq(s, 1, n) = [i \in 1..n |-> s[i]]
    <3>1. SubSeq(s, 1, n) = [i \in 1..(1 + n - 1) |-> s[i + 1 - 1]]
      BY <1>3
    <3>2. 1 + n - 1 = n /\ \A i \in 1..n : i + 1 - 1 = i
      BY <1>3
    <3> QED
      BY <3>1, <3>2
  <2> QED
    BY <2>1, <1>3
<1> QED
  BY <1>1, <1>2, <1>3, <1>4 DEF Below

Topped(s, t, e) == t = [s EXCEPT ![Len(s)] = e]

LEMMA ReplacedTop ==
  ASSUME NEW s, s \in Seq(Act), s # <<>>, NEW e, e \in Act, NEW t, Topped(s, t, e)
  PROVE  /\ t \in Seq(Act) /\ t[Len(t)] = e /\ Len(t) = Len(s) /\ Below(t, SubSeq(s, 1, Len(s) - 1))
         /\ \A i \in 1..Len(s) : i # Len(s) => t[i] = s[i]
<1>1. Len(s) \in Nat /\ Len(s) \in 1..Len(s)
  BY TopFacts
<1>2. t \in Seq(Act) /\ Len(t) = Len(s)
  BY <1>1 DEF Topped
<1>3. \A i \in 1..Len(s) : t[i] = IF i = Len(s) THEN e ELSE s[i]
  BY <1>1 DEF Topped
<1>4. PICK f : f = SubSeq(s, 1, Len(s) - 1)
  OBVIOUS
<1>5. Below(s, f) /\ f \in Seq(Act)
  BY <1>4, TopFacts
<1>6. \A i \in 1..Len(f) : i \in 1..Len(s) /\ i # Len(s) /\ s[i] = f[i]
  BY <1>1, <1>5 DEF Below
<1>7. Below(t, f)
  BY <1>2, <1>3, <1>5, <1>6 DEF Below
<1> QED
  BY <1>1, <1>2, <1>3, <1>4, <1>7

LEMMA AlikeTop ==
  ASSUME NEW s, s \in Seq(Act), s # <<>>, NEW e, e \in Act, AlikeAct(s[Len(s)], e),
         NEW t, Topped(s, t, e)
  PROVE  Alike(s, t)
<1>1. /\ t[Len(t)] = e /\ Len(t) = Len(s)
      /\ \A i \in 1..Len(s) : i # Len(s) => t[i] = s[i]
  BY ReplacedTop
<1>2. \A a : AlikeAct(a, a)
  BY DEF AlikeAct
<1> QED
  BY <1>1, <1>2 DEF Alike

Moved(a, pc) == [a EXCEPT !.pc = pc, !.i = 1]

LEMMA GotoFacts ==
  ASSUME NEW pc, stack \in Seq(Act), stack # <<>>
  PROVE  Goto(pc) = [stack EXCEPT ![Len(stack)] = Moved(Top, pc)]
BY TopFacts DEF Goto, Top, Moved

LEMMA AdvanceFacts ==
  ASSUME stack \in Seq(Act), stack # <<>>
  PROVE  /\ Advance \in Seq(Act) /\ Alike(stack, Advance) /\ Len(Advance) = Len(stack)
         /\ Below(Advance, Caller)
<1>1. PICK e : e = [Top EXCEPT !.i = @ + 1]
  OBVIOUS
<1>2. Advance = [stack EXCEPT ![Len(stack)] = e]
  BY <1>1, TopFacts DEF Advance, Top
<1>3. Top \in Act
  BY TopFacts DEF Top
<1>4. e \in Act /\ AlikeAct(Top, e)
  <2>1. CASE Top \in ModuleAct
    BY <2>1, <1>1, SMTT(30) DEF Act, ModuleAct, AlikeAct, IsModule, IsFire
  <2>2. CASE Top \in FireAct
    BY <2>2, <1>1 DEF Act, FireAct, AlikeAct, IsModule, IsFire
  <2> QED
    BY <2>1, <2>2, <1>3 DEF Act
<1> QED
  <2>1. Topped(stack, Advance, e)
    BY <1>2 DEF Topped
  <2> QED
    BY <2>1, <1>4, ReplacedTop, AlikeTop DEF Top, Caller

LEMMA AlikeShape ==
  ASSUME Shape, stack \in Seq(Act), stack' \in Seq(Act), Alike(stack, stack'),
         (exc' \/ Returning') => (exc \/ Returning \/ stack = <<>> \/ Nested(Top)),
         exc' => ~Returning'
  PROVE  Shape'
<1>1. Len(stack') = Len(stack) /\ Len(stack) \in Nat
  BY DEF Alike
<1>2. ASSUME NEW i \in 1..Len(stack), Nested(stack[i])
      PROVE  Nested(stack'[i])
  <2>1. stack[i] \in Act /\ AlikeAct(stack[i], stack'[i])
    BY DEF Alike
  <2>2. CASE IsFire(stack[i])
    BY <2>1, <2>2 DEF AlikeAct, Nested, IsFire
  <2>3. CASE ~IsFire(stack[i])
    <3>1. IsModule(stack[i])
      BY <2>1, <2>3, KindFacts DEF IsModule, IsFire
    <3>2. stack[i].pc \in Body
      BY <1>2, <2>3 DEF Nested
    <3>3. stack'[i].pc \in Body
      BY <2>1, <3>1, <3>2 DEF AlikeAct
    <3> QED
      BY <3>3 DEF Nested
  <2> QED
    BY <2>2, <2>3
<1>3. ASSUME NEW i \in 1..Len(stack), i < Len(stack) \/ exc' \/ Returning'
      PROVE  Nested(stack[i])
  <2>1. i < Len(stack) => Nested(stack[i])
    BY DEF Shape
  <2>2. exc \/ Returning => Nested(stack[i])
    BY DEF Shape
  <2>3. i = Len(stack) \/ i < Len(stack)
    BY <1>1
  <2>4. i = Len(stack) /\ Nested(Top) => Nested(stack[i])
    BY DEF Top
  <2>5. stack # <<>>
    BY <1>1
  <2> QED
    BY <1>3, <2>1, <2>2, <2>3, <2>4, <2>5
<1> QED
  BY <1>1, <1>2, <1>3 DEF Shape

LEMMA CalmStep ==
  ASSUME GenInv, Typed', Alike(stack, stack'),
         exc => exc' /\ stack' = stack,
         (exc' \/ Returning') => (exc \/ Returning \/ stack = <<>> \/ Nested(Top)),
         exc' => ~Returning',
         \A v : SinkIs(v) => SinkIs(v)',
         UNCHANGED <<project, memo, bodies, walking, defers, frames, frameDepth, log, pending, store>>
  PROVE  GenInv'
<1>1. Shape'
  BY AlikeShape DEF GenInv, Typed
<1>2. Visits(stack, log') /\ Waits(stack, pending', store') /\ Unregistered(stack', pending', bodies')
  BY AlikeUnregistered DEF GenInv, Typed
<1>3. Len(store') = Len(store)
  OBVIOUS
<1> QED
  BY <1>1, <1>2, <1>3, QuietStep

LEMMA LinkSeq ==
  ASSUME NEW ws, IsSeq(ws), NEW w, NEW d
  PROVE  IsSeq(Link(ws, w, d))
<1>1. [ws EXCEPT ![w].dependencies = @ \cup {d}]
        = [ws EXCEPT ![w] = [ws[w] EXCEPT !.dependencies = ws[w].dependencies \cup {d}]]
  OBVIOUS
<1> QED
  BY <1>1, IsSeqExcept DEF Link

LEMMA OnWarnSeq ==
  ASSUME NEW ws, IsSeq(ws), NEW w, NEW by, OnWarn(ws, w, by)
  PROVE  IsSeq(warnings')
<1>1. [ws EXCEPT ![sink].own = @ \cup {w}]
        = [ws EXCEPT ![sink] = [ws[sink] EXCEPT !.own = ws[sink].own \cup {w}]]
  OBVIOUS
<1> QED
  BY <1>1, IsSeqExcept DEF OnWarn

LEMMA ReportSeq ==
  ASSUME NEW w, NEW fails \in BOOLEAN, IsSeq(warnings), Report(w, fails)
  PROVE  IsSeq(warnings') /\ exc' \in BOOLEAN
<1>1. PICK visited, lines : /\ warnings' = [v \in DOMAIN warnings |->
                                             [warnings[v] EXCEPT !.reported = @ \/ v \in visited]]
                            /\ exc' = (fails \/ (~project.keepGoing /\ \E l \in lines : Fatal(l)))
  BY DEF Report
<1>2. PICK T : T = {warnings'[v] : v \in DOMAIN warnings}
  OBVIOUS
<1>3. warnings' \in [DOMAIN warnings -> T]
  BY <1>1, <1>2
<1> QED
  BY <1>1, <1>3, IsSeqMap

LEMMA ConsumeSeq ==
  ASSUME NEW w, NEW fails \in BOOLEAN, IsSeq(warnings), Consume(w, fails)
  PROVE  IsSeq(warnings') /\ exc' \in BOOLEAN
<1>1. CASE sink # 0
  BY <1>1, LinkSeq DEF Consume
<1>2. CASE sink = 0 /\ defers = 0
  BY <1>2, ReportSeq DEF Consume
<1>3. CASE sink = 0 /\ defers # 0
  BY <1>3 DEF Consume
<1> QED
  BY <1>1, <1>2, <1>3

-----------------------------------------------------------------------------
(***************************************************************************)
(* One lemma for every action: those that take an answer, and the end.     *)
(***************************************************************************)
LEMMA AlikeItself ==
  ASSUME NEW s \in Seq(Act)
  PROVE  Alike(s, s)
BY DEF Alike, AlikeAct

LEMMA NobodyAnswers == NoAnswer.via = "nobody" /\ NoAnswer.outer = 0
BY DEF NoAnswer

LEMMA PeerReturnsKeeps ==
  ASSUME GenInv, PeerReturns
  PROVE  GenInv'
<1>1. IsSeq(warnings') /\ exc' \in BOOLEAN
  BY ConsumeSeq DEF GenInv, Typed, PeerReturns
<1>2. Typed'
  BY <1>1, NobodyAnswers DEF GenInv, Typed, PeerReturns, memos, nesting, frameVs, export
<1>3. Alike(stack, stack')
  BY AlikeItself DEF GenInv, Typed, PeerReturns
<1>4. Returning /\ ~exc /\ ~Returning'
  BY NobodyAnswers DEF PeerReturns, Returning
<1>5. \A v : SinkIs(v) => SinkIs(v)'
  BY NobodyAnswers DEF PeerReturns, SinkIs
<1>6. UNCHANGED <<project, memo, bodies, walking, defers, frames, frameDepth, log, pending, store>>
  BY DEF PeerReturns, memos, nesting, frameVs, export
<1> QED
  BY <1>2, <1>3, <1>4, <1>5, <1>6, CalmStep

LEMMA ToolReturnsKeeps ==
  ASSUME GenInv, ToolReturns
  PROVE  GenInv'
<1>1. IsSeq(warnings') /\ exc' \in BOOLEAN
  <2>1. PICK fails : fails = ~(ret.res # 0 /\ results[ret.res].output)
    OBVIOUS
  <2>2. Consume(Deferred(ret.res), fails) /\ fails \in BOOLEAN
    BY <2>1 DEF ToolReturns
  <2> QED
    BY <2>2, ConsumeSeq DEF GenInv, Typed
<1>2. Typed'
  BY <1>1, NobodyAnswers DEF GenInv, Typed, ToolReturns, nesting, frameVs, export
<1>3. Alike(stack, stack')
  BY AlikeItself DEF GenInv, Typed, ToolReturns
<1>4. Returning /\ ~exc /\ ~Returning'
  BY NobodyAnswers DEF ToolReturns, Returning
<1>5. \A v : SinkIs(v) => SinkIs(v)'
  BY NobodyAnswers DEF ToolReturns, SinkIs
<1>6. UNCHANGED <<project, memo, bodies, walking, defers, frames, frameDepth, log, pending, store>>
  BY DEF ToolReturns, nesting, frameVs, export
<1> QED
  BY <1>2, <1>3, <1>4, <1>5, <1>6, CalmStep

LEMMA SiblingReturnsKeeps ==
  ASSUME GenInv, SiblingReturns
  PROVE  GenInv'
<1>2. Typed'
  BY NobodyAnswers DEF GenInv, Typed, SiblingReturns, memos, nesting, frameVs, export, history
<1>3. Alike(stack, stack') /\ stack' = stack
  BY AlikeItself DEF GenInv, Typed, SiblingReturns
<1>4. Returning /\ ~Returning' /\ exc' = exc
  BY NobodyAnswers DEF SiblingReturns, Returning
<1>5. \A v : SinkIs(v) => SinkIs(v)'
  BY NobodyAnswers DEF SiblingReturns, SinkIs
<1>6. UNCHANGED <<project, memo, bodies, walking, defers, frames, frameDepth, log, pending, store>>
  BY DEF SiblingReturns, memos, nesting, frameVs, export, history
<1> QED
  BY <1>2, <1>3, <1>4, <1>5, <1>6, CalmStep

LEMMA TargetReturnsKeeps ==
  ASSUME GenInv, TargetReturns
  PROVE  GenInv'
<1>2. Typed'
  BY NobodyAnswers DEF GenInv, Typed, TargetReturns, memos, nesting, warns, frameVs, export, history
<1>3. Alike(stack, stack') /\ stack' = stack
  BY AlikeItself DEF GenInv, Typed, TargetReturns
<1>4. Returning /\ ~Returning' /\ exc' = exc
  BY NobodyAnswers DEF TargetReturns, Returning
<1>5. \A v : SinkIs(v) => SinkIs(v)'
  BY NobodyAnswers DEF TargetReturns, SinkIs, warns
<1>6. UNCHANGED <<project, memo, bodies, walking, defers, frames, frameDepth, log, pending, store>>
  BY DEF TargetReturns, memos, nesting, frameVs, export, history
<1> QED
  BY <1>2, <1>3, <1>4, <1>5, <1>6, CalmStep

LEMMA EndKeeps ==
  ASSUME GenInv, End
  PROVE  GenInv'
<1>2. Typed'
  BY DEF GenInv, Typed, End, memos, nesting, warns, frameVs, export, history
<1>3. Alike(stack, stack') /\ stack' = stack /\ stack = <<>>
  BY AlikeItself DEF GenInv, Typed, End
<1>4. ~Returning' /\ exc' = exc
  BY DEF End, Returning
<1>5. \A v : SinkIs(v) => SinkIs(v)'
  BY DEF End, SinkIs, warns
<1>6. UNCHANGED <<project, memo, bodies, walking, defers, frames, frameDepth, log, pending, store>>
  BY DEF End, memos, nesting, frameVs, export, history
<1> QED
  BY <1>2, <1>3, <1>4, <1>5, <1>6, CalmStep

LEMMA StutterKeeps ==
  ASSUME GenInv, UNCHANGED vars
  PROVE  GenInv'
<1>2. Typed'
  BY DEF GenInv, Typed, vars, control, memos, nesting, warns, frameVs, export, history
<1>3. Alike(stack, stack') /\ stack' = stack
  BY AlikeItself DEF GenInv, Typed, vars
<1>4. (Returning' <=> Returning) /\ (exc' <=> exc) /\ (exc => ~Returning)
  BY DEF GenInv, Shape, vars, control, Returning
<1>5. \A v : SinkIs(v) => SinkIs(v)'
  BY DEF vars, control, SinkIs, warns
<1>6. UNCHANGED <<project, memo, bodies, walking, defers, frames, frameDepth, log, pending, store>>
  BY DEF vars, control, memos, nesting, frameVs, export, history
<1> QED
  BY <1>2, <1>3, <1>4, <1>5, <1>6, CalmStep

-----------------------------------------------------------------------------
(***************************************************************************)
(* Actions that move the top on.                                           *)
(***************************************************************************)
LEMMA AtFacts ==
  ASSUME GenInv, NEW pc, At(pc)
  PROVE  /\ exit = "no" /\ ~exc /\ ~Returning /\ stack \in Seq(Act) /\ stack # <<>>
         /\ Top \in Act /\ Top.pc = pc /\ Top.m \in Module /\ Top.i \in Nat \ {0}
         /\ pc \in {"tools", "uses", "fired"} \/ Top \in ModuleAct
         /\ Top \in ModuleAct <=> IsModule(Top)
         /\ Top \in FireAct <=> IsFire(Top)
         /\ pc \in Body => Nested(Top)
<1>1. stack \in Seq(Act) /\ stack # <<>>
  BY DEF GenInv, Typed, At
<1>2. Top \in Act
  BY <1>1, TopFacts DEF Top
<1>3. exit = "no" /\ ~exc /\ ~Returning /\ Top.pc = pc
  BY DEF At
<1>4. pc \in Body => Nested(Top)
  BY <1>3 DEF Nested
<1> QED
  BY <1>1, <1>2, <1>3, <1>4 DEF Act, ModuleAct, FireAct, IsModule, IsFire

Same(a, e) ==
  /\ e.kind = a.kind /\ e.m = a.m /\ e.demand = a.demand /\ e.via = a.via
  /\ e.deferred = a.deferred /\ e.warnings = a.warnings /\ e.parent = a.parent
  /\ e.outer = a.outer /\ e.at = a.at

LEMMA MovedModule ==
  ASSUME NEW a, a \in ModuleAct, NEW pc, pc \in Body \/ pc = "leave"
  PROVE  /\ Moved(a, pc) \in ModuleAct /\ Moved(a, pc).pc = pc /\ Same(a, Moved(a, pc))
         /\ Moved(a, pc).frame = a.frame /\ Moved(a, pc).res = a.res
<1>1. PICK b : b = [a EXCEPT !.pc = pc]
  OBVIOUS
<1>2. PICK e : e = [b EXCEPT !.i = 1]
  OBVIOUS
<1>3. b \in ModuleAct /\ b.pc = pc /\ Same(a, b) /\ b.frame = a.frame /\ b.res = a.res
  BY <1>1 DEF ModuleAct, Same
<1>4. e \in ModuleAct /\ e.pc = pc /\ Same(b, e) /\ e.frame = b.frame /\ e.res = b.res
  BY <1>2, <1>3 DEF ModuleAct, Same
<1>5. Moved(a, pc) = e
  BY <1>1, <1>2 DEF Moved
<1> QED
  BY <1>3, <1>4, <1>5 DEF Same

LEMMA MovedFire ==
  ASSUME NEW a, a \in FireAct, NEW pc, pc \in {"uses", "fired"}
  PROVE  /\ Moved(a, pc) \in FireAct /\ Moved(a, pc).pc = pc
         /\ Moved(a, pc).kind = a.kind /\ Moved(a, pc).m = a.m
         /\ Moved(a, pc).pending = a.pending /\ Moved(a, pc).previous = a.previous
<1>1. PICK b : b = [a EXCEPT !.pc = pc]
  OBVIOUS
<1>2. Moved(a, pc) = [b EXCEPT !.i = 1]
  BY <1>1 DEF Moved
<1>3. /\ b \in FireAct /\ b.pc = pc
      /\ b.kind = a.kind /\ b.m = a.m /\ b.pending = a.pending /\ b.previous = a.previous
  BY <1>1 DEF FireAct
<1> QED
  BY <1>2, <1>3 DEF FireAct

LEMMA AlikeGoto ==
  ASSUME stack \in Seq(Act), stack # <<>>, NEW pc,
         IsModule(Top) => /\ pc \in Body /\ Top.pc \in Body /\ pc # "after"
                          /\ pc \in Framed <=> Top.pc \in Framed
                          /\ pc \in Early => Top.pc \in Early,
         IsFire(Top) => pc \in {"uses", "fired"}
  PROVE  Goto(pc) \in Seq(Act) /\ Alike(stack, Goto(pc))
<1>2. Top \in Act
  BY TopFacts DEF Top
<1>3. Moved(Top, pc) \in Act /\ AlikeAct(Top, Moved(Top, pc))
  <2>1. CASE IsModule(Top)
    <3>1. Top \in ModuleAct
      BY <2>1, <1>2, KindFacts
    <3>2. /\ Moved(Top, pc) \in ModuleAct /\ Moved(Top, pc).pc = pc /\ Same(Top, Moved(Top, pc))
          /\ Moved(Top, pc).frame = Top.frame /\ Moved(Top, pc).res = Top.res
      BY <2>1, <3>1, MovedModule
    <3>4. pc # "enter" /\ Top.pc # "enter"
      BY <2>1 DEF Body, Framed
    <3>5. ~IsFire(Top)
      BY <2>1 DEF IsModule, IsFire
    <3> QED
      BY <2>1, <3>2, <3>4, <3>5 DEF Act, AlikeAct, Same
  <2>2. CASE IsFire(Top)
    <3>1. Top \in FireAct /\ ~IsModule(Top)
      BY <2>2, <1>2, KindFacts
    <3>2. /\ Moved(Top, pc) \in FireAct /\ Moved(Top, pc).kind = Top.kind /\ Moved(Top, pc).m = Top.m
          /\ Moved(Top, pc).pending = Top.pending /\ Moved(Top, pc).previous = Top.previous
      BY <2>2, <3>1, MovedFire
    <3> QED
      BY <3>1, <3>2 DEF Act, AlikeAct
  <2> QED
    BY <2>1, <2>2, <1>2, KindFacts DEF IsModule, IsFire
<1>4. Goto(pc) = [stack EXCEPT ![Len(stack)] = Moved(Top, pc)]
  BY GotoFacts
<1> QED
  <2>1. Topped(stack, Goto(pc), Moved(Top, pc))
    BY <1>4 DEF Topped
  <2> QED
    BY <2>1, <1>3, ReplacedTop, AlikeTop DEF Top

LEMMA NextPhaseKeeps ==
  ASSUME GenInv, NextPhase
  PROVE  GenInv'
<1>1. PICK pc, to : /\ At(pc) /\ stack' = Goto(to)
                    /\ \/ /\ <<pc, to>> \in {<<"before", "read">>, <<"peers", "tools">>,
                                             <<"tools", "register">>, <<"uses", "finish">>}
                          /\ pc \in {"tools", "uses"} => IsModule(Top)
                       \/ pc = "tools" /\ to = "uses" /\ IsFire(Top)
  BY DEF NextPhase, IsModule, IsFire
<1>2. /\ ~exc /\ ~Returning /\ stack \in Seq(Act) /\ stack # <<>> /\ Top \in Act /\ Top.pc = pc
      /\ pc \in {"tools", "uses", "fired"} \/ IsModule(Top)
  BY <1>1, AtFacts
<1>3. /\ IsModule(Top) => /\ pc \in Body /\ to \in Body /\ to # "after"
                          /\ to \in Framed <=> pc \in Framed
                          /\ to \in Early => pc \in Early
      /\ IsFire(Top) => to \in {"uses", "fired"}
  <2>1. ~(IsModule(Top) /\ IsFire(Top))
    BY DEF IsModule, IsFire
  <2> QED
    BY <1>1, <1>2, <2>1 DEF Body, Framed, Early
<1>4. stack' \in Seq(Act) /\ Alike(stack, stack')
  BY <1>1, <1>2, <1>3, AlikeGoto
<1>5. Typed'
  BY <1>4 DEF GenInv, Typed, NextPhase, control, memos, nesting, warns, frameVs, export, history
<1>6. ~Returning' /\ ~exc'
  BY <1>2 DEF NextPhase, control, Returning
<1>7. \A v : SinkIs(v) => SinkIs(v)'
  BY DEF NextPhase, control, SinkIs, warns
<1>8. UNCHANGED <<project, memo, bodies, walking, defers, frames, frameDepth, log, pending, store>>
  BY DEF NextPhase, control, memos, nesting, frameVs, export, history
<1> QED
  BY <1>2, <1>4, <1>5, <1>6, <1>7, <1>8, CalmStep

LEMMA FinishThrowsKeeps ==
  ASSUME GenInv, FinishModule, project.throw[Top.m] = "emitting"
  PROVE  GenInv'
<1>1. ~exc /\ ~Returning /\ stack \in Seq(Act) /\ Nested(Top)
  BY AtFacts DEF FinishModule, Body, Framed
<1>2. stack' = stack /\ exc' = TRUE
  BY DEF FinishModule
<1>3. Alike(stack, stack')
  BY <1>1, <1>2, AlikeItself
<1>4. Typed'
  BY <1>2 DEF GenInv, Typed, FinishModule, nesting, warns, history
<1>5. ~Returning'
  BY <1>1 DEF FinishModule, Returning
<1>6. \A v : SinkIs(v) => SinkIs(v)'
  BY DEF FinishModule, SinkIs, warns
<1>7. UNCHANGED <<project, memo, bodies, walking, defers, frames, frameDepth, log, pending, store>>
  BY DEF FinishModule, nesting, history
<1> QED
  BY <1>1, <1>3, <1>4, <1>5, <1>6, <1>7, CalmStep

LEMMA GenAfterSkipsKeeps ==
  ASSUME GenInv, GenAfter, More(project.after[Top.m]), project.after[Top.m][Top.i] \in walking
  PROVE  GenInv'
<1>1. ~exc /\ ~Returning /\ stack \in Seq(Act) /\ stack # <<>>
  BY AtFacts DEF GenAfter
<1>2. stack' = Advance /\ UNCHANGED <<walking, defers, sink>>
  BY DEF GenAfter
<1>3. stack' \in Seq(Act) /\ Alike(stack, stack')
  BY <1>1, <1>2, AdvanceFacts
<1>4. Typed'
  BY <1>2, <1>3 DEF GenInv, Typed, GenAfter, control, memos, frameVs, export
<1>5. ~Returning' /\ ~exc'
  BY <1>1 DEF GenAfter, control, Returning
<1>6. \A v : SinkIs(v) => SinkIs(v)'
  BY <1>2 DEF GenAfter, control, SinkIs
<1>7. UNCHANGED <<project, memo, bodies, walking, defers, frames, frameDepth, log, pending, store>>
  BY <1>2 DEF GenAfter, control, memos, frameVs, export
<1> QED
  BY <1>1, <1>3, <1>4, <1>5, <1>6, <1>7, CalmStep

LEMMA UseFilePlainKeeps ==
  ASSUME GenInv, UseFile, pending[Reads[Top.i]] = Nil
  PROVE  GenInv'
<1>1. ~exc /\ ~Returning /\ stack \in Seq(Act) /\ stack # <<>>
  BY AtFacts DEF UseFile
<1>2. stack' = Advance /\ UNCHANGED <<pending, defers, frameVs>>
  BY DEF UseFile
<1>3. stack' \in Seq(Act) /\ Alike(stack, stack')
  BY <1>1, <1>2, AdvanceFacts
<1>4. Typed'
  BY <1>2, <1>3 DEF GenInv, Typed, UseFile, control, memos, warns, frameVs, export, history
<1>5. ~Returning' /\ ~exc'
  BY <1>1 DEF UseFile, control, Returning
<1>6. \A v : SinkIs(v) => SinkIs(v)'
  BY DEF UseFile, control, SinkIs, warns
<1>7. UNCHANGED <<project, memo, bodies, walking, defers, frames, frameDepth, log, pending, store>>
  BY <1>2 DEF UseFile, control, memos, frameVs, export, history
<1> QED
  BY <1>1, <1>3, <1>4, <1>5, <1>6, <1>7, CalmStep

LEMMA AnswerFacts ==
  ASSUME NEW m, NEW res, NEW via
  PROVE  Answer(m, res, via).via = via /\ Answer(m, res, via).outer = sink
BY DEF Answer

LEMMA ToolKnownKeeps ==
  ASSUME GenInv, ToolResult, Asks[Top.i] \in toolCache
  PROVE  GenInv'
<1>1. ~exc /\ ~Returning /\ stack \in Seq(Act) /\ stack # <<>> /\ Nested(Top)
  BY AtFacts DEF ToolResult, Body, Framed
<1>2. stack' = Advance /\ \E m, res : ret' = Answer(m, res, "tool")
  BY DEF ToolResult
<1>3. stack' \in Seq(Act) /\ Alike(stack, stack')
  BY <1>1, <1>2, AdvanceFacts
<1>4. ret'.via = "tool" /\ ret'.outer = sink
  BY <1>2, AnswerFacts
<1>5. Typed'
  BY <1>3, <1>4 DEF GenInv, Typed, Via, ToolResult, memos, nesting, warns, frameVs, export, history
<1>6. exc' = exc /\ sink' = sink
  BY DEF ToolResult, warns
<1>7. \A v : SinkIs(v) => SinkIs(v)'
  BY <1>1, <1>4, <1>6 DEF SinkIs, Returning
<1>8. UNCHANGED <<project, memo, bodies, walking, defers, frames, frameDepth, log, pending, store>>
  BY DEF ToolResult, memos, nesting, frameVs, export, history
<1> QED
  BY <1>1, <1>3, <1>5, <1>6, <1>7, <1>8, CalmStep

LEMMA RequestFailsFacts ==
  ASSUME Typed, ~exc, ~Returning, NEW key, RequestFails(key)
  PROVE  /\ IsSeq(warnings') /\ IsSeq(results') /\ exc' \in BOOLEAN
         /\ ret' = ret \/ \E res : ret' = Answer(key, res, "peer")
         /\ exc' => ~Returning'
<1>1. PICK late, own, id :
        IF ~late /\ ~project.keepGoing
        THEN exc' = TRUE /\ UNCHANGED <<ret, results, warnings>>
        ELSE /\ \E new : results' = Append(results, new)
             /\ ret' = Answer(key, Len(results) + 1, "peer")
             /\ IF late THEN warnings' = Link(Append(warnings, own), sink, id)
                ELSE OnWarn(warnings, Failed(key[1]), key)
             /\ UNCHANGED exc
  BY DEF RequestFails
<1>2. CASE ~late /\ ~project.keepGoing
  BY <1>1, <1>2 DEF Typed, Returning
<1>3. CASE ~(~late /\ ~project.keepGoing)
  <2>1. IsSeq(results')
    BY <1>1, <1>3, IsSeqAppend DEF Typed
  <2>2. IsSeq(warnings')
    <3>1. IsSeq(Append(warnings, own))
      BY IsSeqAppend DEF Typed
    <3>2. IsSeq(Link(Append(warnings, own), sink, id))
      BY <3>1, LinkSeq
    <3>3. OnWarn(warnings, Failed(key[1]), key) => IsSeq(warnings')
      BY OnWarnSeq DEF Typed
    <3> QED
      BY <1>1, <1>3, <3>2, <3>3
  <2> QED
    BY <1>1, <1>3, <2>1, <2>2 DEF Typed
<1> QED
  BY <1>2, <1>3

LEMMA RequestAgainFacts ==
  ASSUME Typed, ~exc, ~Returning, NEW key, RequestAgain(key)
  PROVE  /\ IsSeq(warnings') /\ IsSeq(results') /\ exc' \in BOOLEAN
         /\ ret' = NoAnswer \/ \E res : ret' = Answer(key, res, "peer")
         /\ exc' => ~Returning'
<1>1. PICK w, res :
        /\ IF PeerDemand # "none" THEN Consume(w, FALSE)
           ELSE warnings' = Link(warnings, sink, w) /\ UNCHANGED exc
        /\ ret' = IF exc' THEN NoAnswer ELSE Answer(key, res, "peer")
        /\ UNCHANGED results
  BY DEF RequestAgain
<1>2. IsSeq(warnings') /\ exc' \in BOOLEAN
  <2>1. IsSeq(warnings) /\ FALSE \in BOOLEAN /\ exc \in BOOLEAN
    BY DEF Typed
  <2>2. CASE PeerDemand # "none"
    BY <2>1, <2>2, <1>1, ConsumeSeq
  <2>3. CASE PeerDemand = "none"
    BY <2>1, <2>3, <1>1, LinkSeq
  <2> QED
    BY <2>2, <2>3
<1>3. exc' => ~Returning'
  BY <1>1, NobodyAnswers DEF Returning
<1> QED
  BY <1>1, <1>2, <1>3 DEF Typed

LEMMA GenPeerBrokenKeeps ==
  ASSUME GenInv, GenPeer, project.peers[Top.m][Top.i] \in project.broken
  PROVE  GenInv'
<1>1. ~exc /\ ~Returning /\ stack \in Seq(Act) /\ stack # <<>> /\ Nested(Top)
  BY AtFacts DEF GenPeer, Body, Framed
<1>2. stack' = Advance /\ \E key : RequestFails(key) \/ RequestAgain(key)
  BY DEF GenPeer
<1>3. stack' \in Seq(Act) /\ Alike(stack, stack')
  BY <1>1, <1>2, AdvanceFacts
<1>4. /\ IsSeq(warnings') /\ IsSeq(results') /\ exc' \in BOOLEAN
      /\ ret' = ret \/ ret' = NoAnswer \/ \E key, res : ret' = Answer(key, res, "peer")
      /\ exc' => ~Returning'
  BY <1>1, <1>2, RequestFailsFacts, RequestAgainFacts DEF GenInv
<1>5. /\ ret'.via \in Via \cup {"nobody"} /\ ret'.outer \in Nat /\ ret'.via # "sibling"
      /\ ret.via # "sibling"
  BY <1>1, <1>4, NobodyAnswers, AnswerFacts DEF GenInv, Typed, Via, Returning
<1>6. Typed'
  BY <1>3, <1>4, <1>5 DEF GenInv, Typed, GenPeer, nesting, frameVs, export, history
<1>7. \A v : SinkIs(v) => SinkIs(v)'
  BY <1>5 DEF SinkIs, GenPeer
<1>8. UNCHANGED <<project, memo, bodies, walking, defers, frames, frameDepth, log, pending, store>>
  BY DEF GenPeer, nesting, frameVs, export, history
<1> QED
  BY <1>1, <1>3, <1>4, <1>6, <1>7, <1>8, CalmStep

LogEntry == [step : {"visit", "use", "publish"}, module : Nat, end : Nat]

(* The log l2 goes on from l with entries that have their end.             *)
Extends(l, l2) ==
  /\ Len(l) \in Nat /\ Len(l2) \in Nat /\ Len(l) <= Len(l2)
  /\ \A k \in 1..Len(l) : l2[k] = l[k]
  /\ \A k \in 1..Len(l2) : k \in 1..Len(l) \/ l2[k].end > k

LEMMA ExtendVisits ==
  ASSUME NEW s, NEW l, NEW l2, Visits(s, l), Extends(l, l2)
  PROVE  Visits(s, l2)
<1>1. \A k \in 1..Len(l) : k \in 1..Len(l2)
  BY DEF Extends
<1> QED
  BY <1>1 DEF Visits, Extends

LEMMA LogExtends ==
  ASSUME log \in Seq(LogEntry), NEW step, step \in {"use", "publish"}, NEW res, res \in Nat, LogExport(step, res)
  PROVE  log' \in Seq(LogEntry) /\ Extends(log, log') /\ Len(log') = Len(log) + 1
<1>1. PICK e : e = Entry(step, res, Len(log) + 2)
  OBVIOUS
<1>2. e \in LogEntry /\ e.end = Len(log) + 2 /\ Len(log) \in Nat
  BY <1>1 DEF Entry, LogEntry
<1>3. log' = Append(log, e)
  BY <1>1 DEF LogExport
<1>4. /\ log' \in Seq(LogEntry) /\ Len(log') = Len(log) + 1 /\ log'[Len(log) + 1] = e
      /\ \A k \in 1..Len(log) : log'[k] = log[k]
  BY <1>2, <1>3, AppendProperties
<1>5. \A k \in 1..Len(log') : k \in 1..Len(log) \/ k = Len(log) + 1
  BY <1>2, <1>4
<1>6. log'[Len(log) + 1].end > Len(log) + 1
  BY <1>2, <1>4
<1> QED
  BY <1>2, <1>4, <1>5, <1>6 DEF Extends

LEMMA ExtendsItself ==
  ASSUME NEW l \in Seq(LogEntry)
  PROVE  Extends(l, l)
BY DEF Extends

LEMMA RunGeneratorKeeps ==
  ASSUME GenInv, RunGenerator
  PROVE  GenInv'
<1>1. /\ ~exc /\ ~Returning /\ stack \in Seq(Act) /\ stack # <<>> /\ Nested(Top)
      /\ IsFire(Top) /\ ~IsModule(Top)
  BY AtFacts DEF RunGenerator, Body, Framed, IsFire, IsModule
<1>2. stack' \in Seq(Act) /\ Alike(stack, stack')
  BY <1>1, AlikeGoto DEF RunGenerator
<1>3. IsSeq(warnings')
  <2>1. (\E w, by : OnWarn(warnings, w, by)) \/ warnings' = warnings
    BY DEF RunGenerator
  <2> QED
    BY <2>1, OnWarnSeq DEF GenInv, Typed
<1>4. log' \in Seq(LogEntry) /\ Extends(log, log')
  <2>1. log \in Seq(LogEntry)
    BY DEF GenInv, Typed, LogEntry
  <2>2. LogExport("use", 0) \/ log' = log
    BY DEF RunGenerator
  <2>3. ASSUME LogExport("use", 0)
        PROVE  log' \in Seq(LogEntry) /\ Extends(log, log')
    <3>1. "use" \in {"use", "publish"} /\ 0 \in Nat
      OBVIOUS
    <3> QED
      BY <2>1, <2>3, <3>1, LogExtends
  <2>4. Extends(log, log)
    BY <2>1, ExtendsItself
  <2> QED
    BY <2>1, <2>2, <2>3, <2>4
<1>5. exc' \in BOOLEAN /\ ret' = ret /\ ~Returning'
  BY <1>1 DEF RunGenerator, Returning
<1>6. Typed'
  BY <1>2, <1>3, <1>4, <1>5 DEF GenInv, Typed, LogEntry, RunGenerator, memos, nesting, frameVs, history
<1>7. Shape'
  BY <1>1, <1>2, <1>5, AlikeShape DEF GenInv
<1>8. \A v : SinkIs(v) => SinkIs(v)'
  BY <1>5 DEF RunGenerator, SinkIs
<1>9. UNCHANGED <<project, memo, bodies, walking, defers, frames, frameDepth>>
  BY DEF RunGenerator, memos, nesting, frameVs, history
<1>10. store' = store /\ pending' = pending /\ bodies' = bodies
  BY DEF RunGenerator, frameVs, history
<1>11. Visits(stack, log')
  BY <1>4, ExtendVisits DEF GenInv
<1>12. /\ Waits(stack, pending', store') /\ Unregistered(stack', pending', bodies')
       /\ Len(store') = Len(store)
  BY <1>1, <1>2, <1>10, AlikeUnregistered DEF GenInv
<1> QED
  BY <1>1, <1>2, <1>6, <1>7, <1>8, <1>9, <1>11, <1>12, QuietStep

(* What a registration counts.                                             *)
LEMMA RegisterKeeps ==
  ASSUME GenInv, Register
  PROVE  GenInv'
<1>1. /\ ~exc /\ ~Returning /\ stack \in Seq(Act) /\ stack # <<>> /\ Top.pc = "register"
      /\ IsModule(Top) /\ ~IsFire(Top) /\ Top \in ModuleAct /\ Top.m \in Module
  BY AtFacts DEF Register, IsModule, IsFire, ModuleAct
<1>2. stack' \in Seq(Act) /\ Alike(stack, stack')
  <2>1. "uses" \in Body /\ "register" \in Body /\ "uses" \in Framed /\ "register" \in Framed /\ "uses" \notin Early
    BY DEF Body, Framed, Early
  <2> QED
    BY <2>1, <1>1, AlikeGoto DEF Register
<1>3. Len(stack) \in 1..Len(stack) /\ Top = stack[Len(stack)]
  BY <1>1, TopFacts DEF Top
<1>4. pending[Top.m] = Nil /\ ~Firing(stack, Top.m)
  <2>1. Top.pc \in Early
    BY <1>1 DEF Early
  <2> QED
    BY <2>1, <1>1, <1>3 DEF GenInv, Unregistered
<1>5. Top.frame \in 1..Len(store)
  <2>1. Top.frame # 0
    BY <1>1, <1>3 DEF GenInv, Local, Framed
  <2>2. Taken(Top) \in 0..Len(store) /\ Taken(Top) = Top.frame
    BY <1>1, <1>3 DEF GenInv, FrameOf, Apart, Taken
  <2>3. Top.frame \in Nat /\ Len(store) \in Nat
    BY <1>1 DEF ModuleAct, GenInv, Typed
  <2> QED
    BY <2>1, <2>2, <2>3
<1>6. PICK st : st = [serial : Nat, pending : Int]
  OBVIOUS
<1>7. store \in Seq(st)
  BY <1>6 DEF GenInv, Typed
<1>8. store[Top.frame] \in st /\ store[Top.frame].serial \in Nat /\ store[Top.frame].pending \in Int
  <2>1. store[Top.frame] \in st
    BY <1>5, <1>7
  <2> QED
    BY <2>1, <1>6
<1>9. /\ pending' \in [Module -> Pending \cup {Nil}] /\ store' \in Seq(st) /\ Len(store') = Len(store)
      /\ Waits(stack, pending', store')
      /\ \A o \in Module : o # Top.m => pending'[o] = pending[o]
  <2>1. CASE Top.m \in project.gen
    <3>1. PICK p : p = [frame |-> Top.frame, serial |-> store[Top.frame].serial, publication |-> defers > 0]
      OBVIOUS
    <3>2. p \in Pending /\ p.frame = Top.frame /\ p.serial = store[Top.frame].serial /\ p # Nil
      <4>1. Top.frame \in Nat /\ (defers > 0) \in BOOLEAN
        BY <1>1 DEF ModuleAct
      <4>2. p \in Pending /\ p.frame = Top.frame /\ p.serial = store[Top.frame].serial
        BY <4>1, <3>1, <1>8 DEF Pending
      <4> QED
        BY <4>2, NilAssumption
    <3>3. pending' = [pending EXCEPT ![Top.m] = p]
      BY <2>1, <3>1 DEF Register
    <3>4. pending \in [Module -> Pending \cup {Nil}]
      BY DEF GenInv, Typed
    <3>5. /\ pending' \in [Module -> Pending \cup {Nil}] /\ pending'[Top.m] = p
          /\ \A o \in Module : o # Top.m => pending'[o] = pending[o]
      BY <3>2, <3>3, <3>4, <1>1
    <3>6. PICK e : e = [store[Top.frame] EXCEPT !.pending = store[Top.frame].pending + 1]
      OBVIOUS
    <3>7. e \in st /\ e.serial = store[Top.frame].serial /\ e.pending = store[Top.frame].pending + 1
      BY <3>6, <1>6, <1>8
    <3>8. store' = [store EXCEPT ![Top.frame] = e]
      BY <2>1, <3>6, <1>5, <1>7 DEF Register
    <3>9. /\ store' \in Seq(st) /\ Len(store') = Len(store)
          /\ \A x \in 1..Len(store) : store'[x] = IF x = Top.frame THEN e ELSE store[x]
      BY <3>7, <3>8, <1>5, <1>7
    <3>10. \A x \in 1..Len(store) :
             /\ store'[x].serial = store[x].serial
             /\ store'[x].pending = IF x = Top.frame THEN store[x].pending + 1 ELSE store[x].pending
      BY <3>7, <3>9
    <3>11. /\ pending'[Top.m] # Nil /\ pending'[Top.m].frame = Top.frame
           /\ pending'[Top.m].serial = store[Top.frame].serial
      BY <3>2, <3>5
    <3>12. Waits(stack, pending, store)
      BY DEF GenInv
    <3>13. Waits(stack, pending', store')
      <4>1. PICK m, y : m = Top.m /\ y = Top.frame
        OBVIOUS
      <4>2. store \in Seq([serial : Nat, pending : Int]) /\ store' \in Seq([serial : Nat, pending : Int])
        BY <3>9, <1>6, <1>7
      <4>3. /\ m \in Module /\ y \in 1..Len(store) /\ pending[m] = Nil /\ ~Firing(stack, m)
            /\ pending'[m] # Nil /\ pending'[m].frame = y /\ pending'[m].serial = store[y].serial
        BY <4>1, <3>11, <1>1, <1>4, <1>5
      <4>4. \A o \in Module : o # m => pending'[o] = pending[o]
        BY <4>1, <3>5
      <4>5. \A x \in 1..Len(store) :
              /\ store'[x].serial = store[x].serial
              /\ store'[x].pending = IF x = y THEN store[x].pending + 1 ELSE store[x].pending
        BY <4>1, <3>10
      <4>6. Len(store') = Len(store)
        BY <3>9
      <4>7. Announced(pending, pending', store, store', m, y)
        BY <4>3, <4>4, <4>5, <4>6 DEF Announced
      <4> QED
        BY <3>12, <4>2, <4>3, <4>7, <1>1, RegisterWaits
    <3> QED
      BY <3>5, <3>9, <3>13
  <2>2. CASE Top.m \notin project.gen
    BY <2>2, <1>7 DEF Register, GenInv, Typed
  <2> QED
    BY <2>1, <2>2
<1>10. Typed'
  BY <1>2, <1>6, <1>9 DEF GenInv, Typed, Register, control, memos, nesting, warns, export, history
<1>11. ~exc' /\ ~Returning' /\ exc' = exc
  BY <1>1 DEF Register, control, Returning
<1>12. Shape'
  BY <1>1, <1>2, <1>11, AlikeShape DEF GenInv
<1>13. Unregistered(stack', pending', bodies')
  <2>1. UNCHANGED bodies
    BY DEF Register, history
  <2>2. Unregistered(stack', pending, bodies)
    BY <1>1, <1>2, AlikeUnregistered DEF GenInv
  <2>3. InBody(stack[Len(stack)])
    BY <1>1, <1>3 DEF InBody, Body, Framed
  <2>4. bodies[Top.m] # 0
    BY <2>3, <1>1, <1>3 DEF GenInv, Walks, Once
  <2>5. Len(stack') = Len(stack) /\ \A i \in 1..Len(stack) : AlikeAct(stack[i], stack'[i])
    BY <1>2 DEF Alike
  <2>6. stack'[Len(stack)].pc = "uses"
    BY <1>1, <1>3, GotoFacts, MovedModule, ReplacedTop DEF Register, Top, Body, Framed, Act
  <2>7. ASSUME NEW i \in 1..Len(stack'), IsModule(stack'[i]), stack'[i].m = Top.m, stack'[i].pc \in Early
        PROVE  FALSE
    <3>1. IsModule(stack[i]) /\ stack[i].m = Top.m /\ stack[i].pc \in Early /\ i \in 1..Len(stack)
      BY <2>5, <2>7 DEF AlikeAct, IsModule
    <3>2. i # Len(stack)
      BY <2>6, <2>7 DEF Early
    <3>3. InBody(stack[i])
      BY <3>1 DEF InBody, Early, Body, Framed
    <3> QED
      BY <2>3, <3>1, <3>2, <3>3, <1>3 DEF GenInv, Walks
  <2>8. \A o \in Module : o # Top.m => pending'[o] = pending[o]
    BY <1>9
  <2> QED
    BY <2>1, <2>2, <2>4, <2>7, <2>8 DEF Unregistered
<1>14. \A v : SinkIs(v) => SinkIs(v)'
  BY DEF Register, control, SinkIs, warns
<1>15. UNCHANGED <<project, memo, bodies, walking, defers, frames, frameDepth>>
  BY DEF Register, control, memos, nesting, history
<1>16. Visits(stack, log')
  BY DEF Register, export, GenInv
<1> QED
  BY <1>1, <1>2, <1>9, <1>10, <1>12, <1>13, <1>14, <1>15, <1>16, QuietStep

-----------------------------------------------------------------------------
(***************************************************************************)
(* Actions that call genModule.                                            *)
(***************************************************************************)
LEMMA ListFacts ==
  ASSUME project \in Projects
  PROVE  /\ project.peers \in [Module -> Seq(Module)] /\ project.tools \in [Module -> Seq(Module)]
         /\ project.before \in [Module -> Seq(Module)] /\ project.after \in [Module -> Seq(Module)]
         /\ project.uses \in [Module -> Seq(Module)] /\ project.needs \in [Module -> Seq(Module)]
         /\ project.genTools \in [Module -> Seq(Module)]
BY ProjectAssumption

LEMMA ListedFacts ==
  ASSUME NEW list, list \in Seq(Module), Top.i \in Nat \ {0}, More(list)
  PROVE  list[Top.i] \in Module
BY DEF More

LEMMA CallFacts ==
  ASSUME NEW m, m \in Module, NEW demand, demand \in Demand, NEW via, via \in Via, sink \in Nat
  PROVE  /\ Call(m, demand, via) \in ModuleAct /\ Call(m, demand, via) \in Act
         /\ Call(m, demand, via).pc = "enter" /\ Call(m, demand, via).frame = 0
         /\ Call(m, demand, via).outer = sink /\ Call(m, demand, via).via = via
         /\ Call(m, demand, via).demand = demand
BY DEF Call, ModuleAct, Act

LEMMA AllNested ==
  ASSUME GenInv, stack # <<>>, Nested(Top)
  PROVE  \A i \in 1..Len(stack) : Nested(stack[i])
<1>1. Len(stack) \in Nat
  BY DEF GenInv, Typed
<1>2. \A i \in 1..Len(stack) : i < Len(stack) \/ i = Len(stack)
  BY <1>1
<1> QED
  BY <1>2 DEF GenInv, Shape, Top

Unmoved == UNCHANGED <<project, exc, ret, memo, bodies, walking, defers, log, frames, frameDepth, store, pending>>

LEMMA CallFromTop ==
  ASSUME GenInv, ~exc, ~Returning, stack # <<>>, Nested(Top),
         NEW m, m \in Module, NEW demand, demand \in Demand, NEW via, via \in Via,
         via = "sibling" => demand = "none",
         stack' = Append(Advance, Call(m, demand, via))
  PROVE  /\ stack' \in Seq(Act)
         /\ Typed' /\ sink' = (IF via = "sibling" THEN 0 ELSE sink) /\ Unmoved => GenInv'
<1>1. PICK t : t = Advance
  OBVIOUS
<1>2. PICK e : e = Call(m, demand, via)
  OBVIOUS
<1>3. stack \in Seq(Act) /\ sink \in Nat
  BY DEF GenInv, Typed
<1>4. t \in Seq(Act) /\ Alike(stack, t)
  BY <1>1, <1>3, AdvanceFacts
<1>5. \A i \in 1..Len(t) : Nested(t[i])
  BY <1>3, <1>4, AllNested, AlikeNested
<1>6. /\ e \in ModuleAct /\ e \in Act /\ e.pc = "enter" /\ e.frame = 0 /\ e.outer = sink /\ e.via = via
      /\ e.demand = demand
  BY <1>2, <1>3, CallFacts
<1>7. stack' \in Seq(Act) /\ Below(stack', t) /\ stack'[Len(stack')] = e
  <2>1. stack' = Append(t, e)
    BY <1>1, <1>2
  <2> QED
    BY <2>1, <1>4, <1>6, PushTop, ZenonT(60)
<1>8. ASSUME Typed', sink' = (IF via = "sibling" THEN 0 ELSE sink), Unmoved
      PROVE  GenInv'
  <2>1. sink' = IF e.via = "sibling" THEN 0 ELSE sink
    BY <1>6, <1>8
  <2>2. UNCHANGED <<project, exc, ret, memo, bodies, walking, defers, log, frames, frameDepth, store, pending>>
    BY <1>8 DEF Unmoved
  <2>3. e.via = "sibling" => e.demand = "none"
    BY <1>6
  <2> QED
    BY ONLY GenInv, ~exc, ~Returning, <1>4, <1>5, <1>6, <1>7, <1>8, <2>1, <2>2, <2>3, CallStep
<1> QED
  BY <1>7, <1>8

LEMMA GenBeforeKeeps ==
  ASSUME GenInv, GenBefore
  PROVE  GenInv'
<1>1. ~exc /\ ~Returning /\ stack # <<>> /\ Nested(Top) /\ Top.m \in Module /\ Top.i \in Nat \ {0}
  BY AtFacts DEF GenBefore, Body
<1>2. PICK m : m = project.before[Top.m][Top.i]
  OBVIOUS
<1>3. m \in Module
  <2>1. project.before[Top.m] \in Seq(Module)
    BY <1>1, ListFacts DEF GenInv, Typed
  <2> QED
    BY <2>1, <1>1, <1>2, ListedFacts DEF GenBefore
<1>4. stack' = Append(Advance, Call(m, "none", "sibling")) /\ sink' = 0
  BY <1>2 DEF GenBefore, GenSiblingModule
<1>5. /\ stack' \in Seq(Act)
      /\ Typed' /\ sink' = (IF "sibling" = "sibling" THEN 0 ELSE sink) /\ Unmoved => GenInv'
  BY <1>1, <1>3, <1>4, CallFromTop DEF Demand, Via
<1>6. Typed'
  BY <1>4, <1>5 DEF GenInv, Typed, GenBefore, control, memos, nesting, frameVs, export, history
<1>7. Unmoved
  BY DEF Unmoved, GenBefore, control, memos, nesting, frameVs, export, history
<1> QED
  BY <1>4, <1>5, <1>6, <1>7

LEMMA GenAfterSiblingKeeps ==
  ASSUME GenInv, GenAfter, More(project.after[Top.m]), project.after[Top.m][Top.i] \notin walking
  PROVE  GenInv'
<1>1. ~exc /\ ~Returning /\ stack # <<>> /\ Nested(Top) /\ Top.m \in Module /\ Top.i \in Nat \ {0}
  BY AtFacts DEF GenAfter, Body
<1>2. PICK m : m = project.after[Top.m][Top.i]
  OBVIOUS
<1>3. m \in Module
  <2>1. project.after[Top.m] \in Seq(Module)
    BY <1>1, ListFacts DEF GenInv, Typed
  <2> QED
    BY <2>1, <1>1, <1>2, ListedFacts
<1>4. stack' = Append(Advance, Call(m, "none", "sibling")) /\ sink' = 0 /\ UNCHANGED <<walking, defers>>
  BY <1>2 DEF GenAfter, GenSiblingModule
<1>5. /\ stack' \in Seq(Act)
      /\ Typed' /\ sink' = (IF "sibling" = "sibling" THEN 0 ELSE sink) /\ Unmoved => GenInv'
  BY <1>1, <1>3, <1>4, CallFromTop DEF Demand, Via
<1>6. Typed'
  BY <1>4, <1>5 DEF GenInv, Typed, GenAfter, control, memos, frameVs, export
<1>7. Unmoved
  BY <1>4 DEF Unmoved, GenAfter, control, memos, frameVs, export
<1> QED
  BY <1>4, <1>5, <1>6, <1>7

LEMMA GenPeerCallKeeps ==
  ASSUME GenInv, GenPeer, project.peers[Top.m][Top.i] \notin project.broken
  PROVE  GenInv'
<1>1. ~exc /\ ~Returning /\ stack # <<>> /\ Nested(Top) /\ Top.m \in Module /\ Top.i \in Nat \ {0}
  BY AtFacts DEF GenPeer, Body, Framed
<1>2. PICK m, demand : m = project.peers[Top.m][Top.i] /\ demand = FinishPeerInstance(m)
  OBVIOUS
<1>3. m \in Module /\ demand \in Demand
  <2>1. project.peers[Top.m] \in Seq(Module)
    BY <1>1, ListFacts DEF GenInv, Typed
  <2>2. m \in Module
    BY <2>1, <1>1, <1>2, ListedFacts DEF GenPeer
  <2> QED
    BY <2>2, <1>2 DEF FinishPeerInstance, PeerDemand, Demand
<1>4. stack' = Append(Advance, Call(m, demand, "peer")) /\ UNCHANGED <<ret, exc, results, warnings, sink>>
  BY <1>2 DEF GenPeer
<1>5. /\ stack' \in Seq(Act)
      /\ Typed' /\ sink' = (IF "peer" = "sibling" THEN 0 ELSE sink) /\ Unmoved => GenInv'
  BY <1>1, <1>3, <1>4, CallFromTop DEF Via
<1>6. Typed'
  BY <1>4, <1>5 DEF GenInv, Typed, GenPeer, nesting, frameVs, export, history
<1>7. Unmoved
  BY <1>4 DEF Unmoved, GenPeer, nesting, frameVs, export, history
<1> QED
  BY <1>4, <1>5, <1>6, <1>7

LEMMA ToolUnknownKeeps ==
  ASSUME GenInv, ToolResult, Asks[Top.i] \notin toolCache
  PROVE  GenInv'
<1>1. ~exc /\ ~Returning /\ stack # <<>> /\ Nested(Top) /\ Top.m \in Module /\ Top.i \in Nat \ {0}
  BY AtFacts DEF ToolResult, Body, Framed
<1>2. PICK m : m = Asks[Top.i]
  OBVIOUS
<1>3. m \in Module
  <2>1. Asks \in Seq(Module)
    BY <1>1, ListFacts DEF GenInv, Typed, Asks
  <2> QED
    BY <2>1, <1>1, <1>2, ListedFacts DEF ToolResult
<1>4. stack' = Append(Advance, Call(m, "linked", "tool")) /\ UNCHANGED <<ret, sink>>
  BY <1>2 DEF ToolResult, warns
<1>5. /\ stack' \in Seq(Act)
      /\ Typed' /\ sink' = (IF "tool" = "sibling" THEN 0 ELSE sink) /\ Unmoved => GenInv'
  BY <1>1, <1>3, <1>4, CallFromTop DEF Demand, Via
<1>6. Typed'
  BY <1>4, <1>5 DEF GenInv, Typed, ToolResult, memos, nesting, warns, frameVs, export, history
<1>7. Unmoved
  BY <1>4 DEF Unmoved, ToolResult, memos, nesting, frameVs, export, history
<1> QED
  BY <1>4, <1>5, <1>6, <1>7

LEMMA GenTargetKeeps ==
  ASSUME GenInv, GenTarget
  PROVE  GenInv'
<1>1. /\ ~exc /\ ~Returning /\ stack = <<>> /\ jobs \in Seq([m : Module, root : BOOLEAN]) /\ jobs # <<>>
      /\ sink \in Nat
  BY DEF GenTarget, GenInv, Typed
<1>2. PICK m, via : m = Head(jobs).m /\ via = IF Head(jobs).root THEN "root" ELSE "recursed"
  OBVIOUS
<1>3. m \in Module /\ via \in Via /\ via # "sibling" /\ Tail(jobs) \in Seq([m : Module, root : BOOLEAN])
  <2>1. Head(jobs) \in [m : Module, root : BOOLEAN] /\ Tail(jobs) \in Seq([m : Module, root : BOOLEAN])
    BY <1>1, HeadTailProperties
  <2> QED
    BY <2>1, <1>2 DEF Via
<1>4. PICK e : e = Call(m, "self", via)
  OBVIOUS
<1>5. /\ e \in ModuleAct /\ e \in Act /\ e.pc = "enter" /\ e.frame = 0 /\ e.outer = sink /\ e.via = via
  BY <1>1, <1>3, <1>4, CallFacts DEF Demand
<1>6. PICK t : t = stack
  OBVIOUS
<1>7. t \in Seq(Act) /\ Alike(stack, t) /\ \A i \in 1..Len(t) : Nested(t[i])
  <2>1. stack \in Seq(Act)
    BY DEF GenInv, Typed
  <2>2. Alike(stack, stack)
    BY <2>1, AlikeItself
  <2>3. 1..Len(t) = {}
    BY <1>1, <1>6
  <2> QED
    BY <2>1, <2>2, <2>3, <1>6
<1>8. stack' \in Seq(Act) /\ Below(stack', t) /\ stack'[Len(stack')] = e
  <2>1. stack' = Append(t, e)
    BY <1>1, <1>2, <1>4, <1>6 DEF GenTarget
  <2> QED
    BY <2>1, <1>5, <1>7, PushTop
<1>9. Typed'
  BY <1>3, <1>8 DEF GenInv, Typed, GenTarget, memos, nesting, warns, frameVs, export, history
<1>10. sink' = IF e.via = "sibling" THEN 0 ELSE sink
  BY <1>3, <1>5 DEF GenTarget, warns
<1>11. UNCHANGED <<project, exc, ret, memo, bodies, walking, defers, log, frames, frameDepth, store, pending>>
  BY DEF GenTarget, memos, nesting, frameVs, export, history
<1>12. e.via = "sibling" => e.demand = "none"
  BY <1>3, <1>5
<1> QED
  BY <1>1, <1>5, <1>7, <1>8, <1>9, <1>10, <1>11, <1>12, CallStep

-----------------------------------------------------------------------------
(***************************************************************************)
(* The ends of a generator.                                                *)
(***************************************************************************)
LEMMA FireEndsKeeps ==
  ASSUME GenInv, stack # <<>>, IsFire(Top), FireEnds,
         UNCHANGED <<control, memos, walking, warns, pending, export, history>>
  PROVE  GenInv'
<1>1. stack \in Seq(Act) /\ Top = stack[Len(stack)] /\ Len(stack) \in 1..Len(stack) /\ Top \in Act
  BY TopFacts DEF GenInv, Typed, Top
<1>2. Top \in FireAct
  BY <1>1, KindFacts
<1>3. Top.pending \in Pending /\ Top.previous \in Nat /\ Top.pending.frame \in Nat
  BY <1>2 DEF FireAct, Pending
<1>4. stack' \in Seq(Act) /\ Below(stack, stack')
  BY <1>1, TopFacts DEF FireEnds, Caller
<1>5. PICK y, e, st : /\ y = Top.pending.frame /\ st = [serial : Nat, pending : Int]
                      /\ e = [store[y] EXCEPT !.pending = store[y].pending - 1]
  OBVIOUS
<1>6. store \in Seq(st) /\ y \in 1..Len(store)
  BY <1>1, <1>5 DEF GenInv, Typed, Waits
<1>7. e \in st /\ e.serial = store[y].serial /\ e.pending = store[y].pending - 1
  <2>1. store[y] \in st
    BY <1>6
  <2> QED
    BY <2>1, <1>5
<1>8. store' = [store EXCEPT ![y] = e]
  BY <1>5, <1>6 DEF FireEnds
<1>9. /\ store' \in Seq(st) /\ Len(store') = Len(store)
      /\ \A x \in 1..Len(store) : store'[x] = IF x = y THEN e ELSE store[x]
  BY <1>6, <1>7, <1>8
<1>10. \A x \in 1..Len(store) :
         /\ store'[x].serial = store[x].serial
         /\ store'[x].pending = IF x = Top.pending.frame THEN store[x].pending - 1 ELSE store[x].pending
  BY <1>5, <1>7, <1>9
<1>11. frames \in Seq(Nat) /\ frameDepth \in Int /\ defers \in Int
  BY DEF GenInv, Typed
<1>12. frames' \in Seq(Nat) /\ PutBack(frames, frames', frameDepth, Top.previous)
  <2>1. CASE Top.previous = 0
    <3>1. frames' = frames
      BY <2>1 DEF FireEnds
    <3> QED
      BY <2>1, <3>1, <1>11 DEF PutBack
  <2>2. CASE Top.previous # 0
    <3>1. frames' = [frames EXCEPT ![frameDepth] = Top.previous]
      BY <2>2 DEF FireEnds
    <3>2. /\ frames' \in Seq(Nat) /\ Len(frames') = Len(frames)
          /\ \A j \in 1..Len(frames) : frames'[j] = IF j = frameDepth THEN Top.previous ELSE frames[j]
      <4>1. frames \in [1..Len(frames) -> Nat] /\ Len(frames) \in Nat
        BY <1>11
      <4>2. /\ frames' \in [1..Len(frames) -> Nat]
            /\ \A j \in 1..Len(frames) : frames'[j] = IF j = frameDepth THEN Top.previous ELSE frames[j]
        BY <3>1, <4>1, <1>3
      <4> QED
        BY <4>1, <4>2
    <3> QED
      BY <2>2, <3>2 DEF PutBack
  <2> QED
    BY <2>1, <2>2
<1>13. /\ frameDepth' = IF Top.previous = 0 THEN frameDepth ELSE frameDepth - 1
       /\ defers' = IF Top.pending.publication THEN defers - 1 ELSE defers
       /\ frameSerial' = frameSerial
  BY DEF FireEnds
<1>14. frameDepth' \in Int /\ defers' \in Int
  BY <1>11, <1>13
<1>15. Typed'
  BY <1>4, <1>5, <1>9, <1>12, <1>13, <1>14 DEF GenInv, Typed, control, memos, warns, export, history
<1>16. UNCHANGED <<project, exc, ret, memo, bodies, walking, sink, log, pending>>
  BY DEF control, memos, warns, export, history
<1> QED
  BY <1>4, <1>9, <1>10, <1>12, <1>13, <1>15, <1>16, FireEndStep

LEMMA FireReturnsKeeps ==
  ASSUME GenInv, FireReturns
  PROVE  GenInv'
<1>1. stack # <<>> /\ IsFire(Top)
  BY AtFacts DEF FireReturns, ModuleAct, Body, Framed, IsModule, IsFire, Act
<1> QED
  BY <1>1, FireEndsKeeps DEF FireReturns

LEMMA UnwindFireKeeps ==
  ASSUME GenInv, UnwindFire
  PROVE  GenInv'
BY FireEndsKeeps DEF UnwindFire, IsFire

-----------------------------------------------------------------------------
(***************************************************************************)
(* Pushing a frame.                                                        *)
(***************************************************************************)
LEMMA FrameOfFacts ==
  ASSUME NEW s \in Seq(Act), NEW fs, NEW k, NEW n, FrameOf(s, fs, k, n)
  PROVE  k \in Nat /\ k <= Len(fs) /\ \A j \in 1..Len(fs) : fs[j] \in 1..n
<1>1. PICK h : Depth(s, h) /\ h[Len(s)] = k /\ Apart(s, h, fs, n)
  BY DEF FrameOf
<1>2. Len(s) \in 0..Len(s)
  OBVIOUS
<1>3. h[Len(s)] \in Nat
  BY <1>1, <1>2 DEF Depth
<1> QED
  BY <1>1, <1>3 DEF Apart

LEMMA PushFrameFacts ==
  ASSUME NEW t \in Seq(Act), FrameOf(t, frames, frameDepth, Len(store)),
         frames \in Seq(Nat), store \in Seq([serial : Nat, pending : Int]), frameSerial \in Nat,
         NEW x, PushFrame(x), x = NextFrame \/ x \in 1..Len(store)
  PROVE  /\ frames' \in Seq(Nat) /\ store' \in Seq([serial : Nat, pending : Int])
         /\ frameDepth' = frameDepth + 1 /\ frameDepth' \in Int /\ frameSerial' \in Nat
         /\ Len(store) \in Nat /\ Len(store') \in Nat /\ Len(store) <= Len(store')
         /\ NextFrame \in 1..Len(store') /\ x \in 1..Len(store')
         /\ Free(frames, frameDepth, Len(store), NextFrame) /\ Placed(frames, frames', frameDepth, x)
         /\ Refreshed(store, store')
<1>1. /\ frameDepth \in Nat /\ frameDepth <= Len(frames)
      /\ \A j \in 1..Len(frames) : frames[j] \in 1..Len(store)
  BY FrameOfFacts
<1>2. PICK st : st = [serial : Nat, pending : Int]
  OBVIOUS
<1>3. store \in Seq(st) /\ Len(store) \in Nat /\ Len(frames) \in Nat
  BY <1>2
<1>4. /\ store' \in Seq(st) /\ Len(store') \in Nat /\ Len(store) <= Len(store')
      /\ NextFrame \in 1..Len(store') /\ NextFrame \in Nat
      /\ Free(frames, frameDepth, Len(store), NextFrame) /\ Refreshed(store, store')
  <2>1. CASE ReusesFrame
    <3>1. PICK y : y = frames[frameDepth + 1]
      OBVIOUS
    <3>2. frameDepth < Len(frames) /\ store[y].pending = 0
      BY <2>1, <3>1 DEF ReusesFrame
    <3>3. frameDepth + 1 \in 1..Len(frames)
      BY <3>2, <1>1, <1>3
    <3>4. y \in 1..Len(store) /\ NextFrame = y
      BY <2>1, <3>1, <3>3, <1>1 DEF NextFrame
    <3>5. PICK e : e = [store[y] EXCEPT !.serial = frameSerial + 1]
      OBVIOUS
    <3>6. store[y] \in st
      BY <3>4, <1>3
    <3>7. e \in st /\ e.pending = store[y].pending
      <4>1. PICK b, n : b = store[y] /\ n = frameSerial + 1
        OBVIOUS
      <4>2. b \in [serial : Nat, pending : Int] /\ n \in Nat
        BY <4>1, <3>6, <1>2
      <4>3. e = [b EXCEPT !.serial = n]
        BY <4>1, <3>5
      <4>4. e \in [serial : Nat, pending : Int] /\ e.pending = b.pending
        BY ONLY <4>2, <4>3
      <4> QED
        BY <4>1, <4>4, <1>2
    <3>8. store' = [store EXCEPT ![y] = e]
      BY <2>1, <3>4, <3>5, <1>3 DEF PushFrame
    <3>9. /\ store' \in Seq(st) /\ Len(store') = Len(store)
          /\ \A z \in 1..Len(store) : store'[z] = IF z = y THEN e ELSE store[z]
      BY <3>4, <3>7, <3>8, <1>3, SMTT(30)
    <3>10. Refreshed(store, store')
      <4>1. \A z \in 1..Len(store) : store'[z].pending = store[z].pending
        BY <3>7, <3>9
      <4>2. \A z \in 1..Len(store) : store'[z].serial = store[z].serial \/ store[z].pending = 0
        BY <3>2, <3>9
      <4>3. Len(store) <= Len(store') /\ \A z \in 1..Len(store') : z \in 1..Len(store)
        BY <3>9, <1>3
      <4> QED
        BY <4>1, <4>2, <4>3 DEF Refreshed
    <3>11. Free(frames, frameDepth, Len(store), NextFrame)
      BY <3>1, <3>2, <3>4 DEF Free
    <3> QED
      BY <3>4, <3>9, <3>10, <3>11, <1>3
  <2>2. CASE ~ReusesFrame
    <3>1. PICK e : e = [serial |-> frameSerial + 1, pending |-> 0]
      OBVIOUS
    <3>2. e \in st /\ e.pending = 0
      BY <3>1, <1>2
    <3>3. store' = Append(store, e)
      BY <2>2, <3>1 DEF PushFrame
    <3>4. /\ store' \in Seq(st) /\ Len(store') = Len(store) + 1 /\ store'[Len(store) + 1] = e
          /\ \A z \in 1..Len(store) : store'[z] = store[z]
      BY <3>2, <3>3, <1>3, AppendProperties
    <3>5. \A z \in 1..Len(store') : z \in 1..Len(store) \/ z = Len(store) + 1
      BY <3>4, <1>3
    <3>6. Refreshed(store, store')
      BY <3>2, <3>4, <3>5, <1>3 DEF Refreshed
    <3>7. NextFrame = Len(store) + 1
      BY <2>2 DEF NextFrame
    <3>8. Free(frames, frameDepth, Len(store), NextFrame)
      BY <3>7, <1>3 DEF Free
    <3> QED
      BY <3>4, <3>6, <3>7, <3>8, <1>3
  <2> QED
    BY <2>1, <2>2
<1>5. x \in 1..Len(store') /\ x \in Nat
  BY <1>3, <1>4
<1>6. frames' \in Seq(Nat) /\ Placed(frames, frames', frameDepth, x)
  <2>1. CASE frameDepth = Len(frames)
    <3>1. frames' = Append(frames, x)
      BY <2>1 DEF PushFrame
    <3>2. /\ frames' \in Seq(Nat) /\ Len(frames') = Len(frames) + 1 /\ frames'[Len(frames) + 1] = x
          /\ \A z \in 1..Len(frames) : frames'[z] = frames[z]
      BY <3>1, <1>5, AppendProperties
    <3>3. \A z \in 1..Len(frames') : (z = Len(frames) + 1) \/ (z \in 1..Len(frames) /\ z # Len(frames) + 1)
      BY <3>2, <1>3
    <3> QED
      BY <2>1, <3>2, <3>3 DEF Placed
  <2>2. CASE frameDepth # Len(frames)
    <3>1. frames' = [frames EXCEPT ![frameDepth + 1] = x]
      BY <2>2 DEF PushFrame
    <3>2. frameDepth + 1 \in 1..Len(frames)
      BY <2>2, <1>1, <1>3
    <3>3. /\ frames' \in Seq(Nat) /\ Len(frames') = Len(frames)
          /\ \A z \in 1..Len(frames) : frames'[z] = IF z = frameDepth + 1 THEN x ELSE frames[z]
      BY <3>1, <3>2, <1>5
    <3> QED
      BY <2>2, <3>3 DEF Placed
  <2> QED
    BY <2>1, <2>2
<1>7. frameDepth' = frameDepth + 1 /\ frameSerial' = frameSerial + 1
  BY DEF PushFrame
<1> QED
  BY <1>1, <1>2, <1>3, <1>4, <1>5, <1>6, <1>7

-----------------------------------------------------------------------------
(***************************************************************************)
(* Running a generator.                                                    *)
(***************************************************************************)
(* Everything but the frames and the types.                                *)
FirePart ==
  /\ Shape /\ Local(stack) /\ DeferOf(stack, defers) /\ Walks(stack, walking) /\ Once
  /\ SinkPart /\ Visits(stack, log) /\ Unregistered(stack, pending, bodies)

LEMMA FireStep ==
  ASSUME GenInv, ~exc, ~Returning, NEW t \in Seq(Act), Alike(stack, t), \A i \in 1..Len(t) : Nested(t[i]),
         NEW e \in FireAct, e.pc = "tools", stack' \in Seq(Act), Below(stack', t), stack'[Len(stack')] = e,
         pending[e.m] # Nil, e.pending = pending[e.m],
         \A o \in Module : o # e.m => pending'[o] = pending[o],
         defers' = IF e.pending.publication THEN defers + 1 ELSE defers,
         UNCHANGED <<project, exc, ret, memo, bodies, walking, sink, log>>
  PROVE  FirePart'
<1>1. stack \in Seq(Act) /\ Len(t) = Len(stack) /\ Len(t) \in Nat
  BY DEF GenInv, Typed, Alike
<1>2. /\ e \in Act /\ IsFire(e) /\ ~IsModule(e) /\ ~Begun(e) /\ ~InBody(e) /\ e.pc # "after"
      /\ Defers(e) <=> e.pending.publication
  BY DEF Act, FireAct, IsModule, IsFire, Begun, InBody, Defers
<1>3. stack' \in Seq(Act) /\ Below(stack', t) /\ stack'[Len(stack')] = e
  OBVIOUS
<1>4. Shape'
  <2>1. \A i \in 1..Len(stack') : i < Len(stack') => i \in 1..Len(t) /\ stack'[i] = t[i]
    BY <1>1, <1>3 DEF Below
  <2>2. ~exc' /\ ~Returning'
    BY DEF Returning
  <2> QED
    BY <2>1, <2>2 DEF Shape
<1>5. Local(stack')
  <2>1. Local(t)
    BY <1>1, AlikeLocal DEF GenInv
  <2> QED
    BY <1>2, <1>3, <2>1, PushLocal
<1>6. DeferOf(stack', defers')
  <2>1. DeferOf(t, defers)
    BY <1>1, AlikeParts DEF GenInv
  <2>2. (Defers(e) => DeferOf(stack', defers + 1)) /\ (~Defers(e) => DeferOf(stack', defers))
    BY <2>1, <1>2, <1>3, PushDefer
  <2> QED
    BY <2>2, <1>2
<1>7. Walks(stack', walking')
  <2>1. Walks(t, walking)
    BY <1>1, AlikeWalks DEF GenInv
  <2> QED
    BY <2>1, <1>2, <1>3, PushWalks
<1>8. Once'
  BY <1>1, <1>2, CallOnce DEF GenInv
<1>9. SinkPart'
  <2>1. PICK v : SinkOf(stack, v) /\ SinkIs(v)
    BY DEF GenInv, SinkPart
  <2>2. SinkOf(t, v)
    BY <2>1, <1>1, AlikeParts
  <2>3. SinkStep(e, v, v)
    BY <1>2 DEF SinkStep
  <2>4. SinkOf(stack', v)
    BY <2>2, <2>3, <1>3, PushSink
  <2>5. SinkIs(v)'
    BY <2>1 DEF SinkIs
  <2> QED
    BY <2>4, <2>5 DEF SinkPart
<1>10. Visits(stack', log')
  <2>1. Visits(t, log)
    BY <1>1, AlikeVisits DEF GenInv
  <2>2. Len(log) \in Nat
    BY DEF GenInv, Typed
  <2>3. ~Begun(stack'[Len(stack')])
    BY <1>2, <1>3
  <2>4. Len(log) <= Len(log) /\ \A k \in 1..Len(log) : log[k] = log[k]
    BY <2>2
  <2> QED
    BY <2>1, <2>2, <2>3, <2>4, <1>3, PushVisits
<1>11. Unregistered(stack', pending', bodies')
  <2>1. Unregistered(t, pending, bodies)
    BY <1>1, AlikeUnregistered DEF GenInv
  <2>2. Unregistered(stack', pending', bodies)
    BY <2>1, <1>2, <1>3, PushFireUnregistered, SMTT(30)
  <2> QED
    BY <2>2
<1> QED
  BY <1>4, <1>5, <1>6, <1>7, <1>8, <1>9, <1>10, <1>11 DEF FirePart

LEMMA UseFileFiresKeeps ==
  ASSUME GenInv, UseFile, pending[Reads[Top.i]] # Nil
  PROVE  GenInv'
<1>1. /\ ~exc /\ ~Returning /\ stack \in Seq(Act) /\ stack # <<>> /\ Nested(Top)
      /\ Top.m \in Module /\ Top.i \in Nat \ {0}
  BY AtFacts DEF UseFile, Body, Framed
<1>2. PICK o : o = Reads[Top.i]
  OBVIOUS
<1>3. o \in Module
  <2>1. Reads \in Seq(Module)
    BY <1>1, ListFacts DEF GenInv, Typed, Reads
  <2> QED
    BY <2>1, <1>1, <1>2, ListedFacts DEF UseFile
<1>4. Fire(o) /\ pending[o] # Nil
  BY <1>2 DEF UseFile
<1>5. PICK t : t = Advance
  OBVIOUS
<1>6. t \in Seq(Act) /\ Alike(stack, t)
  BY <1>1, <1>5, AdvanceFacts
<1>7. \A i \in 1..Len(t) : Nested(t[i])
  BY <1>1, <1>6, AllNested, AlikeNested
<1>8. /\ FrameOf(t, frames, frameDepth, Len(store)) /\ Waits(t, pending, store)
  BY <1>1, <1>6, AlikeParts, AlikeWaits DEF GenInv
<1>9. /\ frames \in Seq(Nat) /\ store \in Seq([serial : Nat, pending : Int]) /\ frameSerial \in Nat
      /\ pending \in [Module -> Pending \cup {Nil}] /\ defers \in Int /\ Len(store) \in Nat
      /\ frameDepth \in Int
  BY DEF GenInv, Typed
<1>10. pending[o] \in Pending /\ pending[o].frame \in 1..Len(store)
  BY <1>3, <1>4, <1>8, <1>9 DEF Waits
<1>11. PICK r : r = IF o \in project.script THEN NextFrame ELSE 0
  OBVIOUS
<1>12. /\ frames' \in Seq(Nat) /\ store' \in Seq([serial : Nat, pending : Int]) /\ frameDepth' \in Int
       /\ frameSerial' \in Nat /\ Refreshed(store, store') /\ r \in Nat
       /\ \A s \in Seq(Act) : Below(s, t) /\ Taken(s[Len(s)]) = r /\ ~IsModule(s[Len(s)])
            => FrameOf(s, frames', frameDepth', Len(store'))
  <2>1. CASE o \in project.script
    <3>1. PICK x : x = pending[o].frame
      OBVIOUS
    <3>2. PushFrame(x) /\ x \in 1..Len(store) /\ r = NextFrame
      BY <2>1, <3>1, <1>4, <1>10, <1>11 DEF Fire
    <3>3. /\ frames' \in Seq(Nat) /\ store' \in Seq([serial : Nat, pending : Int])
          /\ frameDepth' = frameDepth + 1 /\ frameDepth' \in Int /\ frameSerial' \in Nat
          /\ Len(store) \in Nat /\ Len(store') \in Nat /\ Len(store) <= Len(store')
          /\ r \in 1..Len(store') /\ x \in 1..Len(store')
          /\ Free(frames, frameDepth, Len(store), r) /\ Placed(frames, frames', frameDepth, x)
          /\ Refreshed(store, store')
      BY <3>2, <1>6, <1>8, <1>9, PushFrameFacts
    <3>4. ASSUME NEW s \in Seq(Act), Below(s, t), Taken(s[Len(s)]) = r, ~IsModule(s[Len(s)])
          PROVE  FrameOf(s, frames', frameDepth + 1, Len(store'))
      <4>1. Taken(s[Len(s)]) \in 1..Len(store') /\ Free(frames, frameDepth, Len(store), Taken(s[Len(s)]))
        BY <3>3, <3>4
      <4>2. Below(s, t) /\ ~IsModule(s[Len(s)])
        BY <3>4
      <4> QED
        BY ONLY <4>1, <4>2, s \in Seq(Act), <3>3, <1>6, <1>8, <1>9, PushFramed
    <3> QED
      BY <3>3, <3>4
  <2>2. CASE o \notin project.script
    <3>1. UNCHANGED frameVs /\ r = 0
      BY <2>2, <1>4, <1>11 DEF Fire
    <3>2. frames' = frames /\ store' = store /\ frameDepth' = frameDepth /\ frameSerial' = frameSerial
      BY <3>1 DEF frameVs
    <3>3. Refreshed(store, store)
      BY <1>9 DEF Refreshed
    <3>4. ASSUME NEW s \in Seq(Act), Below(s, t), Taken(s[Len(s)]) = r
          PROVE  FrameOf(s, frames, frameDepth, Len(store))
      BY <3>1, <3>4, <1>6, <1>8, <1>9, PushUnframedOf
    <3> QED
      BY <3>1, <3>2, <3>3, <3>4, <1>9
  <2> QED
    BY <2>1, <2>2
<1>13. PICK e : e = [kind |-> "fire", m |-> o, pc |-> "tools", i |-> 1, pending |-> pending[o], previous |-> r]
  OBVIOUS
<1>14. e \in FireAct /\ e.m = o /\ e.pc = "tools" /\ e.pending = pending[o] /\ Taken(e) = r /\ ~IsModule(e) /\ IsFire(e)
  BY <1>3, <1>10, <1>12, <1>13 DEF FireAct, Taken, IsModule, IsFire
<1>15. e \in Act
  BY <1>14 DEF Act
<1>16. stack' \in Seq(Act) /\ Below(stack', t) /\ stack'[Len(stack')] = e
  <2>1. stack' = Append(t, e)
    BY <1>4, <1>5, <1>11, <1>13 DEF Fire
  <2> QED
    BY <2>1, <1>6, <1>15, PushTop
<1>17. /\ pending' \in [Module -> Pending \cup {Nil}] /\ pending'[o] = Nil
       /\ \A q \in Module : q # o => pending'[q] = pending[q]
  <2>1. pending' = [pending EXCEPT ![o] = Nil]
    BY <1>4 DEF Fire
  <2> QED
    BY <2>1, <1>3, <1>9
<1>18. defers' = IF e.pending.publication THEN defers + 1 ELSE defers
  BY <1>4, <1>14 DEF Fire
<1>19. defers' \in Int
  BY <1>9, <1>18
<1>20. Typed'
  BY <1>12, <1>16, <1>17, <1>19 DEF GenInv, Typed, UseFile, control, memos, warns, export, history
<1>21. UNCHANGED <<project, exc, ret, memo, bodies, walking, sink, log>>
  BY DEF UseFile, control, memos, warns, export, history
<1>22. FirePart'
  <2>1. pending[e.m] # Nil /\ e.pending = pending[e.m] /\ \A q \in Module : q # e.m => pending'[q] = pending[q]
    BY <1>4, <1>14, <1>17
  <2> QED
    BY <2>1, <1>1, <1>6, <1>7, <1>14, <1>16, <1>18, <1>21, FireStep
<1>23. FrameOf(stack', frames', frameDepth', Len(store'))
  BY <1>12, <1>14, <1>16
<1>24. Waits(stack', pending', store')
  <2>1. Waits(stack', pending', store)
    BY <1>4, <1>6, <1>8, <1>14, <1>16, <1>17, PushFireWaits
  <2> QED
    BY <2>1, <1>9, <1>12, <1>16, RefreshWaits
<1> QED
  BY <1>20, <1>22, <1>23, <1>24 DEF GenInv, FirePart

-----------------------------------------------------------------------------
(***************************************************************************)
(* Moving a module that has begun to where it counts for less.             *)
(***************************************************************************)
LEMMA PopBegun ==
  ASSUME NEW s \in Seq(Act), NEW f \in Seq(Act), Below(s, f), NEW k, DeferOf(s, k), Begun(s[Len(s)])
  PROVE  \E q \in Nat : /\ DeferOf(f, q)
                        /\ s[Len(s)].deferred <=> (s[Len(s)].demand = "none" \/ q > 0)
                        /\ Defers(s[Len(s)]) => q + 1 = k
                        /\ ~Defers(s[Len(s)]) => q = k
<1>1. PICK d : Deferral(s, d) /\ d[Len(s)] = k
  BY DEF DeferOf
<1>2. PICK d2 : d2 = [i \in 0..Len(f) |-> d[i]]
  OBVIOUS
<1>3. /\ Deferral(f, d2)
      /\ d[Len(s)] = IF Defers(s[Len(s)]) THEN d[Len(f)] + 1 ELSE d[Len(f)]
      /\ d[Len(f)] \in Nat /\ d[Len(s)] \in Nat
  BY <1>1, <1>2, PopDeferral
<1>4. d2[Len(f)] = d[Len(f)]
  BY <1>2
<1>5. DeferOf(f, d[Len(f)])
  BY <1>3, <1>4 DEF DeferOf
<1>6. Len(s) \in 1..Len(s) /\ Len(s) - 1 = Len(f)
  BY DEF Below
<1>7. s[Len(s)].deferred <=> (s[Len(s)].demand = "none" \/ d[Len(f)] > 0)
  BY <1>1, <1>6 DEF Deferral
<1> QED
  BY <1>1, <1>3, <1>5, <1>7

LEMMA ReplaceDefer ==
  ASSUME NEW s \in Seq(Act), NEW t \in Seq(Act), NEW f \in Seq(Act), Below(s, f), Below(t, f),
         Begun(s[Len(s)]), Same(s[Len(s)], t[Len(t)]), NEW k, DeferOf(s, k)
  PROVE  /\ (Defers(s[Len(s)]) <=> Defers(t[Len(t)])) => DeferOf(t, k)
         /\ Defers(s[Len(s)]) /\ ~Defers(t[Len(t)]) => DeferOf(t, k - 1)
<1>1. PICK q \in Nat : /\ DeferOf(f, q)
                       /\ s[Len(s)].deferred <=> (s[Len(s)].demand = "none" \/ q > 0)
                       /\ Defers(s[Len(s)]) => q + 1 = k
                       /\ ~Defers(s[Len(s)]) => q = k
  BY PopBegun
<1>2. t[Len(t)].deferred <=> (t[Len(t)].demand = "none" \/ q > 0)
  BY <1>1 DEF Same
<1>3. DeferOf(f, q)
  BY <1>1
<1>4. (Defers(t[Len(t)]) => DeferOf(t, q + 1)) /\ (~Defers(t[Len(t)]) => DeferOf(t, q))
  BY <1>2, <1>3, PushDefer
<1>5. q + 1 = k => k - 1 = q
  OBVIOUS
<1> QED
  BY <1>1, <1>4, <1>5

LEMMA ReplaceWalks ==
  ASSUME NEW s \in Seq(Act), NEW t \in Seq(Act), NEW f \in Seq(Act), Below(s, f), Below(t, f),
         InBody(s[Len(s)]), Same(s[Len(s)], t[Len(t)]), NEW walk, walk \subseteq Module, Walks(s, walk)
  PROVE  /\ InBody(t[Len(t)]) => Walks(t, walk)
         /\ ~InBody(t[Len(t)]) => Walks(t, walk \ {s[Len(s)].m})
<1>1. PICK m : m = s[Len(s)].m
  OBVIOUS
<1>2. t[Len(t)].m = m
  BY <1>1 DEF Same
<1>3. m \in walk
  <2>1. Len(s) \in 1..Len(s) /\ s[Len(s)] \in Act
    BY DEF Below
  <2>2. m \in Module
    BY <2>1, <1>1, KindFacts
  <2> QED
    BY <2>1, <2>2, <1>1 DEF Walks
<1>4. Walks(f, IF InBody(s[Len(s)]) THEN walk \ {s[Len(s)].m} ELSE walk)
  BY PopWalks
<1>5. Walks(f, walk \ {m})
  BY <1>1, <1>4
<1>6. InBody(t[Len(t)]) => t[Len(t)].m \notin walk \ {m}
  BY <1>2
<1>7. Walks(t, IF InBody(t[Len(t)]) THEN (walk \ {m}) \cup {t[Len(t)].m} ELSE walk \ {m})
  BY <1>5, <1>6, PushWalks
<1>8. (walk \ {m}) \cup {t[Len(t)].m} = walk
  BY <1>2, <1>3
<1> QED
  BY <1>1, <1>7, <1>8

LEMMA ReplaceSink ==
  ASSUME NEW s \in Seq(Act), NEW t \in Seq(Act), NEW f \in Seq(Act), Below(s, f), Below(t, f),
         Begun(s[Len(s)]), Begun(t[Len(t)]), Same(s[Len(s)], t[Len(t)]), NEW v, SinkOf(s, v)
  PROVE  SinkOf(t, v)
<1>1. PICK u : SinkOf(f, u) /\ SinkStep(s[Len(s)], u, v)
  BY PopSink
<1>2. PICK a, e : a = s[Len(s)] /\ e = t[Len(t)]
  OBVIOUS
<1>3. SinkStep(a, u, v) => SinkStep(e, u, v)
  BY <1>2 DEF SinkStep, Same, Into, IsFire, IsModule, Begun
<1> QED
  BY <1>1, <1>2, <1>3, PushSink

LEMMA ReplaceVisits ==
  ASSUME NEW s \in Seq(Act), NEW t \in Seq(Act), NEW f \in Seq(Act), Below(s, f), Below(t, f),
         Begun(s[Len(s)]), Begun(t[Len(t)]), Same(s[Len(s)], t[Len(t)]), NEW l, Visits(s, l)
  PROVE  Visits(t, l)
<1>1. Len(f) \in Nat /\ Len(s) = Len(f) + 1 /\ Len(t) = Len(s)
  BY DEF Below
<1>2. \A i \in 1..Len(s) : i = Len(s) \/ (i \in 1..Len(f) /\ s[i] = t[i])
  BY <1>1 DEF Below
<1>3. t[Len(s)].at = s[Len(s)].at /\ Begun(t[Len(s)])
  BY <1>1 DEF Same
<1>4. \A i \in 1..Len(s) : (Begun(t[i]) <=> Begun(s[i])) /\ t[i].at = s[i].at
  BY <1>2, <1>3
<1> QED
  BY <1>1, <1>4 DEF Visits

LEMMA ReplaceLocal ==
  ASSUME NEW s \in Seq(Act), NEW t \in Seq(Act), NEW f \in Seq(Act), Below(s, f), Below(t, f),
         IsModule(s[Len(s)]), Same(s[Len(s)], t[Len(t)]), Local(s),
         t[Len(t)].frame # 0 <=> t[Len(t)].pc \in Framed
  PROVE  Local(t)
<1>1. Local(f)
  BY PopLocal
<1>2. Len(s) \in 1..Len(s)
  BY DEF Below
<1>3. s[Len(s)].via = "sibling" => s[Len(s)].demand = "none"
  BY <1>2 DEF Local
<1>4. t[Len(t)].via = "sibling" => t[Len(t)].demand = "none"
  BY <1>3 DEF Same
<1> QED
  BY <1>1, <1>4, PushLocal

LEMMA ReplaceUnregistered ==
  ASSUME NEW s \in Seq(Act), NEW t \in Seq(Act), NEW f \in Seq(Act), Below(s, f), Below(t, f),
         IsModule(s[Len(s)]), Same(s[Len(s)], t[Len(t)]), NEW p, NEW b, Unregistered(s, p, b),
         t[Len(t)].pc \in Early => s[Len(s)].pc \in Early
  PROVE  Unregistered(t, p, b)
<1>1. Unregistered(f, p, b)
  BY PopUnregistered
<1>2. Len(s) \in 1..Len(s) /\ s[Len(s)] \in Act
  BY DEF Below
<1>3. s[Len(s)].m \in Module
  BY <1>2, KindFacts
<1>4. s[Len(s)].pc \in Early => p[s[Len(s)].m] = Nil /\ ~Firing(s, s[Len(s)].m)
  BY <1>2, <1>3 DEF Unregistered
<1>5. \A o : Firing(f, o) <=> Firing(s, o)
  BY PopModuleFires
<1>6. t[Len(t)].pc \in Early => p[t[Len(t)].m] = Nil /\ ~Firing(f, t[Len(t)].m)
  BY <1>4, <1>5 DEF Same
<1>7. IsModule(t[Len(t)])
  BY DEF Same, IsModule
<1> QED
  BY <1>1, <1>6, <1>7, PushModuleUnregistered

LEMMA ReplaceShape ==
  ASSUME Shape, NEW f \in Seq(Act), stack \in Seq(Act), stack' \in Seq(Act), Below(stack, f), Below(stack', f),
         (exc' \/ Returning') => Nested(stack'[Len(stack')]), exc' => ~Returning'
  PROVE  Shape'
<1>1. Len(f) \in Nat /\ Len(stack) = Len(f) + 1 /\ Len(stack') = Len(stack)
  BY DEF Below
<1>2. \A i \in 1..Len(stack') : i = Len(stack') \/ (i < Len(stack) /\ i \in 1..Len(stack) /\ stack'[i] = stack[i])
  BY <1>1 DEF Below
<1>3. \A i \in 1..Len(stack) : i < Len(stack) => Nested(stack[i])
  BY DEF Shape
<1>4. \A i \in 1..Len(stack') : (i < Len(stack') \/ exc' \/ Returning') => Nested(stack'[i])
  BY <1>1, <1>2, <1>3
<1> QED
  BY <1>4 DEF Shape

LEMMA ReplaceOnce ==
  ASSUME Once, ~Doomed(stack), walking \subseteq Module,
         NEW f \in Seq(Act), stack \in Seq(Act), stack' \in Seq(Act), Below(stack, f), Below(stack', f),
         \A m \in Module : memo[m] # 0 => memo'[m] # 0, UNCHANGED bodies,
         NEW x, walking' = walking \/ (walking' = walking \ {x} /\ memo'[x] # 0),
         IsModule(stack'[Len(stack')]) /\ stack'[Len(stack')].pc = "after" => memo'[stack'[Len(stack')].m] # 0
  PROVE  Once'
<1>1. Len(f) \in Nat /\ Len(stack) = Len(f) + 1 /\ Len(stack') = Len(stack)
  BY DEF Below
<1>2. \A i \in 1..Len(stack') : i = Len(stack') \/ (i \in 1..Len(stack) /\ stack'[i] = stack[i])
  BY <1>1 DEF Below
<1>3. \A i \in 1..Len(stack) : stack[i].m \in Module
  BY KindFacts
<1>4. \A i \in 1..Len(stack') : IsModule(stack'[i]) /\ stack'[i].pc = "after" => memo'[stack'[i].m] # 0
  BY <1>2, <1>3 DEF Once
<1>5. \A m \in Module : bodies'[m] = 1 => (memo'[m] # 0 \/ m \in walking')
  <2>1. \A m \in Module : bodies[m] = 1 => (memo[m] # 0 \/ m \in walking)
    BY DEF Once
  <2>2. \A m \in walking : m \in walking' \/ memo'[m] # 0
    OBVIOUS
  <2> QED
    BY <2>1, <2>2
<1>6. (\A m \in Module : bodies'[m] <= 1) /\ \A m \in walking' : bodies'[m] # 0
  BY DEF Once
<1> QED
  BY <1>4, <1>5, <1>6 DEF Once

LEMMA ReplaceStep ==
  ASSUME GenInv, Typed', Shape', Once',
         NEW f \in Seq(Act), Below(stack, f), Below(stack', f),
         NEW a, a = stack[Len(stack)], NEW e, e = stack'[Len(stack')],
         InBody(a), Begun(e), Same(a, e), e.frame # 0 <=> e.pc \in Framed, e.pc \in Early => a.pc \in Early,
         InBody(e) => UNCHANGED <<walking, defers>>,
         ~InBody(e) => /\ walking' = walking \ {a.m}
                       /\ defers' = IF a.demand = "none" THEN defers - 1 ELSE defers,
         Extends(log, log'), FrameOf(stack', frames', frameDepth', Len(store')),
         Waits(stack', pending, store'), UNCHANGED <<sink, ret, pending, bodies>>
  PROVE  GenInv'
<1>1. stack \in Seq(Act) /\ stack' \in Seq(Act)
  BY DEF GenInv, Typed
<1>2. /\ IsModule(a) /\ Begun(a) /\ (Defers(a) <=> a.demand = "none")
      /\ Defers(e) <=> (InBody(e) /\ a.demand = "none")
  BY DEF InBody, Begun, Defers, IsModule, Same, Body, Framed
<1>3. /\ InBody(stack[Len(stack)]) /\ Begun(stack[Len(stack)]) /\ IsModule(stack[Len(stack)])
      /\ Begun(stack'[Len(stack')]) /\ Same(stack[Len(stack)], stack'[Len(stack')])
  BY <1>2
<1>4. Local(stack')
  BY <1>1, <1>3, ReplaceLocal DEF GenInv
<1>5. DeferOf(stack', defers')
  <2>1. /\ (Defers(a) <=> Defers(e)) => DeferOf(stack', defers)
        /\ Defers(a) /\ ~Defers(e) => DeferOf(stack', defers - 1)
    BY <1>1, <1>3, ReplaceDefer DEF GenInv
  <2>2. CASE InBody(e)
    BY <2>1, <2>2, <1>2
  <2>3. CASE ~InBody(e)
    BY <2>1, <2>3, <1>2
  <2> QED
    BY <2>2, <2>3
<1>6. Walks(stack', walking')
  <2>1. walking \subseteq Module /\ Walks(stack, walking)
    BY DEF GenInv, Typed
  <2>2. (InBody(e) => Walks(stack', walking)) /\ (~InBody(e) => Walks(stack', walking \ {a.m}))
    BY <2>1, <1>1, <1>3, ReplaceWalks
  <2> QED
    BY <2>2
<1>7. SinkPart'
  <2>1. PICK v : SinkOf(stack, v) /\ SinkIs(v)
    BY DEF GenInv, SinkPart
  <2>2. SinkOf(stack', v)
    BY <2>1, <1>1, <1>3, ReplaceSink
  <2>3. SinkIs(v)'
    BY <2>1 DEF SinkIs
  <2> QED
    BY <2>2, <2>3 DEF SinkPart
<1>8. Visits(stack', log')
  <2>1. Visits(stack', log)
    BY <1>1, <1>3, ReplaceVisits DEF GenInv
  <2> QED
    BY <2>1, ExtendVisits
<1>9. Unregistered(stack', pending', bodies')
  BY <1>1, <1>3, ReplaceUnregistered DEF GenInv
<1> QED
  BY <1>4, <1>5, <1>6, <1>7, <1>8, <1>9 DEF GenInv

Entered(a, pc, x) == [Moved(a, pc) EXCEPT !.frame = x]
Closed(a, pc, r)  == [Moved(a, pc) EXCEPT !.frame = 0, !.res = r]

LEMMA EnteredFacts ==
  ASSUME NEW a, a \in ModuleAct, NEW pc, pc \in Body \/ pc = "leave", NEW x, x \in Nat
  PROVE  /\ Entered(a, pc, x) \in ModuleAct /\ Entered(a, pc, x).pc = pc /\ Same(a, Entered(a, pc, x))
         /\ Entered(a, pc, x).frame = x
<1>1. PICK b : b = Moved(a, pc)
  OBVIOUS
<1>2. b \in ModuleAct /\ b.pc = pc /\ Same(a, b)
  BY <1>1, MovedModule
<1>3. PICK e : e = [b EXCEPT !.frame = x]
  OBVIOUS
<1>4. e \in ModuleAct /\ e.pc = pc /\ Same(b, e) /\ e.frame = x
  BY <1>2, <1>3 DEF ModuleAct, Same
<1>5. Entered(a, pc, x) = e
  BY <1>1, <1>3 DEF Entered
<1> QED
  BY <1>2, <1>4, <1>5 DEF Same

LEMMA ClosedFacts ==
  ASSUME NEW a, a \in ModuleAct, NEW pc, pc \in Body \/ pc = "leave", NEW r, r \in Nat
  PROVE  /\ Closed(a, pc, r) \in ModuleAct /\ Closed(a, pc, r).pc = pc /\ Same(a, Closed(a, pc, r))
         /\ Closed(a, pc, r).frame = 0
<1>1. PICK b : b = Moved(a, pc)
  OBVIOUS
<1>2. b \in ModuleAct /\ b.pc = pc /\ Same(a, b)
  BY <1>1, MovedModule
<1>3. PICK c : c = [b EXCEPT !.frame = 0]
  OBVIOUS
<1>4. c \in ModuleAct /\ c.pc = pc /\ Same(b, c) /\ c.frame = 0
  BY <1>2, <1>3 DEF ModuleAct, Same
<1>5. PICK e : e = [c EXCEPT !.res = r]
  OBVIOUS
<1>6. e \in ModuleAct /\ e.pc = pc /\ Same(c, e) /\ e.frame = 0
  BY <1>4, <1>5 DEF ModuleAct, Same
<1>7. Closed(a, pc, r) = e
  BY <1>1, <1>3, <1>5 DEF Closed
<1> QED
  BY <1>2, <1>4, <1>6, <1>7 DEF Same

LEMMA GotoExcept ==
  ASSUME NEW pc, stack \in Seq(Act), stack # <<>>
  PROVE  /\ \A x : [Goto(pc) EXCEPT ![Len(stack)].frame = x]
                     = [stack EXCEPT ![Len(stack)] = Entered(Top, pc, x)]
         /\ \A r : [Goto(pc) EXCEPT ![Len(stack)].frame = 0, ![Len(stack)].res = r]
                     = [stack EXCEPT ![Len(stack)] = Closed(Top, pc, r)]
<1>1. PICK n, b : n = Len(stack) /\ b = Moved(Top, pc)
  OBVIOUS
<1>2. PICK g : g = Goto(pc)
  OBVIOUS
<1>3. g = [stack EXCEPT ![n] = b] /\ n \in 1..Len(stack) /\ DOMAIN stack = 1..Len(stack)
  BY <1>1, <1>2, GotoFacts, TopFacts
<1>4. g[n] = b
  BY <1>3
<1>5. ASSUME NEW x
      PROVE  [g EXCEPT ![n].frame = x] = [stack EXCEPT ![n] = Entered(Top, pc, x)]
  <2>1. [g EXCEPT ![n].frame = x] = [g EXCEPT ![n] = [b EXCEPT !.frame = x]]
    BY <1>4
  <2>2. [g EXCEPT ![n] = [b EXCEPT !.frame = x]] = [stack EXCEPT ![n] = [b EXCEPT !.frame = x]]
    BY <1>3
  <2> QED
    BY <2>1, <2>2, <1>1 DEF Entered
<1>6. ASSUME NEW r
      PROVE  [g EXCEPT ![n].frame = 0, ![n].res = r] = [stack EXCEPT ![n] = Closed(Top, pc, r)]
  <2>0. PICK c : c = [b EXCEPT !.frame = 0, !.res = r]
    OBVIOUS
  <2>1. [g EXCEPT ![n].frame = 0, ![n].res = r] = [g EXCEPT ![n] = c]
    BY <2>0, <1>3, <1>4
  <2>2. [g EXCEPT ![n] = c] = [stack EXCEPT ![n] = c]
    BY <1>3
  <2> QED
    BY <2>0, <2>1, <2>2, <1>1 DEF Closed
<1> QED
  BY <1>1, <1>2, <1>5, <1>6

LEMMA ReadModuleKeeps ==
  ASSUME GenInv, ReadModule
  PROVE  GenInv'
<1>1. /\ ~exc /\ ~Returning /\ stack \in Seq(Act) /\ stack # <<>> /\ Top.pc = "read"
      /\ IsModule(Top) /\ Top \in ModuleAct /\ Top.m \in Module
  BY AtFacts DEF ReadModule, ModuleAct
<1>2. PICK f, a : f = Caller /\ a = Top
  OBVIOUS
<1>3. /\ f \in Seq(Act) /\ Below(stack, f) /\ a = stack[Len(stack)] /\ Len(stack) \in 1..Len(stack)
      /\ IsModule(stack[Len(stack)])
  BY <1>1, <1>2, TopFacts DEF Caller, Top
<1>4. stack[Len(stack)].frame = 0
  BY <1>1, <1>2, <1>3 DEF GenInv, Local, Framed
<1>5. /\ frames \in Seq(Nat) /\ store \in Seq([serial : Nat, pending : Int]) /\ frameSerial \in Nat
      /\ Len(store) \in Nat
  BY DEF GenInv, Typed
<1>6. FrameOf(f, frames, frameDepth, Len(store))
  BY <1>1, <1>3, <1>4, <1>5, PopModuleFrame DEF GenInv
<1>7. PICK x : x = NextFrame
  OBVIOUS
<1>8. PushFrame(x)
  BY <1>7 DEF ReadModule
<1>9. /\ frames' \in Seq(Nat) /\ store' \in Seq([serial : Nat, pending : Int])
      /\ frameDepth' = frameDepth + 1 /\ frameDepth' \in Int /\ frameSerial' \in Nat
      /\ Len(store) \in Nat /\ Len(store') \in Nat /\ Len(store) <= Len(store')
      /\ x \in 1..Len(store')
      /\ Free(frames, frameDepth, Len(store), x) /\ Placed(frames, frames', frameDepth, x)
      /\ Refreshed(store, store')
  BY <1>3, <1>5, <1>6, <1>7, <1>8, PushFrameFacts
<1>10. PICK e : e = Entered(a, "peers", x)
  OBVIOUS
<1>11. x \in Nat /\ x # 0 /\ "peers" \in Body /\ "peers" \in Framed /\ "peers" \in Early /\ "read" \in Early /\ "read" \in Body
  BY <1>9 DEF Body, Framed, Early
<1>12. e \in ModuleAct /\ e.pc = "peers" /\ Same(a, e) /\ e.frame = x
  BY <1>1, <1>2, <1>10, <1>11, EnteredFacts
<1>13. e \in Act /\ IsModule(e) /\ Begun(e) /\ InBody(e) /\ Nested(e) /\ Taken(e) = x /\ InBody(a)
  BY <1>1, <1>2, <1>11, <1>12 DEF Act, ModuleAct, IsModule, Begun, InBody, Nested, Taken
<1>14. stack' \in Seq(Act) /\ Below(stack', f) /\ stack'[Len(stack')] = e
  <2>1. stack' = [Goto("peers") EXCEPT ![Len(stack)].frame = x]
    BY <1>7 DEF ReadModule
  <2>2. Topped(stack, stack', e)
    BY <2>1, <1>1, <1>2, <1>10, GotoExcept DEF Topped
  <2>3. /\ stack' \in Seq(Act) /\ stack'[Len(stack')] = e
        /\ Below(stack', SubSeq(stack, 1, Len(stack) - 1))
    BY <1>1, <1>13, <2>2, ReplacedTop
  <2> QED
    BY <2>3, <1>2 DEF Caller
<1>15. IsSeq(warnings')
  <2>1. (\E w, by : OnWarn(warnings, w, by)) \/ warnings' = warnings
    BY DEF ReadModule
  <2> QED
    BY <2>1, OnWarnSeq DEF GenInv, Typed
<1>16. exc' \in BOOLEAN /\ ret' = ret /\ ~Returning'
  BY <1>1 DEF ReadModule, Returning
<1>17. Typed'
  BY <1>9, <1>14, <1>15, <1>16 DEF GenInv, Typed, ReadModule, memos, nesting, export, history
<1>18. Shape'
  BY <1>1, <1>3, <1>13, <1>14, <1>16, ReplaceShape DEF GenInv
<1>19. /\ UNCHANGED <<walking, defers>> /\ UNCHANGED <<sink, ret, pending, bodies>>
       /\ memo' = memo /\ log' = log
  BY DEF ReadModule, memos, nesting, export, history
<1>20. Once'
  <2>1. ~Doomed(stack) /\ walking \subseteq Module /\ e.pc # "after"
    BY <1>1, <1>12 DEF Doomed, GenInv, Typed
  <2>2. /\ \A m \in Module : memo[m] # 0 => memo'[m] # 0
        /\ (walking' = walking \/ (walking' = walking \ {a} /\ memo'[a] # 0)) /\ bodies' = bodies
    BY <1>19
  <2> QED
    BY <2>1, <2>2, <1>1, <1>3, <1>14, ReplaceOnce DEF GenInv
<1>21. Extends(log, log')
  BY <1>19, ExtendsItself DEF GenInv, Typed, LogEntry
<1>22. FrameOf(stack', frames', frameDepth', Len(store'))
  <2>1. /\ Taken(stack'[Len(stack')]) = x /\ (IsModule(stack'[Len(stack')]) => x = Taken(stack'[Len(stack')]))
    BY <1>13, <1>14
  <2>2. /\ Taken(stack'[Len(stack')]) \in 1..Len(store')
        /\ Free(frames, frameDepth, Len(store), Taken(stack'[Len(stack')]))
    BY <2>1, <1>9
  <2>3. FrameOf(stack', frames', frameDepth + 1, Len(store'))
    BY <2>1, <2>2, <1>3, <1>5, <1>6, <1>9, <1>14, PushFramed
  <2> QED
    BY <2>3, <1>9
<1>23. Waits(stack', pending, store')
  <2>1. Waits(f, pending, store)
    BY <1>1, <1>3, PopModuleWaits DEF GenInv
  <2>2. IsModule(stack'[Len(stack')])
    BY <1>13, <1>14
  <2>3. Waits(stack', pending, store)
    BY <2>1, <2>2, <1>3, <1>14, PushModuleWaits
  <2> QED
    BY <2>3, <1>5, <1>9, <1>14, RefreshWaits
<1>24. (e.frame # 0 <=> e.pc \in Framed) /\ (e.pc \in Early => a.pc \in Early)
  BY <1>1, <1>2, <1>11, <1>12
<1> QED
  BY <1>3, <1>12, <1>13, <1>14, <1>17, <1>18, <1>19, <1>20, <1>21, <1>22, <1>23, <1>24, ReplaceStep

LEMMA NewResultFacts ==
  ASSUME Typed, NEW m, m \in Module, NEW output, NewResult(m, output)
  PROVE  /\ IsSeq(results') /\ Len(results) \in Nat /\ memo' \in [Module -> Nat] /\ memo'[m] # 0
         /\ \A q \in Module : memo[q] # 0 => memo'[q] # 0
<1>1. IsSeq(results') /\ Len(results) \in Nat
  BY IsSeqAppend DEF Typed, NewResult
<1>2. memo \in [Module -> Nat] /\ memo' = [memo EXCEPT ![m] = Len(results) + 1]
  BY DEF Typed, NewResult
<1> QED
  BY <1>1, <1>2

(* What the ends of a module have in common: its frame is given up.        *)
LEMMA GivenUp ==
  ASSUME GenInv, stack # <<>>, IsModule(Top), stack' \in Seq(Act), Below(stack', Caller),
         IsModule(stack'[Len(stack')]), stack'[Len(stack')].frame = 0,
         NEW k, k = IF Top.frame = 0 THEN frameDepth ELSE frameDepth - 1
  PROVE  /\ FrameOf(stack', frames, k, Len(store)) /\ Waits(stack', pending, store)
<1>1. PICK f : f = Caller
  OBVIOUS
<1>2. f \in Seq(Act) /\ stack \in Seq(Act) /\ Below(stack, f) /\ IsModule(stack[Len(stack)]) /\ Below(stack', f)
  BY <1>1, TopFacts DEF GenInv, Typed, Caller, Top
<1>3. frames \in Seq(Nat) /\ Len(store) \in Nat
  BY DEF GenInv, Typed
<1>4. FrameOf(f, frames, k, Len(store))
  <2>1. /\ stack[Len(stack)].frame # 0 => FrameOf(f, frames, frameDepth - 1, Len(store))
        /\ stack[Len(stack)].frame = 0 => FrameOf(f, frames, frameDepth, Len(store))
    BY <1>2, <1>3, PopModuleFrame DEF GenInv
  <2> QED
    BY <2>1 DEF Top
<1>5. Taken(stack'[Len(stack')]) = 0
  BY DEF Taken
<1>6. FrameOf(stack', frames, k, Len(store))
  BY <1>2, <1>3, <1>4, <1>5, PushUnframedOf
<1>7. Waits(f, pending, store)
  BY <1>2, PopModuleWaits DEF GenInv
<1>8. Waits(stack', pending, store)
  BY <1>2, <1>7, PushModuleWaits
<1> QED
  BY <1>6, <1>8

LEMMA FinishModuleKeeps ==
  ASSUME GenInv, FinishModule, project.throw[Top.m] # "emitting"
  PROVE  GenInv'
<1>1. /\ ~exc /\ ~Returning /\ stack \in Seq(Act) /\ stack # <<>> /\ Top.pc = "finish"
      /\ IsModule(Top) /\ Top \in ModuleAct /\ Top.m \in Module
  BY AtFacts DEF FinishModule, ModuleAct
<1>2. PICK f, a : f = Caller /\ a = Top
  OBVIOUS
<1>3. f \in Seq(Act) /\ Below(stack, f) /\ a = stack[Len(stack)] /\ Len(stack) \in 1..Len(stack)
  BY <1>1, <1>2, TopFacts DEF Caller, Top
<1>4. a.frame # 0
  BY <1>1, <1>2, <1>3 DEF GenInv, Local, Framed
<1>5. /\ NewResult(Top.m, TRUE) /\ LogExport("publish", Len(results) + 1) /\ frameDepth' = frameDepth - 1
      /\ stack' = [Goto("after") EXCEPT ![Len(stack)].frame = 0, ![Len(stack)].res = Len(results) + 1]
      /\ exc' = exc
  BY DEF FinishModule
<1>6. /\ IsSeq(results') /\ Len(results) \in Nat /\ memo' \in [Module -> Nat] /\ memo'[Top.m] # 0
      /\ \A q \in Module : memo[q] # 0 => memo'[q] # 0
  BY <1>1, <1>5, NewResultFacts DEF GenInv
<1>7. PICK e : e = Closed(a, "after", Len(results) + 1)
  OBVIOUS
<1>8. "after" \in Body /\ "after" \notin Framed /\ "after" \notin Early /\ "finish" \in Body
  BY DEF Body, Framed, Early
<1>9. e \in ModuleAct /\ e.pc = "after" /\ Same(a, e) /\ e.frame = 0
  BY <1>1, <1>2, <1>6, <1>7, <1>8, ClosedFacts
<1>10. e \in Act /\ IsModule(e) /\ Begun(e) /\ InBody(e) /\ InBody(a)
  BY <1>1, <1>2, <1>8, <1>9 DEF Act, ModuleAct, IsModule, Begun, InBody
<1>11. stack' \in Seq(Act) /\ Below(stack', f) /\ stack'[Len(stack')] = e
  <2>1. Topped(stack, stack', e)
    <3>1. PICK r : r = Len(results) + 1
      OBVIOUS
    <3>2. stack' = [Goto("after") EXCEPT ![Len(stack)].frame = 0, ![Len(stack)].res = r]
      BY <3>1, <1>5
    <3>3. e = Closed(Top, "after", r)
      BY <3>1, <1>2, <1>7
    <3>4. [Goto("after") EXCEPT ![Len(stack)].frame = 0, ![Len(stack)].res = r]
            = [stack EXCEPT ![Len(stack)] = Closed(Top, "after", r)]
      BY <1>1, GotoExcept
    <3> QED
      BY <3>2, <3>3, <3>4 DEF Topped
  <2>2. /\ stack' \in Seq(Act) /\ stack'[Len(stack')] = e
        /\ Below(stack', SubSeq(stack, 1, Len(stack) - 1))
    BY <1>1, <1>10, <2>1, ReplacedTop
  <2> QED
    BY <2>2, <1>2 DEF Caller
<1>12. log' \in Seq(LogEntry) /\ Extends(log, log')
  <2>1. log \in Seq(LogEntry) /\ "publish" \in {"use", "publish"} /\ Len(results) + 1 \in Nat
    BY <1>6 DEF GenInv, Typed, LogEntry
  <2> QED
    BY <2>1, <1>5, LogExtends
<1>13. ret' = ret /\ ~Returning' /\ ~exc' /\ exc' \in BOOLEAN
  <2>1. ret' = ret /\ exc' = exc
    BY <1>5 DEF FinishModule
  <2>2. exc \in BOOLEAN
    BY DEF GenInv, Typed
  <2> QED
    BY <2>1, <2>2, <1>1 DEF Returning
<1>14. frameDepth' \in Int
  BY <1>5 DEF GenInv, Typed
<1>15. Typed'
  BY <1>6, <1>11, <1>12, <1>13, <1>14 DEF GenInv, Typed, LogEntry, FinishModule, nesting, warns, history
<1>16. Shape'
  BY <1>1, <1>3, <1>11, <1>13, ReplaceShape DEF GenInv
<1>17. /\ UNCHANGED <<walking, defers>> /\ UNCHANGED <<sink, ret, pending, bodies>>
       /\ frames' = frames /\ store' = store
  BY DEF FinishModule, nesting, warns, history
<1>18. Once'
  <2>1. ~Doomed(stack) /\ walking \subseteq Module /\ e.m = Top.m
    BY <1>1, <1>2, <1>9 DEF Doomed, GenInv, Typed, Same
  <2>2. (walking' = walking \/ (walking' = walking \ {a} /\ memo'[a] # 0)) /\ bodies' = bodies
    BY <1>17
  <2> QED
    BY <2>1, <2>2, <1>1, <1>3, <1>6, <1>11, <1>17, ReplaceOnce DEF GenInv
<1>19. FrameOf(stack', frames', frameDepth', Len(store')) /\ Waits(stack', pending, store')
  <2>1. PICK k : k = IF Top.frame = 0 THEN frameDepth ELSE frameDepth - 1
    OBVIOUS
  <2>2. k = frameDepth'
    BY <2>1, <1>2, <1>4, <1>5
  <2>3. IsModule(stack'[Len(stack')]) /\ stack'[Len(stack')].frame = 0 /\ Below(stack', Caller)
    BY <1>2, <1>9, <1>10, <1>11
  <2>4. FrameOf(stack', frames, k, Len(store)) /\ Waits(stack', pending, store)
    BY <2>1, <2>3, <1>1, <1>11, GivenUp
  <2> QED
    BY <2>2, <2>4, <1>17
<1>20. (e.frame # 0 <=> e.pc \in Framed) /\ (e.pc \in Early => a.pc \in Early)
  BY <1>8, <1>9
<1> QED
  BY <1>3, <1>9, <1>10, <1>11, <1>12, <1>15, <1>16, <1>17, <1>18, <1>19, <1>20, ReplaceStep

LEMMA GenAfterEndsKeeps ==
  ASSUME GenInv, GenAfter, ~More(project.after[Top.m])
  PROVE  GenInv'
<1>1. /\ ~exc /\ ~Returning /\ stack \in Seq(Act) /\ stack # <<>> /\ Top.pc = "after"
      /\ IsModule(Top) /\ Top \in ModuleAct /\ Top.m \in Module
  BY AtFacts DEF GenAfter, ModuleAct
<1>2. PICK f, a : f = Caller /\ a = Top
  OBVIOUS
<1>3. f \in Seq(Act) /\ Below(stack, f) /\ a = stack[Len(stack)] /\ Len(stack) \in 1..Len(stack)
  BY <1>1, <1>2, TopFacts DEF Caller, Top
<1>4. a.frame = 0
  BY <1>1, <1>2, <1>3 DEF GenInv, Local, Framed
<1>5. stack' = Goto("leave") /\ EndWalk /\ sink' = sink
  BY DEF GenAfter
<1>6. memo[Top.m] # 0
  BY <1>1, <1>2, <1>3 DEF GenInv, Once
<1>7. PICK e : e = Moved(a, "leave")
  OBVIOUS
<1>8. "after" \in Body /\ "leave" \notin Framed /\ "leave" \notin Early /\ "leave" \notin Body
  BY DEF Body, Framed, Early
<1>9. e \in ModuleAct /\ e.pc = "leave" /\ Same(a, e) /\ e.frame = 0
  BY <1>1, <1>2, <1>4, <1>7, MovedModule
<1>10. e \in Act /\ IsModule(e) /\ Begun(e) /\ ~InBody(e) /\ InBody(a)
  BY <1>1, <1>2, <1>8, <1>9 DEF Act, ModuleAct, IsModule, Begun, InBody
<1>11. stack' \in Seq(Act) /\ Below(stack', f) /\ stack'[Len(stack')] = e
  <2>1. Topped(stack, stack', e)
    BY <1>1, <1>2, <1>5, <1>7, GotoFacts DEF Topped
  <2>2. /\ stack' \in Seq(Act) /\ stack'[Len(stack')] = e
        /\ Below(stack', SubSeq(stack, 1, Len(stack) - 1))
    BY <1>1, <1>10, <2>1, ReplacedTop
  <2> QED
    BY <2>2, <1>2 DEF Caller
<1>12. /\ walking' = walking \ {a.m} /\ defers' = IF a.demand = "none" THEN defers - 1 ELSE defers
  BY <1>2, <1>5 DEF EndWalk
<1>13. walking' \subseteq Module /\ defers' \in Int
  BY <1>12 DEF GenInv, Typed
<1>14. ret' = ret /\ ~Returning' /\ ~exc'
  BY <1>1 DEF GenAfter, control, Returning
<1>15. Typed'
  BY <1>5, <1>11, <1>13 DEF GenInv, Typed, GenAfter, control, memos, frameVs, export
<1>16. Shape'
  BY <1>1, <1>3, <1>11, <1>14, ReplaceShape DEF GenInv
<1>17. /\ UNCHANGED <<sink, ret, pending, bodies>> /\ frames' = frames /\ store' = store
       /\ frameDepth' = frameDepth /\ memo' = memo /\ log' = log
  BY <1>5 DEF GenAfter, control, memos, frameVs, export
<1>18. Once'
  <2>1. ~Doomed(stack) /\ walking \subseteq Module /\ e.pc # "after"
    BY <1>1, <1>9 DEF Doomed, GenInv, Typed
  <2>2. /\ walking' = walking \/ (walking' = walking \ {a.m} /\ memo'[a.m] # 0)
        /\ bodies' = bodies /\ \A q \in Module : memo[q] # 0 => memo'[q] # 0
    BY <1>2, <1>6, <1>12, <1>17
  <2> QED
    BY <2>1, <2>2, <1>1, <1>3, <1>11, ReplaceOnce DEF GenInv
<1>19. FrameOf(stack', frames', frameDepth', Len(store')) /\ Waits(stack', pending, store')
  <2>1. PICK k : k = IF Top.frame = 0 THEN frameDepth ELSE frameDepth - 1
    OBVIOUS
  <2>2. k = frameDepth'
    BY <2>1, <1>2, <1>4, <1>17
  <2>3. IsModule(stack'[Len(stack')]) /\ stack'[Len(stack')].frame = 0 /\ Below(stack', Caller)
    BY <1>2, <1>9, <1>10, <1>11
  <2>4. FrameOf(stack', frames, k, Len(store)) /\ Waits(stack', pending, store)
    BY <2>1, <2>3, <1>1, <1>11, GivenUp
  <2> QED
    BY <2>2, <2>4, <1>17
<1>20. (e.frame # 0 <=> e.pc \in Framed) /\ (e.pc \in Early => a.pc \in Early)
  BY <1>8, <1>9
<1>21. Extends(log, log')
  BY <1>17, ExtendsItself DEF GenInv, Typed, LogEntry
<1> QED
  BY <1>3, <1>9, <1>10, <1>11, <1>12, <1>15, <1>16, <1>17, <1>18, <1>19, <1>20, <1>21, ReplaceStep

LEMMA RaisingTop ==
  ASSUME GenInv, exc, stack # <<>>, Top.kind = "module"
  PROVE  /\ ~Returning /\ stack \in Seq(Act) /\ IsModule(Top) /\ Top \in ModuleAct /\ Top.m \in Module
         /\ InBody(Top) /\ Top.pc # "enter" /\ Begun(Top)
         /\ Caller \in Seq(Act) /\ Below(stack, Caller) /\ Len(stack) \in 1..Len(stack)
         /\ \A i \in 1..Len(stack) : Nested(stack[i])
<1>1. stack \in Seq(Act) /\ ~Returning /\ \A i \in 1..Len(stack) : Nested(stack[i])
  BY DEF GenInv, Typed, Shape
<1>2. Top \in Act /\ Len(stack) \in 1..Len(stack) /\ Caller \in Seq(Act) /\ Below(stack, Caller)
  BY <1>1, TopFacts DEF Top, Caller
<1>3. IsModule(Top) /\ Top \in ModuleAct /\ Top.m \in Module /\ ~IsFire(Top)
  BY <1>2, KindFacts DEF IsModule
<1>4. Nested(Top)
  BY <1>1, <1>2 DEF Top
<1>5. Top.pc \in Body
  BY <1>3, <1>4 DEF Nested
<1>6. "enter" \notin Body
  BY DEF Body, Framed
<1> QED
  BY <1>1, <1>2, <1>3, <1>5, <1>6 DEF InBody, Begun

LEMMA RecoverKeeps ==
  ASSUME GenInv, Recover
  PROVE  GenInv'
<1>1. /\ ~Returning /\ stack \in Seq(Act) /\ stack # <<>> /\ IsModule(Top) /\ Top \in ModuleAct
      /\ Top.m \in Module /\ InBody(Top) /\ exc
  BY RaisingTop DEF Recover
<1>2. PICK f, a : f = Caller /\ a = Top
  OBVIOUS
<1>3. f \in Seq(Act) /\ Below(stack, f) /\ a = stack[Len(stack)] /\ Len(stack) \in 1..Len(stack)
  BY <1>1, <1>2, TopFacts DEF Caller, Top
<1>5. /\ NewResult(Top.m, FALSE) /\ EndWalk /\ PopFrame /\ OnWarn(warnings, Failed(Top.m), Top.m)
      /\ stack' = [Goto("leave") EXCEPT ![Len(stack)].frame = 0, ![Len(stack)].res = Len(results) + 1]
      /\ exc' = FALSE
  BY DEF Recover
<1>6. /\ IsSeq(results') /\ Len(results) \in Nat /\ memo' \in [Module -> Nat] /\ memo'[Top.m] # 0
      /\ \A q \in Module : memo[q] # 0 => memo'[q] # 0
  BY <1>1, <1>5, NewResultFacts DEF GenInv
<1>7. PICK e : e = Closed(a, "leave", Len(results) + 1)
  OBVIOUS
<1>8. "leave" \notin Framed /\ "leave" \notin Early /\ "leave" \notin Body
  BY DEF Body, Framed, Early
<1>9. e \in ModuleAct /\ e.pc = "leave" /\ Same(a, e) /\ e.frame = 0
  <2>1. a \in ModuleAct /\ Len(results) + 1 \in Nat
    BY <1>1, <1>2, <1>6
  <2> QED
    BY ONLY <2>1, <1>7, ClosedFacts
<1>10. e \in Act /\ IsModule(e) /\ Begun(e) /\ ~InBody(e) /\ InBody(a)
  BY <1>1, <1>2, <1>8, <1>9 DEF Act, ModuleAct, IsModule, Begun, InBody
<1>11. stack' \in Seq(Act) /\ Below(stack', f) /\ stack'[Len(stack')] = e
  <2>1. Topped(stack, stack', e)
    <3>1. PICK r : r = Len(results) + 1
      OBVIOUS
    <3>2. stack' = [Goto("leave") EXCEPT ![Len(stack)].frame = 0, ![Len(stack)].res = r]
      BY <3>1, <1>5
    <3>3. e = Closed(Top, "leave", r)
      BY <3>1, <1>2, <1>7
    <3>4. [Goto("leave") EXCEPT ![Len(stack)].frame = 0, ![Len(stack)].res = r]
            = [stack EXCEPT ![Len(stack)] = Closed(Top, "leave", r)]
      BY <1>1, GotoExcept
    <3> QED
      BY <3>2, <3>3, <3>4 DEF Topped
  <2>2. /\ stack' \in Seq(Act) /\ stack'[Len(stack')] = e
        /\ Below(stack', SubSeq(stack, 1, Len(stack) - 1))
    BY <1>1, <1>10, <2>1, ReplacedTop
  <2> QED
    BY <2>2, <1>2 DEF Caller
<1>12. /\ walking' = walking \ {a.m} /\ defers' = IF a.demand = "none" THEN defers - 1 ELSE defers
  BY <1>2, <1>5 DEF EndWalk
<1>13. ret' = ret /\ ~Returning' /\ ~exc' /\ exc' \in BOOLEAN
  BY <1>1, <1>5 DEF Recover, Returning
<1>14. frameDepth' = (IF Top.frame = 0 THEN frameDepth ELSE frameDepth - 1) /\ IsSeq(warnings')
  BY <1>5, OnWarnSeq DEF PopFrame, GenInv, Typed
<1>15. Typed'
  <2>1. frameDepth' \in Int /\ walking' \subseteq Module /\ defers' \in Int
    BY <1>12, <1>14 DEF GenInv, Typed
  <2> QED
    BY <2>1, <1>6, <1>11, <1>13, <1>14 DEF GenInv, Typed, Recover, export, history
<1>16. Shape'
  BY <1>1, <1>3, <1>11, <1>13, ReplaceShape DEF GenInv
<1>17. /\ UNCHANGED <<sink, ret, pending, bodies>> /\ frames' = frames /\ store' = store /\ log' = log
  BY DEF Recover, export, history
<1>18. Once'
  <2>1. ~Doomed(stack)
    BY <1>1, <1>2, <1>3 DEF Doomed, Recover
  <2>2. /\ walking \subseteq Module /\ e.pc # "after"
        /\ walking' = walking \/ (walking' = walking \ {a.m} /\ memo'[a.m] # 0)
        /\ bodies' = bodies
    BY <1>2, <1>6, <1>9, <1>12, <1>17 DEF GenInv, Typed
  <2> QED
    BY <2>1, <2>2, <1>1, <1>3, <1>6, <1>11, ReplaceOnce DEF GenInv
<1>19. FrameOf(stack', frames', frameDepth', Len(store')) /\ Waits(stack', pending, store')
  <2>1. PICK k : k = IF Top.frame = 0 THEN frameDepth ELSE frameDepth - 1
    OBVIOUS
  <2>2. k = frameDepth'
    BY <2>1, <1>14
  <2>3. IsModule(stack'[Len(stack')]) /\ stack'[Len(stack')].frame = 0 /\ Below(stack', Caller)
    BY <1>2, <1>9, <1>10, <1>11
  <2>4. FrameOf(stack', frames, k, Len(store)) /\ Waits(stack', pending, store)
    BY <2>1, <2>3, <1>1, <1>11, GivenUp
  <2> QED
    BY <2>2, <2>4, <1>17
<1>20. (e.frame # 0 <=> e.pc \in Framed) /\ (e.pc \in Early => a.pc \in Early)
  BY <1>8, <1>9
<1>21. Extends(log, log')
  BY <1>17, ExtendsItself DEF GenInv, Typed, LogEntry
<1> QED
  BY <1>3, <1>9, <1>10, <1>11, <1>12, <1>15, <1>16, <1>17, <1>18, <1>19, <1>20, <1>21, ReplaceStep

-----------------------------------------------------------------------------
(***************************************************************************)
(* Beginning a module.                                                     *)
(***************************************************************************)
Begins(b, e, w, p, at, r, pc) ==
  /\ w \in Nat /\ p \in Nat /\ at \in Nat /\ r \in Nat /\ pc \in {"before", "leave"}
  /\ e = [b EXCEPT !.warnings = w, !.parent = p, !.at = at, !.res = r, !.pc = pc]

LEMMA BeginsFacts ==
  ASSUME NEW b, b \in ModuleAct, NEW w, NEW p, NEW at, NEW r, NEW pc, NEW e, Begins(b, e, w, p, at, r, pc)
  PROVE  /\ e \in ModuleAct /\ e.m = b.m /\ e.demand = b.demand /\ e.via = b.via /\ e.outer = b.outer
         /\ e.frame = b.frame /\ e.deferred = b.deferred /\ e.warnings = w /\ e.parent = p /\ e.at = at
         /\ e.pc = pc
<1>1. w \in Nat /\ p \in Nat /\ at \in Nat /\ r \in Nat /\ pc \in {"before", "leave"}
  BY DEF Begins
<1>3. PICK c : c = [b EXCEPT !.warnings = w]
  OBVIOUS
<1>4. /\ c \in ModuleAct /\ c.m = b.m /\ c.demand = b.demand /\ c.via = b.via /\ c.outer = b.outer
      /\ c.frame = b.frame /\ c.deferred = b.deferred /\ c.warnings = w
  BY <1>1, <1>3 DEF ModuleAct
<1>5. PICK g : g = [c EXCEPT !.parent = p]
  OBVIOUS
<1>6. /\ g \in ModuleAct /\ g.m = c.m /\ g.demand = c.demand /\ g.via = c.via /\ g.outer = c.outer
      /\ g.frame = c.frame /\ g.deferred = c.deferred /\ g.warnings = c.warnings /\ g.parent = p
  BY <1>1, <1>4, <1>5 DEF ModuleAct
<1>7. PICK h : h = [g EXCEPT !.at = at]
  OBVIOUS
<1>8. /\ h \in ModuleAct /\ h.m = g.m /\ h.demand = g.demand /\ h.via = g.via /\ h.outer = g.outer
      /\ h.frame = g.frame /\ h.deferred = g.deferred /\ h.warnings = g.warnings /\ h.parent = g.parent
      /\ h.at = at
  BY <1>1, <1>6, <1>7 DEF ModuleAct
<1>9. PICK k : k = [h EXCEPT !.res = r]
  OBVIOUS
<1>10. /\ k \in ModuleAct /\ k.m = h.m /\ k.demand = h.demand /\ k.via = h.via /\ k.outer = h.outer
       /\ k.frame = h.frame /\ k.deferred = h.deferred /\ k.warnings = h.warnings /\ k.parent = h.parent
       /\ k.at = h.at
  BY <1>1, <1>8, <1>9 DEF ModuleAct
<1>11. e = [k EXCEPT !.pc = pc]
  BY <1>3, <1>5, <1>7, <1>9 DEF Begins
<1>12. /\ e \in ModuleAct /\ e.m = k.m /\ e.demand = k.demand /\ e.via = k.via /\ e.outer = k.outer
       /\ e.frame = k.frame /\ e.deferred = k.deferred /\ e.warnings = k.warnings /\ e.parent = k.parent
       /\ e.at = k.at /\ e.pc = pc
  <2>1. pc \in Body \cup {"enter", "leave"}
    BY <1>1 DEF Body
  <2> QED
    BY <2>1, <1>10, <1>11 DEF ModuleAct
<1> QED
  BY <1>4, <1>6, <1>8, <1>10, <1>12

(* The log l2 goes on from l with one entry that has no end yet.           *)
Opens(l, l2) == Len(l) \in Nat /\ Len(l2) = Len(l) + 1 /\ \A k \in 1..Len(l) : l2[k] = l[k]

LEMMA BeginOnce ==
  ASSUME Once, ~exc, exc' = exc, memo' = memo,
         bodies \in [Module -> Nat], walking \subseteq Module, NEW x, x \in Module,
         \/ UNCHANGED <<walking, bodies>>
         \/ /\ memo[x] = 0 /\ x \notin walking
            /\ walking' = walking \cup {x} /\ bodies' = [bodies EXCEPT ![x] = @ + 1],
         NEW f \in Seq(Act), stack \in Seq(Act), Below(stack, f), Below(stack', f),
         stack'[Len(stack')].pc # "after"
  PROVE  Once' /\ (bodies' # bodies => bodies[x] = 0)
<1>1. Len(f) \in Nat /\ Len(stack) = Len(f) + 1 /\ Len(stack') = Len(stack)
  BY DEF Below
<1>2. \A i \in 1..Len(stack') : i = Len(stack') \/ (i \in 1..Len(stack) /\ stack'[i] = stack[i])
  BY <1>1 DEF Below
<1>3. \A i \in 1..Len(stack') : IsModule(stack'[i]) /\ stack'[i].pc = "after" => memo'[stack'[i].m] # 0
  BY <1>2 DEF Once
<1>4. \A m \in Module : bodies[m] \in Nat /\ bodies[m] <= 1 /\ (bodies[m] = 1 => (memo[m] # 0 \/ m \in walking))
  BY DEF Once, Doomed
<1>5. \A m \in walking : bodies[m] # 0
  BY DEF Once
<1>6. CASE UNCHANGED <<walking, bodies>>
  BY <1>3, <1>4, <1>5, <1>6 DEF Once
<1>7. CASE /\ memo[x] = 0 /\ x \notin walking
           /\ walking' = walking \cup {x} /\ bodies' = [bodies EXCEPT ![x] = @ + 1]
  <2>1. bodies[x] = 0
    BY <1>4, <1>7
  <2>2. \A m \in Module : bodies'[m] = IF m = x THEN 1 ELSE bodies[m]
    BY <2>1, <1>7
  <2>3. \A m \in walking' : bodies'[m] # 0
    BY <2>2, <1>5, <1>7
  <2>4. (\A m \in Module : bodies'[m] <= 1) /\ \A m \in Module : bodies'[m] = 1 => (memo'[m] # 0 \/ m \in walking')
    BY <2>2, <1>4, <1>7
  <2> QED
    BY <2>1, <2>3, <2>4, <1>3 DEF Once
<1> QED
  BY <1>6, <1>7

LEMMA BeginStep ==
  ASSUME GenInv, Typed', ~exc, ~Returning, stack # <<>>,
         UNCHANGED <<project, exc, ret, memo, frames, frameDepth, store, pending>>,
         NEW f, f = Caller, Below(stack', f),
         NEW a, a = Top, a \in ModuleAct, a.pc = "enter",
         NEW e, e = stack'[Len(stack')], e \in ModuleAct, e.pc \in {"before", "leave"},
         e.m = a.m, e.demand = a.demand, e.via = a.via, e.outer = a.outer, e.frame = a.frame,
         e.deferred <=> (e.demand = "none" \/ defers > 0), e.parent = sink,
         sink' = IF e.deferred THEN e.warnings ELSE sink,
         Opens(log, log'), e.at = Len(log) + 1,
         e.pc = "leave" => UNCHANGED <<walking, defers, bodies>>,
         e.pc = "before" => /\ memo[a.m] = 0 /\ a.m \notin walking /\ walking' = walking \cup {a.m}
                            /\ defers' = IF a.demand = "none" THEN defers + 1 ELSE defers
                            /\ bodies' = [bodies EXCEPT ![a.m] = @ + 1]
  PROVE  GenInv'
<1>1. /\ stack \in Seq(Act) /\ stack' \in Seq(Act) /\ f \in Seq(Act) /\ Below(stack, f)
      /\ a = stack[Len(stack)] /\ Len(stack) \in 1..Len(stack)
  BY TopFacts DEF GenInv, Typed, Top, Caller
<1>2. "enter" \notin Body /\ "enter" \notin Framed /\ "leave" \notin Body /\ "leave" \notin Framed
      /\ "leave" \notin Early /\ "before" \in Body /\ "before" \notin Framed /\ "before" \in Early
  BY DEF Body, Framed, Early
<1>3. /\ IsModule(a) /\ ~Begun(a) /\ ~InBody(a) /\ ~Defers(a)
      /\ IsModule(e) /\ ~IsFire(e) /\ Begun(e) /\ (InBody(e) <=> e.pc = "before")
      /\ Defers(e) <=> (e.pc = "before" /\ a.demand = "none")
      /\ a.m \in Module
  BY <1>2 DEF ModuleAct, IsModule, IsFire, Begun, InBody, Defers
<1>4. a.frame = 0 /\ (a.via = "sibling" => a.demand = "none")
  BY <1>1, <1>2, <1>3 DEF GenInv, Local
<1>5. ~exc' /\ ~Returning' /\ ~Returning
  BY DEF Returning
<1>6. Shape'
  BY <1>1, <1>5, ReplaceShape DEF GenInv
<1>7. Local(stack')
  <2>1. Local(f)
    BY <1>1, PopLocal DEF GenInv
  <2>2. e.frame # 0 <=> e.pc \in Framed
    BY <1>2, <1>4
  <2> QED
    BY <1>1, <1>4, <2>1, <2>2, PushLocal
<1>8. DeferOf(stack', defers')
  <2>1. DeferOf(f, defers)
    BY <1>1, <1>3, PopDefer DEF GenInv
  <2>2. (Defers(e) => DeferOf(stack', defers + 1)) /\ (~Defers(e) => DeferOf(stack', defers))
    BY <2>1, <1>1, PushDefer
  <2>3. CASE e.pc = "before"
    BY <2>2, <2>3, <1>3
  <2>4. CASE e.pc = "leave"
    BY <2>2, <2>4, <1>3
  <2> QED
    BY <2>3, <2>4
<1>9. Walks(stack', walking')
  <2>1. Walks(f, walking)
    BY <1>1, <1>3, PopWalks DEF GenInv
  <2>2. InBody(e) => e.m \notin walking
    BY <1>3
  <2>3. Walks(stack', IF InBody(e) THEN walking \cup {e.m} ELSE walking)
    BY <1>1, <2>1, <2>2, PushWalks
  <2> QED
    BY <2>3, <1>3
<1>10. Once' /\ (bodies' # bodies => bodies[a.m] = 0)
  <2>1. /\ bodies \in [Module -> Nat] /\ walking \subseteq Module /\ Once
        /\ stack'[Len(stack')].pc # "after"
    BY DEF GenInv, Typed
  <2>2. \/ UNCHANGED <<walking, bodies>>
        \/ /\ memo[a.m] = 0 /\ a.m \notin walking
           /\ walking' = walking \cup {a.m} /\ bodies' = [bodies EXCEPT ![a.m] = @ + 1]
    OBVIOUS
  <2>3. exc' = exc /\ memo' = memo
    OBVIOUS
  <2> QED
    BY <2>1, <2>2, <2>3, <1>1, <1>3, BeginOnce
<1>11. SinkPart'
  <2>1. PICK v : SinkOf(stack, v) /\ SinkIs(v)
    BY DEF GenInv, SinkPart
  <2>2. PICK u : SinkOf(f, u) /\ SinkStep(a, u, v)
    BY <2>1, <1>1, PopSink
  <2>3. sink = v
    BY <2>1 DEF SinkIs, Returning
  <2>4. a.outer = u /\ v = Into(a)
    BY <2>2, <1>3 DEF SinkStep, IsFire, IsModule
  <2>5. Into(e) = Into(a)
    BY DEF Into
  <2>6. SinkStep(e, u, sink')
    BY <2>3, <2>4, <2>5, <1>3 DEF SinkStep
  <2>7. SinkOf(stack', sink')
    BY <2>2, <2>6, <1>1, PushSink
  <2>8. SinkIs(sink)'
    BY <1>5 DEF SinkIs, Returning
  <2> QED
    BY <2>7, <2>8 DEF SinkPart
<1>12. Visits(stack', log')
  <2>1. Visits(f, log)
    BY <1>1, <1>3, PopFireVisits DEF GenInv
  <2>2. /\ Len(log) \in Nat /\ Len(log') \in Nat /\ Len(log) <= Len(log') /\ e.at \in 1..Len(log')
        /\ \A k \in 1..Len(log) : log'[k] = log[k]
        /\ \A k \in 1..Len(log') : k \in 1..Len(log) \/ e.at = k
    BY DEF Opens
  <2> QED
    BY <2>1, <2>2, <1>1, <1>3, PushVisits
<1>13. FrameOf(stack', frames', frameDepth', Len(store')) /\ Waits(stack', pending', store')
  <2>1. PICK k : k = IF Top.frame = 0 THEN frameDepth ELSE frameDepth - 1
    OBVIOUS
  <2>2. k = frameDepth
    BY <2>1, <1>4
  <2>3. IsModule(Top) /\ IsModule(stack'[Len(stack')]) /\ stack'[Len(stack')].frame = 0 /\ Below(stack', Caller)
    BY <1>3, <1>4
  <2>4. FrameOf(stack', frames, k, Len(store)) /\ Waits(stack', pending, store)
    BY <2>1, <2>3, <1>1, GivenUp
  <2> QED
    BY <2>2, <2>4
<1>14. Unregistered(stack', pending', bodies')
  <2>1. Unregistered(f, pending, bodies)
    BY <1>1, PopUnregistered DEF GenInv
  <2>2. bodies \in [Module -> Nat] /\ bodies' \in [Module -> Nat]
    BY DEF GenInv, Typed
  <2>3. \A m \in Module : bodies'[m] = 0 => bodies[m] = 0
    <3>1. CASE e.pc = "leave"
      BY <3>1
    <3>2. CASE e.pc = "before"
      BY <3>2, <2>2, <1>3
    <3> QED
      BY <3>1, <3>2
  <2>4. e.pc \in Early => pending[e.m] = Nil /\ ~Firing(f, e.m)
    <3>1. ASSUME e.pc = "before"
          PROVE  pending[a.m] = Nil /\ ~Firing(stack, a.m)
      <4>1. bodies[a.m] = 0
        <5>1. bodies'[a.m] = bodies[a.m] + 1 /\ bodies[a.m] \in Nat
          BY <3>1, <2>2, <1>3
        <5>2. bodies' # bodies
          BY <5>1
        <5> QED
          BY <5>2, <1>10
      <4> QED
        BY <4>1, <1>3 DEF GenInv, Unregistered
    <3>2. \A o : Firing(f, o) <=> Firing(stack, o)
      BY <1>1, <1>3, PopModuleFires
    <3> QED
      BY <3>1, <3>2, <1>2
  <2>5. Unregistered(stack', pending, bodies')
    BY <2>1, <2>3, <2>4, <1>1, <1>3, PushModuleUnregistered
  <2> QED
    BY <2>5
<1> QED
  BY <1>6, <1>7, <1>8, <1>9, <1>10, <1>11, <1>12, <1>13, <1>14 DEF GenInv

LEMMA OpenLog ==
  ASSUME log \in Seq(LogEntry), EnterExport
  PROVE  log' \in Seq(LogEntry) /\ Opens(log, log')
<1>1. PICK e : e = Entry("visit", 0, 0)
  OBVIOUS
<1>2. e \in LogEntry /\ Len(log) \in Nat
  BY <1>1 DEF Entry, LogEntry
<1>3. log' = Append(log, e)
  BY <1>1 DEF EnterExport
<1>4. /\ log' \in Seq(LogEntry) /\ Len(log') = Len(log) + 1
      /\ \A k \in 1..Len(log) : log'[k] = log[k]
  BY <1>2, <1>3, AppendProperties
<1> QED
  BY <1>2, <1>4 DEF Opens

LEMMA GenModuleKeeps ==
  ASSUME GenInv, GenModule
  PROVE  GenInv'
<1>1. /\ ~exc /\ ~Returning /\ stack \in Seq(Act) /\ stack # <<>> /\ Top.pc = "enter"
      /\ Top \in ModuleAct /\ Top.m \in Module
  BY AtFacts DEF GenModule, ModuleAct
<1>2. PICK f, a : f = Caller /\ a = Top
  OBVIOUS
<1>3. PICK deferred : deferred = (a.demand = "none" \/ defers > 0)
  OBVIOUS
<1>4. PICK own, hit, cycle : /\ own = IF deferred THEN Len(warnings) + 1 ELSE 0
                             /\ hit = (memo[a.m] # 0)
                             /\ cycle = (memo[a.m] = 0 /\ a.m \in walking)
  OBVIOUS
<1>5. PICK pc : pc = IF hit \/ cycle THEN "leave" ELSE "before"
  OBVIOUS
<1>b. PICK b : b = [a EXCEPT !.deferred = deferred]
  OBVIOUS
<1>7. own \in Nat /\ sink \in Nat /\ Len(log) + 1 \in Nat /\ memo[a.m] \in Nat /\ pc \in {"before", "leave"}
  <2>2. Len(warnings) \in Nat
    BY IsSeqIn DEF GenInv, Typed, IsSeq
  <2>3. sink \in Nat /\ Len(log) + 1 \in Nat /\ memo[a.m] \in Nat
    BY <1>1, <1>2 DEF GenInv, Typed
  <2> QED
    BY <2>2, <2>3, <1>4, <1>5
<1>6. PICK e : Begins(b, e, own, sink, Len(log) + 1, memo[a.m], pc)
  BY <1>7 DEF Begins
<1>8. /\ e \in ModuleAct /\ e.m = a.m /\ e.demand = a.demand /\ e.via = a.via /\ e.outer = a.outer
      /\ e.frame = a.frame /\ (e.deferred <=> deferred) /\ e.warnings = own /\ e.parent = sink
      /\ e.at = Len(log) + 1 /\ e.pc = pc
  <2>1. /\ b \in ModuleAct /\ b.m = a.m /\ b.demand = a.demand /\ b.via = a.via /\ b.outer = a.outer
        /\ b.frame = a.frame /\ b.deferred = deferred
    <3>1. a \in ModuleAct /\ deferred \in BOOLEAN
      BY <1>1, <1>2, <1>3
    <3> QED
      BY ONLY <3>1, <1>b DEF ModuleAct
  <2>2. PICK p, at, r : p = sink /\ at = Len(log) + 1 /\ r = memo[a.m]
    OBVIOUS
  <2>3. Begins(b, e, own, p, at, r, pc)
    BY <2>2, <1>6
  <2>5. /\ e \in ModuleAct /\ e.m = b.m /\ e.demand = b.demand /\ e.via = b.via /\ e.outer = b.outer
        /\ e.frame = b.frame /\ e.deferred = b.deferred /\ e.warnings = own /\ e.parent = p
        /\ e.at = at /\ e.pc = pc
    BY ONLY <2>1, <2>3, BeginsFacts
  <2> QED
    BY <2>1, <2>2, <2>5
<1>9. /\ EnterExport
      /\ sink' = IF deferred THEN own ELSE sink
      /\ warnings' = IF deferred THEN Append(warnings, NoWarnings) ELSE warnings
      /\ pc = "leave" => UNCHANGED <<walking, defers, bodies>>
      /\ pc = "before" => /\ walking' = walking \cup {a.m}
                          /\ defers' = IF a.demand = "none" THEN defers + 1 ELSE defers
                          /\ bodies' = [bodies EXCEPT ![a.m] = @ + 1]
  BY <1>2, <1>3, <1>4, <1>5 DEF GenModule
<1>10. Topped(stack, stack', e)
  BY <1>2, <1>3, <1>4, <1>5, <1>6, <1>b DEF GenModule, Topped, Begins
<1>11. stack' \in Seq(Act) /\ Below(stack', f) /\ stack'[Len(stack')] = e
  <2>1. e \in Act
    BY <1>8 DEF Act
  <2>2. /\ stack' \in Seq(Act) /\ stack'[Len(stack')] = e
        /\ Below(stack', SubSeq(stack, 1, Len(stack) - 1))
    BY <2>1, <1>1, <1>10, ReplacedTop
  <2> QED
    BY <2>2, <1>2 DEF Caller
<1>12. log' \in Seq(LogEntry) /\ Opens(log, log')
  BY <1>9, OpenLog DEF GenInv, Typed, LogEntry
<1>13. IsSeq(warnings')
  BY <1>9, IsSeqAppend DEF GenInv, Typed
<1>14. pc = "before" => memo[a.m] = 0 /\ a.m \notin walking
  BY <1>4, <1>5
<1>15. walking' \subseteq Module /\ defers' \in Int /\ bodies' \in [Module -> Nat] /\ sink' \in Nat
  <2>1. walking \subseteq Module /\ defers \in Int /\ bodies \in [Module -> Nat] /\ sink \in Nat /\ a.m \in Module
    BY <1>1, <1>2 DEF GenInv, Typed
  <2>2. CASE pc = "leave"
    BY <2>1, <2>2, <1>7, <1>9
  <2>3. CASE pc = "before"
    BY <2>1, <2>3, <1>7, <1>9
  <2> QED
    BY <2>2, <2>3, <1>7
<1>16. Typed'
  BY <1>11, <1>12, <1>13, <1>15 DEF GenInv, Typed, LogEntry, GenModule, control, memos, frameVs
<1>17. UNCHANGED <<project, exc, ret, memo, frames, frameDepth, store, pending>>
  BY DEF GenModule, control, memos, frameVs
<1>18. /\ e.deferred <=> (e.demand = "none" \/ defers > 0)
       /\ sink' = IF e.deferred THEN e.warnings ELSE sink
  BY <1>3, <1>8, <1>9
<1>19. /\ e.pc \in {"before", "leave"} /\ a \in ModuleAct /\ a.pc = "enter"
       /\ e.pc = "leave" => UNCHANGED <<walking, defers, bodies>>
       /\ e.pc = "before" => /\ memo[a.m] = 0 /\ a.m \notin walking /\ walking' = walking \cup {a.m}
                             /\ defers' = IF a.demand = "none" THEN defers + 1 ELSE defers
                             /\ bodies' = [bodies EXCEPT ![a.m] = @ + 1]
  BY <1>1, <1>2, <1>7, <1>8, <1>9, <1>14
<1> QED
  BY <1>1, <1>2, <1>8, <1>11, <1>12, <1>16, <1>17, <1>18, <1>19, BeginStep

-----------------------------------------------------------------------------
(***************************************************************************)
(* Leaving a module.                                                       *)
(***************************************************************************)
(* The log l2 is l with an end for the visit at.                           *)
Closes(l, l2, at) ==
  Len(l2) = Len(l) /\ (\A k \in 1..Len(l) : k # at => l2[k] = l[k]) /\ l2[at].end > at

LEMMA CloseLog ==
  ASSUME log \in Seq(LogEntry), NEW at, at \in 1..Len(log), NEW res, res \in Nat, LeaveExport(at, res)
  PROVE  log' \in Seq(LogEntry) /\ Closes(log, log', at)
<1>1. PICK e : e = Entry("visit", res, Len(log) + 1)
  OBVIOUS
<1>2. e \in LogEntry /\ e.end = Len(log) + 1 /\ Len(log) \in Nat /\ e.end > at
  BY <1>1 DEF Entry, LogEntry
<1>3. log' = [log EXCEPT ![at] = e]
  BY <1>1 DEF LeaveExport
<1>4. log' \in Seq(LogEntry) /\ Len(log') = Len(log) /\ log'[at] = e
      /\ \A k \in 1..Len(log) : k # at => log'[k] = log[k]
  BY <1>2, <1>3
<1> QED
  BY <1>2, <1>4 DEF Closes

(* Where no publication is deferred, no module holds its warnings back.    *)
LEMMA NothingDeferred ==
  ASSUME NEW f \in Seq(Act), DeferOf(f, 0), \A i \in 1..Len(f) : Nested(f[i])
  PROVE  \A i \in 1..Len(f) : IsModule(f[i]) => ~f[i].deferred
<1>1. PICK d : Deferral(f, d) /\ d[Len(f)] = 0
  BY DEF DeferOf
<1>2. Len(f) \in Nat
  OBVIOUS
<1>3. \A i \in 0..Len(f) : d[i] \in Nat /\ d[i] <= 0
  BY <1>1, <1>2 DEF Deferral
<1>4. ASSUME NEW i \in 1..Len(f), IsModule(f[i])
      PROVE  ~f[i].deferred
  <2>1. i \in 0..Len(f) /\ i - 1 \in 0..Len(f)
    BY <1>2
  <2>2. d[i] = 0 /\ d[i - 1] = 0
    BY <2>1, <1>3
  <2>3. ~Defers(f[i])
    <3>1. d[i] = IF Defers(f[i]) THEN d[i - 1] + 1 ELSE d[i - 1]
      BY <1>1 DEF Deferral
    <3> QED
      BY <3>1, <2>2
  <2>4. f[i].pc \in Body
    BY <1>4 DEF Nested, IsModule, IsFire
  <2>5. f[i].demand # "none"
    BY <2>3, <2>4, <1>4 DEF Defers
  <2>6. Begun(f[i])
    BY <2>4, <1>4 DEF Begun, Body, Framed
  <2> QED
    BY <2>2, <2>5, <2>6, <1>1 DEF Deferral
<1> QED
  BY <1>4

LEMMA LeaveStep ==
  ASSUME GenInv, Typed', Once', SinkPart', stack # <<>>, Below(stack, stack'),
         NEW a, a = Top, Begun(a), exc' => ~Returning',
         InBody(a) => /\ walking' = walking \ {a.m}
                      /\ defers' = IF a.demand = "none" THEN defers - 1 ELSE defers,
         ~InBody(a) => UNCHANGED <<walking, defers>>,
         frameDepth' = IF a.frame = 0 THEN frameDepth ELSE frameDepth - 1,
         Closes(log, log', a.at), UNCHANGED <<frames, store, pending, bodies>>
  PROVE  GenInv'
<1>1. /\ stack \in Seq(Act) /\ stack' \in Seq(Act) /\ a = stack[Len(stack)] /\ Len(stack) \in 1..Len(stack)
      /\ IsModule(a)
  BY TopFacts DEF GenInv, Typed, Top, Begun
<1>2. Shape'
  <2>1. \A i \in 1..Len(stack') : i \in 1..Len(stack) /\ i < Len(stack) /\ stack'[i] = stack[i]
    BY <1>1 DEF Below
  <2> QED
    BY <2>1 DEF GenInv, Shape
<1>3. Local(stack')
  BY <1>1, PopLocal DEF GenInv
<1>4. DeferOf(stack', defers')
  <2>1. Defers(a) <=> (InBody(a) /\ a.demand = "none")
    BY <1>1 DEF Defers, InBody
  <2>2. (Defers(a) => DeferOf(stack', defers - 1)) /\ (~Defers(a) => DeferOf(stack', defers))
    BY <1>1, PopDefer DEF GenInv
  <2>3. CASE InBody(a)
    BY <2>1, <2>2, <2>3
  <2>4. CASE ~InBody(a)
    BY <2>1, <2>2, <2>4
  <2> QED
    BY <2>3, <2>4
<1>5. Walks(stack', walking')
  <2>1. Walks(stack', IF InBody(a) THEN walking \ {a.m} ELSE walking)
    BY <1>1, PopWalks DEF GenInv
  <2> QED
    BY <2>1
<1>6. Visits(stack', log')
  BY <1>1, PopVisits DEF GenInv, Closes
<1>7. FrameOf(stack', frames', frameDepth', Len(store'))
  <2>1. frames \in Seq(Nat) /\ Len(store) \in Nat
    BY DEF GenInv, Typed
  <2>2. /\ a.frame # 0 => FrameOf(stack', frames, frameDepth - 1, Len(store))
        /\ a.frame = 0 => FrameOf(stack', frames, frameDepth, Len(store))
    BY <2>1, <1>1, PopModuleFrame DEF GenInv
  <2> QED
    BY <2>2
<1>8. Waits(stack', pending', store') /\ Unregistered(stack', pending', bodies')
  <2>1. Waits(stack', pending, store)
    BY <1>1, PopModuleWaits DEF GenInv
  <2>2. Unregistered(stack', pending, bodies)
    BY <1>1, PopUnregistered DEF GenInv
  <2> QED
    BY <2>1, <2>2
<1> QED
  BY <1>2, <1>3, <1>4, <1>5, <1>6, <1>7, <1>8 DEF GenInv

LEMMA LeaveOnce ==
  ASSUME Once, ~exc, stack \in Seq(Act), stack' \in Seq(Act), Below(stack, stack'), UNCHANGED <<memo, bodies, walking>>
  PROVE  Once'
<1>1. \A i \in 1..Len(stack') : i \in 1..Len(stack) /\ stack'[i] = stack[i]
  BY DEF Below
<1>2. ~Doomed(stack)
  BY DEF Doomed
<1> QED
  BY <1>1, <1>2 DEF Once

(* What lies below the top, and where warnings go once the top is left.    *)
LEMMA LeaveSink ==
  ASSUME GenInv, stack # <<>>, Begun(Top)
  PROVE  \E u : /\ SinkOf(Caller, u) /\ Top.outer = u /\ Top.parent = Into(Top)
                /\ ~Returning /\ ~Top.deferred => sink = u /\ Top.via # "sibling"
<1>1. /\ stack \in Seq(Act) /\ Caller \in Seq(Act) /\ Below(stack, Caller) /\ Len(stack) \in 1..Len(stack)
      /\ Top = stack[Len(stack)] /\ IsModule(Top) /\ ~IsFire(Top)
  BY TopFacts DEF GenInv, Typed, Top, Caller, Begun, IsModule, IsFire
<1>2. PICK v : SinkOf(stack, v) /\ SinkIs(v)
  BY DEF GenInv, SinkPart
<1>3. PICK u : SinkOf(Caller, u) /\ SinkStep(Top, u, v)
  BY <1>1, <1>2, PopSink
<1>4. Top.outer = u /\ Top.parent = Into(Top) /\ v = IF Top.deferred THEN Top.warnings ELSE Into(Top)
  BY <1>1, <1>3 DEF SinkStep
<1>5. ASSUME ~Returning, ~Top.deferred
      PROVE  sink = u /\ Top.via # "sibling"
  <2>1. sink = v
    BY <1>2, <1>5 DEF SinkIs, Returning
  <2>2. Top.demand # "none"
    BY <1>1, <1>5, PopDefer DEF GenInv
  <2>3. Top.via # "sibling"
    BY <2>2, <1>1 DEF GenInv, Local
  <2> QED
    BY <2>1, <2>3, <1>4, <1>5 DEF Into
<1> QED
  BY <1>3, <1>4, <1>5

LEMMA LeavingTop ==
  ASSUME GenInv, At("leave")
  PROVE  /\ ~exc /\ ~Returning /\ stack # <<>> /\ stack \in Seq(Act) /\ Caller \in Seq(Act) /\ Below(stack, Caller)
         /\ Top = stack[Len(stack)] /\ Top \in ModuleAct /\ Begun(Top) /\ ~InBody(Top) /\ Top.frame = 0
         /\ Top.res \in Nat /\ Top.outer \in Nat /\ Top.parent \in Nat /\ Top.via \in Via
         /\ Top.at \in 1..Len(log) /\ log \in Seq(LogEntry)
<1>1. /\ ~exc /\ ~Returning /\ stack \in Seq(Act) /\ stack # <<>> /\ Top.pc = "leave" /\ Top \in ModuleAct
      /\ IsModule(Top)
  BY AtFacts DEF ModuleAct
<1>2. Caller \in Seq(Act) /\ Below(stack, Caller) /\ Top = stack[Len(stack)] /\ Len(stack) \in 1..Len(stack)
  BY <1>1, TopFacts DEF Top, Caller
<1>3. "leave" \notin Body /\ "leave" \notin Framed
  BY DEF Body, Framed
<1>4. Begun(Top) /\ ~InBody(Top) /\ Top.frame = 0
  BY <1>1, <1>2, <1>3 DEF GenInv, Local, Begun, InBody
<1>5. Top.at \in 1..Len(log)
  BY <1>2, <1>4 DEF GenInv, Visits
<1>6. Top.res \in Nat /\ Top.outer \in Nat /\ Top.parent \in Nat /\ Top.via \in Via
  BY <1>1 DEF ModuleAct
<1>7. log \in Seq(LogEntry)
  BY DEF GenInv, Typed, LogEntry
<1> QED
  BY <1>1, <1>2, <1>4, <1>5, <1>6, <1>7

LEMMA LeaveDeferredKeeps ==
  ASSUME GenInv, LeaveDeferred
  PROVE  GenInv'
<1>1. /\ ~exc /\ ~Returning /\ stack # <<>> /\ stack \in Seq(Act) /\ Caller \in Seq(Act) /\ Below(stack, Caller)
      /\ Top \in ModuleAct /\ Begun(Top) /\ ~InBody(Top) /\ Top.frame = 0
      /\ Top.res \in Nat /\ Top.outer \in Nat /\ Top.parent \in Nat /\ Top.via \in Via
      /\ Top.at \in 1..Len(log) /\ log \in Seq(LogEntry)
  BY LeavingTop DEF LeaveDeferred
<1>2. PICK a : a = Top
  OBVIOUS
<1>3. stack' \in Seq(Act) /\ Below(stack, stack') /\ stack' = Caller
  BY <1>1 DEF LeaveDeferred
<1>4. log' \in Seq(LogEntry) /\ Closes(log, log', a.at)
  BY <1>1, <1>2, CloseLog DEF LeaveDeferred
<1>5. ret' = [m |-> a.m, res |-> a.res, via |-> a.via, outer |-> a.outer] /\ sink' = a.parent /\ exc' = exc
  BY <1>2 DEF LeaveDeferred
<1>6. ret'.via = a.via /\ ret'.outer = a.outer
  BY <1>5
<1>7. IsSeq(warnings')
  <2>1. PICK own, holds, given : warnings' = Link(IF holds THEN Link(warnings, a.warnings, Deferred(a.res)) ELSE warnings,
                                                  a.parent, given)
    BY <1>2 DEF LeaveDeferred
  <2>2. IsSeq(warnings)
    BY DEF GenInv, Typed
  <2>3. IsSeq(Link(warnings, a.warnings, Deferred(a.res)))
    BY <2>2, LinkSeq
  <2>4. PICK ws : ws = IF holds THEN Link(warnings, a.warnings, Deferred(a.res)) ELSE warnings
    OBVIOUS
  <2>5. IsSeq(ws)
    BY <2>2, <2>3, <2>4
  <2> QED
    BY <2>1, <2>4, <2>5, LinkSeq
<1>8. IsSeq(results')
  <2>0. PICK r, x, given : /\ r = a.res /\ x = ExportAt(a.at, a.res)
                           /\ given = IF warnings[a.warnings].own # {} \/ warnings[a.warnings].dependencies # {}
                                      THEN a.warnings ELSE Deferred(a.res)
    OBVIOUS
  <2>1. results' = IF r = 0 THEN results
                   ELSE [results EXCEPT ![r].deferredWarnings = given, ![r].exportAt = x]
    BY <2>0, <1>2 DEF LeaveDeferred
  <2>2. IsSeq(results)
    BY DEF GenInv, Typed
  <2>3. PICK t : t = [results EXCEPT ![r].deferredWarnings = given]
    OBVIOUS
  <2>4. t = [results EXCEPT ![r] = [results[r] EXCEPT !.deferredWarnings = given]]
    BY <2>3
  <2>5. IsSeq(t)
    BY <2>2, <2>4, IsSeqExcept
  <2>6. PICK u : u = [t EXCEPT ![r].exportAt = x]
    OBVIOUS
  <2>7. u = [t EXCEPT ![r] = [t[r] EXCEPT !.exportAt = x]]
    BY <2>6
  <2>8. IsSeq(u)
    BY <2>5, <2>7, IsSeqExcept
  <2>9. results' = IF r = 0 THEN results ELSE u
    BY <2>1, <2>3, <2>6
  <2> QED
    BY <2>2, <2>8, <2>9
<1>9. Typed'
  <2>1. ret'.via \in Via \cup {"nobody"} /\ ret'.outer \in Nat /\ sink' \in Nat
    BY <1>1, <1>2, <1>5, <1>6
  <2> QED
    BY <2>1, <1>3, <1>4, <1>7, <1>8 DEF GenInv, Typed, LogEntry, LeaveDeferred, nesting, frameVs, history
<1>10. Once'
  BY <1>1, <1>3, LeaveOnce DEF GenInv, LeaveDeferred, nesting, history
<1>11. SinkPart'
  <2>1. PICK u : SinkOf(Caller, u) /\ Top.outer = u /\ Top.parent = Into(Top)
    BY <1>1, LeaveSink
  <2>2. SinkIs(u)'
    BY <2>1, <1>2, <1>5, <1>6 DEF SinkIs, Into
  <2>3. SinkOf(stack', u)
    BY <2>1, <1>3
  <2> QED
    BY <2>2, <2>3 DEF SinkPart
<1>12. UNCHANGED <<walking, defers, frameDepth>> /\ UNCHANGED <<frames, store, pending, bodies>>
  BY DEF LeaveDeferred, nesting, frameVs, history
<1>13. exc' => ~Returning'
  BY <1>1, <1>5
<1> QED
  BY <1>1, <1>2, <1>3, <1>4, <1>9, <1>10, <1>11, <1>12, <1>13, LeaveStep

LEMMA LeaveDirectKeeps ==
  ASSUME GenInv, LeaveDirect
  PROVE  GenInv'
<1>1. /\ ~exc /\ ~Returning /\ stack # <<>> /\ stack \in Seq(Act) /\ Caller \in Seq(Act) /\ Below(stack, Caller)
      /\ Top \in ModuleAct /\ Begun(Top) /\ ~InBody(Top) /\ Top.frame = 0
      /\ Top.res \in Nat /\ Top.outer \in Nat /\ Top.via \in Via
      /\ Top.at \in 1..Len(log) /\ log \in Seq(LogEntry)
  BY LeavingTop DEF LeaveDirect
<1>2. PICK a : a = Top
  OBVIOUS
<1>3. stack' \in Seq(Act) /\ Below(stack, stack') /\ stack' = Caller
  BY <1>1 DEF LeaveDirect
<1>4. IsSeq(warnings') /\ exc' \in BOOLEAN
  BY ConsumeSeq DEF GenInv, Typed, LeaveDirect
<1>5. PICK r : r = IF exc' THEN 0 ELSE Top.res
  OBVIOUS
<1>6. r \in Nat
  BY <1>1, <1>5
<1>7. /\ LeaveExport(Top.at, r)
      /\ results' = IF r = 0 THEN results ELSE [results EXCEPT ![r].exportAt = ExportAt(Top.at, r)]
      /\ ret' = IF exc' THEN NoAnswer ELSE [m |-> Top.m, res |-> r, via |-> Top.via, outer |-> Top.outer]
  BY <1>5 DEF LeaveDirect
<1>8. log' \in Seq(LogEntry) /\ Closes(log, log', a.at)
  BY <1>1, <1>2, <1>6, <1>7, CloseLog
<1>9. /\ exc' => ret'.via = "nobody" /\ ret'.outer = 0 /\ ~Returning'
      /\ ~exc' => ret'.via = Top.via /\ ret'.outer = Top.outer
  BY <1>7, NobodyAnswers DEF Returning
<1>10. IsSeq(results')
  <2>1. PICK x : x = ExportAt(Top.at, r)
    OBVIOUS
  <2>2. PICK t : t = [results EXCEPT ![r].exportAt = x]
    OBVIOUS
  <2>3. t = [results EXCEPT ![r] = [results[r] EXCEPT !.exportAt = x]]
    BY <2>2
  <2>4. IsSeq(results)
    BY DEF GenInv, Typed
  <2>5. IsSeq(t)
    BY <2>3, <2>4, IsSeqExcept
  <2>6. results' = IF r = 0 THEN results ELSE t
    BY <2>1, <2>2, <1>7
  <2> QED
    BY <2>4, <2>5, <2>6
<1>11. Typed'
  <2>1. ret'.via \in Via \cup {"nobody"} /\ ret'.outer \in Nat
    BY <1>1, <1>9
  <2> QED
    BY <2>1, <1>3, <1>4, <1>8, <1>10 DEF GenInv, Typed, LogEntry, LeaveDirect, nesting, frameVs, history
<1>12. Once'
  BY <1>1, <1>3, LeaveOnce DEF GenInv, LeaveDirect, nesting, history
<1>13. SinkPart'
  <2>1. PICK u : SinkOf(Caller, u) /\ sink = u /\ Top.via # "sibling"
    BY <1>1, LeaveSink DEF LeaveDirect
  <2>2. sink' = u /\ ret'.via # "sibling"
    BY <2>1, <1>9 DEF LeaveDirect
  <2>3. SinkIs(u)'
    BY <2>2 DEF SinkIs
  <2>4. SinkOf(stack', u)
    BY <2>1, <1>3
  <2> QED
    BY <2>3, <2>4 DEF SinkPart
<1>14. UNCHANGED <<walking, defers, frameDepth>> /\ UNCHANGED <<frames, store, pending, bodies>>
  BY DEF LeaveDirect, nesting, frameVs, history
<1>15. exc' => ~Returning'
  BY <1>9
<1> QED
  BY <1>1, <1>2, <1>3, <1>8, <1>11, <1>12, <1>13, <1>14, <1>15, LeaveStep

LEMMA UnwindModuleKeeps ==
  ASSUME GenInv, UnwindModule
  PROVE  GenInv'
<1>1. /\ ~Returning /\ stack # <<>> /\ stack \in Seq(Act) /\ IsModule(Top) /\ Top \in ModuleAct
      /\ Top.m \in Module /\ InBody(Top) /\ Begun(Top) /\ Caller \in Seq(Act) /\ Below(stack, Caller)
      /\ Len(stack) \in 1..Len(stack) /\ exc /\ \A i \in 1..Len(stack) : Nested(stack[i])
  BY RaisingTop DEF UnwindModule
<1>2. PICK a : a = Top
  OBVIOUS
<1>3. stack' \in Seq(Act) /\ Below(stack, stack') /\ stack' = Caller
  BY <1>1 DEF UnwindModule
<1>4. /\ walking' = walking \ {a.m} /\ defers' = (IF a.demand = "none" THEN defers - 1 ELSE defers)
      /\ frameDepth' = IF a.frame = 0 THEN frameDepth ELSE frameDepth - 1
  BY <1>2 DEF UnwindModule, EndWalk, PopFrame
<1>5. log' \in Seq(LogEntry) /\ Closes(log, log', a.at)
  <2>1. log \in Seq(LogEntry) /\ a.at \in 1..Len(log)
    BY <1>1, <1>2 DEF GenInv, Typed, LogEntry, Visits, Top
  <2> QED
    BY <2>1, <1>2, CloseLog DEF UnwindModule
<1>6. Typed'
  <2>1. frameDepth' \in Int /\ walking' \subseteq Module /\ defers' \in Int
    BY <1>4 DEF GenInv, Typed
  <2> QED
    BY <2>1, <1>3, <1>5 DEF GenInv, Typed, LogEntry, UnwindModule, control, memos, warns, history
<1>7. UNCHANGED <<project, exc, ret, memo, sink>> /\ UNCHANGED <<frames, store, pending, bodies>>
  BY DEF UnwindModule, control, memos, warns, history
<1>8. ~Top.deferred /\ ~project.keepGoing
  BY DEF UnwindModule
<1>9. \A i \in 1..Len(stack') : i \in 1..Len(stack) /\ stack'[i] = stack[i]
  BY <1>3 DEF Below
<1>10. Doomed(stack)'
  <2>1. DeferOf(stack', 0)
    BY <1>1, <1>3, <1>8, PopDefer DEF GenInv, Top
  <2>2. \A i \in 1..Len(stack') : Nested(stack'[i])
    BY <1>1, <1>9
  <2>3. \A i \in 1..Len(stack') : IsModule(stack'[i]) => ~stack'[i].deferred
    BY <2>1, <2>2, <1>3, NothingDeferred
  <2> QED
    BY <2>3, <1>1, <1>7, <1>8 DEF Doomed
<1>11. Once'
  BY <1>4, <1>7, <1>9, <1>10 DEF GenInv, Once
<1>12. SinkPart'
  <2>1. PICK u : SinkOf(Caller, u) /\ sink = u
    BY <1>1, <1>8, LeaveSink
  <2>2. SinkIs(u)'
    BY <2>1, <1>1, <1>7 DEF SinkIs, Returning
  <2>3. SinkOf(stack', u)
    BY <2>1, <1>3
  <2> QED
    BY <2>2, <2>3 DEF SinkPart
<1>13. exc' => ~Returning'
  BY <1>1, <1>7 DEF Returning
<1> QED
  BY <1>1, <1>2, <1>3, <1>4, <1>5, <1>6, <1>7, <1>11, <1>12, <1>13, LeaveStep

-----------------------------------------------------------------------------
(***************************************************************************)
(* The invariant, and what follows from it.                                *)
(***************************************************************************)
LEMMA EmptyStack ==
  ASSUME NEW s, s = <<>>
  PROVE  /\ s \in Seq(Act) /\ Len(s) = 0 /\ 1..Len(s) = {} /\ 0..Len(s) = {0}
         /\ \A f : FiringIn(s, f) = {}
         /\ \A o : ~Firing(s, o)
<1>1. s \in Seq(Act) /\ Len(s) = 0 /\ 1..Len(s) = {} /\ 0..Len(s) = {0}
  OBVIOUS
<1> QED
  BY <1>1 DEF FiringIn, Firing

LEMMA InitKeeps ==
  ASSUME Init
  PROVE  GenInv
<1>1. /\ stack = <<>> /\ exc = FALSE /\ ret = NoAnswer /\ sink = 0 /\ log = <<>> /\ defers = 0
      /\ walking = {} /\ frames = <<>> /\ frameDepth = 0 /\ store = <<>>
      /\ pending = [m \in Module |-> Nil] /\ bodies = [m \in Module |-> 0]
  BY DEF Init
<1>2. /\ stack \in Seq(Act) /\ Len(stack) = 0 /\ 1..Len(stack) = {} /\ 0..Len(stack) = {0}
      /\ \A f : FiringIn(stack, f) = {}
      /\ \A o : ~Firing(stack, o)
  BY <1>1, EmptyStack
<1>3. Typed
  <2>1. project \in Projects /\ jobs \in Seq([m : Module, root : BOOLEAN])
    BY ProjectAssumption DEF Init
  <2>2. IsSeq(results) /\ IsSeq(warnings)
    <3>1. <<>> \in Seq({})
      OBVIOUS
    <3>2. IsSeq(<<>>)
      BY <3>1, IsSeqIn
    <3> QED
      BY <3>2 DEF Init
  <2>3. frames \in Seq(Nat) /\ store \in Seq([serial : Nat, pending : Int])
        /\ log \in Seq([step : {"visit", "use", "publish"}, module : Nat, end : Nat])
    BY <1>1
  <2>4. memo \in [Module -> Nat] /\ bodies \in [Module -> Nat] /\ pending \in [Module -> Pending \cup {Nil}]
    BY DEF Init
  <2>5. ret.via \in Via \cup {"nobody"} /\ ret.outer \in Nat
    BY <1>1, NobodyAnswers
  <2>6. exc \in BOOLEAN
    BY <1>1
  <2>7. exit \in {"no", "ok", "failed"} /\ frameSerial \in Nat
    BY DEF Init
  <2>8. walking \subseteq Module /\ defers \in Int /\ sink \in Nat /\ frameDepth \in Int
    BY <1>1
  <2> QED
    BY ONLY <1>2, <2>1, <2>2, <2>3, <2>4, <2>5, <2>6, <2>7, <2>8 DEF Typed
<1>4. Shape /\ Local(stack)
  BY <1>1, <1>2 DEF Shape, Local
<1>5. DeferOf(stack, defers)
  <2>1. PICK d : d = [i \in 0..0 |-> 0]
    OBVIOUS
  <2>2. d \in [0..Len(stack) -> Nat] /\ d[0] = 0 /\ \A i, j \in 0..Len(stack) : d[i] <= d[j]
    BY <2>1, <1>2
  <2>3. Deferral(stack, d)
    BY <2>2, <1>2 DEF Deferral
  <2> QED
    BY <2>2, <2>3, <1>1, <1>2 DEF DeferOf
<1>6. Walks(stack, walking) /\ Once
  <2>1. \A m \in Module : bodies[m] = 0
    BY <1>1
  <2> QED
    BY <2>1, <1>1, <1>2 DEF Walks, Once
<1>7. SinkPart
  <2>1. PICK g : g = [i \in 0..0 |-> 0]
    OBVIOUS
  <2>2. g[0] = 0
    BY <2>1
  <2>3. SinkOf(stack, 0)
    BY <2>2, <1>2 DEF SinkOf, Sinks
  <2>4. SinkIs(0)
    BY <1>1, NobodyAnswers DEF SinkIs
  <2> QED
    BY <2>3, <2>4 DEF SinkPart
<1>8. Visits(stack, log)
  BY <1>1, <1>2 DEF Visits
<1>9. FrameOf(stack, frames, frameDepth, Len(store))
  <2>1. PICK h : h = [i \in 0..0 |-> 0]
    OBVIOUS
  <2>2. h \in [0..Len(stack) -> Nat] /\ h[0] = 0 /\ \A i, j \in 0..Len(stack) : h[i] <= h[j]
    BY <2>1, <1>2
  <2>3. Depth(stack, h)
    BY <2>2, <1>2 DEF Depth
  <2>4. Apart(stack, h, frames, Len(store))
    BY <2>2, <1>1, <1>2 DEF Apart
  <2> QED
    BY <2>2, <2>3, <2>4, <1>1, <1>2 DEF FrameOf
<1>10. Waits(stack, pending, store) /\ Unregistered(stack, pending, bodies)
  <2>1. \A o \in Module : pending[o] = Nil
    BY <1>1
  <2>2. 1..Len(store) = {}
    BY <1>1
  <2> QED
    BY <2>1, <2>2, <1>2 DEF Waits, Unregistered
<1> QED
  BY <1>3, <1>4, <1>5, <1>6, <1>7, <1>8, <1>9, <1>10 DEF GenInv

LEMMA NextKeeps ==
  ASSUME GenInv, [Next]_vars
  PROVE  GenInv'
<1>1. CASE GenTarget \/ GenModule \/ GenBefore \/ ReadModule
  BY <1>1, GenTargetKeeps, GenModuleKeeps, GenBeforeKeeps, ReadModuleKeeps
<1>2. CASE GenPeer
  BY <1>2, GenPeerBrokenKeeps, GenPeerCallKeeps
<1>3. CASE ToolResult
  BY <1>3, ToolKnownKeeps, ToolUnknownKeeps
<1>4. CASE PeerReturns \/ ToolReturns \/ SiblingReturns \/ TargetReturns
  BY <1>4, PeerReturnsKeeps, ToolReturnsKeeps, SiblingReturnsKeeps, TargetReturnsKeeps
<1>5. CASE Register \/ RunGenerator \/ FireReturns \/ NextPhase
  BY <1>5, RegisterKeeps, RunGeneratorKeeps, FireReturnsKeeps, NextPhaseKeeps
<1>6. CASE UseFile
  <2>1. CASE pending[Reads[Top.i]] = Nil
    BY <1>6, <2>1, UseFilePlainKeeps
  <2>2. CASE pending[Reads[Top.i]] # Nil
    BY <1>6, <2>2, UseFileFiresKeeps
  <2> QED
    BY <2>1, <2>2
<1>7. CASE FinishModule
  BY <1>7, FinishThrowsKeeps, FinishModuleKeeps
<1>8. CASE GenAfter
  BY <1>8, GenAfterSkipsKeeps, GenAfterSiblingKeeps, GenAfterEndsKeeps
<1>9. CASE LeaveDeferred \/ LeaveDirect
  BY <1>9, LeaveDeferredKeeps, LeaveDirectKeeps
<1>10. CASE UnwindFire \/ Recover \/ UnwindModule \/ End
  BY <1>10, UnwindFireKeeps, RecoverKeeps, UnwindModuleKeeps, EndKeeps
<1>11. CASE Ended \/ UNCHANGED vars
  BY <1>11, StutterKeeps DEF Ended
<1> QED
  BY <1>1, <1>2, <1>3, <1>4, <1>5, <1>6, <1>7, <1>8, <1>9, <1>10, <1>11 DEF Next

(* Every state of the generator satisfies the inductive invariant: what    *)
(* genModule and PendingEmit.fire count with (walking, deferPublication,   *)
(* warningSink, frameDepth, the ends in exportLog, the generators a frame  *)
(* waits for) is at all times what the activations on the stack did to it. *)
THEOREM GenInvariant == Spec => []GenInv
<1>1. Init => GenInv
  BY InitKeeps
<1>2. GenInv /\ [Next]_vars => GenInv'
  BY NextKeeps
<1> QED
  BY <1>1, <1>2, PTL DEF Spec

LEMMA InvFrameSafe ==
  ASSUME GenInv
  PROVE  FrameSafe
<1>1. \A o \in Module : pending[o] # Nil => store[pending[o].frame].serial = pending[o].serial
  BY DEF GenInv, Waits
<1>2. \A i \in 1..Len(stack) : stack[i].kind = "fire" =>
        store[stack[i].pending.frame].serial = stack[i].pending.serial
  BY DEF GenInv, Waits, IsFire
<1>3. PICK h : Apart(stack, h, frames, Len(store))
  BY DEF GenInv, FrameOf
<1>4. \A i, j \in 1..Len(stack) : i # j /\ Taken(stack[i]) # 0 => Taken(stack[i]) # Taken(stack[j])
  BY <1>3 DEF Apart
<1>5. \A i \in 1..Len(stack) : stack[i].kind = "module" => Taken(stack[i]) = stack[i].frame
  BY DEF Taken, IsModule
<1>6. \A i, j \in 1..Len(stack) :
        i # j /\ stack[i].kind = "module" /\ stack[j].kind = "module" /\ stack[i].frame # 0
          => stack[i].frame # stack[j].frame
  BY <1>4, <1>5
<1> QED
  BY <1>1, <1>2, <1>6 DEF FrameSafe

(* A generator that waits, or runs, finds the frame of its module with the *)
(* serial it was registered with, and no two modules share a frame: what   *)
(* pushFrame reuses was never needed by anybody.                           *)
THEOREM FrameSafeHolds == Spec => []FrameSafe
<1>1. GenInv => FrameSafe
  BY InvFrameSafe
<1> QED
  BY <1>1, GenInvariant, PTL

LEMMA InvRestored ==
  ASSUME GenInv
  PROVE  Restored
<1> SUFFICES ASSUME stack = <<>>, ~Returning
             PROVE  /\ walking = {} /\ defers = 0 /\ sink = 0 /\ frameDepth = 0
                    /\ \A at \in 1..Len(log) : log[at].end > at
                    /\ \A f \in 1..Len(store) :
                         store[f].pending = Cardinality({o \in Module : pending[o] # Nil /\ pending[o].frame = f})
                    /\ \A m \in Module : bodies[m] <= 1
  BY DEF Restored
<1>1. /\ Len(stack) = 0 /\ 1..Len(stack) = {} /\ 0..Len(stack) = {0}
      /\ \A f : FiringIn(stack, f) = {}
  BY EmptyStack
<1>2. walking = {}
  BY <1>1 DEF GenInv, Typed, Walks
<1>3. defers = 0
  BY <1>1 DEF GenInv, DeferOf, Deferral
<1>4. sink = 0
  BY <1>1 DEF GenInv, SinkPart, SinkOf, Sinks, SinkIs, Returning
<1>5. frameDepth = 0
  BY <1>1 DEF GenInv, FrameOf, Depth
<1>6. \A at \in 1..Len(log) : log[at].end > at
  BY <1>1 DEF GenInv, Visits
<1>7. ASSUME NEW f \in 1..Len(store)
      PROVE  store[f].pending = Cardinality({o \in Module : pending[o] # Nil /\ pending[o].frame = f})
  <2>1. store[f].pending = Cardinality(FiringIn(stack, f) \cup WaitingIn(pending, f))
    BY DEF GenInv, Waits
  <2>2. FiringIn(stack, f) \cup WaitingIn(pending, f) = WaitingIn(pending, f)
    BY <1>1
  <2> QED
    BY <2>1, <2>2 DEF WaitingIn
<1>8. \A m \in Module : bodies[m] <= 1
  BY DEF GenInv, Once
<1> QED
  BY <1>2, <1>3, <1>4, <1>5, <1>6, <1>7, <1>8

(* Between two targets nothing of the recursion of genModule is left,      *)
(* however it ended: what is deferred or recovered puts every counter, the *)
(* sink and the log back, and no module was generated twice.               *)
THEOREM RestoredHolds == Spec => []Restored
<1>1. GenInv => Restored
  BY InvRestored
<1> QED
  BY <1>1, GenInvariant, PTL
=============================================================================
