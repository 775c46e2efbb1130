----------------------------- MODULE ModuleGen -----------------------------
(***************************************************************************)
(* How the generator walks modules (gen.go): the recursion of genModule    *)
(* with its memo, the frames of the modules that are being generated, the  *)
(* generators that run when their output is first used, the warnings that  *)
(* are held back until somebody needs the module they are about, and the   *)
(* log from which the order of the modules is computed again at the end    *)
(* (command_scope.go).                                                     *)
(*                                                                         *)
(* One goroutine does all of it.  What is hard is the recursion: a module  *)
(* may be reached first for its configuration only (demandNone), or as a   *)
(* sibling, or through a cycle, and later because it is needed; and an     *)
(* exception may leave any part of it at any depth.  The stack of Go is a  *)
(* sequence of activations; a throw unwinds it, running what the code      *)
(* defers.                                                                 *)
(*                                                                         *)
(* A module emits one node and at most one generated file, and raises at   *)
(* most one warning of its own.  Left out: modules that answer with the    *)
(* result of another one (gen.go:1444, 1532), peers that do not exist or   *)
(* are skipped, Java modules and tests.                                    *)
(***************************************************************************)
EXTENDS Naturals, Sequences, FiniteSets, Bags

CONSTANTS
  Module,     \* module instances without their demand
  Nil,
  Projects    \* the source trees to generate, see ProjectAssumption

(* targets: what the command line asks for, in order: every root is        *)
(*   followed by the modules that it recurses into;                        *)
(* peers, tools: what a module needs, in order; linked: modules of a type  *)
(*   that links; broken: peers whose ya.make cannot be evaluated;          *)
(* before, after: the siblings a module generates before itself, and those *)
(*   it generates after itself unless they are being generated;            *)
(* gen: modules with a generated file; uses: the generated files a module  *)
(*   reads, each named by its module; needs: those that a generator reads; *)
(*   genTools: the tools a generator asks for when it runs; script:        *)
(*   generators that run in the frame of their module, without tools;      *)
(* warn, warnGen: who raises a warning; throw: modules that throw when     *)
(*   their statements are read, or when they emit; throwGen: generators    *)
(*   that throw.                                                           *)
ASSUME ProjectAssumption ==
  \A p \in Projects :
    /\ p.targets \in Seq([m : Module, root : BOOLEAN])
    /\ \A f \in {p.peers, p.tools, p.before, p.after, p.uses, p.needs, p.genTools} :
         f \in [Module -> Seq(Module)]
    /\ \A m \in p.script : p.genTools[m] = <<>>
    /\ p.linked \subseteq Module /\ p.broken \subseteq Module
    /\ p.script \subseteq p.gen /\ p.gen \subseteq Module
    /\ p.warn \subseteq Module /\ p.warnGen \subseteq p.gen /\ p.throwGen \subseteq p.gen
    /\ p.throw \in [Module -> {"never", "reading", "emitting"}]
    /\ p.keepGoing \in BOOLEAN

Pending == [frame : Nat, serial : Nat, publication : BOOLEAN]

ASSUME NilAssumption == Nil \notin Pending

VARIABLES
  project,    \* the project, never changed
  jobs,       \* modules genTarget has still to generate
  stack,      \* activations of genModule and PendingEmit.fire
  ret,        \* what a call of genModule has just returned, or NoAnswer
  exc,        \* an exception is on its way up
  exit,       \* "no", "ok" or "failed"
  memo,       \* ctx.memo for modules: the number of a result, or 0
  requests,   \* ctx.memo for peers that could not be evaluated
  results,    \* ModuleEmitResult: deferredWarnings, exportAt, has an output
  walking,    \* ctx.walking
  defers,     \* emit.deferPublication
  toolCache,  \* ctx.tools
  sink,       \* ctx.warningSink: the number of a moduleWarnings, or 0
  warnings,   \* moduleWarnings: own, dependencies, reported
  printed,    \* the warnings that reached the handler, a bag
  frames,     \* ctx.frames: the number of the frame at each depth
  frameDepth, \* ctx.frameDepth
  frameSerial,\* ctx.frameSerial
  store,      \* ModuleFrame: serial, pending
  pending,    \* OnUse of the generated file of a module: a PendingEmit or Nil
  log,        \* ctx.exportLog
  exportRoots,\* ctx.exportRoots
  raised,     \* history: <<warning, module that was being generated>>
  taken,      \* history: <<module, the peer or tool whose result it took>>
  bodies,     \* history: how often the generation of a module was begun
  cut,        \* history: a visit was cut short because it was under way
  asked       \* history: the tools genModule was called for, by the module that was being generated

control == <<project, jobs, ret, exc, exit>>
memos   == <<memo, requests, results, toolCache>>
nesting == <<walking, defers>>
warns   == <<sink, warnings, printed, raised>>
frameVs == <<frames, frameDepth, frameSerial, store>>
export  == <<log, exportRoots>>
history == <<taken, bodies, cut, asked>>
vars    == <<control, stack, memos, nesting, warns, frameVs, pending, export, history>>

NoAnswer  == [m |-> Nil, res |-> 0, via |-> "nobody", outer |-> 0]
Returning == ret.via # "nobody"

Top       == stack[Len(stack)]
Caller    == SubSeq(stack, 1, Len(stack) - 1)
Goto(pc)  == [stack EXCEPT ![Len(stack)].pc = pc, ![Len(stack)].i = 1]
Advance   == [stack EXCEPT ![Len(stack)].i = @ + 1]
More(s)   == Top.i <= Len(s)
At(pc)    == exit = "no" /\ ~exc /\ ~Returning /\ stack # <<>> /\ Top.pc = pc

Roots(p) == {p.targets[i].m : i \in 1..Len(p.targets)}

Init ==
  /\ project \in Projects
  /\ jobs = project.targets
  /\ stack = <<>> /\ ret = NoAnswer /\ exc = FALSE /\ exit = "no"
  /\ memo = [m \in Module |-> 0] /\ requests = {} /\ results = <<>> /\ toolCache = {}
  /\ walking = {} /\ defers = 0
  /\ sink = 0 /\ warnings = <<>> /\ printed = EmptyBag
  /\ frames = <<>> /\ frameDepth = 0 /\ frameSerial = 0 /\ store = <<>>
  /\ pending = [m \in Module |-> Nil]
  /\ log = <<>> /\ exportRoots = <<>>
  /\ raised = {} /\ taken = {} /\ bodies = [m \in Module |-> 0] /\ cut = FALSE
  /\ asked = [m \in Module |-> <<>>]
-----------------------------------------------------------------------------
(***************************************************************************)
(* Warnings.                                                               *)
(***************************************************************************)
Own(m)       == [kind |-> "own", of |-> m]
Generated(m) == [kind |-> "generator", of |-> m]
Failed(m)    == [kind |-> "failed", of |-> m]
Fatal(w)     == w.kind = "failed"

NoWarnings == [own |-> {}, dependencies |-> {}, reported |-> FALSE]

Deferred(res) == IF res = 0 THEN 0 ELSE results[res].deferredWarnings

(* append(w.dependencies, d), unless one of the two does not exist.        *)
Link(ws, w, d) == IF w = 0 \/ d = 0 THEN ws ELSE [ws EXCEPT ![w].dependencies = @ \cup {d}]

(* The module that is being generated: a generator runs for the one that   *)
(* uses its output.                                                        *)
Current(s) == s[CHOOSE i \in 1..Len(s) : /\ s[i].kind = "module"
                                         /\ \A j \in (i + 1)..Len(s) : s[j].kind = "fire"].m

(* ctx.onWarn: to the sink, or to the handler.                             *)
OnWarn(ws, w, by) ==
  /\ warnings' = IF sink = 0 THEN ws ELSE [ws EXCEPT ![sink].own = @ \cup {w}]
  /\ printed' = IF sink = 0 THEN printed (+) SetToBag({w}) ELSE printed
  /\ raised' = raised \cup {<<w, by>>}

(* moduleWarnings.report visits what is not yet reported.                  *)
Unreported(w) ==
  LET new(open) == {v \in open : ~warnings[v].reported}
      visit[seen \in SUBSET DOMAIN warnings] ==
        LET more == new(UNION {warnings[v].dependencies : v \in seen})
        IN IF more \subseteq seen THEN seen ELSE visit[seen \cup more]
  IN visit[new({w} \ {0})]

(* The handler throws at a fatal warning, without -k; nothing then catches *)
(* the exception, and what was left unreported stays so.                   *)
Report(w, fails) ==
  LET visited == Unreported(w)
      lines   == UNION {warnings[v].own : v \in visited}
  IN /\ warnings' = [v \in DOMAIN warnings |->
                       [warnings[v] EXCEPT !.reported = @ \/ v \in visited]]
     /\ printed' = printed (+) SetToBag(lines)
     /\ exc' = (fails \/ (~project.keepGoing /\ \E l \in lines : Fatal(l)))

(* consumeModuleWarnings; fails says that the caller throws afterwards.     *)
Consume(w, fails) ==
  \/ /\ sink # 0
     /\ warnings' = Link(warnings, sink, w)
     /\ exc' = fails
     /\ UNCHANGED printed
  \/ /\ sink = 0 /\ defers = 0
     /\ Report(w, fails)
  \/ /\ sink = 0 /\ defers # 0
     /\ exc' = fails
     /\ UNCHANGED <<warnings, printed>>
-----------------------------------------------------------------------------
(***************************************************************************)
(* Frames and the export log.                                              *)
(***************************************************************************)
(* A fault for ReusesFrame: whatever still has to run in the frame.         *)
ReusesAnyFrame == frameDepth < Len(frames)

(* A frame is used again unless a generator still has to run in it.        *)
ReusesFrame == frameDepth < Len(frames) /\ store[frames[frameDepth + 1]].pending = 0

NextFrame == IF ReusesFrame THEN frames[frameDepth + 1] ELSE Len(store) + 1

(* pushFrame; the slot then holds the frame f.                             *)
PushFrame(f) ==
  /\ frames' = IF frameDepth = Len(frames) THEN Append(frames, f)
               ELSE [frames EXCEPT ![frameDepth + 1] = f]
  /\ store' = IF ReusesFrame THEN [store EXCEPT ![NextFrame].serial = frameSerial + 1]
              ELSE Append(store, [serial |-> frameSerial + 1, pending |-> 0])
  /\ frameDepth' = frameDepth + 1
  /\ frameSerial' = frameSerial + 1

Entry(step, res, end) == [step |-> step, module |-> res, end |-> end]

EnterExport == log' = Append(log, Entry("visit", 0, 0))

LogExport(step, res) == log' = Append(log, Entry(step, res, Len(log) + 2))

(* leaveExport: what a visit covers ends here.                             *)
LeaveExport(at, res) == log' = [log EXCEPT ![at] = Entry("visit", res, Len(log) + 1)]

(* A fault for ExportAt: the last visit is the record, covering or not.     *)
LastVisit(at, res) == at

(* The first visit of a result that covers something is its record.        *)
ExportAt(at, res) == IF results[res].exportAt = 0 /\ Len(log) > at THEN at ELSE results[res].exportAt
-----------------------------------------------------------------------------
(***************************************************************************)
(* genModule.                                                              *)
(***************************************************************************)
Call(m, demand, via) ==
  [kind |-> "module", m |-> m, demand |-> demand, via |-> via, pc |-> "enter", i |-> 1,
   deferred |-> FALSE, warnings |-> 0, parent |-> 0, outer |-> sink, at |-> 0, frame |-> 0, res |-> 0]

(* genTarget asks for the next target, or module it recurses into.         *)
GenTarget ==
  /\ exit = "no" /\ ~exc /\ ~Returning /\ stack = <<>> /\ jobs # <<>>
  /\ stack' = <<Call(Head(jobs).m, "self", IF Head(jobs).root THEN "root" ELSE "recursed")>>
  /\ jobs' = Tail(jobs)
  /\ UNCHANGED <<project, ret, exc, exit, memos, nesting, warns, frameVs, pending, export, history>>

(* Up to the memo and the check for cycles.                                *)
GenModule ==
  /\ At("enter")
  /\ LET m        == Top.m
         deferred == Top.demand = "none" \/ defers > 0
         own      == IF deferred THEN Len(warnings) + 1 ELSE 0
         hit      == memo[m] # 0
         cycle    == ~hit /\ m \in walking
         act      == [Top EXCEPT !.deferred = deferred, !.warnings = own, !.parent = sink,
                                 !.at = Len(log) + 1, !.res = memo[m],
                                 !.pc = IF hit \/ cycle THEN "leave" ELSE "before"]
     IN /\ stack' = [stack EXCEPT ![Len(stack)] = act]
        /\ EnterExport
        /\ sink' = IF deferred THEN own ELSE sink
        /\ warnings' = IF deferred THEN Append(warnings, NoWarnings) ELSE warnings
        /\ cut' = (cut \/ cycle)
        /\ IF hit \/ cycle
           THEN UNCHANGED <<walking, defers, bodies>>
           ELSE /\ walking' = walking \cup {m}
                /\ defers' = IF Top.demand = "none" THEN defers + 1 ELSE defers
                /\ bodies' = [bodies EXCEPT ![m] = @ + 1]
  /\ UNCHANGED <<control, memos, printed, raised, frameVs, pending, exportRoots, taken, asked>>

(* A fault for GenSiblingModule: the sink is left as it is.                *)
SiblingKeepsSink(s) ==
  /\ stack' = Append(Advance, Call(s, "none", "sibling"))
  /\ UNCHANGED sink

(* genSiblingModule: nobody answers for the warnings of a sibling.         *)
GenSiblingModule(s) ==
  /\ stack' = Append(Advance, Call(s, "none", "sibling"))
  /\ sink' = 0

GenBefore ==
  /\ At("before") /\ More(project.before[Top.m])
  /\ GenSiblingModule(project.before[Top.m][Top.i])
  /\ UNCHANGED <<control, memos, nesting, warnings, printed, raised, frameVs, pending, export, history>>

(* A frame, and the statements of the module.                              *)
ReadModule ==
  /\ At("read")
  /\ PushFrame(NextFrame)
  /\ stack' = [Goto("peers") EXCEPT ![Len(stack)].frame = NextFrame]
  /\ IF Top.m \in project.warn THEN OnWarn(warnings, Own(Top.m), Top.m)
     ELSE UNCHANGED <<warnings, printed, raised>>
  /\ exc' = (project.throw[Top.m] = "reading")
  /\ UNCHANGED <<project, jobs, ret, exit, memos, nesting, sink, pending, export, history>>
-----------------------------------------------------------------------------
(***************************************************************************)
(* Peers and tools.                                                        *)
(***************************************************************************)
PeerDemand ==
  IF Top.demand = "linked" \/ (Top.demand = "self" /\ Top.m \in project.linked) THEN "linked" ELSE "none"

(* finishPeerInstance: a peer that is also a root is generated as one.     *)
FinishPeerInstance(p) == IF PeerDemand = "none" /\ p \in Roots(project) THEN "self" ELSE PeerDemand

Answer(m, res, via) == [m |-> m, res |-> res, via |-> via, outer |-> sink]

(* genRequestedPeer of a peer that cannot be evaluated: for the first      *)
(* time, and again.  The key is the peer with the demand; the warning      *)
(* names the peer only.                                                    *)
RequestFails(key) ==
  /\ \A r \in requests : r.key # key
  /\ LET late == PeerDemand = "none" \/ defers > 0
         line == Failed(key[1])
         own  == [NoWarnings EXCEPT !.own = {line}]
         id   == Len(warnings) + 1
     IN IF ~late /\ ~project.keepGoing
        THEN exc' = TRUE /\ UNCHANGED <<ret, requests, results, warnings, printed, raised>>
        ELSE /\ results' = Append(results, [deferredWarnings |-> IF late THEN id ELSE 0,
                                            exportAt |-> 0, output |-> FALSE])
             /\ requests' = requests \cup {[key |-> key, res |-> Len(results) + 1]}
             /\ ret' = Answer(key, Len(results) + 1, "peer")
             /\ IF late THEN /\ warnings' = Link(Append(warnings, own), sink, id)
                             /\ raised' = raised \cup {<<line, key>>}
                             /\ UNCHANGED printed
                ELSE OnWarn(warnings, line, key)
             /\ UNCHANGED exc

RequestAgain(key) ==
  \E r \in requests :
    /\ r.key = key
    /\ IF PeerDemand # "none" THEN Consume(Deferred(r.res), FALSE)
       ELSE /\ warnings' = Link(warnings, sink, Deferred(r.res))
            /\ UNCHANGED <<printed, exc>>
    /\ ret' = IF exc' THEN NoAnswer ELSE Answer(key, r.res, "peer")
    /\ UNCHANGED <<requests, results, raised>>

GenPeer ==
  /\ At("peers") /\ More(project.peers[Top.m])
  /\ LET p == project.peers[Top.m][Top.i]
     IN IF p \in project.broken
        THEN /\ stack' = Advance
             /\ RequestFails(<<p, PeerDemand>>) \/ RequestAgain(<<p, PeerDemand>>)
        ELSE /\ stack' = Append(Advance, Call(p, FinishPeerInstance(p), "peer"))
             /\ UNCHANGED <<ret, exc, requests, results, warnings, printed, raised>>
  /\ UNCHANGED <<project, jobs, exit, memo, toolCache, nesting, sink, frameVs, pending, export, history>>

(* A generator whose publication is deferred runs for a module whose own    *)
(* is not: consumeModuleWarnings neither keeps nor reports what it is given.*)
Dropped == sink = 0 /\ defers # 0

Take(res) == taken' = IF res = 0 \/ Dropped THEN taken ELSE taken \cup {<<Current(stack), ret.m>>}

(* recordPeerModule                                                        *)
PeerReturns ==
  /\ exit = "no" /\ ~exc /\ Returning /\ ret.via = "peer"
  /\ Consume(Deferred(ret.res), FALSE)
  /\ Take(ret.res)
  /\ ret' = NoAnswer
  /\ UNCHANGED <<project, jobs, exit, stack, memos, nesting, sink, raised, frameVs, pending, export, bodies, cut, asked>>

Asks == IF Top.kind = "fire" THEN project.genTools[Top.m] ELSE project.tools[Top.m]

(* toolResult: a tool that is known, and one that is not.  A module asks   *)
(* for its tools, and so does a generator when it runs.                    *)
ToolResult ==
  /\ At("tools") /\ More(Asks)
  /\ LET t == Asks[Top.i]
     IN IF t \in toolCache
        THEN ret' = Answer(t, memo[t], "tool") /\ stack' = Advance /\ UNCHANGED asked
        ELSE /\ stack' = Append(Advance, Call(t, "linked", "tool"))
             /\ asked' = [asked EXCEPT ![Current(stack)] = Append(@, t)]
             /\ UNCHANGED ret
  /\ UNCHANGED <<project, jobs, exc, exit, memos, nesting, warns, frameVs, pending, export,
                 taken, bodies, cut>>

(* Who needs a tool without an output fails.                               *)
ToolReturns ==
  /\ exit = "no" /\ ~exc /\ Returning /\ ret.via = "tool"
  /\ LET usable == ret.res # 0 /\ results[ret.res].output
     IN /\ Consume(Deferred(ret.res), ~usable)
        /\ toolCache' = IF usable THEN toolCache \cup {ret.m} ELSE toolCache
  /\ Take(ret.res)
  /\ ret' = NoAnswer
  /\ UNCHANGED <<project, jobs, exit, stack, memo, requests, results, nesting, sink, raised,
                 frameVs, pending, export, bodies, cut, asked>>
-----------------------------------------------------------------------------
(***************************************************************************)
(* Generated files.                                                        *)
(***************************************************************************)
(* pendingEmit and register.                                               *)
Register ==
  /\ At("register")
  /\ stack' = Goto("uses")
  /\ IF Top.m \in project.gen
     THEN /\ pending' = [pending EXCEPT ![Top.m] =
                           [frame |-> Top.frame, serial |-> store[Top.frame].serial,
                            publication |-> defers > 0]]
          /\ store' = [store EXCEPT ![Top.frame].pending = @ + 1]
     ELSE UNCHANGED <<pending, store>>
  /\ UNCHANGED <<control, memos, nesting, warns, frames, frameDepth, frameSerial, export, history>>

Reads == IF Top.kind = "fire" THEN project.needs[Top.m] ELSE project.uses[Top.m]

(* PendingEmit.fire: the pending emission is cleared before it runs.       *)
Fire(o) ==
  /\ stack' = Append(Advance, [kind |-> "fire", m |-> o, pc |-> "tools", i |-> 1, pending |-> pending[o],
                               previous |-> IF o \in project.script THEN NextFrame ELSE 0])
  /\ pending' = [pending EXCEPT ![o] = Nil]
  /\ defers' = IF pending[o].publication THEN defers + 1 ELSE defers
  /\ IF o \in project.script THEN PushFrame(pending[o].frame) ELSE UNCHANGED frameVs

(* CodegenRegistry.use                                                     *)
UseFile ==
  /\ At("uses") /\ More(Reads)
  /\ IF pending[Reads[Top.i]] # Nil THEN Fire(Reads[Top.i])
     ELSE stack' = Advance /\ UNCHANGED <<pending, defers, frameVs>>
  /\ UNCHANGED <<control, memos, walking, warns, export, history>>

(* The generator emits its node; visitScoped logs the use of its command.  *)
RunGenerator ==
  /\ At("uses") /\ Top.kind = "fire" /\ ~More(Reads)
  /\ IF Top.m \in project.warnGen THEN OnWarn(warnings, Generated(Top.m), Current(stack))
     ELSE UNCHANGED <<warnings, printed, raised>>
  /\ stack' = Goto("fired")
  /\ exc' = (Top.m \in project.throwGen)
  /\ IF Top.m \in project.script \cup project.throwGen THEN UNCHANGED log ELSE LogExport("use", 0)
  /\ UNCHANGED <<project, jobs, ret, exit, memos, nesting, sink, frameVs, pending, exportRoots, history>>

(* A fault for FireEnds: publication stays deferred after an exception.    *)
FireEndsUndeferred ==
  /\ stack' = Caller
  /\ store' = [store EXCEPT ![Top.pending.frame].pending = @ - 1]
  /\ frames' = IF Top.previous = 0 THEN frames ELSE [frames EXCEPT ![frameDepth] = Top.previous]
  /\ frameDepth' = IF Top.previous = 0 THEN frameDepth ELSE frameDepth - 1
  /\ defers' = IF Top.pending.publication /\ ~exc THEN defers - 1 ELSE defers
  /\ UNCHANGED frameSerial

(* What fire and the generator defer, in the reverse order.                *)
FireEnds ==
  /\ stack' = Caller
  /\ store' = [store EXCEPT ![Top.pending.frame].pending = @ - 1]
  /\ frames' = IF Top.previous = 0 THEN frames ELSE [frames EXCEPT ![frameDepth] = Top.previous]
  /\ frameDepth' = IF Top.previous = 0 THEN frameDepth ELSE frameDepth - 1
  /\ defers' = IF Top.pending.publication THEN defers - 1 ELSE defers
  /\ UNCHANGED frameSerial

FireReturns ==
  /\ At("fired")
  /\ FireEnds
  /\ UNCHANGED <<control, memos, walking, warns, pending, export, history>>

(* The loops of genModuleImpl, and of a generator, that have come to their *)
(* end.                                                                    *)
NextPhase ==
  /\ \/ At("before") /\ ~More(project.before[Top.m]) /\ stack' = Goto("read")
     \/ At("peers") /\ ~More(project.peers[Top.m]) /\ stack' = Goto("tools")
     \/ At("tools") /\ Top.kind = "module" /\ ~More(Asks) /\ stack' = Goto("register")
     \/ At("tools") /\ Top.kind = "fire" /\ ~More(Asks) /\ stack' = Goto("uses")
     \/ At("uses") /\ Top.kind = "module" /\ ~More(Reads) /\ stack' = Goto("finish")
  /\ UNCHANGED <<control, memos, nesting, warns, frameVs, pending, export, history>>
-----------------------------------------------------------------------------
(***************************************************************************)
(* The ends of a module.                                                   *)
(***************************************************************************)
NewResult(m, output) ==
  /\ results' = Append(results, [deferredWarnings |-> 0, exportAt |-> 0, output |-> output])
  /\ memo' = [memo EXCEPT ![m] = Len(results) + 1]

(* memoPut; then publishSearchScope and popFrame, which are deferred.      *)
FinishModule ==
  /\ At("finish")
  /\ IF project.throw[Top.m] = "emitting"
     THEN exc' = TRUE /\ UNCHANGED <<stack, results, memo, log, frameDepth>>
     ELSE /\ NewResult(Top.m, TRUE)
          /\ LogExport("publish", Len(results) + 1)
          /\ frameDepth' = frameDepth - 1
          /\ stack' = [Goto("after") EXCEPT ![Len(stack)].frame = 0, ![Len(stack)].res = Len(results) + 1]
          /\ UNCHANGED exc
  /\ UNCHANGED <<project, jobs, ret, exit, requests, toolCache, nesting, warns, frames, frameSerial,
                 store, pending, exportRoots, history>>

(* What remains to be undone when genModuleImpl is left.                   *)
EndWalk ==
  /\ walking' = walking \ {Top.m}
  /\ defers' = IF Top.demand = "none" THEN defers - 1 ELSE defers

GenAfter ==
  /\ At("after")
  /\ IF More(project.after[Top.m])
     THEN /\ LET s == project.after[Top.m][Top.i]
             IN IF s \in walking THEN stack' = Advance /\ cut' = TRUE /\ UNCHANGED sink
                ELSE GenSiblingModule(s) /\ UNCHANGED cut
          /\ UNCHANGED <<walking, defers>>
     ELSE /\ stack' = Goto("leave")
          /\ EndWalk
          /\ UNCHANGED <<sink, cut>>
  /\ UNCHANGED <<control, memos, warnings, printed, raised, frameVs, pending, export, taken, bodies, asked>>

(* genModule returns.  Held-back warnings go to the result, and from there *)
(* to whoever asked for it.                                                *)
LeaveDeferred ==
  /\ At("leave") /\ Top.deferred
  /\ LET own   == warnings[Top.warnings]
         holds == own.own # {} \/ own.dependencies # {}
         given == IF holds THEN Top.warnings ELSE Deferred(Top.res)
     IN /\ warnings' = Link(IF holds THEN Link(warnings, Top.warnings, Deferred(Top.res)) ELSE warnings,
                            Top.parent, given)
        /\ results' = IF Top.res = 0 THEN results
                      ELSE [results EXCEPT ![Top.res].deferredWarnings = given,
                                           ![Top.res].exportAt = ExportAt(Top.at, Top.res)]
  /\ sink' = Top.parent
  /\ LeaveExport(Top.at, Top.res)
  /\ ret' = [m |-> Top.m, res |-> Top.res, via |-> Top.via, outer |-> Top.outer]
  /\ stack' = Caller
  /\ UNCHANGED <<project, jobs, exc, exit, memo, requests, toolCache, nesting, printed, raised,
                 frameVs, pending, exportRoots, history>>

LeaveDirect ==
  /\ At("leave") /\ ~Top.deferred
  /\ Consume(Deferred(Top.res), FALSE)
  /\ LET res == IF exc' THEN 0 ELSE Top.res
     IN /\ results' = IF res = 0 THEN results
                      ELSE [results EXCEPT ![res].exportAt = ExportAt(Top.at, res)]
        /\ LeaveExport(Top.at, res)
        /\ ret' = IF exc' THEN NoAnswer
                  ELSE [m |-> Top.m, res |-> res, via |-> Top.via, outer |-> Top.outer]
        /\ exportRoots' = IF Top.via = "root" /\ ~exc'
                          THEN Append(exportRoots, <<Top.at, Len(log) + 1>>) ELSE exportRoots
  /\ stack' = Caller
  /\ UNCHANGED <<project, jobs, exit, memo, requests, toolCache, nesting, sink, raised, frameVs,
                 pending, history>>

SiblingReturns ==
  /\ exit = "no" /\ Returning /\ ret.via = "sibling"
  /\ sink' = ret.outer
  /\ ret' = NoAnswer
  /\ UNCHANGED <<project, jobs, exc, exit, stack, memos, nesting, warnings, printed, raised,
                 frameVs, pending, export, history>>

TargetReturns ==
  /\ exit = "no" /\ Returning /\ ret.via \in {"root", "recursed"}
  /\ ret' = NoAnswer
  /\ UNCHANGED <<project, jobs, exc, exit, stack, memos, nesting, warns, frameVs, pending, export, history>>
-----------------------------------------------------------------------------
(***************************************************************************)
(* Exceptions.                                                             *)
(***************************************************************************)
UnwindFire ==
  /\ exit = "no" /\ exc /\ stack # <<>> /\ Top.kind = "fire"
  /\ FireEnds
  /\ UNCHANGED <<control, memos, walking, warns, pending, export, history>>

PopFrame == frameDepth' = IF Top.frame = 0 THEN frameDepth ELSE frameDepth - 1

(* genModuleRecover, for a module whose publication is deferred or with -k.*)
Recover ==
  /\ exit = "no" /\ exc /\ stack # <<>> /\ Top.kind = "module"
  /\ Top.deferred \/ project.keepGoing
  /\ EndWalk /\ PopFrame
  /\ OnWarn(warnings, Failed(Top.m), Top.m)
  /\ NewResult(Top.m, FALSE)
  /\ stack' = [Goto("leave") EXCEPT ![Len(stack)].frame = 0, ![Len(stack)].res = Len(results) + 1]
  /\ exc' = FALSE
  /\ UNCHANGED <<project, jobs, ret, exit, requests, toolCache, sink, frames, frameSerial, store,
                 pending, export, history>>

(* Any other module lets the exception pass.                               *)
UnwindModule ==
  /\ exit = "no" /\ exc /\ stack # <<>> /\ Top.kind = "module"
  /\ ~Top.deferred /\ ~project.keepGoing
  /\ EndWalk /\ PopFrame
  /\ LeaveExport(Top.at, 0)
  /\ stack' = Caller
  /\ UNCHANGED <<control, memos, warns, frames, frameSerial, store, pending, exportRoots, history>>

End ==
  /\ exit = "no" /\ stack = <<>> /\ ~Returning
  /\ \/ exc /\ exit' = "failed"
     \/ ~exc /\ jobs = <<>> /\ exit' = "ok"
  /\ UNCHANGED <<project, jobs, ret, exc, stack, memos, nesting, warns, frameVs, pending, export, history>>

Ended == exit # "no" /\ UNCHANGED vars

Next ==
  \/ GenTarget \/ GenModule \/ GenBefore \/ ReadModule
  \/ GenPeer \/ PeerReturns \/ ToolResult \/ ToolReturns
  \/ Register \/ UseFile \/ RunGenerator \/ FireReturns \/ NextPhase
  \/ FinishModule \/ GenAfter \/ LeaveDeferred \/ LeaveDirect \/ SiblingReturns \/ TargetReturns
  \/ UnwindFire \/ Recover \/ UnwindModule \/ End \/ Ended

Spec == Init /\ [][Next]_vars
-----------------------------------------------------------------------------
(***************************************************************************)
(* Properties.                                                             *)
(***************************************************************************)
(* A generator that has not run yet, or is running, finds its frame as its *)
(* module left it, and no two modules being generated share a frame.       *)
FrameSafe ==
  /\ \A o \in Module : pending[o] # Nil => store[pending[o].frame].serial = pending[o].serial
  /\ \A i \in 1..Len(stack) : stack[i].kind = "fire" =>
       store[stack[i].pending.frame].serial = stack[i].pending.serial
  /\ \A i, j \in 1..Len(stack) :
       i # j /\ stack[i].kind = "module" /\ stack[j].kind = "module" /\ stack[i].frame # 0
         => stack[i].frame # stack[j].frame

(* Between two targets nothing of the recursion is left, however many      *)
(* exceptions have passed through it: no module counts as being generated, *)
(* publication is not deferred, warnings go to the handler, every visit in *)
(* the log has its end, a frame waits only for generators that have not    *)
(* run, and no module has been generated twice.                            *)
Restored ==
  stack = <<>> /\ ~Returning =>
    /\ walking = {} /\ defers = 0 /\ sink = 0 /\ frameDepth = 0
    /\ \A at \in 1..Len(log) : log[at].end > at
    /\ \A f \in 1..Len(store) :
         store[f].pending = Cardinality({o \in Module : pending[o] # Nil /\ pending[o].frame = f})
    /\ \A m \in Module : bodies[m] <= 1
=============================================================================
