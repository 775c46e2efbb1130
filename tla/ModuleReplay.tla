---------------------------- MODULE ModuleReplay ----------------------------
(* What the log and the warnings of ModuleGen come to when generation ends *)
(* well: the order of the modules that replayExport computes, and what the *)
(* handler of warnings has had.                                            *)
EXTENDS ModuleGen, SequencesExt

(***************************************************************************)
(* replayExport: the published modules, targets first.  A visit that       *)
(* covers nothing stands for the recorded visit of its result.             *)
(***************************************************************************)
RECURSIVE Replay(_, _), ReplayRange(_, _, _)

Replay(at, st) ==
  LET entry == log[at]
      now   == [st EXCEPT !.replayed = @ \cup {at}]
  IN IF at \in st.replayed THEN st
     ELSE CASE entry.step = "use" -> now
            [] entry.step = "publish" -> [now EXCEPT !.order = Append(@, entry.module)]
            [] entry.step = "visit" /\ entry.end > at + 1 -> ReplayRange(at + 1, entry.end, now)
            [] entry.step = "visit" /\ entry.end = at + 1 ->
                 IF entry.module # 0 /\ results[entry.module].exportAt # 0
                 THEN Replay(results[entry.module].exportAt, now) ELSE now

ReplayRange(at, end, st) == IF at >= end THEN st ELSE ReplayRange(log[at].end, end, Replay(at, st))

ReplayExport ==
  LET first == FoldLeft(LAMBDA st, r : ReplayRange(r[1], r[2], st),
                        [replayed |-> {}, order |-> <<>>], exportRoots)
  IN ReplayRange(1, Len(log) + 1, first).order
-----------------------------------------------------------------------------
(***************************************************************************)
(* Properties.                                                             *)
(***************************************************************************)
RECURSIVE Reach(_)
Reach(S) == LET more == {e[2] : e \in {e \in taken : e[1] \in S}}
            IN IF more \subseteq S THEN S ELSE Reach(S \cup more)

(* When generation ends well, the handler of warnings has had exactly the  *)
(* warnings raised by the modules that the targets need, through any chain *)
(* of peers and tools, each as often as it was raised (a peer that cannot  *)
(* be evaluated may be requested with two demands): however early a module *)
(* was visited, by whom, and whether anybody needed it then.  Without -k a *)
(* failure among them has ended the process instead.  A tool is excepted   *)
(* that is asked for by generators only, and only where its warnings are   *)
(* dropped (Dropped of ModuleGen): they are not reported.                  *)
WarningsExact ==
  exit = "ok" =>
    LET needed == {r \in raised : r[2] \in Reach(Roots(project))}
    IN printed = [w \in {r[1] : r \in needed} |-> Cardinality({r \in needed : r[1] = w})]

Succeeds(m) == memo[m] # 0 /\ results[memo[m]].output

(* A plain depth-first walk over the project.  A tool is visited by the    *)
(* modules that had it generated: one that is answered from ctx.tools      *)
(* leaves no visit in the log.                                             *)
RECURSIVE Visit(_, _)
Visit(st, m) ==
  LET p      == project
      needed == IF p.throw[m] = "reading" THEN <<>>
                ELSE SelectSeq(p.peers[m], LAMBDA x : x \notin p.broken) \o asked[m]
      inner  == FoldLeft(Visit, [st EXCEPT !.seen = @ \cup {m}], p.before[m] \o needed)
  IN IF m \in st.seen THEN st
     ELSE IF ~Succeeds(m) THEN inner
     ELSE FoldLeft(Visit, [inner EXCEPT !.order = Append(@, memo[m])], p.after[m])

FreshOrder ==
  LET begin == SelectSeq(project.targets, LAMBDA t : t.root) \o project.targets
  IN FoldLeft(LAMBDA st, t : Visit(st, t.m), [seen |-> {}, order |-> <<>>], begin).order

(* The replay names every module that was published, once, and in the      *)
(* order of a walk that would have begun with the targets, along the peers *)
(* and the calls made for tools, although the log was written in another   *)
(* order, unless a visit was cut short.                                    *)
ReplayOrder ==
  exit = "ok" =>
    /\ IsInjective(ReplayExport)
    /\ ToSet(ReplayExport) = {memo[m] : m \in {m \in Module : Succeeds(m)}}
    /\ ~cut => ReplayExport = FreshOrder
=============================================================================
