--------------------------- MODULE Executor_proof ---------------------------
(***************************************************************************)
(* Proofs about Executor, for every graph, every list of roots, every      *)
(* number of threads and every size of queue and batch.                    *)
(*                                                                         *)
(* DepsBuiltFirst and the refinement of BuildOrder are not inductive: a    *)
(* node at "work" says nothing of how it got there.  ExecInv adds what the *)
(* loop of execute over buildDeps has established so far (DepsInv), where  *)
(* the loop stands in each later state (LastInv), and that a future is     *)
(* written by the one execution its once admits (OnceInv).                 *)
(***************************************************************************)
EXTENDS Executor, TLAPS

Built(d) == once[d] = "complete" /\ d \notin err

(* The progress of execute and the state of the once agree.                *)
OnceInv ==
  \A n \in Node :
    /\ pc[n] # "idle" => once[n] = "running"
    /\ once[n] = "new" => n \notin err
    /\ pc[n] \in {"deps", "work", "post"} => n \notin err
    /\ pc[n] = "report" => n \in err

(* The dependencies the loop has passed are built.                         *)
DepsInv ==
  \A n \in Node : \A j \in 1..Len(Deps[n]) : j < dep[n] => Built(Deps[n][j])

(* After the loop all of them are, unless the loop ended at a failed one.  *)
LastInv ==
  \A n \in Node :
    /\ pc[n] \in {"work", "post"} => dep[n] > Len(Deps[n])
    /\ pc[n] \in {"return", "report"} =>
         \/ dep[n] > Len(Deps[n])
         \/ n \in err /\ \E d \in DepSet(n) : once[d] = "complete" /\ d \in err

ExecInv == OnceInv /\ DepsInv /\ LastInv

(* The variables of visit and execute; the rest of the process leaves them *)
(* alone.                                                                  *)
LEMMA DepSetType ==
  \A n \in Node : /\ DepSet(n) \subseteq Node
                  /\ \A i \in 1..Len(Deps[n]) : Deps[n][i] \in Node
BY ExecutorAssumption DEF DepSet
-----------------------------------------------------------------------------
LEMMA EventFields ==
  ASSUME NEW e \in Event
  PROVE  /\ e.kind = "batch" => e.nodes \in Seq(Node)
         /\ e.kind = "report" => e.node \in Node
BY DEF Event

(* Every step keeps the types: the queue holds events, batches hold nodes, *)
(* the counters do not go below zero.                                      *)
LEMMA TypeStep == TypeOK /\ [Next]_vars => TypeOK'
<1> SUFFICES ASSUME TypeOK, [Next]_vars PROVE TypeOK'
  OBVIOUS
<1> USE DEF TypeOK, futures, counters, channel, mainVars
<1>1. ASSUME NEW n \in Node, OnNode(n) PROVE TypeOK'
  <2>1. MainTypeOK'
    BY <1>1 DEF MainTypeOK, OnNode
  <2>2. LoopTypeOK'
    BY <1>1 DEF LoopTypeOK, OnNode
  <2>3. FutureTypeOK'
    BY <1>1 DEF FutureTypeOK, OnNode
  <2>4. CounterTypeOK'
    BY <1>1 DEF CounterTypeOK, OnNode
  <2> QED
    BY <2>1, <2>2, <2>3, <2>4
<1>2. CASE FlushPrepBatch
  <2>1. [kind |-> "batch", nodes |-> prepBatch] \in Event
    BY DEF MainTypeOK, Event
  <2>2. MainTypeOK'
    BY <1>2, <2>1 DEF MainTypeOK, FlushPrepBatch, Post
  <2>3. LoopTypeOK'
    BY <1>2, <2>1 DEF LoopTypeOK, FlushPrepBatch, Post
  <2>4. FutureTypeOK'
    BY <1>2, <2>1 DEF FutureTypeOK, FlushPrepBatch, Post
  <2>5. CounterTypeOK'
    BY <1>2, <2>1 DEF CounterTypeOK, FlushPrepBatch, Post
  <2> QED
    BY <2>2, <2>3, <2>4, <2>5
<1>3. CASE GenReturns \/ GenThrows
  <2>1. MainTypeOK'
    BY <1>3 DEF MainTypeOK, GenReturns, GenThrows
  <2>2. LoopTypeOK'
    BY <1>3 DEF LoopTypeOK, GenReturns, GenThrows
  <2>3. FutureTypeOK'
    BY <1>3 DEF FutureTypeOK, GenReturns, GenThrows
  <2>4. CounterTypeOK'
    BY <1>3 DEF CounterTypeOK, GenReturns, GenThrows
  <2> QED
    BY <2>1, <2>2, <2>3, <2>4
<1>4. CASE PostSync
  <2>1. [kind |-> "sync"] \in Event
    BY DEF Event
  <2>2. MainTypeOK'
    BY <1>4, <2>1 DEF Channel, MainTypeOK, PostSync, Post
  <2>3. LoopTypeOK'
    BY <1>4, <2>1 DEF LoopTypeOK, PostSync, Post
  <2>4. FutureTypeOK'
    BY <1>4, <2>1 DEF FutureTypeOK, PostSync, Post
  <2>5. CounterTypeOK'
    BY <1>4, <2>1 DEF CounterTypeOK, PostSync, Post
  <2> QED
    BY <2>2, <2>3, <2>4, <2>5
<1>5. CASE SyncReturns
  <2>1. MainTypeOK'
    BY <1>5 DEF Channel, LoopTypeOK, MainTypeOK, SyncReturns
  <2>2. LoopTypeOK'
    BY <1>5 DEF LoopTypeOK, SyncReturns
  <2>3. FutureTypeOK'
    BY <1>5 DEF FutureTypeOK, SyncReturns
  <2>4. CounterTypeOK'
    BY <1>5 DEF CounterTypeOK, SyncReturns
  <2> QED
    BY <2>1, <2>2, <2>3, <2>4
<1>6. CASE VisitRootReturns \/ InFlightWait
  <2>1. MainTypeOK'
    BY <1>6 DEF MainTypeOK, VisitRootReturns, InFlightWait
  <2>2. LoopTypeOK'
    BY <1>6 DEF LoopTypeOK, VisitRootReturns, InFlightWait
  <2>3. FutureTypeOK'
    BY <1>6 DEF FutureTypeOK, VisitRootReturns, InFlightWait
  <2>4. CounterTypeOK'
    BY <1>6 DEF CounterTypeOK, VisitRootReturns, InFlightWait
  <2> QED
    BY <2>1, <2>2, <2>3, <2>4
<1>7. CASE CheckFailures \/ Install \/ CloseQueue \/ MainReturns
  <2>1. MainTypeOK'
    BY <1>7 DEF MainTypeOK, CheckFailures, Install, CloseQueue, MainReturns
  <2>2. LoopTypeOK'
    BY <1>7 DEF Channel, LoopTypeOK, CheckFailures, Install, CloseQueue, MainReturns
  <2>3. FutureTypeOK'
    BY <1>7 DEF FutureTypeOK, CheckFailures, Install, CloseQueue, MainReturns
  <2>4. CounterTypeOK'
    BY <1>7 DEF CounterTypeOK, CheckFailures, Install, CloseQueue, MainReturns
  <2> QED
    BY <2>1, <2>2, <2>3, <2>4
<1>8. CASE LoadUidSet
  <2>1. MainTypeOK'
    BY <1>8 DEF MainTypeOK, LoadUidSet
  <2>2. LoopTypeOK'
    BY <1>8 DEF Channel, LoopTypeOK, LoadUidSet
  <2>3. FutureTypeOK'
    BY <1>8 DEF FutureTypeOK, LoadUidSet
  <2>4. CounterTypeOK'
    BY <1>8 DEF CounterTypeOK, LoadUidSet
  <2> QED
    BY <2>1, <2>2, <2>3, <2>4
<1>9. CASE Loop
  <2>1. Head(queue) \in Event /\ Tail(queue) \in Seq(Event)
    BY <1>9 DEF Loop, LoopTypeOK
  <2>2. /\ Head(queue).kind = "batch" => Head(queue).nodes \in Seq(Node)
        /\ Head(queue).kind = "report" => Head(queue).node \in Node
    BY <2>1, EventFields
  <2>3. MainTypeOK'
    BY <1>9, <2>1, <2>2 DEF Channel, MainTypeOK, Loop
  <2>4. LoopTypeOK'
    BY <1>9, <2>1, <2>2 DEF LoopTypeOK, Loop
  <2>5. FutureTypeOK'
    BY <1>9, <2>1, <2>2 DEF FutureTypeOK, Loop
  <2>6. CounterTypeOK'
    BY <1>9, <2>1, <2>2 DEF CounterTypeOK, Loop
  <2> QED
    BY <2>3, <2>4, <2>5, <2>6
<1>10. ASSUME NEW cached \in BOOLEAN, Prepare(cached) PROVE TypeOK'
  <2>1. Head(batch) \in Node /\ Tail(batch) \in Seq(Node)
    BY <1>10 DEF Prepare, LoopTypeOK
  <2>2. MainTypeOK'
    BY <1>10, <2>1 DEF MainTypeOK, Prepare
  <2>3. LoopTypeOK'
    BY <1>10, <2>1 DEF LoopTypeOK, Prepare
  <2>4. FutureTypeOK'
    BY <1>10, <2>1 DEF FutureTypeOK, Prepare
  <2>5. CounterTypeOK'
    BY <1>10, <2>1 DEF CounterTypeOK, Prepare
  <2> QED
    BY <2>2, <2>3, <2>4, <2>5
<1>11. ASSUME NEW n \in Node, Enter(n) PROVE TypeOK'
  <2>1. MainTypeOK'
    BY <1>11 DEF MainTypeOK, Enter
  <2>2. LoopTypeOK'
    BY <1>11 DEF LoopTypeOK, Enter
  <2>3. FutureTypeOK'
    BY <1>11 DEF FutureTypeOK, Enter
  <2>4. CounterTypeOK'
    BY <1>11 DEF CounterTypeOK, Enter
  <2> QED
    BY <2>1, <2>2, <2>3, <2>4
<1>12. ASSUME NEW n \in Node, DepReturns(n) PROVE TypeOK'
  <2>1. MainTypeOK'
    BY <1>12 DEF MainTypeOK, DepReturns
  <2>2. LoopTypeOK'
    BY <1>12 DEF LoopTypeOK, DepReturns
  <2>3. FutureTypeOK'
    <3>1. dep' \in [Node -> Nat \ {0}]
      <4>1. dep[n] + 1 \in Nat \ {0}
        BY DEF FutureTypeOK
      <4>2. dep' = [dep EXCEPT ![n] = dep[n] + 1] \/ dep' = dep
        BY <1>12 DEF DepReturns
      <4> QED
        BY <4>1, <4>2 DEF FutureTypeOK
    <3>2. err' \subseteq Node
      BY <1>12 DEF FutureTypeOK, DepReturns
    <3>3. pc' \in [Node -> {"idle", "deps", "work", "post", "return",
                       "report"}]
      BY <1>12 DEF FutureTypeOK, DepReturns
    <3> QED
      BY <1>12, <3>1, <3>2, <3>3 DEF FutureTypeOK, DepReturns
  <2>4. CounterTypeOK'
    BY <1>12 DEF CounterTypeOK, DepReturns
  <2> QED
    BY <2>1, <2>2, <2>3, <2>4
<1>13. ASSUME NEW n \in Node, AcquireSema(n) PROVE TypeOK'
  <2>1. MainTypeOK'
    BY <1>13 DEF MainTypeOK, AcquireSema
  <2>2. LoopTypeOK'
    BY <1>13 DEF LoopTypeOK, AcquireSema
  <2>3. FutureTypeOK'
    BY <1>13 DEF FutureTypeOK, AcquireSema
  <2>4. CounterTypeOK'
    BY <1>13 DEF CounterTypeOK, AcquireSema
  <2> QED
    BY <2>1, <2>2, <2>3, <2>4
<1>14. ASSUME NEW n \in Node, Work(n) PROVE TypeOK'
  <2>1. MainTypeOK'
    BY <1>14 DEF MainTypeOK, Work
  <2>2. LoopTypeOK'
    BY <1>14 DEF LoopTypeOK, Work
  <2>3. FutureTypeOK'
    BY <1>14 DEF FutureTypeOK, Work
  <2>4. CounterTypeOK'
    BY <1>14 DEF CounterTypeOK, Work
  <2> QED
    BY <2>1, <2>2, <2>3, <2>4
<1>15. ASSUME NEW n \in Node, PostReport(n) PROVE TypeOK'
  <2>1. [kind |-> "report", node |-> n] \in Event
    BY DEF Event
  <2>2. MainTypeOK'
    BY <1>15, <2>1 DEF MainTypeOK, PostReport, Post
  <2>3. LoopTypeOK'
    <3>1. CASE Post([kind |-> "report", node |-> n])
      BY <1>15, <2>1, <3>1 DEF LoopTypeOK, PostReport, Post
    <3>2. CASE UNCHANGED queue
      BY <1>15, <2>1, <3>2 DEF LoopTypeOK, PostReport, Post
    <3> QED
      BY <1>15, <2>1, <3>1, <3>2 DEF LoopTypeOK, PostReport, Post
  <2>4. FutureTypeOK'
    BY <1>15, <2>1 DEF FutureTypeOK, PostReport, Post
  <2>5. CounterTypeOK'
    BY <1>15, <2>1 DEF CounterTypeOK, PostReport, Post
  <2> QED
    BY <2>2, <2>3, <2>4, <2>5
<1>16. ASSUME NEW n \in Node, ExecuteReturns(n) PROVE TypeOK'
  <2>1. MainTypeOK'
    BY <1>16 DEF MainTypeOK, ExecuteReturns
  <2>2. LoopTypeOK'
    BY <1>16 DEF LoopTypeOK, ExecuteReturns
  <2>3. FutureTypeOK'
    BY <1>16 DEF FutureTypeOK, ExecuteReturns
  <2>4. CounterTypeOK'
    BY <1>16 DEF CounterTypeOK, ExecuteReturns
  <2> QED
    BY <2>1, <2>2, <2>3, <2>4
<1>17. ASSUME NEW n \in Node, ReportFailure(n) PROVE TypeOK'
  <2>1. [kind |-> "failure", node |-> n] \in Event
    BY DEF Event
  <2>2. MainTypeOK'
    BY <1>17, <2>1 DEF MainTypeOK, ReportFailure, Post
  <2>3. LoopTypeOK'
    <3>1. CASE Post([kind |-> "failure", node |-> n])
      BY <1>17, <2>1, <3>1 DEF LoopTypeOK, ReportFailure, Post
    <3>2. CASE UNCHANGED queue
      BY <1>17, <2>1, <3>2 DEF LoopTypeOK, ReportFailure, Post
    <3> QED
      BY <1>17, <2>1, <3>1, <3>2 DEF LoopTypeOK, ReportFailure, Post
  <2>4. FutureTypeOK'
    BY <1>17, <2>1 DEF FutureTypeOK, ReportFailure, Post
  <2>5. CounterTypeOK'
    BY <1>17, <2>1 DEF CounterTypeOK, ReportFailure, Post
  <2> QED
    BY <2>2, <2>3, <2>4, <2>5
<1>18. ASSUME NEW n \in Node, FireReturns(n) PROVE TypeOK'
  <2>1. MainTypeOK'
    BY <1>18 DEF MainTypeOK, FireReturns
  <2>2. LoopTypeOK'
    BY <1>18 DEF LoopTypeOK, FireReturns
  <2>3. FutureTypeOK'
    BY <1>18 DEF FutureTypeOK, FireReturns
  <2>4. CounterTypeOK'
    BY <1>18 DEF CounterTypeOK, FireReturns
  <2> QED
    BY <2>1, <2>2, <2>3, <2>4
<1>19. CASE UNCHANGED vars
  BY <1>19 DEF MainTypeOK, LoopTypeOK, FutureTypeOK, CounterTypeOK, vars
<1> QED
  BY <1>1, <1>2, <1>3, <1>4, <1>5, <1>6, <1>7, <1>8, <1>9, <1>10, <1>11,
     <1>12, <1>13, <1>14, <1>15, <1>16, <1>17, <1>18, <1>19
  DEF Next, Main, EventLoop, Execute, Exited

(* In every reachable state the variables of the process have their types. *)
THEOREM TypeCorrect == Spec => []TypeOK
<1>1. Init => TypeOK
  <2>1. Init => MainTypeOK /\ CounterTypeOK
    BY DEF Init, MainTypeOK, CounterTypeOK, Channel
  <2>2. Init => LoopTypeOK
    BY DEF Init, LoopTypeOK, Channel
  <2>3. Init => FutureTypeOK
    BY DEF Init, FutureTypeOK
  <2> QED
    BY <2>1, <2>2, <2>3 DEF TypeOK
<1> QED
  BY <1>1, TypeStep, PTL DEF Spec
-----------------------------------------------------------------------------
(* Main, the loader and the end of a fire goroutine leave the futures alone. *)
LEMMA FuturesUntouched ==
  ASSUME \/ Main \/ LoadUidSet \/ Loop \/ Exited \/ UNCHANGED vars
         \/ \E n \in Node : FireReturns(n)
  PROVE  UNCHANGED futures
BY DEF Main, OnNode, FlushPrepBatch, GenReturns, GenThrows, PostSync,
       SyncReturns, VisitRootReturns, InFlightWait, CheckFailures, Install,
       CloseQueue, MainReturns, LoadUidSet, Loop, Exited, FireReturns, vars,
       futures

(* What is settled stays settled: a built dependency is not taken back, a  *)
(* failed one not forgiven, and the execution of one node writes no other  *)
(* node's future.                                                          *)
Settled ==
  \A d \in Node :
    once[d] = "complete" => once'[d] = "complete" /\ (d \in err' <=> d \in err)

LEMMA SettledStep ==
  ASSUME TypeOK, ExecInv, [Next]_vars
  PROVE  Settled
<1> USE DEF ExecInv, OnceInv, Settled, FutureTypeOK, TypeOK
<1>1. ASSUME UNCHANGED futures PROVE Settled
  BY <1>1 DEF futures
<1>2. ASSUME NEW cached \in BOOLEAN, Prepare(cached) PROVE Settled
  BY <1>2 DEF Prepare
<1>3. ASSUME NEW n \in Node, Enter(n) \/ AcquireSema(n) \/ PostReport(n) PROVE Settled
  BY <1>3 DEF Enter, AcquireSema, PostReport
<1>4. ASSUME NEW n \in Node, DepReturns(n) PROVE Settled
  BY <1>4 DEF DepReturns
<1>5. ASSUME NEW n \in Node, Work(n) PROVE Settled
  BY <1>5 DEF Work
<1>6. ASSUME NEW n \in Node, ExecuteReturns(n) \/ ReportFailure(n) PROVE Settled
  BY <1>6 DEF ExecuteReturns, ReportFailure
<1> QED
  BY <1>1, <1>2, <1>3, <1>4, <1>5, <1>6, FuturesUntouched
  DEF Next, EventLoop, Execute

LEMMA OnceInvStep ==
  ASSUME TypeOK, ExecInv, [Next]_vars
  PROVE  OnceInv'
<1> USE DEF ExecInv, OnceInv, FutureTypeOK, TypeOK
<1>1. ASSUME UNCHANGED futures PROVE OnceInv'
  BY <1>1 DEF futures
<1>2. ASSUME NEW cached \in BOOLEAN, Prepare(cached) PROVE OnceInv'
  <2>1. Head(batch) \in Node
    BY <1>2 DEF Prepare, LoopTypeOK
  <2> QED
    BY <1>2, <2>1 DEF Prepare
<1>3. ASSUME NEW n \in Node, Enter(n) \/ AcquireSema(n) \/ PostReport(n)
      PROVE OnceInv'
  BY <1>3 DEF Enter, AcquireSema, PostReport
<1>4. ASSUME NEW n \in Node, DepReturns(n) PROVE OnceInv'
  BY <1>4 DEF DepReturns
<1>5. ASSUME NEW n \in Node, Work(n) PROVE OnceInv'
  BY <1>5 DEF Work
<1>6. ASSUME NEW n \in Node, ExecuteReturns(n) PROVE OnceInv'
  BY <1>6 DEF ExecuteReturns
<1>7. ASSUME NEW n \in Node, ReportFailure(n) PROVE OnceInv'
  BY <1>7 DEF ReportFailure
<1> QED
  BY <1>1, <1>2, <1>3, <1>4, <1>5, <1>6, <1>7, FuturesUntouched
  DEF Next, EventLoop, Execute

LEMMA DepsInvStep ==
  ASSUME TypeOK, ExecInv, [Next]_vars
  PROVE  DepsInv'
<1>1. Settled
  BY SettledStep
<1>2. ASSUME UNCHANGED dep PROVE DepsInv'
  BY <1>1, <1>2, DepSetType DEF ExecInv, DepsInv, Built, Settled
<1>3. ASSUME NEW n \in Node, DepReturns(n), ~UNCHANGED dep PROVE DepsInv'
  <2>1. /\ dep' = [dep EXCEPT ![n] = @ + 1]
        /\ UNCHANGED <<err, once>>
        /\ Built(Deps[n][dep[n]])
    BY <1>3 DEF DepReturns, Built
  <2>2. SUFFICES ASSUME NEW m \in Node, NEW j \in 1..Len(Deps[m]), j < dep'[m]
                 PROVE  Built(Deps[m][j])
    BY <2>1 DEF DepsInv, Built
  <2>3. dep[n] \in Nat /\ dep[m] \in Nat
    BY DEF TypeOK, FutureTypeOK
  <2>4. CASE j < dep[m]
    BY <2>4 DEF ExecInv, DepsInv
  <2>5. CASE m = n /\ j = dep[n]
    BY <2>1, <2>5
  <2>6. Len(Deps[m]) \in Nat
    BY ExecutorAssumption
  <2> QED
    BY <2>1, <2>2, <2>3, <2>4, <2>5, <2>6 DEF TypeOK, FutureTypeOK
<1>4. ASSUME NEW n \in Node, Execute(n), ~DepReturns(n) PROVE UNCHANGED dep
  BY <1>4 DEF Execute, Enter, AcquireSema, Work, PostReport, ExecuteReturns,
              ReportFailure
<1>5. ASSUME NEW cached \in BOOLEAN, Prepare(cached) PROVE UNCHANGED dep
  BY <1>5 DEF Prepare
<1> QED
  BY <1>2, <1>3, <1>4, <1>5, FuturesUntouched DEF Next, EventLoop, futures

LEMMA LastInvStep ==
  ASSUME TypeOK, ExecInv, [Next]_vars
  PROVE  LastInv'
<1> USE DEF ExecInv, OnceInv, LastInv, FutureTypeOK, TypeOK
<1>1. Settled /\ \A n \in Node : DepSet(n) \subseteq Node
  BY SettledStep, DepSetType
<1>2. ASSUME UNCHANGED <<pc, dep>>, err \subseteq err' PROVE LastInv'
  BY <1>1, <1>2 DEF Settled
<1>3. ASSUME NEW cached \in BOOLEAN, Prepare(cached) PROVE LastInv'
  BY <1>2, <1>3 DEF Prepare
<1>4. ASSUME NEW n \in Node, Enter(n) PROVE LastInv'
  BY <1>1, <1>4 DEF Enter, Settled
<1>5. ASSUME NEW n \in Node, AcquireSema(n) PROVE LastInv'
  BY <1>1, <1>5 DEF AcquireSema, Settled
<1>6. ASSUME NEW n \in Node, DepReturns(n) PROVE LastInv'
  <2>1. n \notin err /\ once[n] = "running" /\ Deps[n][dep[n]] \in DepSet(n)
    BY <1>6, ExecutorAssumption DEF DepReturns, DepSet
  <2>2. CASE UNCHANGED <<err, pc>>
    BY <1>1, <1>6, <2>2 DEF DepReturns, Settled
  <2>3. CASE UNCHANGED dep
    BY <1>1, <1>6, <2>1, <2>3 DEF DepReturns, Settled
  <2> QED
    BY <1>6, <2>2, <2>3 DEF DepReturns
<1>7. ASSUME NEW n \in Node, Work(n) \/ PostReport(n) PROVE LastInv'
  BY <1>1, <1>7 DEF Work, PostReport, Settled
<1>8. ASSUME NEW n \in Node, ExecuteReturns(n) PROVE LastInv'
  BY <1>1, <1>8 DEF ExecuteReturns, Settled
<1>9. ASSUME NEW n \in Node, ReportFailure(n) PROVE LastInv'
  BY <1>1, <1>9 DEF ReportFailure, Settled
<1> QED
  BY <1>2, <1>3, <1>4, <1>5, <1>6, <1>7, <1>8, <1>9, FuturesUntouched
  DEF Next, EventLoop, Execute, futures

LEMMA ExecInvInit == Init => ExecInv
BY ExecutorAssumption
DEF Init, ExecInv, OnceInv, DepsInv, LastInv, Built

(* The inductive invariant of visit and execute.                           *)
THEOREM ExecInvariant == Spec => [](TypeOK /\ ExecInv)
<1>1. TypeOK /\ ExecInv /\ [Next]_vars => ExecInv'
  BY OnceInvStep, DepsInvStep, LastInvStep DEF ExecInv
<1> QED
  BY <1>1, ExecInvInit, TypeCorrect, PTL DEF Spec

LEMMA LoopDone ==
  ASSUME TypeOK, ExecInv, NEW n \in Node, dep[n] > Len(Deps[n])
  PROVE  \A d \in DepSet(n) : Built(d)
<1>1. \A j \in 1..Len(Deps[n]) : j < dep[n]
  BY ExecutorAssumption DEF TypeOK, FutureTypeOK
<1> QED
  BY <1>1 DEF ExecInv, DepsInv, DepSet

(* execute touches the disk for a node only when all its dependencies are  *)
(* built: for every graph, whatever the order in which the goroutines, the *)
(* queue and main visit its nodes.                                         *)
THEOREM DepsBuiltFirstHolds == Spec => []DepsBuiltFirst
<1>1. TypeOK /\ ExecInv => DepsBuiltFirst
  <2> SUFFICES ASSUME TypeOK, ExecInv, NEW n \in Node, pc[n] \in {"work", "post"}
               PROVE  \A d \in DepSet(n) : once[d] = "complete" /\ d \notin err
    BY DEF DepsBuiltFirst
  <2>1. dep[n] > Len(Deps[n])
    BY DEF ExecInv, LastInv
  <2> QED
    BY <2>1, LoopDone DEF Built
<1> QED
  BY <1>1, ExecInvariant, PTL
-----------------------------------------------------------------------------
(***************************************************************************)
(* The executor implements BuildOrder.                                     *)
(***************************************************************************)
LEMMA StatusValues ==
  ASSUME NEW n \in Node
  PROVE  /\ Status[n] = "open" <=> once[n] # "complete"
         /\ Status[n] = "built" <=> Built(n)
         /\ Status[n] = "failed" <=> once[n] = "complete" /\ n \in err
BY DEF Status, Built

(* The step that completes the once of n, and what it makes of n.          *)
LEMMA Completes ==
  ASSUME NEW n \in Node, once[n] # "complete",
         once' = [once EXCEPT ![n] = "complete"], UNCHANGED err, TypeOK
  PROVE  Status' = [Status EXCEPT ![n] = IF n \in err THEN "failed" ELSE "built"]
BY DEF Status, TypeOK, FutureTypeOK

LEMMA StatusUnchanged ==
  ASSUME TypeOK,
         \A d \in Node : /\ once'[d] = "complete" <=> once[d] = "complete"
                         /\ once[d] = "complete" => (d \in err' <=> d \in err)
  PROVE  UNCHANGED Status
BY DEF Status

(* The once of n is completed by an execution: all dependencies are built, *)
(* or n has failed and one of them has.                                    *)
LEMMA ExecutionCompletes ==
  ASSUME TypeOK, ExecInv, NEW n \in Node, pc[n] \in {"return", "report"},
         once' = [once EXCEPT ![n] = "complete"], UNCHANGED err
  PROVE  BO!Next
<1>1. once[n] # "complete"
  BY DEF ExecInv, OnceInv
<1>2. Status' = [Status EXCEPT ![n] = IF n \in err THEN "failed" ELSE "built"]
  BY <1>1, Completes
<1>3. Status[n] = "open" /\ BO!DepSet(n) = DepSet(n)
  BY <1>1, StatusValues DEF BO!DepSet, DepSet
<1>4. CASE dep[n] > Len(Deps[n])
  <2>1. \A d \in BO!DepSet(n) : Status[d] = "built"
    BY <1>3, <1>4, LoopDone, StatusValues, DepSetType
  <2>2. BO!Build(n) \/ BO!Fail(n)
    BY <1>2, <1>3, <2>1 DEF BO!Build, BO!Fail
  <2> QED
    BY <2>2 DEF BO!Next
<1>5. CASE n \in err /\ \E d \in DepSet(n) : once[d] = "complete" /\ d \in err
  <2>1. \E d \in BO!DepSet(n) : Status[d] = "failed"
    BY <1>3, <1>5, StatusValues, DepSetType
  <2>2. BO!Broken(n)
    BY <1>2, <1>3, <1>5, <2>1 DEF BO!Broken
  <2> QED
    BY <2>2 DEF BO!Next
<1> QED
  BY <1>4, <1>5 DEF ExecInv, LastInv

LEMMA RefinementStep ==
  ASSUME TypeOK, ExecInv, [Next]_vars
  PROVE  [BO!Next]_Status
<1>1. ASSUME UNCHANGED futures PROVE UNCHANGED Status
  BY <1>1 DEF futures, Status
<1>2. ASSUME NEW cached \in BOOLEAN, Prepare(cached) PROVE [BO!Next]_Status
  <2>1. Head(batch) \in Node
    BY <1>2 DEF Prepare, TypeOK, LoopTypeOK
  <2>2. CASE UNCHANGED once
    BY <1>2, <2>2, StatusUnchanged DEF Prepare
  <2>3. CASE once[Head(batch)] = "complete" /\ ~UNCHANGED once
    BY <1>2, <2>1, <2>3, StatusUnchanged DEF Prepare, TypeOK, FutureTypeOK
  <2>4. CASE once[Head(batch)] # "complete" /\ ~UNCHANGED once
    <3>1. /\ once' = [once EXCEPT ![Head(batch)] = "complete"]
          /\ UNCHANGED err
          /\ once[Head(batch)] = "new"
          /\ Head(batch) \in MayBeCached
      BY <1>2, <2>1, <2>4 DEF Prepare, TypeOK, FutureTypeOK
    <3>2. Head(batch) \notin err
      BY <2>1, <3>1 DEF ExecInv, OnceInv
    <3>3. Status' = [Status EXCEPT ![Head(batch)] = "built"]
      BY <2>1, <2>4, <3>1, <3>2, Completes
    <3>4. BO!CacheHit(Head(batch))
      BY <2>1, <2>4, <3>1, <3>3, StatusValues DEF BO!CacheHit
    <3> QED
      BY <2>1, <3>4 DEF BO!Next
  <2> QED
    BY <2>2, <2>3, <2>4
<1>3. ASSUME NEW n \in Node, Enter(n) \/ AcquireSema(n) \/ PostReport(n)
      PROVE  UNCHANGED Status
  <2>1. UNCHANGED err
    BY <1>3 DEF Enter, AcquireSema, PostReport
  <2>2. \A d \in Node : once'[d] = "complete" <=> once[d] = "complete"
    BY <1>3 DEF Enter, AcquireSema, PostReport, TypeOK, FutureTypeOK
  <2> QED
    BY <2>1, <2>2, StatusUnchanged
<1>4. ASSUME NEW n \in Node, DepReturns(n) \/ Work(n) PROVE UNCHANGED Status
  <2>1. once[n] = "running" /\ UNCHANGED once
    BY <1>4 DEF DepReturns, Work, ExecInv, OnceInv
  <2>2. \A d \in Node \ {n} : d \in err' <=> d \in err
    BY <1>4 DEF DepReturns, Work
  <2> QED
    BY <2>1, <2>2, StatusUnchanged
<1>5. ASSUME NEW n \in Node, ExecuteReturns(n) \/ ReportFailure(n)
      PROVE  [BO!Next]_Status
  <2>1. pc[n] \in {"return", "report"} /\ UNCHANGED err
    BY <1>5 DEF ExecuteReturns, ReportFailure
  <2>2. CASE UNCHANGED once
    BY <2>1, <2>2, StatusUnchanged
  <2>3. CASE once' = [once EXCEPT ![n] = "complete"]
    BY <2>1, <2>3, ExecutionCompletes
  <2> QED
    BY <1>5, <2>2, <2>3 DEF ExecuteReturns, ReportFailure
<1> QED
  BY <1>1, <1>2, <1>3, <1>4, <1>5, FuturesUntouched
  DEF Next, EventLoop, Execute

(* Whatever the threads, the queue and the batches do, every node of every *)
(* graph is settled once, in an order BuildOrder allows: built from the    *)
(* cache or after all its dependencies, failed of itself after them or     *)
(* because of a failed one.                                                *)
THEOREM Refinement == Spec => ImplementsBuildOrder
<1>1. Init => BO!Init
  BY DEF Init, BO!Init, Status
<1>2. TypeOK /\ ExecInv /\ [Next]_vars => [BO!Next]_Status
  BY RefinementStep
<1> QED
  BY <1>1, <1>2, ExecInvariant, PTL DEF Spec, ImplementsBuildOrder, BO!Spec
=============================================================================
