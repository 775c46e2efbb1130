------------------------------ MODULE Executor ------------------------------
(***************************************************************************)
(* One `ay make -j N` process: cmdMake (main), the event queue with its    *)
(* loop goroutine, loadUidSet, and one goroutine `fire` per node that is   *)
(* not cached (executor.go, event_queue.go, make.go).                      *)
(*                                                                         *)
(* NodeFuture.once makes the execution of a node belong to the node and    *)
(* not to the goroutine that happens to visit it first: every visitor,     *)
(* that one included, goes on when the once is complete.  The model        *)
(* therefore keeps the progress of execute per node (pc, dep) and lets any *)
(* visitor start it.  What execute does with the disk once it holds a slot *)
(* of the semaphore is one step here, Work; BuildCache models it.          *)
(***************************************************************************)
EXTENDS Integers, Sequences, FiniteSets

CONSTANTS
  Node,        \* nodes of the graph
  Deps,        \* Deps[n]: buildDeps of n, in the order execute visits them
  Roots,       \* the results, in the order run visits them
  Threads,     \* capacity of Executor.sema
  QueueCap,    \* capacity of the event channel (4096 in the code)
  BatchMax,    \* prepBatchMax (128 in the code)
  Stats,       \* --stat
  MayFail,     \* nodes whose command may fail
  MayBeCached, \* nodes whose uid may be found in the cache
  GenMayThrow  \* the generator may give up (cycle, fatal warning)

ASSUME ExecutorAssumption ==
  /\ Deps \in [Node -> Seq(Node)]
  /\ Roots \in Seq(Node)
  /\ Threads \in Nat \ {0} /\ QueueCap \in Nat \ {0} /\ BatchMax \in Nat \ {0}
  /\ Stats \in BOOLEAN /\ GenMayThrow \in BOOLEAN
  /\ MayFail \subseteq Node /\ MayBeCached \subseteq Node

VARIABLES
  keepGoing,   \* -k, given on the command line
  futs,        \* nodes handed to onNode
  prepBatch, prepBatchCap,
  queue,       \* the event channel
  ch,          \* EventQueue.ch: open or closed
  batch,       \* what the loop has left of the batch it is preparing
  uidSetReady, \* closed when the snapshot has been loaded
  prepared,    \* nodes whose uid has been computed
  once,        \* NodeFuture.once
  err,         \* nodes whose NodeFuture.err is set
  pc, dep,     \* progress of execute
  fire,        \* the goroutine prepare starts
  pending, done, failed,
  taskStats, printed,
  main, root, synced,
  exit         \* how the process ended

futures == <<once, err, pc, dep>>
counters == <<pending, done, failed>>
channel == <<queue, ch>>
mainVars == <<main, root, synced, printed>>
vars == <<keepGoing, futs, prepBatch, prepBatchCap, queue, ch, batch, uidSetReady,
          prepared, once, err, pc, dep, fire, pending, done, failed,
          taskStats, printed, main, root, synced, exit>>

DepSet(n) == {Deps[n][i] : i \in 1..Len(Deps[n])}

Channel == {"open", "closed"}

Event == [kind : {"batch"}, nodes : Seq(Node)]
           \cup [kind : {"report", "failure"}, node : Node]
           \cup [kind : {"sync"}]

(* The variables of main, of the event loop, of the futures; the counters. *)
MainTypeOK ==
  /\ futs \subseteq Node
  /\ prepBatch \in Seq(Node)
  /\ prepBatchCap \in Nat
  /\ main \in {"gen", "flush", "sync", "visit", "wait", "stats",
               "stats_synced", "check", "install", "close", "drain",
               "unwind", "unwind_drain"}
  /\ root \in Nat
  /\ synced \in Channel
  /\ printed \subseteq Node
  /\ exit \in {"running", "ok", "error", "panic"}

LoopTypeOK ==
  /\ queue \in Seq(Event)
  /\ ch \in Channel
  /\ batch \in Seq(Node)
  /\ uidSetReady \in Channel
  /\ prepared \subseteq Node
  /\ taskStats \subseteq Node

FutureTypeOK ==
  /\ once \in [Node -> {"new", "running", "complete"}]
  /\ err \subseteq Node
  /\ pc \in [Node -> {"idle", "deps", "work", "post", "return", "report"}]
  /\ dep \in [Node -> Nat \ {0}]
  /\ fire \in [Node -> {"none", "visit", "gone"}]

CounterTypeOK == pending \in Nat /\ done \in Nat /\ failed \in Nat

TypeOK == MainTypeOK /\ LoopTypeOK /\ FutureTypeOK /\ CounterTypeOK

Init ==
  /\ keepGoing \in BOOLEAN
  /\ futs = {}
  /\ prepBatch = <<>>
  /\ prepBatchCap = 1
  /\ queue = <<>>
  /\ ch = "open"
  /\ batch = <<>>
  /\ uidSetReady = "open"
  /\ prepared = {}
  /\ once = [n \in Node |-> "new"]
  /\ err = {}
  /\ pc = [n \in Node |-> "idle"]
  /\ dep = [n \in Node |-> 1]
  /\ fire = [n \in Node |-> "none"]
  /\ pending = 0 /\ done = 0 /\ failed = 0
  /\ taskStats = {}
  /\ printed = {}
  /\ main = "gen"
  /\ root = 1
  /\ synced = "open"
  /\ exit = "running"

(* EventQueue.post: a send on the channel, which blocks while it is full.  *)
Post(e) ==
  /\ ch = "open"
  /\ Len(queue) < QueueCap
  /\ queue' = Append(queue, e)
-----------------------------------------------------------------------------
(***************************************************************************)
(* main: generation hands nodes over in an order in which dependencies     *)
(* come first (StreamingEmitter.finish; see Emitter).                      *)
(***************************************************************************)
OnNode(n) ==
  /\ main = "gen"
  /\ n \notin futs
  /\ DepSet(n) \subseteq futs
  /\ Len(prepBatch) < prepBatchCap
  /\ futs' = futs \cup {n}
  /\ prepBatch' = Append(prepBatch, n)
  /\ UNCHANGED <<prepBatchCap, channel, batch, uidSetReady, prepared, futures,
                 fire, counters, taskStats, mainVars, exit>>

(* The batch is posted when it has reached the cap, and by run whatever    *)
(* its length; the cap doubles up to BatchMax.                             *)
FlushPrepBatch ==
  /\ \/ main = "gen" /\ Len(prepBatch) >= prepBatchCap
     \/ main = "flush"
  /\ prepBatch # <<>>
  /\ Post([kind |-> "batch", nodes |-> prepBatch])
  /\ prepBatch' = <<>>
  /\ prepBatchCap' = IF prepBatchCap < BatchMax THEN 2 * prepBatchCap
                     ELSE prepBatchCap
  /\ UNCHANGED <<futs, ch, batch, uidSetReady, prepared, futures, fire,
                 counters, taskStats, mainVars, exit>>

GenReturns ==
  /\ main = "gen"
  /\ futs = Node
  /\ Len(prepBatch) < prepBatchCap
  /\ main' = "flush"
  /\ UNCHANGED <<futs, prepBatch, prepBatchCap, channel, batch, uidSetReady,
                 prepared, futures, fire, counters, taskStats, root, synced,
                 printed, exit>>

GenThrows ==
  /\ GenMayThrow
  /\ main = "gen"
  /\ main' = "unwind"
  /\ UNCHANGED <<futs, prepBatch, prepBatchCap, channel, batch, uidSetReady,
                 prepared, futures, fire, counters, taskStats, root, synced,
                 printed, exit>>

(* A fault for PostSync: run visits the roots at once.                     *)
SyncSkipped ==
  /\ \/ main = "flush" /\ prepBatch = <<>> /\ main' = "visit" /\ UNCHANGED queue
     \/ main = "stats" /\ main' = "stats_synced" /\ Post([kind |-> "sync"])
  /\ synced' = "open"
  /\ UNCHANGED <<futs, prepBatch, prepBatchCap, ch, batch, uidSetReady,
                 prepared, futures, fire, counters, taskStats, root, printed,
                 exit>>

(* EventQueue.sync: an event that signals, and a wait for the signal; run  *)
(* does it before it visits the roots, printStats before it reads.         *)
PostSync ==
  /\ \/ main = "flush" /\ prepBatch = <<>> /\ main' = "sync"
     \/ main = "stats" /\ main' = "stats_synced"
  /\ Post([kind |-> "sync"])
  /\ synced' = "open"
  /\ UNCHANGED <<futs, prepBatch, prepBatchCap, ch, batch, uidSetReady,
                 prepared, futures, fire, counters, taskStats, root, printed,
                 exit>>

SyncReturns ==
  /\ synced = "closed"
  /\ \/ main = "sync" /\ main' = "visit" /\ UNCHANGED printed
     \/ main = "stats_synced" /\ main' = "check" /\ printed' = taskStats
  /\ synced' = "open"
  /\ UNCHANGED <<futs, prepBatch, prepBatchCap, channel, batch, uidSetReady,
                 prepared, futures, fire, counters, taskStats, root, exit>>

(* A fault for VisitRootReturns: -k visits a failed root again.            *)
RootRetried ==
  /\ main = "visit"
  /\ root <= Len(Roots)
  /\ once[Roots[root]] = "complete"
  /\ IF Roots[root] \in err
       THEN main' = (IF keepGoing THEN main ELSE "unwind") /\ UNCHANGED root
       ELSE root' = root + 1 /\ UNCHANGED main
  /\ UNCHANGED <<futs, prepBatch, prepBatchCap, channel, batch, uidSetReady,
                 prepared, futures, fire, counters, taskStats, synced,
                 printed, exit>>

(* visit(root) has returned or thrown; -k swallows what it throws.         *)
VisitRootReturns ==
  /\ main = "visit"
  /\ root <= Len(Roots)
  /\ once[Roots[root]] = "complete"
  /\ IF Roots[root] \in err /\ ~keepGoing
       THEN main' = "unwind" /\ UNCHANGED root
       ELSE root' = root + 1 /\ UNCHANGED main
  /\ UNCHANGED <<futs, prepBatch, prepBatchCap, channel, batch, uidSetReady,
                 prepared, futures, fire, counters, taskStats, synced,
                 printed, exit>>

(* A fault for InFlightWait: run returns when the roots are settled.       *)
RunDoesNotWait ==
  /\ main = "visit"
  /\ root > Len(Roots)
  /\ main' = IF Stats THEN "stats" ELSE "check"
  /\ UNCHANGED <<futs, prepBatch, prepBatchCap, channel, batch, uidSetReady,
                 prepared, futures, fire, counters, taskStats, root, synced,
                 printed, exit>>

(* inFlight.Wait: every fire goroutine has returned, and run returns.      *)
InFlightWait ==
  /\ \/ main = "visit" /\ root > Len(Roots) /\ main' = "wait"
     \/ /\ main = "wait"
        /\ \A n \in Node : fire[n] # "visit"
        /\ main' = IF Stats THEN "stats" ELSE "check"
  /\ UNCHANGED <<futs, prepBatch, prepBatchCap, channel, batch, uidSetReady,
                 prepared, futures, fire, counters, taskStats, root, synced,
                 printed, exit>>

FailedRoots == {r \in {Roots[i] : i \in 1..Len(Roots)} : r \in err}

(* cmdMake after run: failed roots, then failed nodes, make it throw;      *)
(* otherwise the roots are installed.                                      *)
CheckFailures ==
  /\ main = "check"
  /\ main' = IF FailedRoots # {} \/ failed > 0 THEN "unwind" ELSE "install"
  /\ UNCHANGED <<futs, prepBatch, prepBatchCap, channel, batch, uidSetReady,
                 prepared, futures, fire, counters, taskStats, root, synced,
                 printed, exit>>

(* installRoot for every result; one that cannot be restored throws.       *)
Install ==
  /\ main = "install"
  /\ main' \in {"close", "unwind"}
  /\ UNCHANGED <<futs, prepBatch, prepBatchCap, channel, batch, uidSetReady,
                 prepared, futures, fire, counters, taskStats, root, synced,
                 printed, exit>>

(* The deferred events.close: the channel is closed, the loop drains it,   *)
(* and main returns or ends in fatalException.                             *)
CloseQueue ==
  /\ \/ main = "close" /\ main' = "drain"
     \/ main = "unwind" /\ main' = "unwind_drain"
  /\ ch' = "closed"
  /\ UNCHANGED <<futs, prepBatch, prepBatchCap, queue, batch, uidSetReady,
                 prepared, futures, fire, counters, taskStats, root, synced,
                 printed, exit>>

MainReturns ==
  /\ main \in {"drain", "unwind_drain"}
  /\ queue = <<>> /\ batch = <<>>
  /\ exit' = IF main = "drain" THEN "ok" ELSE "error"
  /\ UNCHANGED <<futs, prepBatch, prepBatchCap, channel, batch, uidSetReady,
                 prepared, futures, fire, counters, taskStats, mainVars>>
-----------------------------------------------------------------------------
(***************************************************************************)
(* The loop goroutine of the event queue, and the loader of the snapshot.  *)
(***************************************************************************)
LoadUidSet ==
  /\ uidSetReady = "open"
  /\ uidSetReady' = "closed"
  /\ UNCHANGED <<futs, prepBatch, prepBatchCap, channel, batch, prepared,
                 futures, fire, counters, taskStats, mainVars, exit>>

Loop ==
  /\ batch = <<>>
  /\ queue # <<>>
  /\ LET e == Head(queue) IN
       /\ batch' = IF e.kind = "batch" THEN e.nodes ELSE <<>>
       /\ taskStats' = IF e.kind = "report" THEN taskStats \cup {e.node}
                       ELSE taskStats
       /\ synced' = IF e.kind = "sync" THEN "closed" ELSE synced
  /\ queue' = Tail(queue)
  /\ UNCHANGED <<futs, prepBatch, prepBatchCap, ch, uidSetReady, prepared,
                 futures, fire, counters, main, root, printed, exit>>

(* prepare, for the next node of the batch.  A cached node's once is used  *)
(* up by an empty function, which would wait for a running one.            *)
Prepare(cached) ==
  /\ batch # <<>>
  /\ uidSetReady = "closed"
  /\ LET n == Head(batch) IN
       /\ prepared' = prepared \cup {n}
       /\ \/ /\ cached
             /\ n \in MayBeCached
             /\ once[n] # "running"
             /\ once' = [once EXCEPT ![n] = "complete"]
             /\ UNCHANGED <<pending, fire>>
          \/ /\ ~cached
             /\ pending' = pending + 1
             /\ fire' = [fire EXCEPT ![n] = "visit"]
             /\ UNCHANGED once
  /\ batch' = Tail(batch)
  /\ UNCHANGED <<futs, prepBatch, prepBatchCap, channel, uidSetReady, err, pc,
                 dep, done, failed, taskStats, mainVars, exit>>
-----------------------------------------------------------------------------
(***************************************************************************)
(* visit and execute.                                                      *)
(***************************************************************************)
Visited(n) ==
  \/ fire[n] = "visit"
  \/ main = "visit" /\ root <= Len(Roots) /\ Roots[root] = n
  \/ \E m \in Node : /\ pc[m] = "deps"
                     /\ dep[m] <= Len(Deps[m])
                     /\ Deps[m][dep[m]] = n

(* A visitor enters f.once.Do; visit asserts that the future exists.       *)
Enter(n) ==
  /\ Visited(n)
  /\ n \in futs
  /\ once[n] = "new"
  /\ once' = [once EXCEPT ![n] = "running"]
  /\ pc' = [pc EXCEPT ![n] = "deps"]
  /\ UNCHANGED <<futs, prepBatch, prepBatchCap, channel, batch, uidSetReady,
                 prepared, err, dep, fire, counters, taskStats, mainVars, exit>>

(* A fault for DepReturns: what visit(dep) throws is swallowed.            *)
DepErrSwallowed(n) ==
  /\ pc[n] = "deps"
  /\ dep[n] <= Len(Deps[n])
  /\ once[Deps[n][dep[n]]] = "complete"
  /\ dep' = [dep EXCEPT ![n] = @ + 1]
  /\ UNCHANGED <<futs, prepBatch, prepBatchCap, channel, batch, uidSetReady,
                 prepared, once, err, pc, fire, counters, taskStats, mainVars,
                 exit>>

(* visit(dep) returns, or throws and execute with it.                      *)
DepReturns(n) ==
  /\ pc[n] = "deps"
  /\ dep[n] <= Len(Deps[n])
  /\ LET d == Deps[n][dep[n]] IN
       /\ once[d] = "complete"
       /\ \/ /\ d \notin err
             /\ dep' = [dep EXCEPT ![n] = @ + 1]
             /\ UNCHANGED <<err, pc>>
          \/ /\ d \in err
             /\ err' = err \cup {n}
             /\ pc' = [pc EXCEPT ![n] = "return"]
             /\ UNCHANGED dep
  /\ UNCHANGED <<futs, prepBatch, prepBatchCap, channel, batch, uidSetReady,
                 prepared, once, fire, counters, taskStats, mainVars, exit>>

Holders == {n \in Node : pc[n] \in {"work", "post"}}

(* A fault for AcquireSema: the last dependency is not visited.            *)
LastDepSkipped(n) ==
  /\ pc[n] = "deps"
  /\ dep[n] >= Len(Deps[n])
  /\ Cardinality(Holders) < Threads
  /\ pc' = [pc EXCEPT ![n] = "work"]
  /\ UNCHANGED <<futs, prepBatch, prepBatchCap, channel, batch, uidSetReady,
                 prepared, once, err, dep, fire, counters, taskStats, mainVars,
                 exit>>

AcquireSema(n) ==
  /\ pc[n] = "deps"
  /\ dep[n] > Len(Deps[n])
  /\ Cardinality(Holders) < Threads
  /\ pc' = [pc EXCEPT ![n] = "work"]
  /\ UNCHANGED <<futs, prepBatch, prepBatchCap, channel, batch, uidSetReady,
                 prepared, once, err, dep, fire, counters, taskStats, mainVars,
                 exit>>

(* Workspace, lock, inputs, command, outputs: done, found done by another  *)
(* process, or failed.                                                     *)
Work(n) ==
  /\ pc[n] = "work"
  /\ \/ pc' = [pc EXCEPT ![n] = "post"] /\ UNCHANGED err
     \/ n \in MayBeCached /\ pc' = [pc EXCEPT ![n] = "return"] /\ UNCHANGED err
     \/ /\ n \in MayFail
        /\ pc' = [pc EXCEPT ![n] = "return"]
        /\ err' = err \cup {n}
  /\ UNCHANGED <<futs, prepBatch, prepBatchCap, channel, batch, uidSetReady,
                 prepared, once, dep, fire, counters, taskStats, mainVars, exit>>

(* The report of a node is posted with the slot still held; on a closed    *)
(* channel the send panics, and try does not stop that panic.              *)
PostReport(n) ==
  /\ pc[n] = "post"
  /\ \/ /\ Post([kind |-> "report", node |-> n])
        /\ pc' = [pc EXCEPT ![n] = "return"]
        /\ UNCHANGED exit
     \/ /\ ch = "closed"
        /\ exit' = "panic"
        /\ UNCHANGED <<pc, queue>>
  /\ UNCHANGED <<futs, prepBatch, prepBatchCap, ch, batch, uidSetReady,
                 prepared, once, err, dep, fire, counters, taskStats, mainVars>>

(* Faults for ExecuteReturns: a failure is not counted; done goes down.    *)
FailureNotCounted(n) ==
  /\ pc[n] = "return"
  /\ done' = done + 1
  /\ IF n \in err /\ keepGoing
       THEN pc' = [pc EXCEPT ![n] = "report"] /\ UNCHANGED once
       ELSE /\ pc' = [pc EXCEPT ![n] = "idle"]
            /\ once' = [once EXCEPT ![n] = "complete"]
  /\ UNCHANGED <<futs, prepBatch, prepBatchCap, channel, batch, uidSetReady,
                 prepared, err, dep, fire, pending, failed, taskStats,
                 mainVars, exit>>

DoneCountsDown(n) ==
  /\ pc[n] = "return"
  /\ done' = done - 1
  /\ pc' = [pc EXCEPT ![n] = "idle"]
  /\ once' = [once EXCEPT ![n] = "complete"]
  /\ UNCHANGED <<futs, prepBatch, prepBatchCap, channel, batch, uidSetReady,
                 prepared, err, dep, fire, pending, failed, taskStats,
                 mainVars, exit>>

(* The deferred calls of execute; under -k a failure is reported inside    *)
(* the once, otherwise the once is complete.                               *)
ExecuteReturns(n) ==
  /\ pc[n] = "return"
  /\ done' = done + 1
  /\ IF n \in err /\ keepGoing
       THEN /\ failed' = failed + 1
            /\ pc' = [pc EXCEPT ![n] = "report"]
            /\ UNCHANGED once
       ELSE /\ pc' = [pc EXCEPT ![n] = "idle"]
            /\ once' = [once EXCEPT ![n] = "complete"]
            /\ UNCHANGED failed
  /\ UNCHANGED <<futs, prepBatch, prepBatchCap, channel, batch, uidSetReady,
                 prepared, err, dep, fire, pending, taskStats, mainVars, exit>>

ReportFailure(n) ==
  /\ pc[n] = "report"
  /\ \/ /\ Post([kind |-> "failure", node |-> n])
        /\ pc' = [pc EXCEPT ![n] = "idle"]
        /\ once' = [once EXCEPT ![n] = "complete"]
        /\ UNCHANGED exit
     \/ /\ ch = "closed"
        /\ exit' = "panic"
        /\ UNCHANGED <<pc, once, queue>>
  /\ UNCHANGED <<futs, prepBatch, prepBatchCap, ch, batch, uidSetReady,
                 prepared, err, dep, fire, counters, taskStats, mainVars>>

(* fire returns; without -k a failure ends the process at once.            *)
FireReturns(n) ==
  /\ fire[n] = "visit"
  /\ once[n] = "complete"
  /\ IF n \in err /\ ~keepGoing
       THEN exit' = "error" /\ UNCHANGED fire
       ELSE fire' = [fire EXCEPT ![n] = "gone"] /\ UNCHANGED exit
  /\ UNCHANGED <<futs, prepBatch, prepBatchCap, channel, batch, uidSetReady,
                 prepared, futures, counters, taskStats, mainVars>>
-----------------------------------------------------------------------------
Main ==
  \/ (\E n \in Node : OnNode(n)) \/ FlushPrepBatch \/ GenReturns \/ GenThrows
  \/ PostSync \/ SyncReturns \/ VisitRootReturns \/ InFlightWait
  \/ CheckFailures \/ Install \/ CloseQueue \/ MainReturns

EventLoop == Loop \/ \E cached \in BOOLEAN : Prepare(cached)

Execute(n) ==
  \/ Enter(n) \/ DepReturns(n) \/ AcquireSema(n) \/ Work(n) \/ PostReport(n)
  \/ ExecuteReturns(n) \/ ReportFailure(n)

(* After os.Exit, or a panic, nothing moves.                               *)
Exited ==
  /\ exit # "running"
  /\ UNCHANGED vars

(* Nothing changes the options of the process.                             *)
Running == exit = "running" /\ UNCHANGED keepGoing

Next ==
  \/ /\ Running
     /\ \/ Main
        \/ LoadUidSet
        \/ EventLoop
        \/ \E n \in Node : Execute(n)
        \/ \E n \in Node : FireReturns(n)
  \/ Exited

Spec == Init /\ [][Next]_vars

(* The Go scheduler runs every goroutine that can run, commands end, and a *)
(* channel serves blocked senders in turn: a slot of the semaphore and a   *)
(* place in the queue reach everyone who waits for them.                   *)
Fairness ==
  /\ WF_vars(Running /\ Main)
  /\ SF_vars(Running /\ (FlushPrepBatch \/ PostSync))
  /\ WF_vars(Running /\ LoadUidSet)
  /\ WF_vars(Running /\ EventLoop)
  /\ \A n \in Node : /\ WF_vars(Running /\ Enter(n))
                     /\ WF_vars(Running /\ DepReturns(n))
                     /\ SF_vars(Running /\ AcquireSema(n))
                     /\ WF_vars(Running /\ Work(n))
                     /\ SF_vars(Running /\ PostReport(n))
                     /\ WF_vars(Running /\ ExecuteReturns(n))
                     /\ SF_vars(Running /\ ReportFailure(n))
                     /\ WF_vars(Running /\ FireReturns(n))

FairSpec == Spec /\ Fairness
-----------------------------------------------------------------------------
(***************************************************************************)
(* Properties.                                                             *)
(***************************************************************************)
AfterRun == {"stats", "stats_synced", "check", "install", "close", "drain"}

(* execute touches the disk for a node only when every dependency has been *)
(* visited and none has failed, whoever visited it and however the batches *)
(* were cut.                                                               *)
DepsBuiltFirst ==
  \A n \in Node : pc[n] \in {"work", "post"} =>
    \A d \in DepSet(n) : once[d] = "complete" /\ d \notin err

(* No node is visited before prepare has computed its uid, and prepare     *)
(* finds the uids of the dependencies computed: the queue is first-in      *)
(* first-out, batches keep the order of onNode, and run synchronises       *)
(* before it visits a root.                                                *)
UidsKnown ==
  /\ \A n \in Node : once[n] # "new" => n \in prepared
  /\ \A n \in prepared : DepSet(n) \subseteq prepared

(* run returns only when every node is settled, the progress line shows    *)
(* done and pending equal, each failure is counted once, and a node has    *)
(* failed only if its own command failed or a dependency has: -k or not,   *)
(* since a failure without -k keeps run from returning.                    *)
KeepGoingFinishes ==
  main \in AfterRun =>
    /\ \A n \in Node : once[n] = "complete"
    /\ done = pending
    /\ failed = Cardinality(err)
    /\ \A n \in err : n \in MayFail \/ DepSet(n) \cap err # {}

(* The process ends with success only when every node handed over is       *)
(* built, also one that no root depends on.                                *)
OkMeansBuilt ==
  exit = "ok" => \A n \in Node : once[n] = "complete" /\ n \notin err

(* printStats sees every report: its sync comes after inFlight.Wait, and   *)
(* every report is posted before its fire goroutine returns.               *)
StatsComplete ==
  Stats /\ main \in AfterRun \ {"stats", "stats_synced"} =>
    /\ printed = taskStats
    /\ \A i \in 1..Len(queue) : queue[i].kind # "report"

(* Nothing is posted to the queue after events.close, unless the close was *)
(* that of an exception on its way out of cmdMake, which waits for nobody. *)
NoSendOnClosed == exit = "panic" => main \in {"unwind", "unwind_drain"}

(* The executor implements the promise of BuildOrder.                      *)
Status == [n \in Node |-> IF once[n] # "complete" THEN "open"
                          ELSE IF n \in err THEN "failed" ELSE "built"]

BO == INSTANCE BuildOrder WITH status <- Status

ImplementsBuildOrder == BO!Spec

(* The process ends: visits wait for dependencies only, a slot is taken    *)
(* only when they are complete, and the loop that empties the queue never  *)
(* waits for a slot.                                                       *)
Terminates == <>(exit # "running")
=============================================================================
