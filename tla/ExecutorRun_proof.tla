------------------------- MODULE ExecutorRun_proof -------------------------
(***************************************************************************)
(* Proofs about the run of Executor as a whole: the way of a node from     *)
(* onNode to prepare, the counters, and what holds once run has returned.  *)
(*                                                                         *)
(* HandOver says that the nodes on their way form one line without a       *)
(* repetition in which dependencies come first, wherever the batches were  *)
(* cut and whatever other events lie between them.  RunInv says how far    *)
(* main can be, given what the line, the futures and the queue still hold. *)
(***************************************************************************)
EXTENDS Executor_proof, FiniteSetTheorems

(* The stretches of the line, oldest first: what is left of the batch in   *)
(* the loop, the batches of the queue, and the one onNode is filling.      *)
Stage(i) ==
  IF i = 0 THEN batch
  ELSE IF i > Len(queue) THEN prepBatch
  ELSE IF queue[i].kind = "batch" THEN queue[i].nodes ELSE <<>>

At(i, j, n) ==
  /\ i \in 0..(Len(queue) + 1)
  /\ j \in 1..Len(Stage(i))
  /\ Stage(i)[j] = n

(* A node handed over is prepared or in the line.                          *)
CoverInv ==
  \A n \in Node : n \in futs <=> n \in prepared \/ \E i, j \in Nat : At(i, j, n)

(* It is in the line once, and not after it has been prepared.             *)
UniqueInv ==
  \A n \in Node : \A i, j \in Nat : At(i, j, n) =>
    /\ n \notin prepared
    /\ \A k, l \in Nat : At(k, l, n) => k = i /\ l = j

(* What it depends on is prepared or ahead of it.                          *)
OrderInv ==
  \A n \in Node : \A i, j \in Nat : At(i, j, n) => \A d \in DepSet(n) :
    \/ d \in prepared
    \/ \E k, l \in Nat : At(k, l, d) /\ (k < i \/ (k = i /\ l < j))

ClosedInv == \A n \in prepared : DepSet(n) \subseteq prepared

HandOver == CoverInv /\ UniqueInv /\ OrderInv /\ ClosedInv

NoneOf(kind) == \A i \in 1..Len(queue) : queue[i].kind # kind

NoneBehindSync(kind) ==
  \A i, k \in 1..Len(queue) : queue[i].kind = "sync" /\ i < k => queue[k].kind # kind

(* The sync of run is behind every batch, and main passes it when the loop *)
(* has.                                                                    *)
SyncInv ==
  /\ main \in {"gen", "flush", "visit", "wait", "stats"} => NoneOf("sync")
  /\ main \in {"flush", "sync"} => futs = Node
  /\ main = "sync" =>
       /\ prepBatch = <<>>
       /\ NoneBehindSync("batch") /\ NoneBehindSync("sync")
       /\ synced = "closed" => NoneOf("sync") /\ prepared = Node
  /\ main \in {"visit", "wait"} \cup AfterRun => prepared = Node

(* Only prepared nodes are executed; a prepared node has a goroutine or    *)
(* was cached; a goroutine leaves a settled node behind, and without -k a  *)
(* built one.                                                              *)
FireInv ==
  \A n \in Node :
    /\ fire[n] # "none" \/ once[n] # "new" => n \in prepared
    /\ n \in prepared /\ fire[n] = "none" => Built(n)
    /\ fire[n] = "gone" => once[n] = "complete" /\ (n \in err => keepGoing)

(* What the counters of the progress line count.                           *)
Fired    == {n \in Node : fire[n] # "none"}
Returned == {n \in Fired : once[n] = "complete" \/ pc[n] = "report"}
Counted  == {n \in err : keepGoing /\ (once[n] = "complete" \/ pc[n] = "report")}

CountInv ==
  /\ IsFiniteSet(Fired) /\ pending = Cardinality(Fired)
  /\ IsFiniteSet(Returned) /\ done = Cardinality(Returned)
  /\ IsFiniteSet(Counted) /\ failed = Cardinality(Counted)

(* A failure has a cause.                                                  *)
CauseInv == \A n \in err : n \in MayFail \/ DepSet(n) \cap err # {}

(* The queue is closed last, and who posts to it then meets an unwinding   *)
(* main.                                                                   *)
EndInv ==
  /\ ch = "closed" => main \in {"drain", "unwind_drain"}
  /\ exit = "ok" => main = "drain"
  /\ exit = "panic" => main = "unwind_drain"

(* After run nothing executes and nothing is left to, and main goes on to  *)
(* install only when nothing has failed.                                   *)
RunInv ==
  /\ main \in AfterRun => \A n \in Node : once[n] = "complete" /\ fire[n] # "visit"
  /\ main \in {"install", "close", "drain"} => err = {}
  /\ EndInv

(* The sync of printStats is behind every report.                          *)
StatsInv ==
  /\ main = "stats_synced" => /\ NoneBehindSync("report")
                              /\ synced = "closed" => NoneOf("report")
  /\ Stats /\ main \in {"check", "install", "close", "drain"} =>
       printed = taskStats /\ NoneOf("report")
-----------------------------------------------------------------------------
(***************************************************************************)
(* The line: what each step does to the positions in it.                   *)
(***************************************************************************)
LEMMA LineUntouched ==
  ASSUME UNCHANGED <<batch, queue, prepBatch>>
  PROVE  \A n \in Node, i, j \in Nat : At(i, j, n)' <=> At(i, j, n)
BY DEF At, Stage

(* An event of another kind moves only the stretch being filled, up by one. *)
LEMMA PostOther ==
  ASSUME TypeOK, NEW e \in Event, e.kind # "batch", Post(e),
         UNCHANGED <<batch, prepBatch>>
  PROVE  \A n \in Node, i, j \in Nat :
           At(i, j, n)' <=> \/ i <= Len(queue) /\ At(i, j, n)
                            \/ i = Len(queue) + 2 /\ At(Len(queue) + 1, j, n)
<1> DEFINE L == Len(queue)
<1> SUFFICES ASSUME NEW n \in Node, NEW i \in Nat, NEW j \in Nat
             PROVE  At(i, j, n)' <=> \/ i <= L /\ At(i, j, n)
                                     \/ i = L + 2 /\ At(L + 1, j, n)
  OBVIOUS
<1>1. /\ L \in Nat /\ Len(queue') = L + 1
      /\ \A k \in 1..L : queue'[k] = queue[k]
      /\ queue'[L + 1] = e
  BY DEF Post, TypeOK, LoopTypeOK
<1>2. CASE i <= L
  <2>1. Stage(i)' = Stage(i)
    BY <1>1, <1>2 DEF Stage
  <2> QED
    BY <1>1, <1>2, <2>1 DEF At
<1>3. CASE i = L + 1
  <2>1. Stage(i)' = <<>>
    BY <1>1, <1>3 DEF Stage
  <2> QED
    BY <1>1, <1>3, <2>1 DEF At
<1>4. CASE i = L + 2
  <2>1. Stage(i)' = prepBatch /\ Stage(L + 1) = prepBatch
    BY <1>1, <1>4 DEF Stage
  <2> QED
    BY <1>1, <1>4, <2>1 DEF At
<1>5. CASE i > L + 2
  BY <1>1, <1>5 DEF At
<1> QED
  BY <1>1, <1>2, <1>3, <1>4, <1>5

(* A flushed batch stays where it is: a new, empty one is behind it.       *)
LEMMA FlushKeepsLine ==
  ASSUME TypeOK, FlushPrepBatch
  PROVE  \A n \in Node, i, j \in Nat : At(i, j, n)' <=> At(i, j, n)
<1> DEFINE L == Len(queue)
<1> SUFFICES ASSUME NEW n \in Node, NEW i \in Nat, NEW j \in Nat
             PROVE  At(i, j, n)' <=> At(i, j, n)
  OBVIOUS
<1>1. /\ L \in Nat /\ Len(queue') = L + 1
      /\ \A k \in 1..L : queue'[k] = queue[k]
      /\ queue'[L + 1] = [kind |-> "batch", nodes |-> prepBatch]
      /\ batch' = batch /\ prepBatch' = <<>>
  BY DEF FlushPrepBatch, Post, TypeOK, LoopTypeOK
<1>2. CASE i <= L
  <2>1. Stage(i)' = Stage(i)
    BY <1>1, <1>2 DEF Stage
  <2> QED
    BY <1>1, <1>2, <2>1 DEF At
<1>3. CASE i = L + 1
  <2>1. Stage(i)' = prepBatch /\ Stage(i) = prepBatch
    BY <1>1, <1>3 DEF Stage
  <2> QED
    BY <1>1, <1>3, <2>1 DEF At
<1>4. CASE i > L + 1
  <2>1. Stage(i)' = <<>>
    BY <1>1, <1>4 DEF Stage
  <2> QED
    BY <1>1, <1>4, <2>1 DEF At
<1> QED
  BY <1>1, <1>2, <1>3, <1>4

(* The loop takes an event when its batch is used up: all moves down.      *)
LEMMA LoopShiftsLine ==
  ASSUME TypeOK, Loop
  PROVE  \A n \in Node, i, j \in Nat : /\ At(i, j, n)' <=> At(i + 1, j, n)
                                       /\ ~At(0, j, n)
<1> DEFINE L == Len(queue)
<1> SUFFICES ASSUME NEW n \in Node, NEW i \in Nat, NEW j \in Nat
             PROVE  (At(i, j, n)' <=> At(i + 1, j, n)) /\ ~At(0, j, n)
  OBVIOUS
<1>1. /\ L \in Nat \ {0} /\ Len(queue') = L - 1
      /\ \A k \in 1..(L - 1) : queue'[k] = queue[k + 1]
      /\ batch' = IF queue[1].kind = "batch" THEN queue[1].nodes ELSE <<>>
      /\ batch = <<>> /\ prepBatch' = prepBatch
  BY DEF Loop, TypeOK, LoopTypeOK
<1>2. i <= L => Stage(i)' = Stage(i + 1)
  <2>1. CASE i = 0
    BY <1>1, <2>1 DEF Stage
  <2>2. CASE i \in 1..(L - 1)
    BY <1>1, <2>2 DEF Stage
  <2>3. CASE i = L
    BY <1>1, <2>3 DEF Stage
  <2> QED
    BY <1>1, <2>1, <2>2, <2>3
<1>3. Stage(0) = <<>>
  BY <1>1 DEF Stage
<1>4. i \in 0..(Len(queue') + 1) <=> i + 1 \in 0..(L + 1)
  BY <1>1
<1> QED
  BY <1>1, <1>2, <1>3, <1>4 DEF At

LEMMA PrepareTakesHead ==
  ASSUME TypeOK, NEW cached \in BOOLEAN, Prepare(cached)
  PROVE  /\ Head(batch) \in Node /\ At(0, 1, Head(batch))
         /\ \A n \in Node, i, j \in Nat :
              At(i, j, n)' <=> \/ i = 0 /\ j > 0 /\ At(0, j + 1, n)
                               \/ i > 0 /\ At(i, j, n)
<1>1. /\ batch \in Seq(Node) /\ batch # <<>> /\ batch' = Tail(batch)
      /\ queue' = queue /\ prepBatch' = prepBatch /\ Len(queue) \in Nat
  BY DEF Prepare, TypeOK, LoopTypeOK, channel
<1>2. /\ Len(batch) \in Nat \ {0} /\ Len(batch') = Len(batch) - 1
      /\ \A k \in 1..(Len(batch) - 1) : batch'[k] = batch[k + 1]
      /\ Head(batch) = batch[1]
  BY <1>1
<1>3. Head(batch) \in Node /\ At(0, 1, Head(batch))
  BY <1>1, <1>2 DEF At, Stage
<1>4. ASSUME NEW n \in Node, NEW i \in Nat, NEW j \in Nat
      PROVE  At(i, j, n)' <=> \/ i = 0 /\ j > 0 /\ At(0, j + 1, n)
                              \/ i > 0 /\ At(i, j, n)
  <2>1. CASE i = 0
    BY <1>1, <1>2, <2>1 DEF At, Stage
  <2>2. CASE i > 0
    <3>1. Stage(i)' = Stage(i)
      BY <1>1, <2>2 DEF Stage
    <3> QED
      BY <1>1, <2>2, <3>1 DEF At
  <2> QED
    BY <2>1, <2>2
<1> QED
  BY <1>3, <1>4

LEMMA OnNodeAppends ==
  ASSUME TypeOK, NEW m \in Node, OnNode(m)
  PROVE  \A n \in Node, i, j \in Nat :
           At(i, j, n)' <=> \/ At(i, j, n)
                            \/ /\ i = Len(queue) + 1
                               /\ j = Len(prepBatch) + 1
                               /\ n = m
<1> SUFFICES ASSUME NEW n \in Node, NEW i \in Nat, NEW j \in Nat
             PROVE  At(i, j, n)' <=> \/ At(i, j, n)
                                     \/ /\ i = Len(queue) + 1
                                        /\ j = Len(prepBatch) + 1
                                        /\ n = m
  OBVIOUS
<1>1. /\ queue' = queue /\ batch' = batch /\ Len(queue) \in Nat
      /\ Len(prepBatch) \in Nat /\ Len(prepBatch') = Len(prepBatch) + 1
      /\ \A k \in 1..Len(prepBatch) : prepBatch'[k] = prepBatch[k]
      /\ prepBatch'[Len(prepBatch) + 1] = m
  BY DEF OnNode, TypeOK, LoopTypeOK, MainTypeOK, channel
<1>2. CASE i <= Len(queue)
  <2>1. Stage(i)' = Stage(i)
    BY <1>1, <1>2 DEF Stage
  <2> QED
    BY <1>1, <1>2, <2>1 DEF At
<1>3. CASE i > Len(queue)
  <2>1. Stage(i)' = prepBatch' /\ Stage(i) = prepBatch
    BY <1>1, <1>3 DEF Stage
  <2> QED
    BY <1>1, <1>3, <2>1 DEF At
<1> QED
  BY <1>1, <1>2, <1>3
-----------------------------------------------------------------------------
LEMMA LineKept ==
  ASSUME HandOver, UNCHANGED <<futs, prepared>>,
         \A n \in Node, i, j \in Nat : At(i, j, n)' <=> At(i, j, n)
  PROVE  HandOver'
<1>1. CoverInv' /\ UniqueInv'
  BY DEF HandOver, CoverInv, UniqueInv
<1>2. OrderInv' /\ ClosedInv'
  BY DepSetType DEF HandOver, OrderInv, ClosedInv
<1> QED
  BY <1>1, <1>2 DEF HandOver

LEMMA HandOverPost ==
  ASSUME TypeOK, HandOver, NEW e \in Event, e.kind # "batch", Post(e),
         UNCHANGED <<futs, prepared, batch, prepBatch>>
  PROVE  HandOver'
<1>0. PICK L \in Nat : L = Len(queue)
  BY DEF TypeOK, LoopTypeOK
<1>1. \A n \in Node, i, j \in Nat :
        At(i, j, n)' <=> \/ i <= L /\ At(i, j, n)
                         \/ i = L + 2 /\ At(L + 1, j, n)
  BY <1>0, PostOther
<1>2. \A n \in Node, i, j \in Nat : At(i, j, n) => i <= L + 1
  BY <1>0 DEF At
<1>3. CoverInv'
  <2> SUFFICES ASSUME NEW n \in Node
               PROVE  (\E i, j \in Nat : At(i, j, n)') <=> \E i, j \in Nat : At(i, j, n)
    BY DEF HandOver, CoverInv
  <2>1. ASSUME NEW i \in Nat, NEW j \in Nat, At(i, j, n)
        PROVE  At(IF i <= L THEN i ELSE L + 2, j, n)' /\ L + 2 \in Nat
    BY <1>1, <1>2, <2>1
  <2>2. ASSUME NEW i \in Nat, NEW j \in Nat, At(i, j, n)'
        PROVE  \E k \in Nat : At(k, j, n)
    BY <1>1, <2>2
  <2> QED
    BY <2>1, <2>2
<1>4. UniqueInv'
  <2> SUFFICES ASSUME NEW n \in Node, NEW i \in Nat, NEW j \in Nat, At(i, j, n)'
               PROVE  /\ n \notin prepared
                      /\ \A k, l \in Nat : At(k, l, n)' => k = i /\ l = j
    BY DEF UniqueInv
  <2> QED
    BY <1>1 DEF HandOver, UniqueInv
<1>5. OrderInv'
  <2> SUFFICES ASSUME NEW n \in Node, NEW i \in Nat, NEW j \in Nat, At(i, j, n)',
                      NEW d \in DepSet(n), d \notin prepared
               PROVE  \E k, l \in Nat : At(k, l, d)' /\ (k < i \/ (k = i /\ l < j))
    BY DEF OrderInv
  <2>1. PICK o \in Nat : At(o, j, n) /\ i = IF o <= L THEN o ELSE L + 2
    BY <1>1
  <2>2. PICK k \in Nat, l \in Nat : At(k, l, d) /\ (k < o \/ (k = o /\ l < j))
    BY <2>1 DEF HandOver, OrderInv
  <2>3. d \in Node /\ o <= L + 1 /\ k <= L + 1
    BY <1>2, <2>1, <2>2, DepSetType
  <2>4. CASE k <= L
    BY <1>1, <2>1, <2>2, <2>3, <2>4
  <2>5. CASE k = L + 1
    <3>1. At(L + 2, l, d)' /\ L + 2 \in Nat /\ o = L + 1 /\ l < j
      BY <1>1, <2>1, <2>2, <2>3, <2>5
    <3> QED
      BY <1>1, <2>1, <3>1
  <2> QED
    BY <1>1, <2>3, <2>4, <2>5
<1> QED
  BY <1>3, <1>4, <1>5 DEF HandOver, ClosedInv

LEMMA HandOverLoop ==
  ASSUME TypeOK, HandOver, Loop
  PROVE  HandOver'
<1>1. UNCHANGED <<futs, prepared>>
  BY DEF Loop
<1>2. \A n \in Node, i, j \in Nat : (At(i, j, n)' <=> At(i + 1, j, n)) /\ ~At(0, j, n)
  BY LoopShiftsLine
<1>3. \A n \in Node, i, j \in Nat : At(i, j, n) => i - 1 \in Nat /\ At(i - 1, j, n)'
  <2> SUFFICES ASSUME NEW n \in Node, NEW i \in Nat, NEW j \in Nat, At(i, j, n)
               PROVE  i - 1 \in Nat /\ At(i - 1, j, n)'
    OBVIOUS
  <2>1. i # 0
    BY <1>2
  <2>2. i - 1 \in Nat /\ (i - 1) + 1 = i
    BY <2>1
  <2>3. At(i - 1, j, n)' <=> At((i - 1) + 1, j, n)
    BY <1>2, <2>2
  <2> QED
    BY <2>2, <2>3
<1>4. CoverInv'
  <2> SUFFICES ASSUME NEW n \in Node
               PROVE  (\E i, j \in Nat : At(i, j, n)') <=> \E i, j \in Nat : At(i, j, n)
    BY <1>1 DEF HandOver, CoverInv
  <2> QED
    BY <1>2, <1>3
<1>5. UniqueInv'
  <2> SUFFICES ASSUME NEW n \in Node, NEW i \in Nat, NEW j \in Nat, At(i, j, n)'
               PROVE  /\ n \notin prepared
                      /\ \A k, l \in Nat : At(k, l, n)' => k = i /\ l = j
    BY <1>1 DEF UniqueInv
  <2>1. At(i + 1, j, n) /\ \A k, l \in Nat : At(k, l, n)' => At(k + 1, l, n)
    BY <1>2
  <2> QED
    BY <2>1 DEF HandOver, UniqueInv
<1>6. OrderInv'
  <2> SUFFICES ASSUME NEW n \in Node, NEW i \in Nat, NEW j \in Nat, At(i, j, n)',
                      NEW d \in DepSet(n), d \notin prepared
               PROVE  \E k, l \in Nat : At(k, l, d)' /\ (k < i \/ (k = i /\ l < j))
    BY <1>1 DEF OrderInv
  <2>1. At(i + 1, j, n)
    BY <1>2
  <2>2. PICK k \in Nat, l \in Nat : At(k, l, d) /\ (k < i + 1 \/ (k = i + 1 /\ l < j))
    BY <2>1 DEF HandOver, OrderInv
  <2>3. k - 1 \in Nat /\ At(k - 1, l, d)'
    BY <1>3, <2>2, DepSetType
  <2> QED
    BY <2>2, <2>3
<1> QED
  BY <1>1, <1>4, <1>5, <1>6 DEF HandOver, ClosedInv

(* The head of the line has all its dependencies prepared.                 *)
LEMMA HandOverPrepare ==
  ASSUME TypeOK, HandOver, NEW cached \in BOOLEAN, Prepare(cached)
  PROVE  /\ HandOver'
         /\ Head(batch) \in Node \ prepared
         /\ prepared' = prepared \cup {Head(batch)}
<1>0. PICK h \in Node : h = Head(batch)
  BY PrepareTakesHead
<1>1. /\ h \in Node /\ At(0, 1, h)
      /\ \A n \in Node, i, j \in Nat :
           At(i, j, n)' <=> \/ i = 0 /\ j > 0 /\ At(0, j + 1, n)
                            \/ i > 0 /\ At(i, j, n)
  BY <1>0, PrepareTakesHead
<1>2. UNCHANGED futs /\ prepared' = prepared \cup {h}
  BY <1>0 DEF Prepare
<1>3. \A n \in Node, i, j \in Nat : At(i, j, n) => j > 0
  BY DEF At
<1>4. h \notin prepared /\ \A i, j \in Nat : At(i, j, h) => i = 0 /\ j = 1
  BY <1>1 DEF HandOver, UniqueInv
<1>5. \A i, j \in Nat : ~At(i, j, h)'
  BY <1>1, <1>4
<1>6. \A n \in Node : n # h => \A i, j \in Nat : At(i, j, n) =>
        IF i = 0 THEN j - 1 \in Nat /\ At(i, j - 1, n)' ELSE At(i, j, n)'
  <2> SUFFICES ASSUME NEW n \in Node, n # h, NEW i \in Nat, NEW j \in Nat, At(i, j, n)
               PROVE  IF i = 0 THEN j - 1 \in Nat /\ At(i, j - 1, n)' ELSE At(i, j, n)'
    OBVIOUS
  <2>1. j > 0 /\ ~(i = 0 /\ j = 1)
    BY <1>1, <1>3 DEF At
  <2>2. CASE i = 0
    <3>1. j - 1 \in Nat /\ j - 1 > 0 /\ (j - 1) + 1 = j
      BY <2>1, <2>2
    <3>2. At(0, (j - 1) + 1, n)
      BY <2>2, <3>1
    <3> QED
      BY <1>1, <2>2, <3>1, <3>2
  <2>3. CASE i # 0
    BY <1>1, <2>3
  <2> QED
    BY <2>2, <2>3
<1>7. CoverInv'
  <2> SUFFICES ASSUME NEW n \in Node
               PROVE  n \in futs <=> n \in prepared' \/ \E i, j \in Nat : At(i, j, n)'
    BY <1>2 DEF CoverInv
  <2>1. CASE n = h
    BY <1>1, <1>2, <2>1 DEF HandOver, CoverInv
  <2>2. CASE n # h
    <3>1. (\E i, j \in Nat : At(i, j, n)) <=> \E i, j \in Nat : At(i, j, n)'
      BY <1>1, <1>6, <2>2
    <3> QED
      BY <1>2, <2>2, <3>1 DEF HandOver, CoverInv
  <2> QED
    BY <2>1, <2>2
<1>8. UniqueInv'
  <2> SUFFICES ASSUME NEW n \in Node, NEW i \in Nat, NEW j \in Nat, At(i, j, n)'
               PROVE  /\ n \notin prepared'
                      /\ \A k, l \in Nat : At(k, l, n)' => k = i /\ l = j
    BY DEF UniqueInv
  <2>1. n # h
    BY <1>5
  <2>2. PICK jj \in Nat : At(i, jj, n) /\ jj = IF i = 0 THEN j + 1 ELSE j
    BY <1>1
  <2>3. n \notin prepared /\ \A k, l \in Nat : At(k, l, n) => k = i /\ l = jj
    BY <2>2 DEF HandOver, UniqueInv
  <2>4. ASSUME NEW k \in Nat, NEW l \in Nat, At(k, l, n)' PROVE k = i /\ l = j
    <3>1. PICK ll \in Nat : At(k, ll, n) /\ ll = IF k = 0 THEN l + 1 ELSE l
      BY <1>1, <2>4
    <3> QED
      BY <2>2, <2>3, <3>1
  <2> QED
    BY <1>2, <2>1, <2>3, <2>4
<1>9. OrderInv'
  <2> SUFFICES ASSUME NEW n \in Node, NEW i \in Nat, NEW j \in Nat, At(i, j, n)',
                      NEW d \in DepSet(n), d \notin prepared'
               PROVE  \E k, l \in Nat : At(k, l, d)' /\ (k < i \/ (k = i /\ l < j))
    BY DEF OrderInv
  <2>1. PICK jj \in Nat : At(i, jj, n) /\ jj = IF i = 0 THEN j + 1 ELSE j
    BY <1>1
  <2>2. d \in Node /\ d \notin prepared /\ d # h
    BY <1>2, DepSetType
  <2>3. PICK k \in Nat, l \in Nat : At(k, l, d) /\ (k < i \/ (k = i /\ l < jj))
    BY <2>1, <2>2 DEF HandOver, OrderInv
  <2>4. CASE k = 0
    <3>1. l - 1 \in Nat /\ At(0, l - 1, d)'
      BY <1>6, <2>2, <2>3, <2>4
    <3>2. 0 < i \/ (0 = i /\ l - 1 < j)
      BY <2>1, <2>3, <2>4
    <3> QED
      BY <3>1, <3>2
  <2>5. CASE k # 0
    BY <1>6, <2>1, <2>2, <2>3, <2>5
  <2> QED
    BY <2>4, <2>5
<1>10. ClosedInv'
  <2>1. DepSet(h) \subseteq prepared
    <3> SUFFICES ASSUME NEW d \in DepSet(h), d \notin prepared PROVE FALSE
      OBVIOUS
    <3>1. d \in Node
      BY <1>1, DepSetType
    <3>2. PICK k \in Nat, l \in Nat : At(k, l, d) /\ (k < 0 \/ (k = 0 /\ l < 1))
      BY <1>1 DEF HandOver, OrderInv
    <3> QED
      BY <1>3, <3>1, <3>2
  <2> QED
    BY <1>2, <2>1 DEF HandOver, ClosedInv
<1> QED
  BY <1>0, <1>2, <1>4, <1>7, <1>8, <1>9, <1>10 DEF HandOver

LEMMA HandOverOnNode ==
  ASSUME TypeOK, HandOver, NEW m \in Node, OnNode(m)
  PROVE  HandOver'
<1>0. PICK L \in Nat, P \in Nat : L = Len(queue) + 1 /\ P = Len(prepBatch) + 1
  BY DEF TypeOK, LoopTypeOK, MainTypeOK
<1>1. \A n \in Node, i, j \in Nat :
        At(i, j, n)' <=> At(i, j, n) \/ (i = L /\ j = P /\ n = m)
  BY <1>0, OnNodeAppends
<1>2. /\ futs' = futs \cup {m} /\ UNCHANGED prepared
      /\ m \notin futs /\ DepSet(m) \subseteq futs
  BY DEF OnNode
<1>3. m \notin prepared /\ \A i, j \in Nat : ~At(i, j, m)
  BY <1>2 DEF HandOver, CoverInv
<1>4. \A n \in Node, i, j \in Nat : At(i, j, n) => i < L \/ (i = L /\ j < P)
  <2> SUFFICES ASSUME NEW n \in Node, NEW i \in Nat, NEW j \in Nat, At(i, j, n)
               PROVE  i < L \/ (i = L /\ j < P)
    OBVIOUS
  <2>1. i \in 0..L /\ j \in 1..Len(Stage(i))
    BY <1>0 DEF At
  <2>2. CASE i = L
    <3>1. Stage(i) = prepBatch /\ Len(prepBatch) \in Nat
      BY <1>0, <2>2 DEF Stage, TypeOK, LoopTypeOK, MainTypeOK
    <3> QED
      BY <1>0, <2>1, <2>2, <3>1
  <2> QED
    BY <2>1, <2>2
<1>5. CoverInv'
  <2> SUFFICES ASSUME NEW n \in Node
               PROVE  n \in futs' <=> n \in prepared \/ \E i, j \in Nat : At(i, j, n)'
    BY <1>2 DEF CoverInv
  <2> QED
    BY <1>1, <1>2 DEF HandOver, CoverInv
<1>6. UniqueInv'
  <2> SUFFICES ASSUME NEW n \in Node, NEW i \in Nat, NEW j \in Nat, At(i, j, n)'
               PROVE  /\ n \notin prepared
                      /\ \A k, l \in Nat : At(k, l, n)' => k = i /\ l = j
    BY <1>2 DEF UniqueInv
  <2> QED
    BY <1>1, <1>3 DEF HandOver, UniqueInv
<1>7. OrderInv'
  <2> SUFFICES ASSUME NEW n \in Node, NEW i \in Nat, NEW j \in Nat, At(i, j, n)',
                      NEW d \in DepSet(n), d \notin prepared
               PROVE  \E k, l \in Nat : At(k, l, d)' /\ (k < i \/ (k = i /\ l < j))
    BY <1>2 DEF OrderInv
  <2>1. d \in Node
    BY DepSetType
  <2>2. CASE At(i, j, n)
    <3>1. PICK k \in Nat, l \in Nat : At(k, l, d) /\ (k < i \/ (k = i /\ l < j))
      BY <2>2 DEF HandOver, OrderInv
    <3> QED
      BY <1>1, <2>1, <3>1
  <2>3. CASE i = L /\ j = P /\ n = m
    <3>1. PICK k \in Nat, l \in Nat : At(k, l, d)
      BY <1>2, <2>1, <2>3 DEF HandOver, CoverInv
    <3> QED
      BY <1>1, <1>4, <2>1, <2>3, <3>1
  <2> QED
    BY <1>1, <2>2, <2>3
<1> QED
  BY <1>2, <1>5, <1>6, <1>7 DEF HandOver, ClosedInv

(* The steps that leave the line alone.                                    *)
LEMMA OffTheLine ==
  ASSUME \/ GenReturns \/ GenThrows \/ SyncReturns \/ VisitRootReturns
         \/ InFlightWait \/ CheckFailures \/ Install \/ CloseQueue
         \/ MainReturns \/ LoadUidSet \/ UNCHANGED vars
         \/ \E n \in Node : \/ Enter(n) \/ DepReturns(n) \/ AcquireSema(n)
                            \/ Work(n) \/ ExecuteReturns(n) \/ FireReturns(n)
  PROVE  UNCHANGED <<futs, prepared, batch, queue, prepBatch, prepBatchCap, taskStats>>
BY DEF GenReturns, GenThrows, SyncReturns, VisitRootReturns, InFlightWait,
       CheckFailures, Install, CloseQueue, MainReturns, LoadUidSet, vars,
       Enter, DepReturns, AcquireSema, Work, ExecuteReturns, FireReturns, channel

(* The posts of visit and execute; on a closed queue they post nothing.    *)
LEMMA ExecutePosts ==
  ASSUME NEW n \in Node, PostReport(n) \/ ReportFailure(n)
  PROVE  /\ UNCHANGED <<futs, prepared, batch, prepBatch, prepBatchCap, taskStats>>
         /\ \/ UNCHANGED queue
            \/ \E e \in Event : e.kind \in {"report", "failure"} /\ Post(e)
<1>1. /\ [kind |-> "report", node |-> n] \in Event
      /\ [kind |-> "failure", node |-> n] \in Event
  BY DEF Event
<1> QED
  BY <1>1 DEF PostReport, ReportFailure

LEMMA PostSyncPosts ==
  ASSUME PostSync
  PROVE  /\ UNCHANGED <<futs, prepared, batch, prepBatch, prepBatchCap, taskStats>>
         /\ \E e \in Event : e.kind = "sync" /\ Post(e)
<1>1. [kind |-> "sync"] \in Event
  BY DEF Event
<1> QED
  BY <1>1 DEF PostSync

LEMMA HandOverStep ==
  ASSUME TypeOK, HandOver, [Next]_vars
  PROVE  HandOver'
<1>1. ASSUME NEW n \in Node, OnNode(n) PROVE HandOver'
  BY <1>1, HandOverOnNode
<1>2. CASE FlushPrepBatch
  <2>1. UNCHANGED <<futs, prepared>>
    BY <1>2 DEF FlushPrepBatch
  <2> QED
    BY <1>2, <2>1, FlushKeepsLine, LineKept
<1>3. CASE PostSync
  BY <1>3, PostSyncPosts, HandOverPost
<1>4. CASE Loop
  BY <1>4, HandOverLoop
<1>5. ASSUME NEW cached \in BOOLEAN, Prepare(cached) PROVE HandOver'
  BY <1>5, HandOverPrepare
<1>6. ASSUME UNCHANGED <<futs, prepared, batch, queue, prepBatch>> PROVE HandOver'
  <2>1. UNCHANGED <<batch, queue, prepBatch>> /\ UNCHANGED <<futs, prepared>>
    BY <1>6
  <2> QED
    BY <2>1, LineUntouched, LineKept
<1>7. ASSUME NEW n \in Node, PostReport(n) \/ ReportFailure(n) PROVE HandOver'
  <2>1. CASE UNCHANGED queue
    BY <1>6, <1>7, <2>1, ExecutePosts
  <2>2. ASSUME NEW e \in Event, e.kind \in {"report", "failure"}, Post(e)
        PROVE  HandOver'
    BY <1>7, <2>2, ExecutePosts, HandOverPost
  <2> QED
    BY <1>7, <2>1, <2>2, ExecutePosts
<1> QED
  BY <1>1, <1>2, <1>3, <1>4, <1>5, <1>6, <1>7, OffTheLine
  DEF Next, Main, EventLoop, Execute, Exited

LEMMA HandOverInit == Init => HandOver
<1> SUFFICES ASSUME Init PROVE HandOver
  OBVIOUS
<1>1. \A n \in Node, i, j \in Nat : ~At(i, j, n)
  BY DEF Init, At, Stage
<1> QED
  BY <1>1 DEF Init, HandOver, CoverInv, UniqueInv, OrderInv, ClosedInv
-----------------------------------------------------------------------------
(***************************************************************************)
(* The kinds of events the queue holds, and the sync of run.               *)
(***************************************************************************)
LEMMA KindsAfterPost ==
  ASSUME TypeOK, NEW e \in Event, Post(e), NEW kind
  PROVE  /\ NoneOf(kind) /\ e.kind # kind => NoneOf(kind)'
         /\ NoneBehindSync(kind) /\ e.kind # kind => NoneBehindSync(kind)'
         /\ NoneOf("sync") /\ e.kind = "sync" => NoneBehindSync(kind)'
<1>1. /\ Len(queue) \in Nat /\ Len(queue') = Len(queue) + 1
      /\ \A k \in 1..Len(queue) : queue'[k] = queue[k]
      /\ queue'[Len(queue) + 1] = e
  BY DEF Post, TypeOK, LoopTypeOK
<1>2. NoneOf(kind) /\ e.kind # kind => NoneOf(kind)'
  BY <1>1 DEF NoneOf
<1>3. NoneBehindSync(kind) /\ e.kind # kind => NoneBehindSync(kind)'
  BY <1>1 DEF NoneBehindSync
<1>4. NoneOf("sync") /\ e.kind = "sync" => NoneBehindSync(kind)'
  BY <1>1 DEF NoneOf, NoneBehindSync
<1> QED
  BY <1>2, <1>3, <1>4

LEMMA KindsAfterLoop ==
  ASSUME TypeOK, Loop, NEW kind
  PROVE  /\ NoneOf(kind) => NoneOf(kind)'
         /\ NoneBehindSync(kind) => NoneBehindSync(kind)'
         /\ NoneBehindSync(kind) /\ Head(queue).kind = "sync" => NoneOf(kind)'
         /\ NoneOf(kind) => Head(queue).kind # kind
<1>1. /\ Len(queue) \in Nat \ {0} /\ Len(queue') = Len(queue) - 1
      /\ \A k \in 1..(Len(queue) - 1) : queue'[k] = queue[k + 1]
      /\ Head(queue) = queue[1]
  BY DEF Loop, TypeOK, LoopTypeOK
<1>2. NoneOf(kind) => NoneOf(kind)' /\ Head(queue).kind # kind
  BY <1>1 DEF NoneOf
<1>3. NoneBehindSync(kind) => NoneBehindSync(kind)'
  <2> SUFFICES ASSUME NoneBehindSync(kind), NEW i \in 1..Len(queue'),
                      NEW k \in 1..Len(queue'), queue'[i].kind = "sync", i < k
               PROVE  queue'[k].kind # kind
    BY DEF NoneBehindSync
  <2>1. /\ i + 1 \in 1..Len(queue) /\ k + 1 \in 1..Len(queue) /\ i + 1 < k + 1
        /\ queue'[i] = queue[i + 1] /\ queue'[k] = queue[k + 1]
    BY <1>1
  <2> QED
    BY <2>1 DEF NoneBehindSync
<1>4. NoneBehindSync(kind) /\ Head(queue).kind = "sync" => NoneOf(kind)'
  <2> SUFFICES ASSUME NoneBehindSync(kind), queue[1].kind = "sync",
                      NEW k \in 1..Len(queue')
               PROVE  queue'[k].kind # kind
    BY <1>1 DEF NoneOf
  <2>1. 1 \in 1..Len(queue) /\ k + 1 \in 1..Len(queue) /\ 1 < k + 1 /\ queue'[k] = queue[k + 1]
    BY <1>1
  <2> QED
    BY <2>1 DEF NoneBehindSync
<1> QED
  BY <1>2, <1>3, <1>4

LEMMA KindsKept ==
  ASSUME UNCHANGED queue, NEW kind
  PROVE  /\ NoneOf(kind)' <=> NoneOf(kind)
         /\ NoneBehindSync(kind)' <=> NoneBehindSync(kind)
BY DEF NoneOf, NoneBehindSync

(* When the loop reaches the sync of run, nothing is left in the line.     *)
LEMMA LineEmpty ==
  ASSUME TypeOK, HandOver, futs = Node, batch = <<>>, prepBatch = <<>>, NoneOf("batch")
  PROVE  prepared = Node
<1>1. ASSUME NEW n \in Node, NEW i \in Nat, NEW j \in Nat PROVE ~At(i, j, n)
  <2>1. Len(queue) \in Nat
    BY DEF TypeOK, LoopTypeOK
  <2>2. i \in 0..(Len(queue) + 1) => Stage(i) = <<>>
    BY <2>1 DEF Stage, NoneOf
  <2> QED
    BY <2>2 DEF At
<1> QED
  BY <1>1 DEF HandOver, CoverInv, TypeOK, LoopTypeOK

LEMMA SyncInvStep ==
  ASSUME TypeOK, HandOver, SyncInv, [Next]_vars
  PROVE  SyncInv'
<1> USE DEF SyncInv, AfterRun
<1>1. ASSUME NEW n \in Node, OnNode(n) PROVE SyncInv'
  BY <1>1, KindsKept DEF OnNode, channel, mainVars
<1>2. CASE FlushPrepBatch
  <2>1. [kind |-> "batch", nodes |-> prepBatch] \in Event
    BY DEF TypeOK, MainTypeOK, Event
  <2>2. NoneOf("sync") => NoneOf("sync")'
    BY <1>2, <2>1, KindsAfterPost DEF FlushPrepBatch
  <2> QED
    BY <1>2, <2>2 DEF FlushPrepBatch, mainVars
<1>3. CASE PostSync
  <2>1. PICK e \in Event : e.kind = "sync" /\ Post(e)
    BY <1>3, PostSyncPosts
  <2>2. NoneOf("sync") => NoneBehindSync("batch")' /\ NoneBehindSync("sync")'
    BY <2>1, KindsAfterPost
  <2> QED
    BY <1>3, <2>2 DEF PostSync
<1>4. CASE SyncReturns
  BY <1>4, KindsKept DEF SyncReturns, channel
<1>5. CASE GenReturns \/ GenThrows \/ VisitRootReturns \/ InFlightWait
  BY <1>5, KindsKept DEF GenReturns, GenThrows, VisitRootReturns, InFlightWait, channel
<1>6. CASE CheckFailures \/ Install \/ CloseQueue \/ MainReturns
  BY <1>6, KindsKept DEF CheckFailures, Install, CloseQueue, MainReturns, channel, mainVars
<1>7. CASE Loop
  <2>1. UNCHANGED <<main, futs, prepBatch, prepared>>
    BY <1>7 DEF Loop
  <2>2. /\ NoneOf("sync") => NoneOf("sync")' /\ Head(queue).kind # "sync"
        /\ NoneBehindSync("sync") => NoneBehindSync("sync")'
        /\ NoneBehindSync("batch") => NoneBehindSync("batch")'
        /\ Head(queue).kind # "sync" => synced' = synced
    BY <1>7, KindsAfterLoop DEF Loop
  <2>3. CASE main = "sync" /\ Head(queue).kind = "sync"
    <3>1. NoneOf("sync")'
      BY <1>7, <2>3, KindsAfterLoop
    <3>2. NoneOf("batch")
      <4>1. Len(queue) \in Nat \ {0} /\ queue[1].kind = "sync"
        BY <1>7, <2>3 DEF Loop, TypeOK, LoopTypeOK
      <4> QED
        BY <2>3, <4>1 DEF NoneOf, NoneBehindSync
    <3>3. batch = <<>>
      BY <1>7 DEF Loop
    <3>4. prepared = Node
      BY <2>3, <3>2, <3>3, LineEmpty
    <3> QED
      BY <2>1, <2>2, <2>3, <3>1, <3>4
  <2> QED
    BY <2>1, <2>2, <2>3
<1>8. ASSUME NEW cached \in BOOLEAN, Prepare(cached) PROVE SyncInv'
  <2>1. prepared \subseteq prepared' /\ prepared' \subseteq Node
    BY <1>8, TypeStep DEF Prepare, TypeOK, LoopTypeOK
  <2> QED
    BY <1>8, <2>1, KindsKept DEF Prepare, channel, mainVars
<1>9. ASSUME UNCHANGED <<futs, prepared, prepBatch, queue, main, synced>> PROVE SyncInv'
  BY <1>9, KindsKept
<1>10. ASSUME NEW n \in Node, PostReport(n) \/ ReportFailure(n) PROVE SyncInv'
  <2>1. UNCHANGED <<futs, prepared, prepBatch, main, synced>>
    BY <1>10 DEF PostReport, ReportFailure, mainVars
  <2>2. ASSUME NEW e \in Event, e.kind \in {"report", "failure"}, Post(e)
        PROVE  SyncInv'
    <3>1. /\ NoneOf("sync") => NoneOf("sync")'
          /\ NoneBehindSync("sync") => NoneBehindSync("sync")'
          /\ NoneBehindSync("batch") => NoneBehindSync("batch")'
      BY <2>2, KindsAfterPost
    <3> QED
      BY <2>1, <3>1
  <2> QED
    BY <1>9, <1>10, <2>1, <2>2, ExecutePosts
<1>11. ASSUME NEW n \in Node,
              \/ Enter(n) \/ DepReturns(n) \/ AcquireSema(n) \/ Work(n)
              \/ ExecuteReturns(n) \/ FireReturns(n)
       PROVE  SyncInv'
  <2>1. UNCHANGED <<main, synced>>
    BY <1>11 DEF Enter, DepReturns, AcquireSema, Work, ExecuteReturns, FireReturns, mainVars
  <2> QED
    BY <1>9, <1>11, <2>1, OffTheLine
<1>12. CASE LoadUidSet \/ UNCHANGED vars
  BY <1>9, <1>12 DEF LoadUidSet, vars, channel, mainVars
<1> QED
  BY <1>1, <1>2, <1>3, <1>4, <1>5, <1>6, <1>7, <1>8, <1>10, <1>11, <1>12
  DEF Next, Main, EventLoop, Execute, Exited
-----------------------------------------------------------------------------
(***************************************************************************)
(* Goroutines and futures.                                                 *)
(***************************************************************************)
LEMMA OptionsKept == [Next]_vars => UNCHANGED keepGoing
BY DEF Next, Running, Exited, vars

(* Whoever visits a node, its uid is known: prepare has started the        *)
(* goroutine, run has waited for its sync, and a dependency was ahead.     *)
LEMMA VisitedIsPrepared ==
  ASSUME TypeOK, ExecInv, HandOver, SyncInv, FireInv, NEW n \in Node, Visited(n)
  PROVE  n \in prepared
<1>1. CASE fire[n] = "visit"
  BY <1>1 DEF FireInv
<1>2. CASE main = "visit"
  BY <1>2 DEF SyncInv
<1>3. ASSUME NEW m \in Node, pc[m] = "deps", dep[m] <= Len(Deps[m]), Deps[m][dep[m]] = n
      PROVE  n \in prepared
  <2>1. m \in prepared
    BY <1>3 DEF ExecInv, OnceInv, FireInv
  <2>2. n \in DepSet(m)
    BY <1>3, ExecutorAssumption DEF DepSet, TypeOK, FutureTypeOK
  <2> QED
    BY <2>1, <2>2 DEF HandOver, ClosedInv
<1> QED
  BY <1>1, <1>2, <1>3 DEF Visited

LEMMA FireInvStep ==
  ASSUME TypeOK, ExecInv, HandOver, SyncInv, FireInv, [Next]_vars
  PROVE  FireInv'
<1> USE DEF FireInv, Built, ExecInv, OnceInv, TypeOK, FutureTypeOK
<1>0. UNCHANGED keepGoing
  BY OptionsKept
<1>1. ASSUME UNCHANGED <<futures, fire, prepared>> PROVE FireInv'
  BY <1>0, <1>1 DEF futures
<1>2. ASSUME NEW cached \in BOOLEAN, Prepare(cached) PROVE FireInv'
  <2>1. PICK h \in Node : h = Head(batch) /\ h \notin prepared
    BY <1>2, HandOverPrepare
  <2>2. prepared' = prepared \cup {h} /\ err' = err /\ once[h] = "new" /\ fire[h] = "none"
    BY <1>2, <2>1 DEF Prepare
  <2>3. \/ once' = [once EXCEPT ![h] = "complete"] /\ fire' = fire
        \/ fire' = [fire EXCEPT ![h] = "visit"] /\ once' = once
    BY <1>2, <2>1 DEF Prepare
  <2> QED
    BY <1>0, <2>2, <2>3
<1>3. ASSUME NEW n \in Node, Enter(n) PROVE FireInv'
  <2>1. n \in prepared
    BY <1>3, VisitedIsPrepared DEF Enter
  <2> QED
    BY <1>0, <1>3, <2>1 DEF Enter
<1>4. ASSUME NEW n \in Node, DepReturns(n) PROVE FireInv'
  BY <1>0, <1>4 DEF DepReturns
<1>5. ASSUME NEW n \in Node, Work(n) PROVE FireInv'
  BY <1>0, <1>5 DEF Work
<1>6. ASSUME NEW n \in Node, AcquireSema(n) \/ PostReport(n) PROVE FireInv'
  BY <1>0, <1>6 DEF AcquireSema, PostReport
<1>7. ASSUME NEW n \in Node, ExecuteReturns(n) PROVE FireInv'
  BY <1>0, <1>7 DEF ExecuteReturns
<1>8. ASSUME NEW n \in Node, ReportFailure(n) PROVE FireInv'
  BY <1>0, <1>8 DEF ReportFailure
<1>9. ASSUME NEW n \in Node, FireReturns(n) PROVE FireInv'
  BY <1>0, <1>9 DEF FireReturns, futures
<1>10. CASE Main \/ LoadUidSet \/ Loop \/ UNCHANGED vars
  <2>1. UNCHANGED <<fire, prepared>>
    BY <1>10 DEF Main, OnNode, FlushPrepBatch, GenReturns, GenThrows, PostSync,
       SyncReturns, VisitRootReturns, InFlightWait, CheckFailures, Install,
       CloseQueue, MainReturns, LoadUidSet, Loop, vars
  <2> QED
    BY <1>1, <1>10, <2>1, FuturesUntouched
<1> QED
  BY <1>2, <1>3, <1>4, <1>5, <1>6, <1>7, <1>8, <1>9, <1>10
  DEF Next, EventLoop, Execute, Exited

LEMMA CauseInvStep ==
  ASSUME TypeOK, CauseInv, [Next]_vars
  PROVE  CauseInv'
<1> USE DEF CauseInv
<1>1. ASSUME UNCHANGED err PROVE CauseInv'
  BY <1>1
<1>2. ASSUME NEW n \in Node, DepReturns(n) PROVE CauseInv'
  <2>1. Deps[n][dep[n]] \in DepSet(n)
    BY <1>2, ExecutorAssumption DEF DepReturns, DepSet, TypeOK, FutureTypeOK
  <2> QED
    BY <1>2, <2>1 DEF DepReturns
<1>3. ASSUME NEW n \in Node, Work(n) PROVE CauseInv'
  BY <1>3 DEF Work
<1>4. ASSUME NEW cached \in BOOLEAN, Prepare(cached) PROVE UNCHANGED err
  BY <1>4 DEF Prepare
<1>5. ASSUME NEW n \in Node,
             \/ Enter(n) \/ AcquireSema(n) \/ PostReport(n)
             \/ ExecuteReturns(n) \/ ReportFailure(n)
      PROVE  UNCHANGED err
  BY <1>5 DEF Enter, AcquireSema, PostReport, ExecuteReturns, ReportFailure
<1> QED
  BY <1>1, <1>2, <1>3, <1>4, <1>5, FuturesUntouched
  DEF Next, EventLoop, Execute, Exited, futures
-----------------------------------------------------------------------------
(***************************************************************************)
(* The counters.                                                           *)
(***************************************************************************)
LEMMA CountersKept ==
  ASSUME CountInv, UNCHANGED counters,
         Fired' = Fired, Returned' = Returned, Counted' = Counted
  PROVE  CountInv'
BY DEF CountInv, counters

LEMMA CountInvStep ==
  ASSUME TypeOK, ExecInv, HandOver, SyncInv, FireInv, CountInv, [Next]_vars
  PROVE  CountInv'
<1>0. UNCHANGED keepGoing
  BY OptionsKept
<1>1. ASSUME UNCHANGED <<futures, fire, counters>> PROVE CountInv'
  <2>1. Fired' = Fired /\ Returned' = Returned /\ Counted' = Counted
    BY <1>0, <1>1 DEF futures, Fired, Returned, Counted
  <2> QED
    BY <1>1, <2>1, CountersKept
<1>2. ASSUME NEW cached \in BOOLEAN, Prepare(cached) PROVE CountInv'
  <2>1. PICK h \in Node : h = Head(batch) /\ h \notin prepared
    BY <1>2, HandOverPrepare
  <2>2. once[h] = "new" /\ fire[h] = "none" /\ h \notin err /\ pc[h] = "idle"
    BY <2>1 DEF FireInv, ExecInv, OnceInv
  <2>3. err' = err /\ pc' = pc /\ done' = done /\ failed' = failed
    BY <1>2 DEF Prepare
  <2>4. CASE once' = [once EXCEPT ![h] = "complete"] /\ UNCHANGED <<pending, fire>>
    <3>1. \A n \in Node : n # h => once'[n] = once[n]
      BY <2>4 DEF TypeOK, FutureTypeOK
    <3>2. Fired' = Fired /\ Returned' = Returned /\ Counted' = Counted
      BY <1>0, <2>2, <2>3, <2>4, <3>1 DEF Fired, Returned, Counted, TypeOK, FutureTypeOK
    <3> QED
      BY <2>3, <2>4, <3>2, CountersKept DEF counters
  <2>5. CASE /\ fire' = [fire EXCEPT ![h] = "visit"]
             /\ pending' = pending + 1
             /\ UNCHANGED once
    <3>1. Fired' = Fired \cup {h} /\ h \notin Fired
      BY <2>2, <2>5 DEF Fired, TypeOK, FutureTypeOK
    <3>2. Returned' = Returned
      BY <2>2, <2>3, <2>5, <3>1 DEF Returned
    <3>3. Counted' = Counted
      BY <1>0, <2>3, <2>5 DEF Counted
    <3>4. IsFiniteSet(Fired') /\ Cardinality(Fired') = Cardinality(Fired) + 1
      BY <3>1, FS_AddElement DEF CountInv
    <3> QED
      BY <2>3, <2>5, <3>2, <3>3, <3>4 DEF CountInv
  <2> QED
    BY <1>2, <2>1, <2>4, <2>5 DEF Prepare
<1>3. ASSUME NEW n \in Node, Enter(n) \/ AcquireSema(n) \/ PostReport(n) PROVE CountInv'
  <2>1. /\ UNCHANGED <<counters, fire, err>>
        /\ \A m \in Node : /\ once'[m] = "complete" <=> once[m] = "complete"
                           /\ pc'[m] = "report" <=> pc[m] = "report"
    <3>1. CASE Enter(n)
      BY <3>1 DEF Enter, TypeOK, FutureTypeOK, ExecInv, OnceInv
    <3>2. CASE AcquireSema(n)
      BY <3>2 DEF AcquireSema, TypeOK, FutureTypeOK
    <3>3. CASE PostReport(n)
      BY <3>3 DEF PostReport, TypeOK, FutureTypeOK
    <3> QED
      BY <1>3, <3>1, <3>2, <3>3
  <2>2. Fired' = Fired /\ Returned' = Returned /\ Counted' = Counted
    BY <1>0, <2>1 DEF Fired, Returned, Counted, TypeOK, FutureTypeOK
  <2> QED
    BY <2>1, <2>2, CountersKept
<1>4. ASSUME NEW n \in Node, DepReturns(n) \/ Work(n) PROVE CountInv'
  <2>1. /\ UNCHANGED <<counters, fire, once>>
        /\ once[n] # "complete"
        /\ err \subseteq err' /\ err' \subseteq err \cup {n}
        /\ \A m \in Node : pc'[m] = "report" <=> pc[m] = "report"
        /\ pc[n] # "report"
    BY <1>4 DEF DepReturns, Work, TypeOK, FutureTypeOK, ExecInv, OnceInv
  <2>2. Fired' = Fired /\ Returned' = Returned
    BY <2>1 DEF Fired, Returned
  <2>3. Counted' = Counted
    BY <1>0, <2>1 DEF Counted, TypeOK, FutureTypeOK
  <2> QED
    BY <2>1, <2>2, <2>3, CountersKept
<1>5. ASSUME NEW n \in Node, ExecuteReturns(n) PROVE CountInv'
  <2>1. once[n] = "running" /\ pc[n] = "return" /\ fire[n] # "none"
    BY <1>5 DEF ExecuteReturns, ExecInv, OnceInv, FireInv, Built
  <2>2. /\ UNCHANGED <<fire, err, pending>> /\ done' = done + 1
        /\ \A m \in Node \ {n} : once'[m] = once[m] /\ pc'[m] = pc[m]
        /\ once'[n] = "complete" \/ pc'[n] = "report"
    BY <1>5 DEF ExecuteReturns, TypeOK, FutureTypeOK
  <2>3. Fired' = Fired
    BY <2>2 DEF Fired
  <2>4. Returned' = Returned \cup {n} /\ n \notin Returned
    BY <2>1, <2>2, <2>3 DEF Fired, Returned
  <2>5. IsFiniteSet(Returned') /\ done' = Cardinality(Returned')
    BY <2>2, <2>4, FS_AddElement DEF CountInv
  <2>6. IsFiniteSet(Counted') /\ failed' = Cardinality(Counted')
    <3>1. CASE n \in err /\ keepGoing
      <4>1. Counted' = Counted \cup {n} /\ n \notin Counted
        BY <1>0, <2>1, <2>2, <3>1 DEF Counted, TypeOK, FutureTypeOK
      <4>2. failed' = failed + 1
        BY <1>5, <3>1 DEF ExecuteReturns
      <4> QED
        BY <4>1, <4>2, FS_AddElement DEF CountInv
    <3>2. CASE ~(n \in err /\ keepGoing)
      <4>1. Counted' = Counted
        BY <1>0, <2>1, <2>2, <3>2 DEF Counted, TypeOK, FutureTypeOK
      <4>2. failed' = failed
        BY <1>5, <3>2 DEF ExecuteReturns
      <4> QED
        BY <4>1, <4>2 DEF CountInv
    <3> QED
      BY <3>1, <3>2
  <2> QED
    BY <2>2, <2>3, <2>5, <2>6 DEF CountInv
<1>6. ASSUME NEW n \in Node, ReportFailure(n) PROVE CountInv'
  <2>1. /\ UNCHANGED <<counters, fire, err>>
        /\ \A m \in Node : once'[m] = "complete" \/ pc'[m] = "report"
                             <=> once[m] = "complete" \/ pc[m] = "report"
    BY <1>6 DEF ReportFailure, TypeOK, FutureTypeOK
  <2>2. Fired' = Fired /\ Returned' = Returned /\ Counted' = Counted
    BY <1>0, <2>1 DEF Fired, Returned, Counted, TypeOK, FutureTypeOK
  <2> QED
    BY <2>1, <2>2, CountersKept
<1>7. ASSUME NEW n \in Node, FireReturns(n) PROVE CountInv'
  <2>1. /\ UNCHANGED <<counters, futures>>
        /\ \A m \in Node : fire'[m] = "none" <=> fire[m] = "none"
    BY <1>7 DEF FireReturns, TypeOK, FutureTypeOK
  <2>2. Fired' = Fired /\ Returned' = Returned /\ Counted' = Counted
    BY <1>0, <2>1 DEF Fired, Returned, Counted, futures
  <2> QED
    BY <2>1, <2>2, CountersKept
<1>8. CASE Main \/ LoadUidSet \/ Loop \/ UNCHANGED vars
  <2>1. UNCHANGED <<fire, counters>>
    BY <1>8 DEF Main, OnNode, FlushPrepBatch, GenReturns, GenThrows, PostSync,
       SyncReturns, VisitRootReturns, InFlightWait, CheckFailures, Install,
       CloseQueue, MainReturns, LoadUidSet, Loop, vars, counters
  <2> QED
    BY <1>1, <1>8, <2>1, FuturesUntouched
<1> QED
  BY <1>2, <1>3, <1>4, <1>5, <1>6, <1>7, <1>8
  DEF Next, EventLoop, Execute, Exited
-----------------------------------------------------------------------------
(***************************************************************************)
(* After run.                                                              *)
(***************************************************************************)
LEMMA AfterRunQuiet ==
  ASSUME TypeOK, ExecInv, HandOver, SyncInv, RunInv, main \in AfterRun
  PROVE  /\ \A n \in Node : ~Execute(n)
         /\ \A cached \in BOOLEAN : ~Prepare(cached)
<1>1. \A n \in Node : once[n] = "complete" /\ pc[n] = "idle"
  BY DEF RunInv, ExecInv, OnceInv
<1>2. \A n \in Node : ~Execute(n)
  BY <1>1 DEF Execute, Enter, DepReturns, AcquireSema, Work, PostReport,
              ExecuteReturns, ReportFailure
<1>3. prepared = Node
  BY DEF SyncInv
<1>4. \A cached \in BOOLEAN : ~Prepare(cached)
  BY <1>3, HandOverPrepare
<1> QED
  BY <1>2, <1>4

(* When run returns every node is settled: it was cached, or its goroutine *)
(* has left.                                                               *)
LEMMA AllSettled ==
  ASSUME TypeOK, FireInv, prepared = Node, \A n \in Node : fire[n] # "visit"
  PROVE  \A n \in Node : once[n] = "complete"
BY DEF FireInv, Built, TypeOK, FutureTypeOK

LEMMA FailuresCounted ==
  ASSUME TypeOK, SyncInv, FireInv, CountInv, RunInv, main \in AfterRun
  PROVE  IsFiniteSet(err) /\ failed = Cardinality(err)
<1>1. \A n \in Node : once[n] = "complete" /\ fire[n] # "visit" /\ n \in prepared
  BY DEF RunInv, SyncInv
<1>2. \A n \in err : n \in Node /\ keepGoing
  BY <1>1 DEF FireInv, Built, TypeOK, FutureTypeOK
<1>3. Counted = err
  BY <1>1, <1>2 DEF Counted
<1> QED
  BY <1>3 DEF CountInv

LEMMA RunInvStep ==
  ASSUME TypeOK, ExecInv, HandOver, SyncInv, FireInv, CountInv, RunInv, [Next]_vars
  PROVE  RunInv'
<1> DEFINE Ended == {"install", "close", "drain"}
<1>1. main' \in AfterRun => \A n \in Node : once'[n] = "complete" /\ fire'[n] # "visit"
  <2> SUFFICES ASSUME main' \in AfterRun
               PROVE  \A n \in Node : once'[n] = "complete" /\ fire'[n] # "visit"
    OBVIOUS
  <2>1. CASE main \in AfterRun
    <3>1. \A n \in Node : once[n] = "complete" /\ fire[n] # "visit"
      BY <2>1 DEF RunInv
    <3>2. \A n \in Node : fire'[n] # "visit"
      <4>1. ASSUME NEW n \in Node, FireReturns(n) PROVE FALSE
        BY <3>1, <4>1 DEF FireReturns
      <4>2. ASSUME Main \/ LoadUidSet \/ Loop \/ UNCHANGED vars PROVE UNCHANGED fire
        BY <4>2 DEF Main, OnNode, FlushPrepBatch, GenReturns, GenThrows, PostSync,
           SyncReturns, VisitRootReturns, InFlightWait, CheckFailures, Install,
           CloseQueue, MainReturns, LoadUidSet, Loop, vars
      <4> QED
        BY <2>1, <3>1, <4>1, <4>2, AfterRunQuiet DEF Next, EventLoop, Exited
    <3>3. \A n \in Node : once'[n] = "complete"
      BY <3>1, SettledStep DEF Settled
    <3> QED
      BY <3>2, <3>3
  <2>2. CASE main \notin AfterRun
    <3>1. InFlightWait /\ main = "wait"
      <4>1. CASE Main
        BY <2>2, <4>1 DEF Main, OnNode, FlushPrepBatch, GenReturns, GenThrows, PostSync,
           SyncReturns, VisitRootReturns, InFlightWait, CheckFailures, Install,
           CloseQueue, MainReturns, mainVars, AfterRun
      <4>2. ASSUME ~Main PROVE UNCHANGED main
        BY <4>2 DEF Next, LoadUidSet, EventLoop, Loop, Prepare, Execute, Enter,
           DepReturns, AcquireSema, Work, PostReport, ExecuteReturns,
           ReportFailure, FireReturns, Exited, vars, mainVars
      <4> QED
        BY <2>2, <4>1, <4>2
    <3>2. prepared = Node /\ \A n \in Node : fire[n] # "visit"
      BY <3>1 DEF InFlightWait, SyncInv
    <3> QED
      BY <3>1, <3>2, AllSettled DEF InFlightWait, futures
  <2> QED
    BY <2>1, <2>2
<1>2. main' \in Ended => err' = {}
  <2> SUFFICES ASSUME main' \in Ended PROVE err' = {}
    OBVIOUS
  <2>1. CASE Main
    <3>1. UNCHANGED err
      BY <2>1, FuturesUntouched DEF futures
    <3>2. main \in Ended \/ (CheckFailures /\ ~(failed > 0))
      BY <2>1 DEF Main, OnNode, FlushPrepBatch, GenReturns, GenThrows, PostSync,
         SyncReturns, VisitRootReturns, InFlightWait, CheckFailures, Install,
         CloseQueue, MainReturns, mainVars
    <3>3. CASE CheckFailures /\ ~(failed > 0)
      <4>1. main \in AfterRun
        BY <3>3 DEF CheckFailures, AfterRun
      <4>2. IsFiniteSet(err) /\ failed = Cardinality(err) /\ failed \in Nat
        BY <4>1, FailuresCounted DEF TypeOK, CounterTypeOK
      <4> QED
        BY <3>1, <3>3, <4>2, FS_EmptySet
    <3> QED
      BY <3>1, <3>2, <3>3 DEF RunInv
  <2>2. CASE ~Main
    <3>1. UNCHANGED main
      BY <2>2 DEF Next, LoadUidSet, EventLoop, Loop, Prepare, Execute, Enter,
         DepReturns, AcquireSema, Work, PostReport, ExecuteReturns,
         ReportFailure, FireReturns, Exited, vars, mainVars
    <3>2. main \in AfterRun
      BY <3>1 DEF AfterRun
    <3>3. UNCHANGED err
      BY <2>2, <3>2, AfterRunQuiet, FuturesUntouched DEF Next, EventLoop, futures
    <3> QED
      BY <3>1, <3>3 DEF RunInv
  <2> QED
    BY <2>1, <2>2
<1>3. EndInv'
  <2> USE DEF RunInv, EndInv
  <2>1. ASSUME UNCHANGED <<ch, exit, main>> PROVE EndInv'
    BY <2>1
  <2>2. CASE exit = "running" /\ Main
    BY <2>2 DEF Main, OnNode, FlushPrepBatch, GenReturns, GenThrows, PostSync,
       SyncReturns, VisitRootReturns, InFlightWait, CheckFailures, Install,
       CloseQueue, MainReturns, mainVars, channel
  <2>3. ASSUME NEW n \in Node, PostReport(n) \/ ReportFailure(n), exit = "running"
        PROVE  EndInv'
    <3>1. main \notin AfterRun
      BY <2>3, AfterRunQuiet DEF Execute
    <3>2. UNCHANGED <<main, ch>> /\ (exit' = exit \/ (ch = "closed" /\ exit' = "panic"))
      BY <2>3 DEF PostReport, ReportFailure, mainVars
    <3> QED
      BY <2>3, <3>1, <3>2 DEF AfterRun
  <2>4. ASSUME NEW n \in Node, FireReturns(n), exit = "running" PROVE EndInv'
    BY <2>4 DEF FireReturns, mainVars, channel
  <2>5. ASSUME \/ LoadUidSet \/ EventLoop \/ Exited \/ UNCHANGED vars
               \/ \E n \in Node : \/ Enter(n) \/ DepReturns(n) \/ AcquireSema(n)
                                  \/ Work(n) \/ ExecuteReturns(n)
        PROVE  UNCHANGED <<ch, exit, main>>
    BY <2>5 DEF LoadUidSet, EventLoop, Loop, Prepare, Enter, DepReturns,
       AcquireSema, Work, ExecuteReturns, Exited, vars, mainVars, channel
  <2> QED
    BY <2>1, <2>2, <2>3, <2>4, <2>5 DEF Next, Running, Execute
<1> QED
  BY <1>1, <1>2, <1>3 DEF RunInv

LEMMA StatsInvStep ==
  ASSUME TypeOK, ExecInv, HandOver, SyncInv, RunInv, StatsInv, [Next]_vars
  PROVE  StatsInv'
<1> USE DEF StatsInv
<1>1. CASE main \in {"stats", "stats_synced", "check", "install", "close", "drain"}
  <2>1. /\ \A n \in Node : ~Execute(n)
        /\ \A cached \in BOOLEAN : ~Prepare(cached)
    BY <1>1, AfterRunQuiet DEF AfterRun
  <2>2. CASE Loop
    <3>1. UNCHANGED <<main, printed>>
      BY <2>2 DEF Loop
    <3>2. /\ NoneBehindSync("report") => NoneBehindSync("report")'
          /\ NoneOf("report") => NoneOf("report")' /\ UNCHANGED taskStats
          /\ NoneBehindSync("report") /\ Head(queue).kind = "sync" => NoneOf("report")'
          /\ Head(queue).kind # "sync" => synced' = synced
      BY <2>2, KindsAfterLoop DEF Loop
    <3> QED
      BY <3>1, <3>2
  <2>3. CASE PostSync
    <3>1. PICK e \in Event : e.kind = "sync" /\ Post(e)
      BY <2>3, PostSyncPosts
    <3>2. main = "stats" /\ main' = "stats_synced" /\ synced' = "open"
      BY <1>1, <2>3 DEF PostSync
    <3>3. NoneBehindSync("report")'
      BY <3>1, <3>2, KindsAfterPost DEF SyncInv
    <3> QED
      BY <3>2, <3>3
  <2>4. CASE SyncReturns
    BY <1>1, <2>4, KindsKept DEF SyncReturns, channel
  <2>5. CASE CheckFailures \/ Install \/ CloseQueue \/ MainReturns
    BY <1>1, <2>5, KindsKept
    DEF CheckFailures, Install, CloseQueue, MainReturns, channel, mainVars
  <2>6. ASSUME LoadUidSet \/ UNCHANGED vars \/ \E n \in Node : FireReturns(n)
        PROVE  StatsInv'
    <3>1. UNCHANGED <<queue, main, synced, printed, taskStats>>
      BY <2>6 DEF LoadUidSet, FireReturns, vars, channel, mainVars
    <3> QED
      BY <3>1, KindsKept
  <2>7. /\ \A n \in Node : ~OnNode(n)
        /\ ~FlushPrepBatch /\ ~GenReturns /\ ~GenThrows
        /\ ~VisitRootReturns /\ ~InFlightWait
    BY <1>1 DEF OnNode, FlushPrepBatch, GenReturns, GenThrows, VisitRootReturns, InFlightWait
  <2> QED
    BY <2>1, <2>2, <2>3, <2>4, <2>5, <2>6, <2>7 DEF Next, Main, EventLoop, Exited
<1>2. CASE main \notin {"stats", "stats_synced", "check", "install", "close", "drain"}
  <2>1. main' \in {"stats_synced", "check", "install", "close", "drain"} =>
          main' = "check" /\ ~Stats
    <3>1. CASE Main
      BY <1>2, <3>1 DEF Main, OnNode, FlushPrepBatch, GenReturns, GenThrows, PostSync,
         SyncReturns, VisitRootReturns, InFlightWait, CheckFailures, Install,
         CloseQueue, MainReturns, mainVars
    <3>2. CASE ~Main
      <4>1. UNCHANGED main
        BY <3>2 DEF Next, LoadUidSet, EventLoop, Loop, Prepare, Execute, Enter,
           DepReturns, AcquireSema, Work, PostReport, ExecuteReturns,
           ReportFailure, FireReturns, Exited, vars, mainVars
      <4> QED
        BY <1>2, <4>1
    <3> QED
      BY <3>1, <3>2
  <2> QED
    BY <2>1
<1> QED
  BY <1>1, <1>2
-----------------------------------------------------------------------------
(* The inductive invariant of the whole process.                           *)
ProcessInv ==
  HandOver /\ SyncInv /\ FireInv /\ CauseInv /\ CountInv /\ RunInv /\ StatsInv

LEMMA ProcessInvInit == Init => ProcessInv
<1> SUFFICES ASSUME Init PROVE ProcessInv
  OBVIOUS
<1>1. SyncInv /\ FireInv /\ CauseInv /\ RunInv /\ StatsInv
  BY DEF Init, SyncInv, FireInv, CauseInv, RunInv, EndInv, StatsInv, NoneOf, AfterRun
<1>2. Fired = {} /\ Returned = {} /\ Counted = {}
  BY DEF Init, Fired, Returned, Counted
<1>3. CountInv
  BY <1>2, FS_EmptySet DEF Init, CountInv
<1> QED
  BY <1>1, <1>3, HandOverInit DEF ProcessInv

(* In every reachable state of every process the line to prepare is in     *)
(* order, main is where the queue and the goroutines allow it to be, and   *)
(* the counters count what they claim to.                                  *)
THEOREM ProcessInvariant == Spec => [](TypeOK /\ ExecInv /\ ProcessInv)
<1>1. TypeOK /\ ExecInv /\ ProcessInv /\ [Next]_vars => ProcessInv'
  BY HandOverStep, SyncInvStep, FireInvStep, CauseInvStep, CountInvStep,
     RunInvStep, StatsInvStep DEF ProcessInv
<1> QED
  BY <1>1, ProcessInvInit, ExecInvariant, PTL DEF Spec

(* No node is executed before prepare has computed its uid, and prepare    *)
(* finds the uids of its dependencies computed, for every graph, every cut *)
(* into batches and every size of the queue.                               *)
THEOREM UidsKnownHolds == Spec => []UidsKnown
<1>1. ProcessInv => UidsKnown
  BY DEF ProcessInv, HandOver, ClosedInv, FireInv, UidsKnown
<1> QED
  BY <1>1, ProcessInvariant, PTL

(* When run has returned, every node is settled, done equals pending, each *)
(* failure has been counted once and has a cause, with -k and without.     *)
THEOREM KeepGoingFinishesHolds == Spec => []KeepGoingFinishes
<1>1. TypeOK /\ ExecInv /\ ProcessInv => KeepGoingFinishes
  <2> SUFFICES ASSUME TypeOK, ProcessInv, main \in AfterRun
               PROVE  /\ \A n \in Node : once[n] = "complete"
                      /\ done = pending
                      /\ failed = Cardinality(err)
                      /\ \A n \in err : n \in MayFail \/ DepSet(n) \cap err # {}
    BY DEF KeepGoingFinishes
  <2>1. \A n \in Node : once[n] = "complete"
    BY DEF ProcessInv, RunInv
  <2>2. Returned = Fired
    BY <2>1 DEF Returned, Fired
  <2>3. done = pending
    BY <2>2 DEF ProcessInv, CountInv
  <2>4. failed = Cardinality(err)
    BY FailuresCounted DEF ProcessInv
  <2> QED
    BY <2>1, <2>3, <2>4 DEF ProcessInv, CauseInv
<1> QED
  BY <1>1, ProcessInvariant, PTL

(* The process exits with success only when every node of the graph is     *)
(* built, also one that no root depends on.                                *)
THEOREM OkMeansBuiltHolds == Spec => []OkMeansBuilt
<1>1. ProcessInv => OkMeansBuilt
  BY DEF ProcessInv, RunInv, EndInv, OkMeansBuilt, AfterRun
<1> QED
  BY <1>1, ProcessInvariant, PTL

(* printStats reads what every execution has reported.                     *)
THEOREM StatsCompleteHolds == Spec => []StatsComplete
<1>1. ProcessInv => StatsComplete
  BY DEF ProcessInv, StatsInv, StatsComplete, NoneOf, AfterRun
<1> QED
  BY <1>1, ProcessInvariant, PTL

(* A send on the closed queue, which panics, can happen only while an      *)
(* exception unwinds cmdMake.                                              *)
THEOREM NoSendOnClosedHolds == Spec => []NoSendOnClosed
<1>1. ProcessInv => NoSendOnClosed
  BY DEF ProcessInv, RunInv, EndInv, NoSendOnClosed
<1> QED
  BY <1>1, ProcessInvariant, PTL
=============================================================================
