----------------------------- MODULE Heal_proof -----------------------------
(***************************************************************************)
(* A cache with malformed manifests heals: a process that uses it alone    *)
(* fails at most once for each of them, whatever the graph, the number of  *)
(* threads and the roots, with or without -k, and however often the cache  *)
(* is cleared in between.                                                  *)
(*                                                                         *)
(* Every start is paid for with a malformed manifest.  A build that has    *)
(* not failed has at most one start more on its account than manifests     *)
(* have gone; the only thing that makes it fail is a malformed manifest,   *)
(* and the failure takes that manifest away.  A build that succeeds has    *)
(* met every root and leaves nothing a later one could fail on, even if    *)
(* malformed manifests of inner nodes stay behind.                         *)
(***************************************************************************)
EXTENDS Workspace_proof, FiniteSetTheorems

(* One process at a time uses the cache, it is not killed, and commands    *)
(* succeed.                                                                *)
Alone ==
  /\ \A p, q \in Proc : p = q
  /\ ~CmdMayFail /\ MaxCrashes = 0
  /\ IsFiniteSet(MayBeBad)

Bad == {u \in Uid : manifest[u] = "bad"}
Spent == starts + Cardinality(Bad)

Errors == {"discard_err", "rename_err", "lstat_err", "close_err", "err"}
Passed == {"discard_ok", "rename_ok", "lstat_ok", "close_ok", "done"}
Idle == Passed \cup {"new", "wait", "mkdir", "open", "lock", "stat", "wipe"}
InTmp == {"open", "lock", "stat", "heal"} \cup Building
Working == {"build", "install", "install_heal"}

LoneWorker(p, u) ==
  /\ pc[p][u] \in Busy => \A d \in Deps[u] : pc[p][d] = "done"
  /\ pc[p][u] \in {"restore", "link", "heal"} => todo[p][u] \subseteq Deps[u]
  /\ pc[p][u] = "link" => dep[p][u] \in todo[p][u] /\ Out[dep[p][u]] \subseteq cas
  /\ pc[p][u] = "heal" => todo[p][u] # {} /\ \A d \in todo[p][u] : manifest[d] # "good"
  /\ pc[p][u] \in Idle /\ ps[p] # "install_heal" => todo[p][u] = {}
  /\ pc[p][u] = "store" => Out[u] \ todo[p][u] \subseteq cas
  /\ pc[p][u] \in InTmp => tmpDir[u] \in Inode
  /\ pc[p][u] \in Filling => Expected(p, u) \subseteq content[tmpDir[u]]

LoneProcess(p) ==
  /\ ps[p] \notin Working => \A u \in Uid : pc[p][u] = "new"
  /\ ps[p] \in {"install", "install_heal"} => \A u \in Uid : pc[p][u] = "done"
  /\ ps[p] \in {"clear_cas", "clear_tmp", "clear_uid", "load"} => uidSet[p] = {}
  /\ ps[p] \in {"clear_cas", "clear_tmp", "clear_uid", "load", "build"} => installed[p] = {}
  /\ ps[p] = "install" => \A r \in installed[p] : manifest[r] = "good"
  /\ ps[p] = "install_heal" => \A r \in Root : todo[p][r] = {r} => manifest[r] # "good"
  /\ ps[p] \notin {"clear_tmp", "clear_uid"} => ManifestBacked

(* Nothing a build could fail on: no node is executed and no root healed.  *)
Complete == \A u \in Uid : manifest[u] # "none" /\ (u \in Root => manifest[u] = "good")

Unfailed(p) ==
  /\ \A u \in Uid : pc[p][u] \in Passed \/ u \in uidSet[p] => manifest[u] # "none"
  /\ \/ Spent <= Cardinality(MayBeBad) + 1
     \/ Bad = {}
     \/ Complete /\ \A u \in Uid : pc[p][u] \in {"new", "done"}

Failing(p) == \E u \in Uid : pc[p][u] \in Errors

Account(p) ==
  /\ ps[p] \in {"down", "failed"} => Spent <= Cardinality(MayBeBad)
  /\ ps[p] = "ok" => Complete
  /\ ps[p] \in Working \cup {"load"} =>
       IF Failing(p) THEN Spent <= Cardinality(MayBeBad) ELSE Unfailed(p)

OwnPaths == \A u, v \in Uid : tmpDir[u] \in Inode /\ tmpDir[u] = tmpDir[v] => u = v

HealingInv ==
  /\ Bad \subseteq MayBeBad
  /\ OwnPaths
  /\ \A p \in Proc : LoneProcess(p) /\ Account(p) /\ \A u \in Uid : LoneWorker(p, u)
-----------------------------------------------------------------------------
LEMMA FewerOrAsMany ==
  ASSUME NEW B, NEW C, IsFiniteSet(B), C \subseteq B
  PROVE  /\ Cardinality(B) \in Nat /\ Cardinality(C) \in Nat
         /\ Cardinality(C) <= Cardinality(B)
         /\ C # B => Cardinality(C) < Cardinality(B)
BY FS_Subset, FS_CardinalityType

(* Malformed manifests go and never come.                                  *)
LEMMA SpentFalls ==
  ASSUME Alone, TypeOK, Bad \subseteq MayBeBad, Bad' \subseteq Bad, UNCHANGED starts
  PROVE  /\ Spent \in Nat /\ Spent' \in Nat /\ Spent' <= Spent
         /\ Bad' # Bad => Spent' <= Spent - 1
         /\ Cardinality(MayBeBad) \in Nat
<1>1. PICK B, C : B = Bad /\ C = Bad'
  OBVIOUS
<1>2. IsFiniteSet(B) /\ Cardinality(MayBeBad) \in Nat
  BY <1>1, FS_Subset, FS_CardinalityType DEF Alone
<1>3. /\ Cardinality(B) \in Nat /\ Cardinality(C) \in Nat
      /\ Cardinality(C) <= Cardinality(B)
      /\ C # B => Cardinality(C) < Cardinality(B)
  BY <1>1, <1>2, FewerOrAsMany
<1>4. starts \in Nat /\ Spent = starts + Cardinality(B) /\ Spent' = starts + Cardinality(C)
  BY <1>1 DEF Spent, TypeOK, ProcTypeOK
<1> QED
  BY <1>1, <1>2, <1>3, <1>4
-----------------------------------------------------------------------------
(***************************************************************************)
(* A worker.                                                               *)
(***************************************************************************)
(* What a step leaves to the other workers.                                *)
LoneMove(p, u) ==
  /\ ps[p] = "build" /\ pc[p][u] # "done"
  /\ UNCHANGED <<ps, uidSet, installed, starts>>
  /\ cas \subseteq cas'
  /\ \A v \in Uid : \/ manifest'[v] = manifest[v]
                    \/ manifest'[v] = "none" /\ pc[p][u] = "heal"
                    \/ v = u /\ pc[p][u] = "store" /\ manifest'[v] = "good" /\ Out[u] \subseteq cas
  /\ \A v \in Uid : v # u =>
       /\ pc'[p][v] = pc[p][v] /\ todo'[p][v] = todo[p][v]
       /\ dep'[p][v] = dep[p][v] /\ tmpDir'[v] = tmpDir[v]
       /\ tmpDir[v] \in Inode => content[tmpDir[v]] \subseteq content'[tmpDir[v]]

(* What it comes to: a worker fails after a failure or by healing, and     *)
(* passes once there is a manifest.                                        *)
LoneStep(p, u) ==
  /\ LoneMove(p, u)
  /\ LoneWorker(p, u)'
  /\ OwnPaths'
  /\ pc[p][u] \in Errors => pc'[p][u] \in Errors
  /\ pc'[p][u] \in Errors => Failing(p) \/ pc[p][u] = "heal"
  /\ pc[p][u] = "heal" => pc'[p][u] \in Errors /\ \A d \in todo[p][u] : manifest'[d] = "none"
  /\ pc'[p][u] \in Passed =>
       manifest'[u] # "none" \/ pc[p][u] \in Passed \/ u \in uidSet[p]
  /\ pc[p][u] = "new" /\ manifest[u] # "none" => pc'[p][u] = "done"

LEMMA LoneBuilds ==
  ASSUME NEW p \in Proc, NEW u \in Uid, LoneProcess(p), pc[p][u] \notin {"new", "done"}
  PROVE  ps[p] = "build"
BY DEF LoneProcess, Working

LEMMA OthersLone ==
  ASSUME TypeOK, NEW p \in Proc, NEW u \in Uid, LoneMove(p, u),
         NEW v \in Uid, v # u, LoneWorker(p, v)
  PROVE  LoneWorker(p, v)'
<1> USE CacheAssumption
<1>1. /\ pc'[p][v] = pc[p][v] /\ todo'[p][v] = todo[p][v]
      /\ dep'[p][v] = dep[p][v] /\ tmpDir'[v] = tmpDir[v]
      /\ tmpDir[v] \in Inode => content[tmpDir[v]] \subseteq content'[tmpDir[v]]
      /\ ps'[p] = ps[p] /\ cas \subseteq cas'
  BY DEF LoneMove
<1>2. \A d \in Deps[v] : pc[p][d] = "done" => d # u /\ pc'[p][d] = "done"
  BY DEF LoneMove
<1>3. pc[p][v] \in Busy => \A d \in Deps[v] : pc[p][d] = "done"
  BY DEF LoneWorker
<1>4. ASSUME pc[p][v] = "heal", NEW d \in todo[p][v] PROVE manifest'[d] # "good"
  <2>1. d \in Deps[v] /\ d \in Uid /\ manifest[d] # "good"
    BY <1>4 DEF LoneWorker
  <2>2. d # u
    BY <1>2, <1>3, <1>4, <2>1 DEF Busy
  <2> QED
    BY <2>1, <2>2 DEF LoneMove
<1>5. Expected(p, v)' = Expected(p, v)
  BY <1>1 DEF Expected
<1>6. pc[p][v] \in Filling =>
        Expected(p, v) \subseteq content'[tmpDir[v]]
  BY <1>1 DEF LoneWorker, InTmp, Building, Filling
<1> QED
  BY <1>1, <1>2, <1>3, <1>4, <1>5, <1>6 DEF LoneWorker

(* Every step of a worker but Publish and Heal, which write manifests.     *)
LEMMA LoneFrame ==
  ASSUME TypeOK, OwnPaths, NEW p \in Proc, NEW u \in Uid,
         ps[p] = "build", pc[p][u] # "done",
         UNCHANGED pc \/ \E x : pc' = [pc EXCEPT ![p][u] = x],
         UNCHANGED todo \/ \E x : todo' = [todo EXCEPT ![p][u] = x],
         UNCHANGED dep \/ \E x : dep' = [dep EXCEPT ![p][u] = x],
         UNCHANGED <<ps, uidSet, installed, starts>>,
         cas \subseteq cas',
         \A v \in Uid : \/ manifest'[v] = manifest[v]
                        \/ manifest'[v] = "none" /\ pc[p][u] = "heal"
                        \/ /\ v = u /\ pc[p][u] = "store" /\ manifest'[v] = "good"
                           /\ Out[u] \subseteq cas,
         \/ UNCHANGED <<tmpDir, content>>
         \/ \E i \in Inode : Creates(u, i) /\ content' = [content EXCEPT ![i] = {}]
         \/ UNCHANGED content /\ tmpDir' = [tmpDir EXCEPT ![u] = NoInode]
         \/ /\ UNCHANGED tmpDir /\ tmpDir[u] \in Inode
            /\ \E x : content' = [content EXCEPT ![tmpDir[u]] = x]
  PROVE  LoneMove(p, u) /\ OwnPaths'
<1> USE CacheAssumption DEF TypeOK, DiskTypeOK
<1>1. \A v \in Uid : v # u =>
        pc'[p][v] = pc[p][v] /\ todo'[p][v] = todo[p][v] /\ dep'[p][v] = dep[p][v]
  <2>1. ASSUME NEW v \in Uid, v # u PROVE pc'[p][v] = pc[p][v]
    BY <2>1 DEF WorkerTypeOK
  <2>2. ASSUME NEW v \in Uid, v # u PROVE todo'[p][v] = todo[p][v]
    BY <2>2 DEF WorkerTypeOK
  <2>3. ASSUME NEW v \in Uid, v # u PROVE dep'[p][v] = dep[p][v]
    BY <2>3 DEF WorkerTypeOK
  <2> QED
    BY <2>1, <2>2, <2>3
<1>2. /\ OwnPaths'
      /\ \A v \in Uid : v # u =>
           /\ tmpDir'[v] = tmpDir[v]
           /\ tmpDir[v] \in Inode => content[tmpDir[v]] \subseteq content'[tmpDir[v]]
  <2>1. CASE UNCHANGED <<tmpDir, content>>
    BY <2>1 DEF OwnPaths
  <2>2. ASSUME NEW i \in Inode, Creates(u, i), content' = [content EXCEPT ![i] = {}]
        PROVE  <1>2!2 /\ OwnPaths'
    <3>1. /\ tmpDir'[u] = i /\ \A v \in Uid : v # u => tmpDir'[v] = tmpDir[v]
          /\ \A v \in Uid : tmpDir[v] # i
      BY <2>2 DEF Creates, FreeInode
    <3> QED
      BY <2>2, <3>1 DEF OwnPaths
  <2>3. CASE UNCHANGED content /\ tmpDir' = [tmpDir EXCEPT ![u] = NoInode]
    BY <2>3 DEF OwnPaths
  <2>4. ASSUME UNCHANGED tmpDir, tmpDir[u] \in Inode,
               NEW x, content' = [content EXCEPT ![tmpDir[u]] = x]
        PROVE  <1>2!2 /\ OwnPaths'
    <3>1. \A v \in Uid : v # u /\ tmpDir[v] \in Inode => tmpDir[v] # tmpDir[u]
      BY DEF OwnPaths
    <3> QED
      BY <2>4, <3>1 DEF OwnPaths
  <2> QED
    BY <2>1, <2>2, <2>3, <2>4
<1> QED
  BY <1>1, <1>2 DEF LoneMove

LEMMA LoneArrival ==
  ASSUME TypeOK, HealingInv, NEW p \in Proc, NEW u \in Uid,
         \/ Prepare(p, u) \/ DepsVisited(p, u) \/ BrokenByDep(p, u) \/ MkdirTmp(p, u)
         \/ OpenTmp(p, u) \/ Flock(p, u) \/ StatManifest(p, u) \/ CloseDir(p, u)
  PROVE  LoneStep(p, u)
<1> USE CacheAssumption DEF disk, procs, others, Goto
<1>0. LoneWorker(p, u) /\ LoneProcess(p) /\ OwnPaths
  BY DEF HealingInv
<1>1. /\ UNCHANGED <<cas, manifest, ps, uidSet, installed, starts, todo, dep>>
      /\ ps[p] = "build"
  BY <1>0, LoneBuilds DEF Prepare, DepsVisited, BrokenByDep, MkdirTmp, OpenTmp, Flock,
                          StatManifest, CloseDir
<1>2. PICK s : pc' = [pc EXCEPT ![p][u] = s]
  BY DEF Prepare, DepsVisited, BrokenByDep, MkdirTmp, OpenTmp, Flock, StatManifest, CloseDir
<1>3. pc'[p][u] = s /\ \A v \in Uid : v # u => pc'[p][v] = pc[p][v]
  BY <1>2 DEF TypeOK, WorkerTypeOK
<1>4. \/ UNCHANGED <<tmpDir, content>>
      \/ \E i \in Inode : Creates(u, i) /\ content' = [content EXCEPT ![i] = {}]
  BY DEF Prepare, DepsVisited, BrokenByDep, MkdirTmp, OpenTmp, Flock, StatManifest, CloseDir,
         MkdirAll, Creates
<1>5. \/ pc[p][u] = "new" /\ s = (IF UidCached(p, u) THEN "done" ELSE "wait")
      \/ pc[p][u] = "wait" /\ s = "mkdir" /\ \A d \in Deps[u] : pc[p][d] = "done"
      \/ pc[p][u] = "wait" /\ s = "err" /\ \E d \in Deps[u] : pc[p][d] = "err"
      \/ pc[p][u] = "mkdir" /\ s = "open" /\ MkdirAll(u)
      \/ pc[p][u] = "open" /\ s = (IF tmpDir[u] = NoInode THEN "err" ELSE "lock")
           /\ UNCHANGED tmpDir
      \/ pc[p][u] = "lock" /\ s = "stat" /\ UNCHANGED tmpDir
      \/ pc[p][u] = "stat" /\ s = (IF manifest[u] # "none" THEN "close_ok" ELSE "wipe")
           /\ UNCHANGED tmpDir
      \/ pc[p][u] = "close_ok" /\ s = "done"
      \/ pc[p][u] = "close_err" /\ s = "err"
  <2>1. ASSUME NEW b, pc' = [pc EXCEPT ![p][u] = b] PROVE s = b
    BY <1>3, <2>1 DEF TypeOK, WorkerTypeOK
  <2>2. CASE Prepare(p, u)
    BY <2>1, <2>2 DEF Prepare
  <2>3. CASE DepsVisited(p, u) \/ BrokenByDep(p, u)
    BY <2>1, <2>3 DEF DepsVisited, BrokenByDep
  <2>4. CASE MkdirTmp(p, u) \/ OpenTmp(p, u)
    BY <2>1, <2>4 DEF MkdirTmp, OpenTmp
  <2>5. CASE Flock(p, u) \/ StatManifest(p, u)
    BY <2>1, <2>5 DEF Flock, StatManifest
  <2>6. CASE CloseDir(p, u)
    BY <2>1, <2>6 DEF CloseDir
  <2> QED
    BY <2>2, <2>3, <2>4, <2>5, <2>6
<1>6. pc[p][u] \notin {"done", "store", "heal"} /\ s \notin {"heal"} \cup Filling
  BY <1>5 DEF Filling
<1>7. LoneMove(p, u) /\ OwnPaths'
  BY <1>0, <1>1, <1>2, <1>4, <1>6, LoneFrame
<1>8. pc'[p][u] \in InTmp => tmpDir'[u] \in Inode
  <2>1. CASE pc[p][u] = "mkdir"
    BY <1>4, <1>5, <2>1 DEF MkdirAll, Creates, TypeOK, DiskTypeOK
  <2>2. CASE pc[p][u] = "open"
    BY <1>3, <1>5, <2>2 DEF InTmp, Building, TypeOK, DiskTypeOK
  <2>3. CASE pc[p][u] \in {"lock", "stat"}
    BY <1>0, <1>5, <2>3 DEF LoneWorker, InTmp
  <2> QED
    BY <1>3, <1>5, <2>1, <2>2, <2>3 DEF InTmp, Building
<1>9. LoneWorker(p, u)'
  <2>1. pc[p][u] \in Busy => \A d \in Deps[u] : pc[p][d] = "done"
    BY <1>0 DEF LoneWorker
  <2>2. pc'[p][u] \in Busy => \A d \in Deps[u] : pc'[p][d] = "done"
    <3>1. s \in Busy => \A d \in Deps[u] : pc[p][d] = "done"
      BY <1>5, <2>1 DEF Busy
    <3> QED
      BY <1>3, <1>6, <3>1
  <2>3. pc'[p][u] \in Idle => pc[p][u] \in Idle
    BY <1>3, <1>5 DEF Idle, Passed
  <2> QED
    BY <1>0, <1>1, <1>3, <1>6, <1>8, <2>2, <2>3 DEF LoneWorker, Filling
<1>10. pc'[p][u] \in Errors => Failing(p)
  <2>1. CASE pc[p][u] = "open"
    BY <1>0, <1>3, <1>5, <2>1 DEF LoneWorker, InTmp, Errors
  <2>2. CASE pc[p][u] # "open"
    BY <1>3, <1>5, <2>2 DEF Failing, Errors
  <2> QED
    BY <2>1, <2>2
<1>11. pc'[p][u] \in Passed =>
         manifest'[u] # "none" \/ pc[p][u] \in Passed \/ u \in uidSet[p]
  BY <1>1, <1>3, <1>5 DEF Passed, UidCached
<1>12. pc[p][u] \in Errors => pc'[p][u] \in Errors
  BY <1>3, <1>5 DEF Errors
<1>13. pc[p][u] = "new" /\ manifest[u] # "none" => pc'[p][u] = "done"
  BY <1>3, <1>5 DEF UidCached
<1> QED
  BY <1>6, <1>7, <1>9, <1>10, <1>11, <1>12, <1>13 DEF LoneStep

LEMMA LoneBuild ==
  ASSUME Alone, TypeOK, HealingInv, NEW p \in Proc, NEW u \in Uid,
         \/ RemoveContents(p, u) \/ (\E d \in Uid : RestoreInto(p, u, d))
         \/ LinkInto(p, u) \/ StartCmd(p, u) \/ FinishCmd(p, u)
         \/ (\E b \in Blob : StoreFileToCAS(p, u, b))
  PROVE  LoneStep(p, u)
<1> USE CacheAssumption DEF disk, procs, others, Goto
<1>0. LoneWorker(p, u) /\ LoneProcess(p) /\ OwnPaths
  BY DEF HealingInv
<1>1. /\ pc[p][u] \in {"wipe", "restore", "link", "cmd", "store"}
      /\ UNCHANGED <<manifest, ps, uidSet, installed, starts>>
      /\ cas \subseteq cas' /\ ps[p] = "build"
  BY <1>0, LoneBuilds DEF RemoveContents, RestoreInto, LinkInto, StartCmd, FinishCmd,
      StoreFileToCAS
<1>2. tmpDir[u] \in Inode /\ tmpDir[u] # NoInode /\ AtPath(u) = content[tmpDir[u]]
  BY <1>0, <1>1 DEF LoneWorker, InTmp, Building, AtPath
<1>3. \A d \in Deps[u] : d \in Uid /\ d # u /\ pc[p][d] = "done"
  BY <1>0, <1>1 DEF LoneWorker, Busy
<1>4. ManifestBacked
  BY <1>0, <1>1 DEF LoneProcess
(* The step in general: a new state, contents added or wiped, one item of   *)
(* the list done.                                                          *)
<1>5. ASSUME NEW s \in {"restore", "link", "heal", "cmd", "store"}, pc'[p][u] = s,
             UNCHANGED pc \/ \E x : pc' = [pc EXCEPT ![p][u] = x],
             UNCHANGED todo \/ \E x : todo' = [todo EXCEPT ![p][u] = x],
             UNCHANGED dep \/ \E x : dep' = [dep EXCEPT ![p][u] = x],
             s = "link" => dep'[p][u] \in todo'[p][u] /\ Out[dep'[p][u]] \subseteq cas',
             UNCHANGED tmpDir,
             UNCHANGED content \/ \E x : content' = [content EXCEPT ![tmpDir[u]] = x],
             s \in {"restore", "link", "heal"} => todo'[p][u] \subseteq Deps[u],
             s = "heal" => todo'[p][u] # {} /\ \A d \in todo'[p][u] : manifest[d] # "good",
             s = "store" => Out[u] \ todo'[p][u] \subseteq cas',
             s # "heal" => Expected(p, u)' \subseteq content'[tmpDir[u]]
      PROVE  LoneStep(p, u)
  <2>1. LoneMove(p, u) /\ OwnPaths'
    BY <1>0, <1>1, <1>2, <1>5, LoneFrame
  <2>2. \A d \in Deps[u] : pc'[p][d] = "done"
    BY <1>3, <2>1 DEF LoneMove
  <2>3. LoneWorker(p, u)'
    BY <1>1, <1>2, <1>5, <2>2 DEF LoneWorker, Idle, Passed, Filling
  <2> QED
    BY <1>1, <1>5, <2>1, <2>3 DEF LoneStep, Errors, Passed
<1>6. CASE RemoveContents(p, u)
  <2>1. /\ UNCHANGED <<tmpDir, dep>>
        /\ pc' = [pc EXCEPT ![p][u] = "restore"] /\ todo' = [todo EXCEPT ![p][u] = Deps[u]]
        /\ content' = [content EXCEPT ![tmpDir[u]] = {}]
    BY <1>2, <1>6 DEF RemoveContents
  <2>2. pc'[p][u] = "restore" /\ todo'[p][u] = Deps[u] /\ content'[tmpDir[u]] = {}
    BY <1>2, <2>1 DEF TypeOK, DiskTypeOK, WorkerTypeOK
  <2>3. Expected(p, u)' = {}
    BY <2>2 DEF Expected
  <2> QED
    BY <1>5, <2>1, <2>2, <2>3
<1>7. ASSUME NEW d \in Uid, RestoreInto(p, u, d) PROVE LoneStep(p, u)
  <2>1. d \in todo[p][u] /\ pc[p][u] = "restore" /\ d \in Deps[u] /\ todo[p][u] \subseteq Deps[u]
    BY <1>0, <1>7 DEF RestoreInto, LoneWorker
  <2>2. CASE manifest[d] = "good"
    <3>1. /\ UNCHANGED <<tmpDir, content, todo>>
          /\ pc' = [pc EXCEPT ![p][u] = "link"] /\ dep' = [dep EXCEPT ![p][u] = d]
      BY <1>2, <1>7, <2>2 DEF RestoreInto, MkdirAll
    <3>2. pc'[p][u] = "link" /\ dep'[p][u] = d /\ Out[d] \subseteq cas'
      BY <1>1, <1>4, <2>2, <3>1 DEF TypeOK, WorkerTypeOK, ManifestBacked
    <3>3. Expected(p, u)' = Expected(p, u)
      BY <2>1, <3>1, <3>2 DEF Expected
    <3>4. Expected(p, u)' \subseteq content'[tmpDir[u]]
      BY <1>0, <2>1, <3>1, <3>3 DEF LoneWorker, Filling
    <3> QED
      BY <1>5, <2>1, <3>1, <3>2, <3>4
  <2>3. CASE manifest[d] # "good"
    <3>1. /\ UNCHANGED <<tmpDir, content, dep>>
          /\ todo' = [todo EXCEPT ![p][u] = {d}]
          /\ pc' = [pc EXCEPT ![p][u] = "heal"]
      BY <1>7, <2>3 DEF RestoreInto
    <3>2. todo'[p][u] = {d} /\ pc'[p][u] = "heal"
      BY <3>1 DEF TypeOK, WorkerTypeOK
    <3> QED
      BY <1>5, <2>1, <2>3, <3>1, <3>2
  <2> QED
    BY <2>2, <2>3
<1>11. CASE LinkInto(p, u)
  <2>1. PICK d : d = dep[p][u]
    OBVIOUS
  <2>2. /\ d \in todo[p][u] /\ pc[p][u] = "link" /\ todo[p][u] \subseteq Deps[u]
        /\ Linked(p, dep[p][u]) = {<<p, d>>}
    BY <1>0, <1>11, <2>1 DEF LinkInto, LoneWorker, Linked
  <2>3. /\ UNCHANGED tmpDir /\ dep' = [dep EXCEPT ![p][u] = u]
        /\ pc' = [pc EXCEPT ![p][u] = "restore"]
        /\ todo' = [todo EXCEPT ![p][u] = @ \ {d}]
        /\ content' = [content EXCEPT ![tmpDir[u]] = @ \cup {<<p, d>>}]
    BY <1>2, <1>11, <2>1, <2>2 DEF LinkInto
  <2>4. /\ todo'[p][u] = todo[p][u] \ {d} /\ pc'[p][u] = "restore"
        /\ content'[tmpDir[u]] = content[tmpDir[u]] \cup {<<p, d>>}
    BY <1>2, <2>3 DEF TypeOK, DiskTypeOK, WorkerTypeOK
  <2>5. Expected(p, u)' = Expected(p, u) \cup {<<p, d>>}
    BY <2>2, <2>4 DEF Expected
  <2>6. Expected(p, u)' \subseteq content'[tmpDir[u]]
    BY <1>0, <2>2, <2>4, <2>5 DEF LoneWorker, Filling
  <2> QED
    BY <1>5, <2>2, <2>3, <2>4, <2>6
<1>8. CASE StartCmd(p, u)
  <2>1. /\ UNCHANGED <<tmpDir, todo, dep, content>>
        /\ pc' = [pc EXCEPT ![p][u] = "cmd"] /\ pc[p][u] = "restore" /\ todo[p][u] = {}
    BY <1>2, <1>8 DEF StartCmd, MkdirAll
  <2>2. pc'[p][u] = "cmd"
    BY <2>1 DEF TypeOK, WorkerTypeOK
  <2>3. Expected(p, u)' = Expected(p, u)
    BY <2>1, <2>2 DEF Expected
  <2>4. Expected(p, u)' \subseteq content'[tmpDir[u]]
    BY <1>0, <2>1, <2>3 DEF LoneWorker, Filling
  <2> QED
    BY <1>5, <2>1, <2>2, <2>4
<1>9. CASE FinishCmd(p, u)
  <2>1. pc[p][u] = "cmd" /\ {<<p, d>> : d \in Deps[u]} \subseteq AtPath(u)
    BY <1>0, <1>2, <1>9 DEF FinishCmd, LoneWorker, Expected, Filling
  <2>2. InputsReadable(u)
    <3> SUFFICES ASSUME NEW d \in Deps[u] PROVE \E it \in AtPath(u) : it[2] = d
      BY <1>2 DEF InputsReadable
    <3>1. <<p, d>> \in AtPath(u) /\ <<p, d>>[2] = d
      BY <2>1
    <3> QED
      BY <3>1
  <2>3. /\ UNCHANGED <<tmpDir, dep>>
        /\ content' = [content EXCEPT ![tmpDir[u]] = @ \cup {<<p, OutFile>>}]
        /\ todo' = [todo EXCEPT ![p][u] = Out[u]]
        /\ pc' = [pc EXCEPT ![p][u] = "store"]
    BY <1>2, <1>9, <2>2 DEF FinishCmd, Alone
  <2>4. /\ pc'[p][u] = "store" /\ todo'[p][u] = Out[u]
        /\ content'[tmpDir[u]] = content[tmpDir[u]] \cup {<<p, OutFile>>}
    BY <1>2, <2>3 DEF TypeOK, DiskTypeOK, WorkerTypeOK
  <2>5. Expected(p, u)' = Expected(p, u) \cup {<<p, OutFile>>}
    BY <2>1, <2>4 DEF Expected
  <2>6. Expected(p, u)' \subseteq content'[tmpDir[u]]
    BY <1>0, <2>1, <2>4, <2>5 DEF LoneWorker, Filling
  <2>7. Out[u] \ todo'[p][u] \subseteq cas'
    BY <2>4
  <2> QED
    BY <1>5, <2>3, <2>4, <2>6, <2>7
<1>10. ASSUME NEW b \in Blob, StoreFileToCAS(p, u, b) PROVE LoneStep(p, u)
  <2>1. pc[p][u] = "store" /\ <<p, OutFile>> \in AtPath(u)
    BY <1>0, <1>2, <1>10 DEF StoreFileToCAS, LoneWorker, Expected, Filling
  <2>2. OutputsThere(u)
    BY <2>1 DEF OutputsThere
  <2>3. /\ UNCHANGED <<tmpDir, dep, pc, content>> /\ cas' = cas \cup {b}
        /\ todo' = [todo EXCEPT ![p][u] = @ \ {b}]
    BY <1>10, <2>2 DEF StoreFileToCAS
  <2>4. todo'[p][u] = todo[p][u] \ {b}
    BY <2>3 DEF TypeOK, WorkerTypeOK
  <2>5. Out[u] \ todo'[p][u] \subseteq cas'
    BY <1>0, <2>1, <2>3, <2>4 DEF LoneWorker, Filling
  <2>6. Expected(p, u)' = Expected(p, u)
    BY <2>1, <2>3 DEF Expected
  <2>7. Expected(p, u)' \subseteq content'[tmpDir[u]]
    BY <1>0, <2>1, <2>3, <2>6 DEF LoneWorker, Filling
  <2> QED
    BY <1>5, <2>1, <2>3, <2>5, <2>7
<1> QED
  BY <1>6, <1>7, <1>8, <1>9, <1>10, <1>11

(* The steps after the build: what is published is there, a failure stays  *)
(* a failure.                                                              *)
LEMMA LoneLeave ==
  ASSUME TypeOK, HealingInv, NEW p \in Proc, NEW u \in Uid,
         \/ Publish(p, u) \/ Heal(p, u)
         \/ MkdirGrb(p, u) \/ Discard(p, u) \/ RenameFails(p, u) \/ LstatTmp(p, u)
  PROVE  LoneStep(p, u)
<1> USE CacheAssumption DEF disk, procs, others, Goto
<1>0. LoneWorker(p, u) /\ LoneProcess(p) /\ OwnPaths
  BY DEF HealingInv
<1>1. /\ pc[p][u] \in {"store", "heal", "discard_ok", "discard_err", "rename_ok",
                       "rename_err", "lstat_ok", "lstat_err"}
      /\ UNCHANGED <<cas, ps, uidSet, installed, starts, todo, dep, content>>
      /\ UNCHANGED tmpDir \/ tmpDir' = [tmpDir EXCEPT ![u] = NoInode]
  BY DEF Publish, Heal, MkdirGrb, Discard, RenameFails, LstatTmp
<1>2. ps[p] = "build" /\ \A d \in Deps[u] : pc[p][d] = "done"
  BY <1>0, <1>1, LoneBuilds DEF LoneWorker, Busy
<1>3. \/ /\ pc[p][u] = "store" /\ todo[p][u] = {}
         /\ manifest' = [manifest EXCEPT ![u] = "good"]
         /\ pc' = [pc EXCEPT ![p][u] = "discard_ok"]
      \/ /\ pc[p][u] = "heal"
         /\ manifest' = [d \in Uid |-> IF d \in todo[p][u] THEN "none" ELSE manifest[d]]
         /\ pc' = [pc EXCEPT ![p][u] = "discard_err"]
      \/ /\ pc[p][u] \in {"discard_ok", "rename_ok", "lstat_ok"} /\ UNCHANGED manifest
         /\ \E s \in Passed \ {"done"} : pc' = [pc EXCEPT ![p][u] = s]
      \/ /\ pc[p][u] \in {"discard_err", "rename_err", "lstat_err"} /\ UNCHANGED manifest
         /\ \E s \in Errors : pc' = [pc EXCEPT ![p][u] = s]
  BY DEF Publish, Heal, MkdirGrb, Discard, RenameFails, LstatTmp, Outcome, Passed, Errors
<1>4. PICK s \in Passed \cup Errors :
        /\ pc' = [pc EXCEPT ![p][u] = s]
        /\ s # "done"
        /\ pc[p][u] \in Errors \cup {"heal"} => s \in Errors
        /\ pc[p][u] \notin Errors \cup {"heal"} => s \notin Errors
  BY <1>1, <1>3 DEF Passed, Errors
<1>5. pc'[p][u] = s
  BY <1>4 DEF TypeOK, WorkerTypeOK
<1>6. \A v \in Uid : \/ manifest'[v] = manifest[v]
                     \/ manifest'[v] = "none" /\ pc[p][u] = "heal"
                     \/ /\ v = u /\ pc[p][u] = "store" /\ manifest'[v] = "good"
                        /\ Out[u] \subseteq cas
  BY <1>0, <1>3 DEF LoneWorker, TypeOK, DiskTypeOK
<1>7. LoneMove(p, u) /\ OwnPaths'
  BY <1>0, <1>1, <1>2, <1>4, <1>6, LoneFrame
<1>8. LoneWorker(p, u)'
  <2>1. \A d \in Deps[u] : pc'[p][d] = "done"
    BY <1>1, <1>2, <1>7 DEF LoneMove
  <2>2. s \in Idle => todo'[p][u] = {}
    <3>1. pc[p][u] \in Idle => todo[p][u] = {}
      BY <1>0, <1>2 DEF LoneWorker
    <3>2. s \in Idle => pc[p][u] = "store" \/ pc[p][u] \in Idle
      BY <1>1, <1>4 DEF Idle, Passed, Errors
    <3>3. pc[p][u] = "store" => todo[p][u] = {}
      BY <1>3
    <3> QED
      BY <1>1, <3>1, <3>2, <3>3
  <2>3. s \notin {"heal"} \cup Filling /\ s \notin InTmp
    BY DEF Passed, Errors, InTmp, Building, Filling
  <2> QED
    BY <1>5, <2>1, <2>2, <2>3 DEF LoneWorker, Filling
<1>9. pc'[p][u] \in Errors => Failing(p) \/ pc[p][u] = "heal"
  BY <1>4, <1>5 DEF Failing
<1>10. pc[p][u] = "heal" => \A d \in todo[p][u] : manifest'[d] = "none"
  BY <1>0, <1>3 DEF LoneWorker
<1>11. pc'[p][u] \in Passed => manifest'[u] # "none" \/ pc[p][u] \in Passed
  <2>1. CASE pc[p][u] = "store"
    BY <1>3, <2>1 DEF TypeOK, DiskTypeOK
  <2>2. CASE pc[p][u] # "store"
    BY <1>1, <1>4, <1>5, <2>2 DEF Passed, Errors
  <2> QED
    BY <2>1, <2>2
<1> QED
  BY <1>1, <1>4, <1>5, <1>7, <1>8, <1>9, <1>10, <1>11 DEF LoneStep

LEMMA LoneWorkerStep ==
  ASSUME Alone, TypeOK, HealingInv, NEW p \in Proc, NEW u \in Uid, WorkerStep(p, u)
  PROVE  LoneStep(p, u)
BY LoneArrival, LoneBuild, LoneLeave DEF WorkerStep

(* There is no other process.                                              *)
LEMMA OneProcess ==
  ASSUME Alone, NEW p \in Proc, (Bad \subseteq MayBeBad)', OwnPaths',
         LoneProcess(p)', Account(p)', \A u \in Uid : LoneWorker(p, u)'
  PROVE  HealingInv'
<1>1. \A q \in Proc : q = p
  BY DEF Alone
<1>2. ASSUME NEW q \in Proc
      PROVE  LoneProcess(q)' /\ Account(q)' /\ \A u \in Uid : LoneWorker(q, u)'
  BY <1>1
<1> QED
  BY <1>2 DEF HealingInv

LEMMA WorkerAccount ==
  ASSUME Alone, TypeOK, HealingInv, NEW p \in Proc, NEW u \in Uid, LoneStep(p, u)
  PROVE  Account(p)' /\ Bad' \subseteq Bad
<1> USE CacheAssumption
<1>0. /\ LoneMove(p, u) /\ Account(p) /\ Bad \subseteq MayBeBad
      /\ \A v \in Uid : LoneWorker(p, v)
  BY DEF LoneStep, HealingInv
<1>1. Bad' \subseteq Bad
  BY <1>0 DEF LoneMove, Bad
<1>2. /\ Spent \in Nat /\ Spent' \in Nat /\ Spent' <= Spent
      /\ Bad' # Bad => Spent' <= Spent - 1
      /\ Cardinality(MayBeBad) \in Nat
  BY <1>0, <1>1, SpentFalls DEF LoneMove
<1>3. ps[p] = "build" /\ ps'[p] = "build" /\ uidSet'[p] = uidSet[p] /\ pc[p][u] # "done"
  BY <1>0 DEF LoneMove
<1>4. /\ Failing(p) => Spent <= Cardinality(MayBeBad)
      /\ ~Failing(p) => Unfailed(p)
  BY <1>0, <1>3 DEF Account, Working
<1>5. /\ Failing(p)' => Spent' <= Cardinality(MayBeBad)
      /\ ~Failing(p)' => Unfailed(p)'
  <2>1. CASE Failing(p)
    <3>1. Failing(p)'
      BY <1>0, <2>1 DEF Failing, LoneMove, LoneStep
    <3> QED
      BY <1>2, <1>4, <2>1, <3>1
  <2>2. CASE ~Failing(p) /\ Failing(p)'
    <3>1. pc[p][u] = "heal"
      BY <1>0, <2>2 DEF Failing, LoneMove, LoneStep
    <3>2. PICK d \in todo[p][u] : TRUE
      BY <1>0, <3>1 DEF LoneWorker
    <3>3. d \in Deps[u] /\ manifest[d] # "good" /\ pc[p][d] = "done"
      BY <1>0, <3>1 DEF LoneWorker, Busy
    <3>4. d \in Uid /\ manifest[d] = "bad"
      BY <1>4, <2>2, <3>3 DEF Unfailed, Passed, TypeOK, DiskTypeOK
    <3>5. manifest'[d] = "none"
      BY <3>1 DEF LoneStep
    <3>6. d \in Bad /\ d \notin Bad'
      BY <3>4, <3>5 DEF Bad
    <3>7. Spent <= Cardinality(MayBeBad) + 1
      BY <1>4, <2>2, <3>1, <3>6 DEF Unfailed
    <3> QED
      BY <1>2, <2>2, <3>6, <3>7
  <2>3. CASE ~Failing(p) /\ ~Failing(p)'
    <3>1. Unfailed(p) /\ pc[p][u] # "heal"
      BY <1>4, <2>3 DEF LoneStep, Failing
    <3>2. \A v \in Uid : manifest[v] # "none" => manifest'[v] # "none"
      BY <1>0, <3>1 DEF LoneMove
    <3>3. \A v \in Uid : pc'[p][v] \in Passed \/ v \in uidSet'[p] => manifest'[v] # "none"
      <4> SUFFICES ASSUME NEW v \in Uid, pc'[p][v] \in Passed \/ v \in uidSet'[p]
                   PROVE  manifest'[v] # "none"
        OBVIOUS
      <4>1. pc[p][v] \in Passed \/ v \in uidSet[p] => manifest'[v] # "none"
        BY <3>1, <3>2 DEF Unfailed
      <4>2. CASE v = u
        BY <1>3, <4>1, <4>2 DEF LoneStep
      <4>3. CASE v # u
        BY <1>0, <1>3, <4>1, <4>3 DEF LoneMove
      <4> QED
        BY <4>2, <4>3
    <3>4. \/ Spent' <= Cardinality(MayBeBad) + 1
          \/ Bad' = {}
          \/ Complete' /\ \A v \in Uid : pc'[p][v] \in {"new", "done"}
      <4>1. CASE Spent <= Cardinality(MayBeBad) + 1
        BY <1>2, <4>1
      <4>2. CASE Bad = {}
        BY <1>1, <4>2
      <4>3. CASE Complete /\ \A v \in Uid : pc[p][v] \in {"new", "done"}
        <5>1. pc[p][u] = "new" /\ manifest[u] # "none"
          BY <1>3, <4>3 DEF Complete
        <5>2. \A v \in Uid : manifest'[v] = manifest[v]
          BY <1>0, <5>1 DEF LoneMove
        <5>3. pc'[p][u] = "done"
          BY <5>1 DEF LoneStep
        <5>4. \A v \in Uid : pc'[p][v] \in {"new", "done"}
          BY <1>0, <4>3, <5>3 DEF LoneMove
        <5> QED
          BY <4>3, <5>2, <5>4 DEF Complete
      <4> QED
        BY <3>1, <4>1, <4>2, <4>3 DEF Unfailed
    <3> QED
      BY <2>3, <3>3, <3>4 DEF Unfailed
  <2> QED
    BY <2>1, <2>2, <2>3
<1> QED
  BY <1>1, <1>3, <1>5 DEF Account

LEMMA WorkerHeals ==
  ASSUME Alone, TypeOK, HealingInv, NEW p \in Proc, NEW u \in Uid, WorkerStep(p, u)
  PROVE  HealingInv'
<1>1. LoneStep(p, u) /\ LoneMove(p, u)
  BY LoneWorkerStep DEF LoneStep
<1>2. Account(p)' /\ Bad' \subseteq Bad
  BY <1>1, WorkerAccount
<1>3. \A v \in Uid : LoneWorker(p, v)'
  <2>1. ASSUME NEW v \in Uid, v # u PROVE LoneWorker(p, v)'
    BY <1>1, <2>1, OthersLone DEF HealingInv
  <2> QED
    BY <1>1, <2>1 DEF LoneStep
<1>4. LoneProcess(p)'
  <2>1. LoneProcess(p) /\ ps[p] = "build" /\ ps'[p] = "build" /\ installed'[p] = installed[p]
    BY <1>1 DEF HealingInv, LoneMove
  <2>2. ManifestBacked'
    BY <1>1, <2>1 DEF LoneProcess, LoneMove, ManifestBacked
  <2> QED
    BY <2>1, <2>2 DEF LoneProcess, Working
<1>5. Bad' \subseteq MayBeBad /\ OwnPaths'
  BY <1>1, <1>2 DEF HealingInv, LoneStep
<1> QED
  BY <1>2, <1>3, <1>4, <1>5, OneProcess
-----------------------------------------------------------------------------
(***************************************************************************)
(* The process.                                                            *)
(***************************************************************************)
(* A worker that has not begun, or has been passed over, asks for nothing. *)
LEMMA IdleWorker ==
  ASSUME NEW p \in Proc, NEW u \in Uid, pc'[p][u] \in {"new", "done"}, todo'[p][u] = {}
  PROVE  LoneWorker(p, u)'
BY DEF LoneWorker, Busy, InTmp, Building, Filling

LEMMA EndedAlone ==
  ASSUME TypeOK, HealingInv, NEW p \in Proc, NEW s \in {"failed", "ok"}, EndProcess(p, s),
         UNCHANGED <<cas, tmpDir>>, ps[p] \in Working,
         \A u \in Uid : manifest'[u] \in {manifest[u], "none"}
  PROVE  /\ ps'[p] = s /\ OwnPaths' /\ LoneProcess(p)' /\ Bad' \subseteq Bad
         /\ \A u \in Uid : LoneWorker(p, u)'
<1>1. ps'[p] = s /\ \A u \in Uid : pc'[p][u] = "new" /\ todo'[p][u] = {}
  BY DEF EndProcess, TypeOK, ProcTypeOK, WorkerTypeOK
<1>2. ManifestBacked'
  <2>1. ManifestBacked
    BY DEF HealingInv, LoneProcess, Working
  <2> QED
    BY <2>1 DEF ManifestBacked
<1>3. LoneProcess(p)'
  BY <1>1, <1>2 DEF LoneProcess, Working
<1>4. OwnPaths' /\ Bad' \subseteq Bad
  BY DEF HealingInv, OwnPaths, Bad
<1> QED
  BY <1>1, <1>3, <1>4, IdleWorker

(* A build that fails has paid for it.                                     *)
LEMMA FailureHeals ==
  ASSUME Alone, TypeOK, HealingInv, NEW p \in Proc,
         FatalException(p) \/ (RunReturns(p) /\ \E u \in Uid : pc[p][u] = "err")
  PROVE  HealingInv'
<1> USE CacheAssumption DEF others
<1>1. /\ ps[p] = "build" /\ EndProcess(p, "failed") /\ UNCHANGED <<cas, manifest, tmpDir, starts>>
      /\ \E u \in Uid : pc[p][u] = "err"
  BY DEF FatalException, RunReturns
<1>2. /\ ps'[p] = "failed" /\ OwnPaths' /\ LoneProcess(p)' /\ Bad' \subseteq Bad
      /\ \A u \in Uid : LoneWorker(p, u)'
  BY <1>1, EndedAlone DEF Working
<1>3. Spent <= Cardinality(MayBeBad)
  BY <1>1 DEF HealingInv, Account, Failing, Errors, Working
<1>4. Bad \subseteq MayBeBad
  BY DEF HealingInv
<1>5. Spent' <= Cardinality(MayBeBad)
  BY <1>1, <1>2, <1>3, <1>4, SpentFalls
<1>6. Account(p)'
  BY <1>2, <1>5 DEF Account, Working
<1> QED
  BY <1>2, <1>4, <1>6, OneProcess

LEMMA InstallHealHeals ==
  ASSUME Alone, TypeOK, HealingInv, NEW p \in Proc, InstallHeal(p)
  PROVE  HealingInv'
<1> USE CacheAssumption DEF others
<1>1. PICK r \in Root : todo[p][r] = {r} /\ manifest' = [manifest EXCEPT ![r] = "none"]
  BY DEF InstallHeal
<1>2. /\ ps[p] = "install_heal" /\ EndProcess(p, "failed") /\ UNCHANGED <<cas, tmpDir, starts>>
      /\ \A u \in Uid : manifest'[u] = IF u = r THEN "none" ELSE manifest[u]
  BY <1>1 DEF InstallHeal, TypeOK, DiskTypeOK
<1>3. /\ ps'[p] = "failed" /\ OwnPaths' /\ LoneProcess(p)' /\ Bad' \subseteq Bad
      /\ \A u \in Uid : LoneWorker(p, u)'
  BY <1>2, EndedAlone DEF Working
<1>4. Bad \subseteq MayBeBad /\ \A u \in Uid : pc[p][u] = "done"
  BY <1>2 DEF HealingInv, LoneProcess
<1>5. ~Failing(p)
  BY <1>4 DEF Failing, Errors
<1>6. Unfailed(p)
  BY <1>2, <1>5 DEF HealingInv, Account, Working
<1>7. r \in Uid /\ manifest[r] = "bad"
  <2>1. manifest[r] # "good"
    BY <1>1, <1>2 DEF HealingInv, LoneProcess
  <2>2. manifest[r] # "none"
    BY <1>4, <1>6 DEF Unfailed, Passed
  <2> QED
    BY <2>1, <2>2 DEF TypeOK, DiskTypeOK
<1>8. r \in Bad /\ r \notin Bad'
  BY <1>2, <1>7 DEF Bad
<1>9. Spent <= Cardinality(MayBeBad) + 1
  BY <1>6, <1>7, <1>8 DEF Unfailed, Complete
<1>10. Spent' <= Cardinality(MayBeBad)
  BY <1>2, <1>3, <1>4, <1>8, <1>9, SpentFalls
<1>11. Account(p)'
  BY <1>3, <1>10 DEF Account, Working
<1> QED
  BY <1>3, <1>4, <1>11, OneProcess

LEMMA SucceedHeals ==
  ASSUME Alone, TypeOK, HealingInv, NEW p \in Proc, Succeed(p)
  PROVE  HealingInv'
<1> USE CacheAssumption DEF others
<1>1. /\ ps[p] = "install" /\ EndProcess(p, "ok") /\ UNCHANGED <<cas, manifest, tmpDir>>
      /\ installed[p] = Root
  BY DEF Succeed
<1>2. /\ ps'[p] = "ok" /\ OwnPaths' /\ LoneProcess(p)' /\ Bad' \subseteq Bad
      /\ \A u \in Uid : LoneWorker(p, u)'
  BY <1>1, EndedAlone DEF Working
<1>3. /\ Bad \subseteq MayBeBad /\ \A u \in Uid : pc[p][u] = "done"
      /\ \A r \in Root : manifest[r] = "good"
  BY <1>1 DEF HealingInv, LoneProcess
<1>4. ~Failing(p)
  BY <1>3 DEF Failing, Errors
<1>5. Unfailed(p)
  BY <1>1, <1>4 DEF HealingInv, Account, Working
<1>6. Complete
  BY <1>3, <1>5 DEF Complete, Unfailed, Passed
<1>7. Account(p)'
  BY <1>1, <1>2, <1>6 DEF Account, Working, Complete
<1> QED
  BY <1>2, <1>3, <1>7, OneProcess

(* The account of a build that is under way and has not failed depends on  *)
(* the manifests, the starts and the workers.                              *)
LEMMA StillUnfailed ==
  ASSUME NEW p \in Proc, UNCHANGED <<manifest, starts, pc>>
  PROVE  /\ Bad' = Bad /\ Spent' = Spent /\ (Complete' <=> Complete)
         /\ (Failing(p)' <=> Failing(p))
         /\ UNCHANGED uidSet => (Unfailed(p)' <=> Unfailed(p))
<1>1. Bad' = Bad
  BY DEF Bad
<1>2. Spent' = Spent
  BY <1>1 DEF Spent
<1>3. Complete' <=> Complete
  BY DEF Complete
<1>4. Failing(p)' <=> Failing(p)
  BY DEF Failing
<1> QED
  BY <1>1, <1>2, <1>3, <1>4 DEF Unfailed

LEMMA InstallHeals ==
  ASSUME Alone, TypeOK, HealingInv, NEW p \in Proc,
         \/ RunReturns(p) /\ \A u \in Uid : pc[p][u] = "done"
         \/ \E r \in Root : InstallRoot(p, r)
  PROVE  HealingInv'
<1> USE CacheAssumption DEF others, disk
<1>1. /\ UNCHANGED <<cas, manifest, tmpDir, pc, uidSet, starts>>
      /\ \A u \in Uid : pc[p][u] = "done"
      /\ ps[p] \in {"build", "install"} /\ ps'[p] \in {"install", "install_heal"}
  <2>1. CASE RunReturns(p) /\ \A u \in Uid : pc[p][u] = "done"
    BY <2>1 DEF RunReturns, workers, TypeOK, ProcTypeOK
  <2>2. CASE \E r \in Root : InstallRoot(p, r)
    BY <2>2 DEF InstallRoot, HealingInv, LoneProcess, TypeOK, ProcTypeOK
  <2> QED
    BY <2>1, <2>2
<1>2. LoneProcess(p) /\ Account(p) /\ \A u \in Uid : LoneWorker(p, u)
  BY DEF HealingInv
<1>3. OwnPaths' /\ ManifestBacked' /\ (Bad \subseteq MayBeBad)'
  BY <1>1, <1>2 DEF HealingInv, OwnPaths, ManifestBacked, LoneProcess, Bad
<1>4. Account(p)'
  BY <1>1, <1>2, StillUnfailed DEF Account, Working
<1>5. \A u \in Uid : todo[p][u] = {}
  BY <1>1, <1>2 DEF LoneWorker, Idle, Passed
<1>6. CASE ps'[p] = "install"
  <2>1. UNCHANGED todo /\ \A r \in installed'[p] : manifest[r] = "good"
    <3>1. CASE RunReturns(p) /\ \A u \in Uid : pc[p][u] = "done"
      BY <1>2, <3>1 DEF RunReturns, workers, LoneProcess
    <3>2. ASSUME NEW r \in Root, InstallRoot(p, r)
          PROVE  UNCHANGED todo /\ \A x \in installed'[p] : manifest[x] = "good"
      BY <1>2, <1>6, <3>2 DEF InstallRoot, LoneProcess, TypeOK, ProcTypeOK
    <3> QED
      BY <3>1, <3>2
  <2>2. LoneProcess(p)'
    BY <1>1, <1>3, <1>6, <2>1 DEF LoneProcess, Working
  <2>3. \A u \in Uid : LoneWorker(p, u)'
    BY <1>1, <1>5, <2>1, IdleWorker
  <2> QED
    BY <1>3, <1>4, <2>2, <2>3, OneProcess
<1>7. CASE ps'[p] = "install_heal"
  <2>1. PICK r \in Root : InstallRoot(p, r)
    BY <1>7 DEF RunReturns, TypeOK, ProcTypeOK
  <2>2. manifest[r] # "good" /\ todo' = [todo EXCEPT ![p][r] = {r}]
    BY <1>7, <2>1 DEF InstallRoot, TypeOK, ProcTypeOK
  <2>3. \A x \in Uid : x # r => todo'[p][x] = {}
    BY <1>5, <2>2 DEF TypeOK, WorkerTypeOK
  <2>4. LoneProcess(p)'
    BY <1>1, <1>3, <1>7, <2>2, <2>3 DEF LoneProcess, Working
  <2>5. \A u \in Uid : LoneWorker(p, u)'
    BY <1>1, <1>7 DEF LoneWorker, Busy, InTmp, Building, Filling
  <2> QED
    BY <1>3, <1>4, <2>4, <2>5, OneProcess
<1> QED
  BY <1>1, <1>6, <1>7

(* Before the build: the account of a process that has no workers yet.     *)
LEMMA BeginningHeals ==
  ASSUME Alone, TypeOK, HealingInv, NEW p \in Proc,
         Start(p) \/ ClearCache(p) \/ LoadUidSet(p)
  PROVE  HealingInv'
<1> USE CacheAssumption DEF disk, workers, others
<1>1. /\ UNCHANGED workers
      /\ ps[p] \in {"down", "failed", "ok", "clear_cas", "clear_tmp", "clear_uid", "load"}
      /\ \A u \in Uid : manifest'[u] \in {manifest[u], "none"}
      /\ UNCHANGED tmpDir \/ tmpDir' = [u \in Uid |-> NoInode]
  BY DEF Start, ClearCache, LoadUidSet, TypeOK, DiskTypeOK
<1>2. LoneProcess(p) /\ Account(p) /\ Bad \subseteq MayBeBad /\ \A u \in Uid : LoneWorker(p, u)
  BY DEF HealingInv
<1>3. \A u \in Uid : pc[p][u] = "new" /\ todo[p][u] = {}
  BY <1>1, <1>2 DEF LoneProcess, LoneWorker, Working, Idle
<1>4. \A u \in Uid : pc'[p][u] = "new" /\ LoneWorker(p, u)'
  BY <1>1, <1>3, IdleWorker
<1>5. OwnPaths' /\ Bad' \subseteq Bad
  BY <1>1 DEF HealingInv, OwnPaths, Bad
<1>6. ~Failing(p) /\ ~Failing(p)'
  BY <1>3, <1>4 DEF Failing, Errors
<1>7. CASE Start(p)
  <2>1. /\ ps'[p] \in {"load", "clear_cas"} /\ uidSet'[p] = {} /\ installed'[p] = {}
        /\ UNCHANGED <<manifest, cas, pc>> /\ starts' = starts + 1
        /\ ps[p] \in {"down", "failed", "ok"}
    BY <1>7 DEF Start, TypeOK, ProcTypeOK
  <2>2. LoneProcess(p)'
    BY <1>2, <1>4, <2>1 DEF LoneProcess, ManifestBacked, Working
  <2>3. CASE ps[p] = "ok"
    <3>1. Complete'
      BY <1>2, <2>1, <2>3 DEF Account, Complete
    <3>2. Unfailed(p)'
      BY <1>4, <2>1, <3>1 DEF Unfailed, Passed
    <3>3. Account(p)'
      BY <1>6, <2>1, <3>2 DEF Account, Working
    <3> QED
      BY <1>2, <1>4, <1>5, <2>2, <3>3, OneProcess
  <2>4. CASE ps[p] \in {"down", "failed"}
    <3>1. PICK B : B = Bad
      OBVIOUS
    <3>2. Bad' = B
      BY <2>1, <3>1 DEF Bad
    <3>3. IsFiniteSet(B) /\ Cardinality(B) \in Nat /\ Cardinality(MayBeBad) \in Nat
      BY <1>2, <3>1, FS_Subset, FS_CardinalityType DEF Alone
    <3>4. /\ starts \in Nat /\ Spent = starts + Cardinality(B)
          /\ Spent' = starts + 1 + Cardinality(B)
      BY <2>1, <3>1, <3>2 DEF Spent, TypeOK, ProcTypeOK
    <3>5. Spent <= Cardinality(MayBeBad)
      BY <1>2, <2>4 DEF Account
    <3>6. Spent' <= Cardinality(MayBeBad) + 1
      BY <3>3, <3>4, <3>5
    <3>7. Unfailed(p)'
      BY <1>4, <2>1, <3>6 DEF Unfailed, Passed
    <3>8. Account(p)'
      BY <1>6, <2>1, <3>7 DEF Account, Working
    <3> QED
      BY <1>2, <1>4, <1>5, <2>2, <3>8, OneProcess
  <2> QED
    BY <2>1, <2>3, <2>4
<1>8. CASE ClearCache(p)
  <2>1. uidSet'[p] = {} /\ installed'[p] = {}
    BY <1>2, <1>8 DEF ClearCache, LoneProcess
  <2>2. CASE ps[p] \in {"clear_cas", "clear_tmp"}
    <3>1. ps'[p] \in {"clear_tmp", "clear_uid"}
      BY <1>8, <2>2 DEF ClearCache, TypeOK, ProcTypeOK
    <3>2. LoneProcess(p)' /\ Account(p)'
      BY <1>4, <2>1, <3>1 DEF LoneProcess, Account, Working
    <3> QED
      BY <1>2, <1>4, <1>5, <3>2, OneProcess
  <2>3. CASE ps[p] = "clear_uid"
    <3>1. ps'[p] = "load" /\ \A u \in Uid : manifest'[u] = "none"
      BY <1>8, <2>3 DEF ClearCache, TypeOK, ProcTypeOK
    <3>2. LoneProcess(p)'
      BY <1>4, <2>1, <3>1 DEF LoneProcess, ManifestBacked, Working
    <3>3. Bad' = {}
      BY <3>1 DEF Bad
    <3>4. Unfailed(p)'
      BY <1>4, <2>1, <3>3 DEF Unfailed, Passed
    <3>5. Account(p)'
      BY <1>6, <3>1, <3>4 DEF Account, Working
    <3> QED
      BY <1>2, <1>4, <1>5, <3>2, <3>5, OneProcess
  <2> QED
    BY <1>8, <2>2, <2>3 DEF ClearCache
<1>9. CASE LoadUidSet(p)
  <2>1. /\ ps[p] = "load" /\ ps'[p] = "build" /\ UNCHANGED <<manifest, cas, pc, installed, starts>>
        /\ uidSet'[p] = {u \in Uid : manifest[u] # "none"}
    BY <1>9 DEF LoadUidSet, TypeOK, ProcTypeOK
  <2>2. LoneProcess(p)'
    BY <1>2, <1>4, <2>1 DEF LoneProcess, ManifestBacked, Working
  <2>3. Unfailed(p)
    BY <1>2, <1>6, <2>1 DEF Account
  <2>4. Bad' = Bad /\ Spent' = Spent /\ (Complete' <=> Complete)
    BY <2>1, StillUnfailed
  <2>5. Unfailed(p)'
    BY <1>4, <2>1, <2>3, <2>4 DEF Unfailed, Passed
  <2>6. Account(p)'
    BY <1>6, <2>1, <2>5 DEF Account, Working
  <2> QED
    BY <1>2, <1>4, <1>5, <2>2, <2>6, OneProcess
<1> QED
  BY <1>7, <1>8, <1>9

(* What happens around the process does not touch the account.             *)
LEMMA OutsideHeals ==
  ASSUME Alone, TypeOK, HealingInv,
         (\E u \in Uid : OrphanExits(u)) \/ GarbageCollector \/ UNCHANGED vars
  PROVE  HealingInv'
<1> USE CacheAssumption DEF disk, procs, workers, others, vars
<1>1. /\ UNCHANGED <<cas, manifest, tmpDir, procs, workers, starts>>
      /\ \A i \in Inode : content[i] \subseteq content'[i]
  <2>1. UNCHANGED <<cas, manifest, tmpDir, procs, workers, starts>>
    BY DEF OrphanExits, GarbageCollector
  <2>2. CASE \E u \in Uid : OrphanExits(u)
    BY <2>2 DEF OrphanExits, TypeOK, DiskTypeOK
  <2>3. CASE GarbageCollector \/ UNCHANGED vars
    BY <2>3 DEF GarbageCollector
  <2> QED
    BY <2>1, <2>2, <2>3
<1>2. CASE Proc = {}
  BY <1>1, <1>2 DEF HealingInv, Bad, OwnPaths
<1>3. ASSUME NEW p \in Proc PROVE HealingInv'
  <2>1. OwnPaths' /\ (Bad \subseteq MayBeBad)'
    BY <1>1 DEF HealingInv, OwnPaths, Bad
  <2>2. LoneProcess(p)'
    BY <1>1 DEF HealingInv, LoneProcess, ManifestBacked
  <2>3. Account(p)'
    BY <1>1, StillUnfailed DEF HealingInv, Account
  <2>4. ASSUME NEW u \in Uid PROVE LoneWorker(p, u)'
    <3>1. LoneWorker(p, u) /\ Expected(p, u)' = Expected(p, u)
      BY <1>1 DEF HealingInv, Expected
    <3>2. pc[p][u] \in Filling =>
            Expected(p, u)' \subseteq content'[tmpDir[u]]
      BY <1>1, <3>1 DEF LoneWorker, InTmp, Building, Filling
    <3> QED
      BY <1>1, <3>1, <3>2 DEF LoneWorker
  <2> QED
    BY <2>1, <2>2, <2>3, <2>4, OneProcess
<1> QED
  BY <1>2, <1>3
-----------------------------------------------------------------------------
LEMMA InitHeals ==
  ASSUME Alone, Init
  PROVE  HealingInv
<1> USE CacheAssumption
<1>1. Bad \subseteq MayBeBad
  BY DEF Init, Bad
<1>2. OwnPaths /\ ManifestBacked
  BY DEF Init, OwnPaths, ManifestBacked
<1>3. Spent <= Cardinality(MayBeBad)
  <2>1. Cardinality(Bad) \in Nat /\ Cardinality(Bad) <= Cardinality(MayBeBad)
    BY <1>1, FewerOrAsMany DEF Alone
  <2> QED
    BY <2>1 DEF Init, Spent
<1>4. ASSUME NEW p \in Proc PROVE LoneProcess(p) /\ Account(p)
  BY <1>2, <1>3, <1>4 DEF Init, LoneProcess, Account, Working
<1>5. ASSUME NEW p \in Proc, NEW u \in Uid PROVE LoneWorker(p, u)
  BY <1>5 DEF Init, LoneWorker, Busy, InTmp, Building, Filling
<1> QED
  BY <1>1, <1>2, <1>4, <1>5 DEF HealingInv

LEMMA StepHeals ==
  ASSUME Alone, TypeOK, HealingInv, [Next]_vars
  PROVE  HealingInv'
<1>1. ASSUME NEW p \in Proc, Crash(p) PROVE FALSE
  BY <1>1 DEF Crash, Alone, TypeOK, ProcTypeOK
<1>2. ASSUME NEW p \in Proc, Start(p) \/ ProcessStep(p) PROVE HealingInv'
  <2>1. ASSUME RunReturns(p) PROVE HealingInv'
    <3>1. (\A u \in Uid : pc[p][u] = "done") \/ (\E u \in Uid : pc[p][u] = "err")
      BY <2>1 DEF RunReturns
    <3> QED
      BY <2>1, <3>1, InstallHeals, FailureHeals
  <2> QED
    BY <1>2, <2>1, BeginningHeals, FailureHeals, InstallHeals, InstallHealHeals, SucceedHeals
       DEF ProcessStep
<1>3. ASSUME NEW p \in Proc, NEW u \in Uid, WorkerStep(p, u) PROVE HealingInv'
  BY <1>3, WorkerHeals
<1>4. CASE (\E u \in Uid : OrphanExits(u)) \/ GarbageCollector \/ AtRest \/ UNCHANGED vars
  BY <1>4, OutsideHeals DEF AtRest
<1> QED
  BY <1>1, <1>2, <1>3, <1>4 DEF Next

(* The account is kept: for a process that uses the cache alone, whatever  *)
(* manifests are malformed at the beginning (executor.go restoreInto,      *)
(* cmdMake), the starts and the malformed manifests left are balanced in   *)
(* every state.                                                            *)
THEOREM HealingInvariant ==
  ASSUME Alone
  PROVE  Spec => [](TypeOK /\ HealingInv)
<1>1. Init => HealingInv
  BY InitHeals
<1>2. TypeOK /\ HealingInv /\ [Next]_vars => HealingInv'
  BY StepHeals
<1> QED
  BY <1>1, <1>2, TypeCorrect, PTL DEF Spec

(* A build that meets a malformed manifest fails and removes it            *)
(* (restoreInto), so a cache with n malformed manifests makes at most n    *)
(* builds fail.                                                            *)
THEOREM HealsAfterFailuresHolds ==
  ASSUME Alone
  PROVE  Spec => []HealsAfterFailures
<1>1. TypeOK /\ HealingInv => HealsAfterFailures
  <2> SUFFICES ASSUME TypeOK, HealingInv, NEW p \in Proc, ps[p] = "failed"
               PROVE  ~(starts > Cardinality(MayBeBad))
    BY DEF HealsAfterFailures
  <2>1. Bad \subseteq MayBeBad /\ Spent <= Cardinality(MayBeBad)
    BY DEF HealingInv, Account
  <2>2. Cardinality(Bad) \in Nat /\ Cardinality(MayBeBad) \in Nat
    BY <2>1, FewerOrAsMany, FS_CardinalityType DEF Alone
  <2> QED
    BY <2>1, <2>2 DEF Spent, TypeOK, ProcTypeOK
<1> QED
  BY <1>1, HealingInvariant, PTL

(* What installRoot links to is in cas/, also for a process that clears    *)
(* the cache before it builds: the order in which clearCache discards cas, *)
(* tmp and uid cannot be seen by a process that has the cache to itself.   *)
THEOREM InstalledReadableAlone ==
  ASSUME Alone
  PROVE  Spec => InstalledReadable
<1>1. TypeOK /\ HealingInv /\ [Next]_vars =>
        [\A p \in Proc, r \in Root :
           r \notin installed[p] /\ r \in installed'[p] => Out[r] \subseteq cas]_vars
  <2> SUFFICES ASSUME TypeOK, HealingInv, [Next]_vars, NEW p \in Proc, NEW r \in Root,
                      r \notin installed[p], r \in installed'[p]
               PROVE  Out[r] \subseteq cas
    OBVIOUS
  <2>1. ASSUME NEW q \in Proc, NEW x \in Root, InstallRoot(q, x)
        PROVE  Out[r] \subseteq cas
    <3>1. x = r /\ q = p /\ ps[p] = "install" /\ manifest[r] = "good"
      BY <2>1 DEF InstallRoot, TypeOK, ProcTypeOK
    <3>2. ManifestBacked
      BY <3>1 DEF HealingInv, LoneProcess
    <3> QED
      BY <3>1, <3>2, CacheAssumption DEF ManifestBacked
  <2>2. CASE \E q \in Proc : Start(q)
    BY <2>2 DEF Start, TypeOK, ProcTypeOK
  <2>3. ASSUME UNCHANGED installed PROVE FALSE
    BY <2>3
  <2>4. ASSUME NEW q \in Proc, ProcessStep(q) PROVE Out[r] \subseteq cas
    BY <2>1, <2>3, <2>4 DEF ProcessStep, ClearCache, LoadUidSet, FatalException, RunReturns,
                            InstallHeal, Succeed
  <2>5. ASSUME NEW q \in Proc, NEW u \in Uid, WorkerStep(q, u) PROVE FALSE
    BY <2>3, <2>5, LoneWorkerStep DEF LoneStep, LoneMove
  <2>6. CASE \/ (\E q \in Proc : Crash(q)) \/ (\E u \in Uid : OrphanExits(u))
             \/ GarbageCollector \/ AtRest \/ UNCHANGED vars
    BY <2>3, <2>6 DEF Crash, OrphanExits, GarbageCollector, AtRest, procs, vars
  <2> QED
    BY <2>2, <2>4, <2>5, <2>6 DEF Next
<1> QED
  BY <1>1, HealingInvariant, PTL DEF InstalledReadable, Spec
=============================================================================
