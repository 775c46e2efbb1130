-------------------------- MODULE Workspace_proof --------------------------
(***************************************************************************)
(* Proofs about the workspaces tmp/<uid> of BuildCache: the builders of a  *)
(* node exclude each other, build it from what they restored themselves,   *)
(* build it once, and nobody loses a manifest that others rely on.         *)
(*                                                                         *)
(* The flock is taken on a directory and the work is done at a path.  The  *)
(* two agree as long as nobody renames the path away from under a waiter   *)
(* that will go on to build: a builder renames it after publishing, and    *)
(* then the waiter finds the manifest.  A builder that fails renames it    *)
(* without publishing.  The invariant therefore speaks of the time before  *)
(* a command has failed by itself, and the rest of the argument is that    *)
(* until then nothing else makes a builder fail.  Afterwards none of this  *)
(* holds: two builders meet in a workspace, and a restore that finds it    *)
(* gone removes a good manifest.                                           *)
(***************************************************************************)
EXTENDS BuildCache_proof

Building == {"wipe", "restore", "link", "cmd", "store"}
Filling == {"restore", "link", "cmd", "store"}

(* A directory has been the workspace of one node only.                    *)
InodeInv ==
  /\ \A u, v \in Uid : tmpDir[u] \in Inode /\ tmpDir[u] = tmpDir[v] => u = v
  /\ \A p \in Proc, u, v \in Uid : fd[p][u] \in Inode /\ fd[p][u] = tmpDir[v] => u = v
  /\ \A p, q \in Proc, u, v \in Uid : fd[p][u] \in Inode /\ fd[p][u] = fd[q][v] => u = v

LockInv(p, u) ==
  /\ pc[p][u] \in Opened => fd[p][u] \in Inode
  /\ pc[p][u] \in Held => lock[fd[p][u]] = p

(* The path names the directory that is locked, or the manifest is there.  *)
PathInv(p, u) ==
  /\ pc[p][u] \notin {"heal", "discard_err", "rename_err", "lstat_err", "close_err"}
  /\ pc[p][u] \in Critical => tmpDir[u] = fd[p][u]
  /\ pc[p][u] \in {"lock", "stat"} /\ manifest[u] = "none" => tmpDir[u] = fd[p][u]
  /\ pc[p][u] \in Building => manifest[u] = "none"

(* What the worker itself has put into its workspace so far.               *)
Expected(p, u) ==
  {<<p, d>> : d \in IF pc[p][u] \in {"restore", "link"} THEN Deps[u] \ todo[p][u] ELSE Deps[u]}
    \cup (IF pc[p][u] = "store" THEN {<<p, OutFile>>} ELSE {})

ContentInv(p, u) ==
  pc[p][u] \in Filling =>
    /\ Expected(p, u) \subseteq content[fd[p][u]]
    /\ KeepGoing => content[fd[p][u]] \subseteq Expected(p, u)

WorkerOK(p, u) == LockInv(p, u) /\ PathInv(p, u) /\ ContentInv(p, u)

WorkspaceInv ==
  /\ InodeInv
  /\ KeepGoing => orphan = {}
  /\ \A p \in Proc, u \in Uid : WorkerOK(p, u)
-----------------------------------------------------------------------------
LEMMA Exclusion ==
  ASSUME CacheAssumption, \A p \in Proc, u \in Uid : WorkerOK(p, u),
         NEW p \in Proc, NEW q \in Proc, NEW u \in Uid,
         pc[p][u] \in Critical, pc[q][u] \in Critical
  PROVE  p = q
<1>1. WorkerOK(p, u) /\ WorkerOK(q, u)
  OBVIOUS
<1> QED
  BY <1>1 DEF WorkerOK, LockInv, PathInv, Held

(* Where a step may create, rename, open or close a workspace.             *)
Creates(u, i) == tmpDir[u] = NoInode /\ FreeInode(i) /\ tmpDir' = [tmpDir EXCEPT ![u] = i]

LEMMA InodesKept ==
  ASSUME TypeOK, InodeInv, NEW p \in Proc, NEW u \in Uid,
         \/ UNCHANGED <<tmpDir, fd>>
         \/ UNCHANGED fd /\ \E i \in Inode : Creates(u, i)
         \/ UNCHANGED fd /\ tmpDir' = [tmpDir EXCEPT ![u] = NoInode]
         \/ UNCHANGED tmpDir /\ fd' = [fd EXCEPT ![p][u] = tmpDir[u]]
         \/ UNCHANGED tmpDir /\ fd' = [fd EXCEPT ![p][u] = NoInode]
         \/ UNCHANGED tmpDir /\ fd' = [fd EXCEPT ![p] = [v \in Uid |-> NoInode]]
  PROVE  InodeInv'
<1> USE CacheAssumption DEF TypeOK, DiskTypeOK, WorkerTypeOK
<1>1. CASE UNCHANGED <<tmpDir, fd>>
  BY <1>1 DEF InodeInv
<1>2. ASSUME UNCHANGED fd, NEW i \in Inode, Creates(u, i) PROVE InodeInv'
  <2>1. /\ tmpDir'[u] = i /\ \A v \in Uid : v # u => tmpDir'[v] = tmpDir[v]
        /\ \A v \in Uid : tmpDir[v] # i
        /\ \A q \in Proc, v \in Uid : fd[q][v] # i
    BY <1>2 DEF Creates, FreeInode
  <2>2. \A v, w \in Uid : tmpDir'[v] \in Inode /\ tmpDir'[v] = tmpDir'[w] => v = w
    BY <2>1 DEF InodeInv
  <2>3. \A q \in Proc, v, w \in Uid : fd[q][v] \in Inode /\ fd[q][v] = tmpDir'[w] => v = w
    BY <2>1 DEF InodeInv
  <2> QED
    BY <1>2, <2>2, <2>3 DEF InodeInv
<1>3. CASE UNCHANGED fd /\ tmpDir' = [tmpDir EXCEPT ![u] = NoInode]
  <2>1. tmpDir'[u] = NoInode /\ \A v \in Uid : v # u => tmpDir'[v] = tmpDir[v]
    BY <1>3
  <2> QED
    BY <1>3, <2>1 DEF InodeInv
<1>4. CASE UNCHANGED tmpDir /\ fd' = [fd EXCEPT ![p][u] = tmpDir[u]]
  <2>1. /\ fd'[p][u] = tmpDir[u]
        /\ \A q \in Proc, v \in Uid : q # p \/ v # u => fd'[q][v] = fd[q][v]
    BY <1>4
  <2> QED
    BY <1>4, <2>1 DEF InodeInv
<1>5. CASE UNCHANGED tmpDir /\ fd' = [fd EXCEPT ![p][u] = NoInode]
  <2>1. /\ fd'[p][u] = NoInode
        /\ \A q \in Proc, v \in Uid : q # p \/ v # u => fd'[q][v] = fd[q][v]
    BY <1>5
  <2> QED
    BY <1>5, <2>1 DEF InodeInv
<1>6. CASE UNCHANGED tmpDir /\ fd' = [fd EXCEPT ![p] = [v \in Uid |-> NoInode]]
  <2>1. \A q \in Proc, v \in Uid : fd'[q][v] = IF q = p THEN NoInode ELSE fd[q][v]
    BY <1>6
  <2> QED
    BY <1>6, <2>1 DEF InodeInv
<1> QED
  BY <1>1, <1>2, <1>3, <1>4, <1>5, <1>6
-----------------------------------------------------------------------------
(***************************************************************************)
(* A worker.  What its step leaves to the others is in OthersKept; what it *)
(* owes them is in WorkerOK.                                               *)
(***************************************************************************)
OthersKept(p, u) ==
  /\ \A q \in Proc, v \in Uid : q # p \/ v # u =>
       pc'[q][v] = pc[q][v] /\ fd'[q][v] = fd[q][v] /\ todo'[q][v] = todo[q][v]
  /\ \A i \in Inode : lock'[i] = lock[i] \/ (i = fd[p][u] /\ lock[i] \in {None, p})
  /\ \A v \in Uid : v # u =>
       /\ tmpDir'[v] = tmpDir[v] /\ manifest'[v] = manifest[v]
       /\ tmpDir[v] \in Inode => content'[tmpDir[v]] = content[tmpDir[v]]
  /\ pc[p][u] \notin Critical =>
       /\ manifest'[u] = manifest[u]
       /\ tmpDir[u] \in Inode =>
            tmpDir'[u] = tmpDir[u] /\ content'[tmpDir[u]] = content[tmpDir[u]]
  /\ pc[p][u] \in Critical /\ manifest'[u] = "none" =>
       tmpDir'[u] = tmpDir[u] /\ manifest[u] = "none"

LEMMA OthersAreOK ==
  ASSUME TypeOK, WorkspaceInv, NEW p \in Proc, NEW u \in Uid, OthersKept(p, u),
         NEW q \in Proc, NEW v \in Uid, q # p \/ v # u
  PROVE  WorkerOK(q, v)'
<1> USE CacheAssumption
<1>1. /\ pc'[q][v] = pc[q][v] /\ fd'[q][v] = fd[q][v] /\ todo'[q][v] = todo[q][v]
      /\ WorkerOK(q, v)
  BY DEF OthersKept, WorkspaceInv
<1>2. LockInv(q, v)'
  <2> SUFFICES ASSUME pc[q][v] \in Held PROVE lock'[fd[q][v]] = q
    BY <1>1 DEF LockInv, WorkerOK
  <2>1. fd[q][v] \in Inode /\ lock[fd[q][v]] = q
    BY <1>1 DEF WorkerOK, LockInv, Opened
  <2>2. fd[q][v] = fd[p][u] => q # p
    BY <2>1 DEF WorkspaceInv, InodeInv
  <2> QED
    BY <2>1, <2>2 DEF OthersKept
<1>3. ASSUME pc[q][v] \in Critical
      PROVE  /\ tmpDir'[v] = tmpDir[v] /\ manifest'[v] = manifest[v]
             /\ content'[tmpDir[v]] = content[tmpDir[v]]
  <2>1. tmpDir[v] \in Inode
    BY <1>1, <1>3 DEF WorkerOK, LockInv, PathInv, Opened, Held
  <2>2. v = u => pc[p][u] \notin Critical
    BY <1>3, Exclusion DEF WorkspaceInv
  <2> QED
    BY <2>1, <2>2 DEF OthersKept
<1>4. ASSUME pc[q][v] \in {"lock", "stat"}, manifest'[v] = "none"
      PROVE  tmpDir'[v] = fd[q][v]
  <2>1. manifest[v] = "none"
    BY <1>4 DEF OthersKept
  <2>2. tmpDir[v] = fd[q][v] /\ tmpDir[v] \in Inode
    BY <1>1, <1>4, <2>1 DEF WorkerOK, LockInv, PathInv, Opened, Held
  <2> QED
    BY <1>4, <2>2 DEF OthersKept
<1>5. PathInv(q, v)'
  BY <1>1, <1>3, <1>4 DEF WorkerOK, PathInv, Building, Critical
<1>6. ContentInv(q, v)'
  <2> SUFFICES ASSUME pc[q][v] \in Filling PROVE ContentInv(q, v)'
    BY <1>1 DEF ContentInv, Filling
  <2>1. pc[q][v] \in Critical
    BY DEF Critical, Filling
  <2>2. content'[fd[q][v]] = content[fd[q][v]]
    BY <1>1, <1>3, <2>1 DEF WorkerOK, PathInv
  <2>3. Expected(q, v)' = Expected(q, v)
    BY <1>1 DEF Expected
  <2> QED
    BY <1>1, <2>2, <2>3 DEF WorkerOK, ContentInv
<1> QED
  BY <1>2, <1>5, <1>6 DEF WorkerOK

LEMMA WorkerVars ==
  ASSUME TypeOK, NEW p \in Proc, NEW u \in Uid,
         UNCHANGED pc \/ \E x : pc' = [pc EXCEPT ![p][u] = x],
         UNCHANGED fd \/ \E x : fd' = [fd EXCEPT ![p][u] = x],
         UNCHANGED todo \/ \E x : todo' = [todo EXCEPT ![p][u] = x]
  PROVE  \A q \in Proc, v \in Uid : q # p \/ v # u =>
           pc'[q][v] = pc[q][v] /\ fd'[q][v] = fd[q][v] /\ todo'[q][v] = todo[q][v]
<1>1. ASSUME NEW q \in Proc, NEW v \in Uid, q # p \/ v # u PROVE pc'[q][v] = pc[q][v]
  BY <1>1 DEF TypeOK, WorkerTypeOK
<1>2. ASSUME NEW q \in Proc, NEW v \in Uid, q # p \/ v # u PROVE fd'[q][v] = fd[q][v]
  BY <1>2 DEF TypeOK, WorkerTypeOK
<1>3. ASSUME NEW q \in Proc, NEW v \in Uid, q # p \/ v # u PROVE todo'[q][v] = todo[q][v]
  BY <1>3 DEF TypeOK, WorkerTypeOK
<1> QED
  BY <1>1, <1>2, <1>3

(* A worker that does not own the workspace.                               *)
LEMMA OutsideKeeps ==
  ASSUME TypeOK, NEW p \in Proc, NEW u \in Uid, pc[p][u] \notin Critical,
         \E x : pc' = [pc EXCEPT ![p][u] = x],
         UNCHANGED fd \/ \E x : fd' = [fd EXCEPT ![p][u] = x],
         UNCHANGED <<todo, manifest>>,
         \/ UNCHANGED lock
         \/ fd[p][u] \in Inode /\ lock[fd[p][u]] \in {None, p}
              /\ \E x : lock' = [lock EXCEPT ![fd[p][u]] = x],
         \/ UNCHANGED <<tmpDir, content>>
         \/ \E i \in Inode : Creates(u, i) /\ content' = [content EXCEPT ![i] = {}]
  PROVE  OthersKept(p, u)
<1>1. \A q \in Proc, v \in Uid : q # p \/ v # u =>
        pc'[q][v] = pc[q][v] /\ fd'[q][v] = fd[q][v] /\ todo'[q][v] = todo[q][v]
  BY WorkerVars
<1>2. \A i \in Inode : lock'[i] = lock[i] \/ (i = fd[p][u] /\ lock[i] \in {None, p})
  <2>1. CASE UNCHANGED lock
    BY <2>1
  <2>2. ASSUME fd[p][u] \in Inode, lock[fd[p][u]] \in {None, p},
               NEW x, lock' = [lock EXCEPT ![fd[p][u]] = x], NEW i \in Inode
        PROVE  lock'[i] = lock[i] \/ (i = fd[p][u] /\ lock[i] \in {None, p})
    BY <2>2 DEF TypeOK, DiskTypeOK
  <2> QED
    BY <2>1, <2>2
<1>3. \A v \in Uid : /\ v # u \/ tmpDir[u] \in Inode => tmpDir'[v] = tmpDir[v]
                     /\ tmpDir[v] \in Inode => content'[tmpDir[v]] = content[tmpDir[v]]
  BY CacheAssumption DEF TypeOK, DiskTypeOK, Creates, FreeInode
<1> QED
  BY <1>1, <1>2, <1>3 DEF OthersKept

(* The owner, in its own workspace.                                        *)
LEMMA OwnerKeeps ==
  ASSUME TypeOK, InodeInv, NEW p \in Proc, NEW u \in Uid, pc[p][u] \in Critical,
         tmpDir[u] \in Inode,
         UNCHANGED pc \/ \E x : pc' = [pc EXCEPT ![p][u] = x],
         UNCHANGED todo \/ \E x : todo' = [todo EXCEPT ![p][u] = x],
         UNCHANGED <<fd, lock>>,
         UNCHANGED manifest \/ manifest' = [manifest EXCEPT ![u] = "good"],
         \/ UNCHANGED tmpDir
         \/ tmpDir' = [tmpDir EXCEPT ![u] = NoInode] /\ manifest'[u] # "none",
         UNCHANGED content \/ \E x : content' = [content EXCEPT ![tmpDir[u]] = x]
  PROVE  OthersKept(p, u)
<1>1. \A q \in Proc, v \in Uid : q # p \/ v # u =>
        pc'[q][v] = pc[q][v] /\ fd'[q][v] = fd[q][v] /\ todo'[q][v] = todo[q][v]
  BY WorkerVars
<1>2. \A v \in Uid : v # u => tmpDir'[v] = tmpDir[v] /\ manifest'[v] = manifest[v]
  BY DEF TypeOK, DiskTypeOK
<1>3. ASSUME NEW v \in Uid, v # u, tmpDir[v] \in Inode
      PROVE  content'[tmpDir[v]] = content[tmpDir[v]]
  <2>1. tmpDir[v] # tmpDir[u]
    BY <1>3 DEF InodeInv
  <2> QED
    BY <1>3, <2>1 DEF TypeOK, DiskTypeOK
<1>4. manifest'[u] = "none" => tmpDir'[u] = tmpDir[u] /\ manifest[u] = "none"
  BY DEF TypeOK, DiskTypeOK
<1> QED
  BY <1>1, <1>2, <1>3, <1>4 DEF OthersKept

WorkerStepOK(p, u) == OthersKept(p, u) /\ WorkerOK(p, u)' /\ InodeInv' /\ UNCHANGED orphan

(* Before the directory is open.                                           *)
LEMMA ArrivalOK ==
  ASSUME TypeOK, WorkspaceInv, NEW p \in Proc, NEW u \in Uid,
         \/ Prepare(p, u) \/ DepsVisited(p, u) \/ BrokenByDep(p, u)
         \/ MkdirTmp(p, u) \/ OpenTmp(p, u)
  PROVE  WorkerStepOK(p, u)
<1> USE CacheAssumption DEF TypeOK, DiskTypeOK, WorkerTypeOK, disk, procs, others, Goto
<1>1. CASE Prepare(p, u) \/ DepsVisited(p, u) \/ BrokenByDep(p, u)
  <2>1. UNCHANGED <<disk, fd, todo, orphan>> /\ pc[p][u] \in {"new", "wait"}
    BY <1>1 DEF Prepare, DepsVisited, BrokenByDep
  <2>2. PICK s \in {"done", "wait", "mkdir", "err"} : pc' = [pc EXCEPT ![p][u] = s]
    BY <1>1 DEF Prepare, DepsVisited, BrokenByDep
  <2>3. InodeInv'
    BY <2>1, InodesKept DEF WorkspaceInv
  <2>4. OthersKept(p, u)
    BY <2>1, <2>2, OutsideKeeps DEF Critical
  <2>5. WorkerOK(p, u)'
    BY <2>1, <2>2 DEF WorkerOK, LockInv, PathInv, ContentInv, Opened, Held, Critical, Building, Filling
  <2> QED
    BY <2>1, <2>3, <2>4, <2>5 DEF WorkerStepOK
<1>2. CASE MkdirTmp(p, u)
  <2>1. /\ UNCHANGED <<cas, manifest, lock, fd, todo, orphan>> /\ pc[p][u] = "mkdir"
        /\ pc' = [pc EXCEPT ![p][u] = "open"]
    BY <1>2 DEF MkdirTmp
  <2>2. \/ tmpDir[u] # NoInode /\ UNCHANGED <<tmpDir, content>>
        \/ \E i \in Inode : Creates(u, i) /\ content' = [content EXCEPT ![i] = {}]
    BY <1>2 DEF MkdirTmp, MkdirAll, Creates
  <2>3. InodeInv'
    BY <2>1, <2>2, InodesKept DEF WorkspaceInv
  <2>4. OthersKept(p, u)
    BY <2>1, <2>2, OutsideKeeps DEF Critical
  <2>5. WorkerOK(p, u)'
    BY <2>1 DEF WorkerOK, LockInv, PathInv, ContentInv, Opened, Held, Critical, Building, Filling
  <2> QED
    BY <2>1, <2>3, <2>4, <2>5 DEF WorkerStepOK
<1>3. CASE OpenTmp(p, u)
  <2>1. /\ UNCHANGED <<disk, todo, orphan>> /\ pc[p][u] = "open"
        /\ fd' = [fd EXCEPT ![p][u] = tmpDir[u]]
        /\ pc' = [pc EXCEPT ![p][u] = IF tmpDir[u] = NoInode THEN "err" ELSE "lock"]
    BY <1>3 DEF OpenTmp
  <2>2. InodeInv'
    BY <2>1, InodesKept DEF WorkspaceInv
  <2>3. OthersKept(p, u)
    BY <2>1, OutsideKeeps DEF Critical
  <2>4. WorkerOK(p, u)'
    BY <2>1 DEF WorkerOK, LockInv, PathInv, ContentInv, Opened, Held, Critical, Building, Filling
  <2> QED
    BY <2>1, <2>2, <2>3, <2>4 DEF WorkerStepOK
<1> QED
  BY <1>1, <1>2, <1>3

(* Under the lock, with the workspace left alone.                          *)
LEMMA LockOK ==
  ASSUME TypeOK, WorkspaceInv, NEW p \in Proc, NEW u \in Uid,
         Flock(p, u) \/ StatManifest(p, u) \/ CloseDir(p, u)
  PROVE  WorkerStepOK(p, u)
<1> USE CacheAssumption DEF TypeOK, DiskTypeOK, WorkerTypeOK, disk, procs, others, Goto
<1>0. WorkerOK(p, u)
  BY DEF WorkspaceInv
<1>1. CASE Flock(p, u)
  <2>1. /\ UNCHANGED <<manifest, tmpDir, content, fd, todo, orphan>> /\ pc[p][u] = "lock"
        /\ fd[p][u] \in Inode /\ lock[fd[p][u]] = None
        /\ lock' = [lock EXCEPT ![fd[p][u]] = p]
        /\ pc' = [pc EXCEPT ![p][u] = "stat"]
    BY <1>0, <1>1 DEF Flock, WorkerOK, LockInv, Opened
  <2>2. InodeInv'
    BY <2>1, InodesKept DEF WorkspaceInv
  <2>3. OthersKept(p, u)
    BY <2>1, OutsideKeeps DEF Critical
  <2>4. WorkerOK(p, u)'
    BY <1>0, <2>1 DEF WorkerOK, LockInv, PathInv, ContentInv, Opened, Held, Critical, Building, Filling
  <2> QED
    BY <2>1, <2>2, <2>3, <2>4 DEF WorkerStepOK
<1>2. CASE StatManifest(p, u)
  <2>1. /\ UNCHANGED <<disk, fd, todo, orphan>> /\ pc[p][u] = "stat"
        /\ pc' = [pc EXCEPT ![p][u] = IF manifest[u] # "none" THEN "close_ok" ELSE "wipe"]
    BY <1>2 DEF StatManifest
  <2>2. InodeInv'
    BY <2>1, InodesKept DEF WorkspaceInv
  <2>3. OthersKept(p, u)
    BY <2>1, OutsideKeeps DEF Critical
  <2>4. WorkerOK(p, u)'
    BY <1>0, <2>1 DEF WorkerOK, LockInv, PathInv, ContentInv, Opened, Held, Critical, Building, Filling
  <2> QED
    BY <2>1, <2>2, <2>3, <2>4 DEF WorkerStepOK
<1>3. CASE CloseDir(p, u)
  <2>1. /\ UNCHANGED <<manifest, tmpDir, content, todo, orphan>>
        /\ pc[p][u] \in {"close_ok", "close_err"}
        /\ fd[p][u] \in Inode /\ lock[fd[p][u]] = p
        /\ lock' = [lock EXCEPT ![fd[p][u]] = None]
        /\ fd' = [fd EXCEPT ![p][u] = NoInode]
    BY <1>0, <1>3 DEF CloseDir, WorkerOK, LockInv, Opened, Held
  <2>2. PICK s \in {"done", "err"} : pc' = [pc EXCEPT ![p][u] = s]
    BY <1>3 DEF CloseDir
  <2>3. InodeInv'
    BY <2>1, InodesKept DEF WorkspaceInv
  <2>4. OthersKept(p, u)
    BY <2>1, <2>2, OutsideKeeps DEF Critical
  <2>5. WorkerOK(p, u)'
    BY <2>1, <2>2 DEF WorkerOK, LockInv, PathInv, ContentInv, Opened, Held, Critical, Building, Filling
  <2> QED
    BY <2>1, <2>3, <2>4, <2>5 DEF WorkerStepOK
<1> QED
  BY <1>1, <1>2, <1>3

(* In the workspace: a wipe, the dependencies, the command, its outputs.   *)
LEMMA BuildOK ==
  ASSUME ~cmdFailed', TypeOK, CacheInv, WorkspaceInv, NEW p \in Proc, NEW u \in Uid,
         \/ RemoveContents(p, u) \/ (\E d \in Uid : RestoreInto(p, u, d))
         \/ LinkInto(p, u) \/ StartCmd(p, u) \/ FinishCmd(p, u)
         \/ (\E b \in Blob : StoreFileToCAS(p, u, b)) \/ Publish(p, u)
  PROVE  WorkerStepOK(p, u)
<1> USE CacheAssumption DEF disk, procs, others, Goto
<1>1. pc[p][u] \in Building /\ pc[p][u] \in Critical /\ pc[p][u] \in Held
  BY DEF RemoveContents, RestoreInto, LinkInto, StartCmd, FinishCmd, StoreFileToCAS, Publish,
         Building, Critical, Held
<1>2. /\ tmpDir[u] = fd[p][u] /\ tmpDir[u] \in Inode /\ tmpDir[u] # NoInode
      /\ lock[fd[p][u]] = p /\ manifest[u] = "none" /\ ContentInv(p, u) /\ InodeInv
  BY <1>1 DEF WorkspaceInv, WorkerOK, LockInv, PathInv, Opened
<1>3. AtPath(u) = content[tmpDir[u]]
  BY <1>2 DEF AtPath
<1>4. \A d \in Deps[u] : d \in Uid /\ manifest[d] = "good" /\ Out[d] \subseteq cas
  BY <1>1 DEF CacheInv, WorkerInv, DoneInv, ManifestBacked, Busy, Building
<1>5. ASSUME UNCHANGED <<fd, lock, tmpDir, manifest, orphan>>,
             pc'[p][u] \in Filling,
             UNCHANGED pc \/ \E x : pc' = [pc EXCEPT ![p][u] = x],
             UNCHANGED todo \/ \E x : todo' = [todo EXCEPT ![p][u] = x],
             UNCHANGED content \/ \E x : content' = [content EXCEPT ![tmpDir[u]] = x],
             ContentInv(p, u)'
      PROVE  WorkerStepOK(p, u)
  <2>1. OthersKept(p, u)
    BY <1>1, <1>2, <1>5, OwnerKeeps
  <2>2. InodeInv'
    BY <1>2, <1>5, InodesKept
  <2>3. LockInv(p, u)' /\ PathInv(p, u)'
    BY <1>2, <1>5 DEF LockInv, PathInv, Opened, Held, Critical, Building, Filling
  <2> QED
    BY <1>5, <2>1, <2>2, <2>3 DEF WorkerStepOK, WorkerOK
<1>6. CASE RemoveContents(p, u)
  <2>1. /\ UNCHANGED <<fd, lock, tmpDir, manifest, orphan>>
        /\ pc' = [pc EXCEPT ![p][u] = "restore"] /\ todo' = [todo EXCEPT ![p][u] = Deps[u]]
        /\ content' = [content EXCEPT ![tmpDir[u]] = {}]
    BY <1>2, <1>6 DEF RemoveContents
  <2>2. pc'[p][u] = "restore" /\ todo'[p][u] = Deps[u] /\ content'[tmpDir[u]] = {}
    BY <1>2, <2>1 DEF TypeOK, DiskTypeOK, WorkerTypeOK
  <2>3. ContentInv(p, u)'
    BY <1>2, <2>1, <2>2 DEF ContentInv, Expected, Filling
  <2> QED
    BY <1>5, <2>1, <2>2, <2>3 DEF Filling
<1>7. ASSUME NEW d \in Uid, RestoreInto(p, u, d) PROVE WorkerStepOK(p, u)
  <2>1. d \in todo[p][u] /\ pc[p][u] = "restore" /\ d \in Deps[u]
    BY <1>7 DEF RestoreInto, CacheInv, WorkerInv
  <2>2. /\ UNCHANGED <<fd, lock, tmpDir, content, manifest, orphan, todo>>
        /\ pc' = [pc EXCEPT ![p][u] = "link"]
    BY <1>2, <1>4, <1>7, <2>1 DEF RestoreInto, MkdirAll
  <2>3. pc'[p][u] = "link"
    BY <2>2 DEF TypeOK, WorkerTypeOK
  <2>4. Expected(p, u)' = Expected(p, u)
    BY <2>1, <2>2, <2>3 DEF Expected
  <2>5. ContentInv(p, u)'
    BY <1>2, <2>1, <2>2, <2>3, <2>4 DEF ContentInv, Filling
  <2> QED
    BY <1>5, <2>2, <2>3, <2>5 DEF Filling
<1>12. CASE LinkInto(p, u)
  <2>1. PICK d : d = dep[p][u] /\ d \in todo[p][u] /\ pc[p][u] = "link" /\ d \in Deps[u]
    BY <1>12 DEF LinkInto, CacheInv, WorkerInv
  <2>2. Linked(p, dep[p][u]) = {<<p, d>>}
    BY <1>4, <2>1 DEF Linked
  <2>3. /\ UNCHANGED <<fd, lock, tmpDir, manifest, orphan>>
        /\ pc' = [pc EXCEPT ![p][u] = "restore"]
        /\ todo' = [todo EXCEPT ![p][u] = @ \ {d}]
        /\ content' = [content EXCEPT ![tmpDir[u]] = @ \cup {<<p, d>>}]
    BY <1>2, <1>12, <2>1, <2>2 DEF LinkInto
  <2>4. /\ todo'[p][u] = todo[p][u] \ {d} /\ pc'[p][u] = "restore"
        /\ content'[tmpDir[u]] = content[tmpDir[u]] \cup {<<p, d>>}
    BY <1>2, <2>3 DEF TypeOK, DiskTypeOK, WorkerTypeOK
  <2>5. Expected(p, u)' = Expected(p, u) \cup {<<p, d>>}
    BY <2>1, <2>3, <2>4 DEF Expected
  <2>6. ContentInv(p, u)'
    BY <1>2, <2>1, <2>3, <2>4, <2>5 DEF ContentInv, Filling
  <2> QED
    BY <1>5, <2>3, <2>4, <2>6 DEF Filling
<1>8. CASE StartCmd(p, u)
  <2>1. /\ UNCHANGED <<fd, lock, tmpDir, manifest, orphan, todo, content>>
        /\ pc' = [pc EXCEPT ![p][u] = "cmd"] /\ pc[p][u] = "restore" /\ todo[p][u] = {}
    BY <1>2, <1>8 DEF StartCmd, MkdirAll
  <2>2. pc'[p][u] = "cmd"
    BY <2>1 DEF TypeOK, WorkerTypeOK
  <2>3. Expected(p, u)' = Expected(p, u)
    BY <2>1, <2>2 DEF Expected
  <2>4. ContentInv(p, u)'
    BY <1>2, <2>1, <2>2, <2>3 DEF ContentInv, Filling
  <2> QED
    BY <1>5, <2>1, <2>2, <2>4 DEF Filling
<1>9. CASE FinishCmd(p, u)
  <2>1. pc[p][u] = "cmd" /\ {<<p, d>> : d \in Deps[u]} \subseteq AtPath(u)
    BY <1>2, <1>3, <1>9 DEF FinishCmd, ContentInv, Expected, Filling
  <2>2. InputsReadable(u)
    <3> SUFFICES ASSUME NEW d \in Deps[u] PROVE \E it \in AtPath(u) : it[2] = d
      BY <1>2 DEF InputsReadable
    <3>1. <<p, d>> \in AtPath(u) /\ <<p, d>>[2] = d
      BY <2>1
    <3> QED
      BY <3>1
  <2>7. cmdFailed' # (cmdFailed \/ InputsReadable(u))
    BY <2>2, Zenon
  <2>3. /\ UNCHANGED <<fd, lock, tmpDir, manifest, orphan>>
        /\ content' = [content EXCEPT ![tmpDir[u]] = @ \cup {<<p, OutFile>>}]
        /\ todo' = [todo EXCEPT ![p][u] = Out[u]]
        /\ pc' = [pc EXCEPT ![p][u] = "store"]
    BY <1>2, <1>9, <2>2, <2>7 DEF FinishCmd
  <2>4. /\ pc'[p][u] = "store"
        /\ content'[tmpDir[u]] = content[tmpDir[u]] \cup {<<p, OutFile>>}
    BY <1>2, <2>3 DEF TypeOK, DiskTypeOK, WorkerTypeOK
  <2>5. Expected(p, u)' = Expected(p, u) \cup {<<p, OutFile>>}
    BY <2>1, <2>4 DEF Expected
  <2>6. ContentInv(p, u)'
    BY <1>2, <2>1, <2>3, <2>4, <2>5 DEF ContentInv, Filling
  <2> QED
    BY <1>5, <2>3, <2>4, <2>6 DEF Filling
<1>10. ASSUME NEW b \in Blob, StoreFileToCAS(p, u, b) PROVE WorkerStepOK(p, u)
  <2>1. pc[p][u] = "store" /\ <<p, OutFile>> \in AtPath(u)
    BY <1>2, <1>3, <1>10 DEF StoreFileToCAS, ContentInv, Expected, Filling
  <2>2. OutputsThere(u)
    BY <2>1 DEF OutputsThere
  <2>3. /\ UNCHANGED <<fd, lock, tmpDir, manifest, orphan, pc, content>>
        /\ todo' = [todo EXCEPT ![p][u] = @ \ {b}]
    BY <1>10, <2>2 DEF StoreFileToCAS
  <2>4. ContentInv(p, u)'
    BY <1>2, <2>1, <2>3 DEF ContentInv, Expected, Filling
  <2> QED
    BY <1>5, <2>1, <2>3, <2>4 DEF Filling
<1>11. CASE Publish(p, u)
  <2>1. /\ UNCHANGED <<fd, lock, tmpDir, orphan, todo, content>>
        /\ manifest' = [manifest EXCEPT ![u] = "good"]
        /\ pc' = [pc EXCEPT ![p][u] = "discard_ok"]
    BY <1>11 DEF Publish
  <2>2. pc'[p][u] = "discard_ok"
    BY <2>1 DEF TypeOK, WorkerTypeOK
  <2>3. OthersKept(p, u)
    BY <1>1, <1>2, <2>1, OwnerKeeps
  <2>4. InodeInv'
    BY <1>2, <2>1, InodesKept
  <2>5. WorkerOK(p, u)'
    BY <1>2, <2>1, <2>2 DEF WorkerOK, LockInv, PathInv, ContentInv, Opened, Held,
                            Critical, Building, Filling
  <2> QED
    BY <2>1, <2>3, <2>4, <2>5 DEF WorkerStepOK
<1> QED
  BY <1>6, <1>7, <1>8, <1>9, <1>10, <1>11, <1>12

(* discard, after the manifest is published.                               *)
LEMMA DiscardOK ==
  ASSUME TypeOK, CacheInv, WorkspaceInv, NEW p \in Proc, NEW u \in Uid,
         MkdirGrb(p, u) \/ Discard(p, u) \/ RenameFails(p, u) \/ LstatTmp(p, u)
  PROVE  WorkerStepOK(p, u)
<1> USE CacheAssumption DEF disk, procs, others, Goto
<1>1. pc[p][u] \in {"discard_ok", "rename_ok", "lstat_ok"}
  BY DEF MkdirGrb, Discard, RenameFails, LstatTmp, WorkspaceInv, WorkerOK, PathInv
<1>2. pc[p][u] \in Critical /\ pc[p][u] \in Held /\ Outcome(pc[p][u]) = "ok"
  BY <1>1 DEF Critical, Held, Outcome
<1>3. /\ tmpDir[u] = fd[p][u] /\ tmpDir[u] \in Inode /\ tmpDir[u] # NoInode
      /\ lock[fd[p][u]] = p /\ manifest[u] = "good" /\ InodeInv
  BY <1>1, <1>2 DEF WorkspaceInv, WorkerOK, LockInv, PathInv, Opened, CacheInv, DoneInv
<1>4. /\ UNCHANGED <<fd, lock, manifest, orphan, todo, content>>
      /\ UNCHANGED tmpDir \/ tmpDir' = [tmpDir EXCEPT ![u] = NoInode]
  BY DEF MkdirGrb, Discard, RenameFails, LstatTmp
<1>5. PICK s \in {"discard_ok", "rename_ok", "lstat_ok", "close_ok"} :
        /\ pc' = [pc EXCEPT ![p][u] = s]
        /\ s # "close_ok" => UNCHANGED tmpDir
  BY <1>2 DEF MkdirGrb, Discard, RenameFails, LstatTmp
<1>6. pc'[p][u] = s
  BY <1>5 DEF TypeOK, WorkerTypeOK
<1>7. OthersKept(p, u)
  BY <1>2, <1>3, <1>4, <1>5, OwnerKeeps
<1>8. InodeInv'
  BY <1>3, <1>4, InodesKept
<1>9. WorkerOK(p, u)'
  BY <1>3, <1>4, <1>5, <1>6 DEF WorkerOK, LockInv, PathInv, ContentInv, Opened, Held,
                                Critical, Building, Filling
<1> QED
  BY <1>4, <1>7, <1>8, <1>9 DEF WorkerStepOK

LEMMA WorkerStepKeeps ==
  ASSUME ~cmdFailed', TypeOK, CacheInv, WorkspaceInv,
         NEW p \in Proc, NEW u \in Uid, WorkerStep(p, u)
  PROVE  WorkspaceInv'
<1>1. ~Heal(p, u)
  BY DEF Heal, WorkspaceInv, WorkerOK, PathInv
<1>2. WorkerStepOK(p, u)
  BY <1>1, ArrivalOK, LockOK, BuildOK, DiscardOK DEF WorkerStep
<1> QED
  BY <1>2, OthersAreOK DEF WorkerStepOK, WorkspaceInv
-----------------------------------------------------------------------------
(***************************************************************************)
(* A process, and what outlives one.                                       *)
(***************************************************************************)
(* The end of a process, by itself or by a kill: its locks are free, what  *)
(* it left is nobody's, and the workspaces of the others are as they were. *)
LEMMA EndKeeps ==
  ASSUME TypeOK, WorkspaceInv, NEW p \in Proc, NEW s, EndProcess(p, s),
         UNCHANGED <<manifest, tmpDir>>, KeepGoing => UNCHANGED orphan
  PROVE  WorkspaceInv'
<1> USE CacheAssumption
<1>1. /\ lock' = Released(p) /\ content' = Disown(p)
      /\ fd' = [fd EXCEPT ![p] = [u \in Uid |-> NoInode]]
      /\ todo' = [todo EXCEPT ![p] = [u \in Uid |-> {}]]
      /\ pc' = [pc EXCEPT ![p] = [u \in Uid |-> "new"]]
  BY DEF EndProcess
<1>2. InodeInv'
  <2>1. CASE Uid = {}
    BY <2>1 DEF InodeInv
  <2>2. ASSUME NEW u \in Uid PROVE InodeInv'
    BY <1>1, InodesKept DEF WorkspaceInv
  <2> QED
    BY <2>1, <2>2
<1>3. ASSUME NEW u \in Uid PROVE WorkerOK(p, u)'
  <2>1. pc'[p][u] = "new"
    BY <1>1 DEF TypeOK, WorkerTypeOK
  <2> QED
    BY <2>1 DEF WorkerOK, LockInv, PathInv, ContentInv, Opened, Held, Critical, Building, Filling
<1>4. ASSUME NEW q \in Proc, NEW u \in Uid, q # p PROVE WorkerOK(q, u)'
  <2>1. pc'[q] = pc[q] /\ fd'[q] = fd[q] /\ todo'[q] = todo[q] /\ WorkerOK(q, u)
    BY <1>1, <1>4 DEF TypeOK, WorkerTypeOK, WorkspaceInv
  <2>2. LockInv(q, u)'
    <3>1. \A i \in Inode : lock[i] = q => lock'[i] = q
      BY <1>1, <1>4 DEF Released
    <3> QED
      BY <2>1, <3>1 DEF WorkerOK, LockInv, Opened
  <2>3. PathInv(q, u)'
    BY <2>1 DEF WorkerOK, PathInv
  <2>4. ContentInv(q, u)'
    <3> SUFFICES ASSUME pc[q][u] \in Filling PROVE ContentInv(q, u)'
      BY <2>1 DEF ContentInv, Filling
    <3>1. fd[q][u] \in Inode
      BY <2>1 DEF WorkerOK, LockInv, Opened, Held, Critical, Filling
    <3>2. PICK C : C = content[fd[q][u]]
      OBVIOUS
    <3>3. content'[fd[q][u]] = {IF it[1] = p THEN <<Dead, it[2]>> ELSE it : it \in C}
      BY <1>1, <3>1, <3>2 DEF Disown
    <3>4. PICK E : E = Expected(q, u) /\ E = Expected(q, u)'
      BY <2>1 DEF Expected
    <3>5. \A it \in E : it[1] # p
      BY <1>4, <3>4 DEF Expected
    <3>6. E \subseteq C /\ (KeepGoing => C \subseteq E)
      BY <2>1, <3>2, <3>4 DEF WorkerOK, ContentInv
    <3>7. E \subseteq content'[fd[q][u]] /\ (KeepGoing => content'[fd[q][u]] \subseteq E)
      BY <3>3, <3>5, <3>6
    <3> QED
      BY <2>1, <3>4, <3>7 DEF ContentInv, Filling
  <2> QED
    BY <2>2, <2>3, <2>4 DEF WorkerOK
<1> QED
  BY <1>2, <1>3, <1>4 DEF WorkspaceInv

LEMMA StillKeeps ==
  ASSUME WorkspaceInv, UNCHANGED <<tmpDir, fd, lock, content, manifest, pc, todo>>,
         KeepGoing => UNCHANGED orphan
  PROVE  WorkspaceInv'
<1>1. InodeInv'
  BY DEF WorkspaceInv, InodeInv
<1>2. ASSUME NEW p \in Proc, NEW u \in Uid PROVE WorkerOK(p, u)'
  BY DEF WorkspaceInv, WorkerOK, LockInv, PathInv, ContentInv, Expected
<1> QED
  BY <1>1, <1>2 DEF WorkspaceInv

LEMMA ProcessStepKeeps ==
  ASSUME TypeOK, CacheInv, WorkspaceInv, NEW p \in Proc,
         Start(p) \/ Crash(p) \/ ProcessStep(p)
  PROVE  WorkspaceInv'
<1> USE DEF disk, workers, others
<1>1. ASSUME ClearCache(p) \/ InstallHeal(p) PROVE FALSE
  BY <1>1 DEF ClearCache, InstallHeal, CacheInv, NoRemoval
<1>2. CASE Start(p) \/ LoadUidSet(p)
  BY <1>2, StillKeeps DEF Start, LoadUidSet
<1>3. CASE Crash(p) \/ Succeed(p)
  BY <1>3, EndKeeps DEF Crash, Succeed
<1>4. CASE FatalException(p)
  BY <1>4, EndKeeps DEF FatalException
<1>5. CASE RunReturns(p)
  <2>1. CASE EndProcess(p, "failed")
    BY <1>5, <2>1, EndKeeps DEF RunReturns
  <2>2. CASE UNCHANGED <<lock, content, workers>>
    BY <1>5, <2>2, StillKeeps DEF RunReturns
  <2> QED
    BY <1>5, <2>1, <2>2 DEF RunReturns
<1>6. ASSUME NEW r \in Root, InstallRoot(p, r) PROVE WorkspaceInv'
  <2>1. manifest[r] = "good"
    BY <1>6, CacheAssumption DEF InstallRoot, CacheInv, WorkerInv, DoneInv
  <2> QED
    BY <1>6, <2>1, StillKeeps DEF InstallRoot
<1> QED
  BY <1>1, <1>2, <1>3, <1>4, <1>5, <1>6 DEF ProcessStep

(* A command that outlives its process writes where a later builder works; *)
(* it takes nothing away.                                                  *)
LEMMA OrphanKeeps ==
  ASSUME TypeOK, WorkspaceInv, NEW v \in Uid, OrphanExits(v)
  PROVE  WorkspaceInv'
<1> USE CacheAssumption DEF procs, workers
<1>1. /\ ~KeepGoing /\ UNCHANGED <<tmpDir, fd, lock, manifest, pc, todo>>
      /\ \A i \in Inode : content[i] \subseteq content'[i]
  BY DEF OrphanExits, WorkspaceInv, TypeOK, DiskTypeOK
<1>2. InodeInv'
  BY <1>1 DEF WorkspaceInv, InodeInv
<1>3. ASSUME NEW p \in Proc, NEW u \in Uid PROVE WorkerOK(p, u)'
  <2>1. WorkerOK(p, u) /\ Expected(p, u)' = Expected(p, u)
    BY <1>1 DEF WorkspaceInv, Expected
  <2>2. LockInv(p, u)' /\ PathInv(p, u)'
    BY <1>1, <2>1 DEF WorkerOK, LockInv, PathInv
  <2>3. ContentInv(p, u)'
    BY <1>1, <2>1 DEF WorkerOK, ContentInv, LockInv, Opened, Held, Critical, Filling
  <2> QED
    BY <2>2, <2>3 DEF WorkerOK
<1> QED
  BY <1>1, <1>2, <1>3 DEF WorkspaceInv

LEMMA WorkspaceInvInit == Init => WorkspaceInv
<1> SUFFICES ASSUME Init PROVE WorkspaceInv
  OBVIOUS
<1>1. InodeInv
  BY CacheAssumption DEF Init, InodeInv
<1>2. ASSUME NEW p \in Proc, NEW u \in Uid PROVE WorkerOK(p, u)
  <2>1. pc[p][u] = "new"
    BY DEF Init
  <2> QED
    BY <2>1 DEF WorkerOK, LockInv, PathInv, ContentInv, Opened, Held, Critical, Building, Filling
<1> QED
  BY <1>1, <1>2 DEF Init, WorkspaceInv

LEMMA WorkspaceInvStep ==
  ASSUME ~cmdFailed', TypeOK, CacheInv, WorkspaceInv, [Next]_vars
  PROVE  WorkspaceInv'
<1>1. CASE GarbageCollector
  BY <1>1, StillKeeps DEF GarbageCollector, disk, workers
<1>2. CASE UNCHANGED vars
  BY <1>2, StillKeeps DEF vars
<1> QED
  BY <1>1, <1>2, WorkerStepKeeps, ProcessStepKeeps, OrphanKeeps DEF Next, AtRest

LEMMA FailureIsKept == [Next]_vars /\ cmdFailed => cmdFailed'
<1> SUFFICES ASSUME [Next]_vars PROVE UNCHANGED cmdFailed \/ (cmdFailed => cmdFailed')
  OBVIOUS
<1> USE DEF others
<1>1. ASSUME NEW p \in Proc, NEW u \in Uid, WorkerStep(p, u)
      PROVE  UNCHANGED cmdFailed \/ (cmdFailed => cmdFailed')
  <2>1. CASE FinishCmd(p, u)
    BY <2>1, Zenon DEF FinishCmd
  <2>2. FinishCmd(p, u) \/ UNCHANGED cmdFailed
    BY <1>1 DEF WorkerStep, Goto, Prepare, DepsVisited, BrokenByDep, MkdirTmp, OpenTmp, Flock,
      StatManifest, RemoveContents, RestoreInto, LinkInto, Heal, StartCmd, StoreFileToCAS,
      Publish, MkdirGrb, Discard, RenameFails, LstatTmp, CloseDir
  <2> QED
    BY <2>1, <2>2
<1>2. ASSUME NEW p \in Proc, Start(p) \/ Crash(p) \/ ProcessStep(p) PROVE UNCHANGED cmdFailed
  BY <1>2 DEF Start, Crash, ProcessStep, ClearCache, LoadUidSet, FatalException, RunReturns,
    InstallRoot, InstallHeal, Succeed, EndProcess
<1>3. ASSUME NEW v \in Uid, OrphanExits(v) PROVE UNCHANGED cmdFailed
  BY <1>3 DEF OrphanExits
<1>4. GarbageCollector \/ UNCHANGED vars => UNCHANGED cmdFailed
  BY DEF GarbageCollector, vars
<1> QED
  BY <1>1, <1>2, <1>3, <1>4 DEF Next, AtRest

(* The workspaces are in order, and manifests are only added.              *)
InOrder == ~cmdFailed => CacheInv /\ WorkspaceInv

(* Under every crash, every race and every command that outlives its       *)
(* process, the workspaces stay in order until a command fails by itself,  *)
(* and no other failure arises: what a process takes for built keeps its   *)
(* manifest (executor.go execute, restoreInto).                            *)
THEOREM WorkspaceInvariant == ASSUME GrowsOnly PROVE Spec => [](TypeOK /\ InOrder)
<1>1. Init => InOrder
  BY CacheInvInit, WorkspaceInvInit DEF InOrder
<1>2. ASSUME TypeOK, InOrder, [Next]_vars PROVE InOrder'
  <2> SUFFICES ASSUME ~cmdFailed' PROVE CacheInv' /\ WorkspaceInv'
    BY DEF InOrder
  <2>1. CacheInv /\ WorkspaceInv
    BY <1>2, FailureIsKept DEF InOrder
  <2>2. LinksFind
    BY <2>1, CacheAssumption DEF WorkspaceInv, WorkerOK, LockInv, PathInv, LinksFind, Critical,
                                 Held, Opened
  <2>3. CacheInv'
    BY <1>2, <2>1, <2>2, CacheInvStep
  <2>4. WorkspaceInv'
    BY <1>2, <2>1, WorkspaceInvStep
  <2> QED
    BY <2>3, <2>4
<1> QED
  BY <1>1, <1>2, TypeCorrect, PTL DEF Spec

(* A node that a process takes for built has its manifest for as long as   *)
(* the process may need it: until a command fails by itself, nobody takes  *)
(* it away (executor.go uidCached, loadUidSet, execute).                   *)
THEOREM DoneHasManifestHolds ==
  ASSUME GrowsOnly PROVE Spec => []DoneHasManifest
<1>1. InOrder => DoneHasManifest
  BY DEF InOrder, CacheInv, DoneInv, DoneHasManifest
<1> QED
  BY <1>1, WorkspaceInvariant, PTL

(* No two builders of a node are in its workspace at once, for any number  *)
(* of processes and any graph, until a command fails by itself             *)
(* (executor.go execute, discard).                                         *)
THEOREM ExclusiveUntilFailureHolds ==
  ASSUME GrowsOnly PROVE Spec => []ExclusiveUntilFailure
<1>1. InOrder => ExclusiveUntilFailure
  BY Exclusion, CacheAssumption DEF InOrder, WorkspaceInv, WorkspaceExclusive,
                                    ExclusiveUntilFailure
<1> QED
  BY <1>1, WorkspaceInvariant, PTL

(* Under -k, where no command outlives its process, and until a command    *)
(* fails by itself, what a worker stores its own command made from the     *)
(* inputs it restored itself (executor.go execute, removeContents).        *)
THEOREM CleanOutputsHolds ==
  ASSUME GrowsOnly, KeepGoing PROVE Spec => []CleanOutputs
<1>1. ASSUME WorkspaceInv, NEW p \in Proc, NEW u \in Uid, pc[p][u] = "store"
      PROVE  AtPath(u) = {<<p, d>> : d \in Deps[u]} \cup {<<p, OutFile>>}
  <2>1. WorkerOK(p, u)
    BY <1>1 DEF WorkspaceInv
  <2>2. tmpDir[u] = fd[p][u] /\ fd[p][u] \in Inode
    BY <1>1, <2>1 DEF WorkerOK, PathInv, LockInv, Opened, Held, Critical
  <2>3. AtPath(u) = content[fd[p][u]]
    BY <2>2, CacheAssumption DEF AtPath
  <2> QED
    BY <1>1, <2>1, <2>3 DEF WorkerOK, ContentInv, Expected, Filling
<1>2. InOrder => CleanOutputs
  BY <1>1 DEF InOrder, CleanOutputs
<1> QED
  BY <1>2, WorkspaceInvariant, PTL

(* No process starts the command of a node that is published, as the look  *)
(* at the manifest under the lock cannot become stale before the command,  *)
(* until a command fails by itself (executor.go execute, runNode).         *)
THEOREM NeverRebuiltHolds ==
  ASSUME GrowsOnly PROVE Spec => NeverRebuilt
<1>1. ASSUME TypeOK, WorkspaceInv, [Next]_vars, NEW p \in Proc, NEW u \in Uid,
             pc[p][u] # "cmd", pc'[p][u] = "cmd"
      PROVE  manifest[u] = "none"
  <2>1. ASSUME NEW q \in Proc, NEW v \in Uid, WorkerStep(q, v)
        PROVE  q = p /\ v = u /\ StartCmd(p, u)
    <3>1. \/ UNCHANGED pc
          \/ \E s : s # "cmd" /\ pc' = [pc EXCEPT ![q][v] = s]
          \/ StartCmd(q, v)
      BY <2>1 DEF WorkerStep, Goto, Prepare, DepsVisited, BrokenByDep, MkdirTmp,
        OpenTmp, Flock, StatManifest, RemoveContents, RestoreInto, LinkInto, Heal, FinishCmd,
        StoreFileToCAS, Publish, MkdirGrb, Discard, RenameFails, LstatTmp, CloseDir
    <3>2. StartCmd(q, v) => \E s : pc' = [pc EXCEPT ![q][v] = s]
      BY DEF StartCmd, Goto
    <3>3. ASSUME NEW s, pc' = [pc EXCEPT ![q][v] = s] PROVE q = p /\ v = u /\ s = "cmd"
      BY <1>1, <3>3 DEF TypeOK, WorkerTypeOK
    <3> QED
      BY <1>1, <3>1, <3>2, <3>3
  <2>2. ASSUME NEW q \in Proc, Start(q) \/ Crash(q) \/ ProcessStep(q) PROVE FALSE
    <3>1. UNCHANGED pc \/ \E s : EndProcess(q, s)
      BY <2>2 DEF Start, Crash, ProcessStep, ClearCache, LoadUidSet, FatalException,
        RunReturns, InstallRoot, InstallHeal, Succeed, workers
    <3>2. ASSUME NEW s, EndProcess(q, s) PROVE pc'[p][u] \in {pc[p][u], "new"}
      BY <1>1, <3>2 DEF EndProcess, TypeOK, WorkerTypeOK
    <3> QED
      BY <1>1, <3>1, <3>2
  <2>3. ~UNCHANGED pc
    BY <1>1
  <2>4. ASSUME NEW v \in Uid, OrphanExits(v) PROVE UNCHANGED pc
    BY <2>4 DEF OrphanExits, workers
  <2>5. ~GarbageCollector /\ ~UNCHANGED vars
    BY <2>3 DEF GarbageCollector, workers, vars
  <2>6. StartCmd(p, u)
    BY <1>1, <2>1, <2>2, <2>3, <2>4, <2>5 DEF Next, AtRest
  <2> QED
    BY <1>1, <2>6 DEF StartCmd, WorkspaceInv, WorkerOK, PathInv, Building
<1>2. TypeOK /\ InOrder /\ [Next]_vars =>
        [~cmdFailed =>
           \A p \in Proc, u \in Uid :
             pc[p][u] # "cmd" /\ pc'[p][u] = "cmd" => manifest[u] = "none"]_vars
  BY <1>1 DEF InOrder
<1> QED
  BY <1>2, WorkspaceInvariant, PTL DEF Spec, NeverRebuilt
=============================================================================
