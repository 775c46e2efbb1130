-------------------------- MODULE BuildCache_proof --------------------------
(***************************************************************************)
(* Proofs about BuildCache, for any number of processes, nodes, blobs,     *)
(* threads and crashes, with failing commands and with or without -k.      *)
(*                                                                         *)
(* A manifest is always backed by its blobs unless the cache is cleared.   *)
(* That a node taken for built keeps its manifest needs more: nobody may   *)
(* remove one.  Besides --clear (MayClear) and manifests that are          *)
(* malformed to begin with (MayBeBad), a restore removes a good manifest   *)
(* when its workspace has gone from under it.  CacheInvStep takes the      *)
(* absence of that as a hypothesis; Workspace_proof discharges it.         *)
(***************************************************************************)
EXTENDS BuildCache, TLAPS

GrowsOnly == ~MayClear /\ MayBeBad = {}

(* Manifests are well formed and nobody is about to remove one.            *)
NoRemoval ==
  /\ \A u \in Uid : manifest[u] # "bad"
  /\ \A p \in Proc : ps[p] \notin {"clear_cas", "clear_tmp", "clear_uid",
                                   "install_heal"}
  /\ \A p \in Proc, u \in Uid : pc[p][u] # "heal"

(* storeOutputs: what is no longer to be stored is in cas/.                *)
StoredInv ==
  \A p \in Proc, u \in Uid : pc[p][u] = "store" => Out[u] \ todo[p][u] \subseteq cas

(* The snapshot of loadUidSet is not contradicted while it is in use.      *)
SnapshotInv ==
  \A p \in Proc : ps[p] \in {"build", "install"} =>
    \A u \in uidSet[p] : manifest[u] = "good"

(* A worker that has come through execute, or found the manifest, leaves a *)
(* manifest behind.                                                        *)
DoneInv ==
  \A p \in Proc, u \in Uid :
    pc[p][u] \in {"discard_ok", "rename_ok", "lstat_ok", "close_ok", "done"} => manifest[u] = "good"

(* Workers only exist while their process builds; those past the semaphore *)
(* have their dependencies done.                                           *)
WorkerInv ==
  \A p \in Proc, u \in Uid :
    /\ pc[p][u] # "new" => ps[p] \in {"build", "install"}
    /\ pc[p][u] \in Busy => \A d \in Deps[u] : pc[p][d] = "done"
    /\ pc[p][u] \in {"restore", "link"} => todo[p][u] \subseteq Deps[u]
    /\ pc[p][u] = "link" => dep[p][u] \in todo[p][u]
    /\ ps[p] = "install" => pc[p][u] = "done"

(* No worker is about to link into a workspace that is not there.          *)
LinksFind == \A p \in Proc, u \in Uid : pc[p][u] = "link" => tmpDir[u] # NoInode

CacheInv ==
  NoRemoval /\ ManifestBacked /\ StoredInv /\ SnapshotInv /\ DoneInv /\ WorkerInv
-----------------------------------------------------------------------------
(* Types of what the file system helpers leave behind.                     *)
LEMMA DisownType ==
  ASSUME DiskTypeOK, NEW p \in Proc
  PROVE  Disown(p) \in [Inode -> SUBSET Item]
<1>1. ASSUME NEW it \in Item PROVE <<Dead, it[2]>> \in Item
  BY DEF Item
<1> QED
  BY <1>1 DEF Disown, DiskTypeOK

LEMMA ReleasedType ==
  ASSUME DiskTypeOK, NEW p \in Proc
  PROVE  Released(p) \in [Inode -> Proc \cup {None}]
BY DEF Released, DiskTypeOK

LEMMA MkdirAllType ==
  ASSUME DiskTypeOK, NEW u \in Uid, MkdirAll(u)
  PROVE  /\ tmpDir' \in [Uid -> Inode \cup {NoInode}]
         /\ content' \in [Inode -> SUBSET Item]
BY DEF DiskTypeOK, MkdirAll

LEMMA GotoType ==
  ASSUME WorkerTypeOK, NEW p \in Proc, NEW u \in Uid, NEW s \in PcState,
         Goto(p, u, s)
  PROVE  pc' \in [Proc -> [Uid -> PcState]]
BY DEF WorkerTypeOK, Goto

LEMMA EndProcessType ==
  ASSUME TypeOK, NEW p \in Proc, NEW s \in PsState, EndProcess(p, s)
  PROVE  /\ ps' \in [Proc -> PsState]
         /\ lock' \in [Inode -> Proc \cup {None}]
         /\ content' \in [Inode -> SUBSET Item]
         /\ WorkerTypeOK'
<1>1. /\ lock' \in [Inode -> Proc \cup {None}]
      /\ content' \in [Inode -> SUBSET Item]
  BY ReleasedType, DisownType DEF EndProcess, TypeOK
<1>2. ps' \in [Proc -> PsState]
  BY DEF EndProcess, TypeOK, ProcTypeOK
<1>3. WorkerTypeOK'
  BY DEF EndProcess, TypeOK, WorkerTypeOK, PcState
<1> QED
  BY <1>1, <1>2, <1>3

(* Every step of a process or of a worker keeps the types.                 *)
Typed == DiskTypeOK /\ ProcTypeOK /\ WorkerTypeOK

LEMMA TypedStep == TypeOK /\ [Next]_vars => Typed'
<1> SUFFICES ASSUME TypeOK, [Next]_vars PROVE Typed'
  OBVIOUS
<1> USE CacheAssumption DEF TypeOK, Typed, disk, procs, workers, others
<1>1. ASSUME NEW p \in Proc, Start(p)
      PROVE  Typed'
  <2>1. DiskTypeOK'
    BY <1>1 DEF DiskTypeOK, Start
  <2>2. ProcTypeOK'
    BY <1>1 DEF ProcTypeOK, Start, PsState
  <2>3. WorkerTypeOK'
    BY <1>1 DEF WorkerTypeOK, Start
  <2> QED
    BY <2>1, <2>2, <2>3
<1>2. ASSUME NEW p \in Proc, ClearCache(p)
      PROVE  Typed'
  <2>1. DiskTypeOK'
    BY <1>2 DEF DiskTypeOK, ClearCache
  <2>2. ProcTypeOK'
    BY <1>2 DEF ProcTypeOK, ClearCache, PsState
  <2>3. WorkerTypeOK'
    BY <1>2 DEF WorkerTypeOK, ClearCache
  <2> QED
    BY <2>1, <2>2, <2>3
<1>3. ASSUME NEW p \in Proc, LoadUidSet(p)
      PROVE  Typed'
  <2>1. DiskTypeOK'
    BY <1>3 DEF DiskTypeOK, LoadUidSet
  <2>2. ProcTypeOK'
    BY <1>3 DEF ProcTypeOK, LoadUidSet, PsState
  <2>3. WorkerTypeOK'
    BY <1>3 DEF WorkerTypeOK, LoadUidSet
  <2> QED
    BY <2>1, <2>2, <2>3
<1>4. ASSUME NEW p \in Proc, FatalException(p)
      PROVE  Typed'
  <2>1. EndProcess(p, "failed") /\ "failed" \in PsState
    BY <1>4 DEF FatalException, PsState
  <2>2. /\ ps' \in [Proc -> PsState]
        /\ lock' \in [Inode -> Proc \cup {None}]
        /\ content' \in [Inode -> SUBSET Item]
        /\ WorkerTypeOK'
    BY <2>1, EndProcessType
  <2>3. DiskTypeOK'
    BY <1>4, <2>2 DEF DiskTypeOK, FatalException
  <2>4. ProcTypeOK'
    BY <1>4, <2>2 DEF ProcTypeOK, FatalException
  <2> QED
    BY <2>2, <2>3, <2>4
<1>5. ASSUME NEW p \in Proc, InstallHeal(p)
      PROVE  Typed'
  <2>1. EndProcess(p, "failed") /\ "failed" \in PsState
    BY <1>5 DEF InstallHeal, PsState
  <2>2. /\ ps' \in [Proc -> PsState]
        /\ lock' \in [Inode -> Proc \cup {None}]
        /\ content' \in [Inode -> SUBSET Item]
        /\ WorkerTypeOK'
    BY <2>1, EndProcessType
  <2>3. DiskTypeOK'
    BY <1>5, <2>2 DEF DiskTypeOK, InstallHeal
  <2>4. ProcTypeOK'
    BY <1>5, <2>2 DEF ProcTypeOK, InstallHeal
  <2> QED
    BY <2>2, <2>3, <2>4
<1>6. ASSUME NEW p \in Proc, Succeed(p)
      PROVE  Typed'
  <2>1. EndProcess(p, "ok") /\ "ok" \in PsState
    BY <1>6 DEF Succeed, PsState
  <2>2. /\ ps' \in [Proc -> PsState]
        /\ lock' \in [Inode -> Proc \cup {None}]
        /\ content' \in [Inode -> SUBSET Item]
        /\ WorkerTypeOK'
    BY <2>1, EndProcessType
  <2>3. DiskTypeOK'
    BY <1>6, <2>2 DEF DiskTypeOK, Succeed
  <2>4. ProcTypeOK'
    BY <1>6, <2>2 DEF ProcTypeOK, Succeed
  <2> QED
    BY <2>2, <2>3, <2>4
<1>7. ASSUME NEW p \in Proc, Crash(p)
      PROVE  Typed'
  <2>1. EndProcess(p, "down") /\ "down" \in PsState
    BY <1>7 DEF Crash, PsState
  <2>2. /\ ps' \in [Proc -> PsState]
        /\ lock' \in [Inode -> Proc \cup {None}]
        /\ content' \in [Inode -> SUBSET Item]
        /\ WorkerTypeOK'
    BY <2>1, EndProcessType
  <2>3. DiskTypeOK'
    BY <1>7, <2>2 DEF DiskTypeOK, Crash
  <2>4. ProcTypeOK'
    BY <1>7, <2>2 DEF ProcTypeOK, Crash
  <2> QED
    BY <2>2, <2>3, <2>4
<1>8. ASSUME NEW p \in Proc, RunReturns(p) PROVE Typed'
  <2>1. CASE ps' = [ps EXCEPT ![p] = "install"] /\ UNCHANGED <<lock, content, workers>>
    BY <1>8, <2>1 DEF RunReturns, DiskTypeOK, ProcTypeOK, WorkerTypeOK, PsState
  <2>2. CASE EndProcess(p, "failed")
    <3>1. "failed" \in PsState
      BY DEF PsState
    <3>2. /\ ps' \in [Proc -> PsState]
          /\ lock' \in [Inode -> Proc \cup {None}]
          /\ content' \in [Inode -> SUBSET Item]
          /\ WorkerTypeOK'
      BY <2>2, <3>1, EndProcessType
    <3> QED
      BY <1>8, <3>2 DEF RunReturns, DiskTypeOK, ProcTypeOK
  <2> QED
    BY <1>8, <2>1, <2>2 DEF RunReturns
<1>9. ASSUME NEW p \in Proc, NEW r \in Root, InstallRoot(p, r)
      PROVE  Typed'
  <2>1. DiskTypeOK'
    BY <1>9 DEF DiskTypeOK, InstallRoot
  <2>2. ProcTypeOK'
    BY <1>9 DEF ProcTypeOK, InstallRoot, PsState
  <2>3. WorkerTypeOK'
    <3>1. todo' \in [Proc -> [Uid -> SUBSET (Uid \cup Blob)]]
      <4>1. CASE UNCHANGED todo
        BY <1>9, <4>1 DEF WorkerTypeOK
      <4>2. CASE todo' = [todo EXCEPT ![p][r] = {r}]
        BY <1>9, <4>2 DEF WorkerTypeOK
      <4> QED
        BY <1>9, <4>1, <4>2 DEF InstallRoot
    <3>2. UNCHANGED <<pc, fd, dep>>
      BY <1>9 DEF InstallRoot
    <3> QED
      BY <3>1, <3>2 DEF WorkerTypeOK
  <2> QED
    BY <2>1, <2>2, <2>3
<1>10. ASSUME NEW u \in Uid, OrphanExits(u) PROVE Typed'
  <2>1. <<Dead, OutFile>> \in Item
    BY DEF Item
  <2>2. DiskTypeOK'
    BY <1>10, <2>1 DEF DiskTypeOK, OrphanExits
  <2> QED
    BY <1>10, <2>2 DEF OrphanExits, ProcTypeOK, WorkerTypeOK
<1>11. ASSUME NEW p \in Proc, NEW u \in Uid, Prepare(p, u)
      PROVE  Typed'
  <2>1. DiskTypeOK'
    BY <1>11 DEF DiskTypeOK, Prepare, Goto
  <2>2. ProcTypeOK'
    BY <1>11 DEF ProcTypeOK, Prepare, Goto
  <2>3. WorkerTypeOK'
    BY <1>11 DEF WorkerTypeOK, Prepare, Goto, PcState, Busy
  <2> QED
    BY <2>1, <2>2, <2>3
<1>12. ASSUME NEW p \in Proc, NEW u \in Uid, DepsVisited(p, u)
      PROVE  Typed'
  <2>1. DiskTypeOK'
    BY <1>12 DEF DiskTypeOK, DepsVisited, Goto
  <2>2. ProcTypeOK'
    BY <1>12 DEF ProcTypeOK, DepsVisited, Goto
  <2>3. WorkerTypeOK'
    BY <1>12 DEF WorkerTypeOK, DepsVisited, Goto, PcState, Busy
  <2> QED
    BY <2>1, <2>2, <2>3
<1>13. ASSUME NEW p \in Proc, NEW u \in Uid, BrokenByDep(p, u)
      PROVE  Typed'
  <2>1. DiskTypeOK'
    BY <1>13 DEF DiskTypeOK, BrokenByDep, Goto
  <2>2. ProcTypeOK'
    BY <1>13 DEF ProcTypeOK, BrokenByDep, Goto
  <2>3. WorkerTypeOK'
    BY <1>13 DEF WorkerTypeOK, BrokenByDep, Goto, PcState, Busy
  <2> QED
    BY <2>1, <2>2, <2>3
<1>14. ASSUME NEW p \in Proc, NEW u \in Uid, MkdirTmp(p, u)
      PROVE  Typed'
  <2>1. DiskTypeOK'
    BY <1>14, MkdirAllType DEF DiskTypeOK, MkdirTmp, Goto
  <2>2. ProcTypeOK'
    BY <1>14 DEF ProcTypeOK, MkdirTmp, Goto
  <2>3. WorkerTypeOK'
    BY <1>14 DEF WorkerTypeOK, MkdirTmp, Goto, PcState, Busy
  <2> QED
    BY <2>1, <2>2, <2>3
<1>15. ASSUME NEW p \in Proc, NEW u \in Uid, OpenTmp(p, u)
      PROVE  Typed'
  <2>1. DiskTypeOK'
    BY <1>15 DEF DiskTypeOK, OpenTmp, Goto
  <2>2. ProcTypeOK'
    BY <1>15 DEF ProcTypeOK, OpenTmp, Goto
  <2>3. WorkerTypeOK'
    BY <1>15 DEF WorkerTypeOK, OpenTmp, Goto, PcState, Busy, DiskTypeOK
  <2> QED
    BY <2>1, <2>2, <2>3
<1>16. ASSUME NEW p \in Proc, NEW u \in Uid, Flock(p, u)
      PROVE  Typed'
  <2>1. DiskTypeOK'
    BY <1>16 DEF DiskTypeOK, Flock, Goto
  <2>2. ProcTypeOK'
    BY <1>16 DEF ProcTypeOK, Flock, Goto
  <2>3. WorkerTypeOK'
    BY <1>16 DEF WorkerTypeOK, Flock, Goto, PcState, Busy
  <2> QED
    BY <2>1, <2>2, <2>3
<1>17. ASSUME NEW p \in Proc, NEW u \in Uid, StatManifest(p, u)
      PROVE  Typed'
  <2>1. DiskTypeOK'
    BY <1>17 DEF DiskTypeOK, StatManifest, Goto
  <2>2. ProcTypeOK'
    BY <1>17 DEF ProcTypeOK, StatManifest, Goto
  <2>3. WorkerTypeOK'
    BY <1>17 DEF WorkerTypeOK, StatManifest, Goto, PcState, Busy
  <2> QED
    BY <2>1, <2>2, <2>3
<1>18. ASSUME NEW p \in Proc, NEW u \in Uid, RemoveContents(p, u)
      PROVE  Typed'
  <2>1. DiskTypeOK'
    BY <1>18 DEF DiskTypeOK, RemoveContents, Goto
  <2>2. ProcTypeOK'
    BY <1>18 DEF ProcTypeOK, RemoveContents, Goto
  <2>3. WorkerTypeOK'
    BY <1>18 DEF WorkerTypeOK, RemoveContents, Goto, PcState, Busy
  <2> QED
    BY <2>1, <2>2, <2>3
<1>19. ASSUME NEW p \in Proc, NEW u \in Uid, NEW d \in Uid, RestoreInto(p, u, d)
      PROVE  Typed'
  <2>1. /\ "heal" \in PcState /\ "link" \in PcState
        /\ UNCHANGED <<cas, manifest, lock, procs, fd, others>>
    BY <1>19 DEF PcState, Busy, RestoreInto
  <2>2. CASE manifest[d] = "good"
    <3>1. MkdirAll(u) /\ dep' = [dep EXCEPT ![p][u] = d] /\ Goto(p, u, "link") /\ UNCHANGED todo
      BY <1>19, <2>2 DEF RestoreInto
    <3>2. DiskTypeOK'
      BY <2>1, <3>1, MkdirAllType DEF DiskTypeOK
    <3>3. pc' \in [Proc -> [Uid -> PcState]]
      BY <2>1, <3>1, GotoType
    <3>4. dep' \in [Proc -> [Uid -> Uid]]
      BY <3>1 DEF WorkerTypeOK
    <3> QED
      BY <2>1, <3>1, <3>2, <3>3, <3>4 DEF ProcTypeOK, WorkerTypeOK
  <2>3. CASE manifest[d] # "good"
    <3>1. todo' = [todo EXCEPT ![p][u] = {d}] /\ Goto(p, u, "heal") /\ UNCHANGED <<tmpDir, content, dep>>
      BY <1>19, <2>3 DEF RestoreInto
    <3>2. DiskTypeOK'
      BY <2>1, <3>1 DEF DiskTypeOK
    <3>3. pc' \in [Proc -> [Uid -> PcState]]
      BY <2>1, <3>1, GotoType
    <3>4. todo' \in [Proc -> [Uid -> SUBSET (Uid \cup Blob)]]
      BY <3>1 DEF WorkerTypeOK
    <3> QED
      BY <2>1, <3>1, <3>2, <3>3, <3>4 DEF ProcTypeOK, WorkerTypeOK
  <2> QED
    BY <2>2, <2>3
<1>32. ASSUME NEW p \in Proc, NEW u \in Uid, LinkInto(p, u)
      PROVE  Typed'
  <2>1. /\ "heal" \in PcState /\ "restore" \in PcState
        /\ UNCHANGED <<cas, manifest, tmpDir, lock, procs, fd, others>>
        /\ dep' = [dep EXCEPT ![p][u] = u]
    BY <1>32 DEF PcState, Busy, LinkInto
  <2>2. dep' \in [Proc -> [Uid -> Uid]]
    BY <2>1 DEF WorkerTypeOK
  <2>3. pc' \in [Proc -> [Uid -> PcState]]
    BY <1>32, <2>1, GotoType DEF LinkInto
  <2>4. CASE tmpDir[u] # NoInode
    <3>1. /\ content' = [content EXCEPT ![tmpDir[u]] = @ \cup Linked(p, dep[p][u])]
          /\ todo' = [todo EXCEPT ![p][u] = @ \ {dep[p][u]}]
      BY <1>32, <2>4 DEF LinkInto
    <3>2. dep[p][u] \in Uid
      BY DEF WorkerTypeOK
    <3>3. Linked(p, dep[p][u]) \subseteq Item
      BY <3>2 DEF Linked, Item
    <3>4. DiskTypeOK'
      BY <2>1, <2>4, <3>1, <3>3 DEF DiskTypeOK
    <3>5. todo' \in [Proc -> [Uid -> SUBSET (Uid \cup Blob)]]
      BY <3>1 DEF WorkerTypeOK
    <3> QED
      BY <2>1, <2>2, <2>3, <3>4, <3>5 DEF ProcTypeOK, WorkerTypeOK
  <2>5. CASE tmpDir[u] = NoInode
    <3>1. todo' = [todo EXCEPT ![p][u] = {dep[p][u]}] /\ UNCHANGED content
      BY <1>32, <2>5 DEF LinkInto
    <3> QED
      BY <2>1, <2>2, <2>3, <3>1 DEF DiskTypeOK, ProcTypeOK, WorkerTypeOK
  <2> QED
    BY <2>4, <2>5
<1>20. ASSUME NEW p \in Proc, NEW u \in Uid, Heal(p, u)
      PROVE  Typed'
  <2>1. DiskTypeOK'
    BY <1>20 DEF DiskTypeOK, Heal, Goto
  <2>2. ProcTypeOK'
    BY <1>20 DEF ProcTypeOK, Heal, Goto
  <2>3. WorkerTypeOK'
    BY <1>20 DEF WorkerTypeOK, Heal, Goto, PcState, Busy
  <2> QED
    BY <2>1, <2>2, <2>3
<1>21. ASSUME NEW p \in Proc, NEW u \in Uid, StartCmd(p, u)
      PROVE  Typed'
  <2>1. DiskTypeOK'
    BY <1>21, MkdirAllType DEF DiskTypeOK, StartCmd, Goto
  <2>2. ProcTypeOK'
    BY <1>21 DEF ProcTypeOK, StartCmd, Goto
  <2>3. WorkerTypeOK'
    BY <1>21 DEF WorkerTypeOK, StartCmd, Goto, PcState, Busy
  <2> QED
    BY <2>1, <2>2, <2>3
<1>22. ASSUME NEW p \in Proc, NEW u \in Uid, FinishCmd(p, u)
      PROVE  Typed'
  <2>1. <<p, OutFile>> \in Item
    BY DEF Item
  <2>2. DiskTypeOK'
    BY <1>22, <2>1 DEF DiskTypeOK, FinishCmd, Goto
  <2>3. ProcTypeOK'
    BY <1>22, <2>1 DEF ProcTypeOK, FinishCmd, Goto
  <2>4. WorkerTypeOK'
    <3>1. todo' \in [Proc -> [Uid -> SUBSET (Uid \cup Blob)]]
      <4>1. CASE todo' = [todo EXCEPT ![p][u] = Out[u]]
        BY <1>22, <2>1, <4>1 DEF WorkerTypeOK
      <4>2. CASE UNCHANGED todo
        BY <1>22, <2>1, <4>2 DEF WorkerTypeOK
      <4> QED
        BY <1>22, <2>1, <4>1, <4>2 DEF FinishCmd
    <3>2. UNCHANGED <<fd, dep>> /\ (Goto(p, u, "store") \/ Goto(p, u, "discard_err"))
      BY <1>22, <2>1 DEF FinishCmd
    <3>3. "store" \in PcState /\ "discard_err" \in PcState
      BY DEF PcState, Busy
    <3>4. pc' \in [Proc -> [Uid -> PcState]]
      BY <3>2, <3>3, GotoType DEF WorkerTypeOK
    <3> QED
      BY <3>1, <3>2, <3>4 DEF WorkerTypeOK
  <2> QED
    BY <2>2, <2>3, <2>4
<1>23. ASSUME NEW p \in Proc, NEW u \in Uid, NEW b \in Blob, StoreFileToCAS(p, u, b)
      PROVE  Typed'
  <2>1. DiskTypeOK'
    BY <1>23 DEF DiskTypeOK, StoreFileToCAS, Goto
  <2>2. ProcTypeOK'
    BY <1>23 DEF ProcTypeOK, StoreFileToCAS, Goto
  <2>3. WorkerTypeOK'
    <3>1. todo' \in [Proc -> [Uid -> SUBSET (Uid \cup Blob)]]
      <4>1. CASE todo' = [todo EXCEPT ![p][u] = @ \ {b}]
        BY <1>23, <4>1 DEF WorkerTypeOK
      <4>2. CASE UNCHANGED todo
        BY <1>23, <4>2 DEF WorkerTypeOK
      <4> QED
        BY <1>23, <4>1, <4>2 DEF StoreFileToCAS
    <3>2. UNCHANGED <<fd, dep>> /\ (UNCHANGED pc \/ Goto(p, u, "discard_err"))
      BY <1>23 DEF StoreFileToCAS
    <3>3. "discard_err" \in PcState
      BY DEF PcState, Busy
    <3>4. pc' \in [Proc -> [Uid -> PcState]]
      BY <3>2, <3>3, GotoType DEF WorkerTypeOK
    <3> QED
      BY <3>1, <3>2, <3>4 DEF WorkerTypeOK
  <2> QED
    BY <2>1, <2>2, <2>3
<1>24. ASSUME NEW p \in Proc, NEW u \in Uid, Publish(p, u)
      PROVE  Typed'
  <2>1. DiskTypeOK'
    BY <1>24 DEF DiskTypeOK, Publish, Goto
  <2>2. ProcTypeOK'
    BY <1>24 DEF ProcTypeOK, Publish, Goto
  <2>3. WorkerTypeOK'
    BY <1>24 DEF WorkerTypeOK, Publish, Goto, PcState, Busy
  <2> QED
    BY <2>1, <2>2, <2>3
<1>25. ASSUME NEW p \in Proc, NEW u \in Uid, Discard(p, u)
      PROVE  Typed'
  <2>1. DiskTypeOK'
    BY <1>25 DEF DiskTypeOK, Discard, Goto
  <2>2. ProcTypeOK'
    BY <1>25 DEF ProcTypeOK, Discard, Goto
  <2>3. WorkerTypeOK'
    BY <1>25 DEF WorkerTypeOK, Discard, Goto, PcState, Busy
  <2> QED
    BY <2>1, <2>2, <2>3
<1>26. ASSUME NEW p \in Proc, NEW u \in Uid, CloseDir(p, u)
      PROVE  Typed'
  <2>1. DiskTypeOK'
    BY <1>26 DEF DiskTypeOK, CloseDir, Goto
  <2>2. ProcTypeOK'
    BY <1>26 DEF ProcTypeOK, CloseDir, Goto
  <2>3. WorkerTypeOK'
    BY <1>26 DEF WorkerTypeOK, CloseDir, Goto, PcState, Busy
  <2> QED
    BY <2>1, <2>2, <2>3
<1>27. ASSUME NEW p \in Proc, NEW u \in Uid, MkdirGrb(p, u)
      PROVE  Typed'
  <2>1. DiskTypeOK'
    BY <1>27 DEF DiskTypeOK, MkdirGrb, Goto
  <2>2. ProcTypeOK'
    BY <1>27 DEF ProcTypeOK, MkdirGrb, Goto
  <2>3. WorkerTypeOK'
    BY <1>27 DEF WorkerTypeOK, MkdirGrb, Goto, PcState, Busy
  <2> QED
    BY <2>1, <2>2, <2>3
<1>28. ASSUME NEW p \in Proc, NEW u \in Uid, RenameFails(p, u)
      PROVE  Typed'
  <2>1. DiskTypeOK'
    BY <1>28 DEF DiskTypeOK, RenameFails, Goto
  <2>2. ProcTypeOK'
    BY <1>28 DEF ProcTypeOK, RenameFails, Goto
  <2>3. WorkerTypeOK'
    BY <1>28 DEF WorkerTypeOK, RenameFails, Goto, PcState, Busy
  <2> QED
    BY <2>1, <2>2, <2>3
<1>29. ASSUME NEW p \in Proc, NEW u \in Uid, LstatTmp(p, u)
      PROVE  Typed'
  <2>1. DiskTypeOK'
    BY <1>29 DEF DiskTypeOK, LstatTmp, Goto
  <2>2. ProcTypeOK'
    BY <1>29 DEF ProcTypeOK, LstatTmp, Goto
  <2>3. WorkerTypeOK'
    <3>1. PICK s \in PcState : Goto(p, u, s)
      BY <1>29 DEF LstatTmp, PcState, Busy
    <3>2. UNCHANGED <<fd, todo, dep>>
      BY <1>29 DEF LstatTmp
    <3> QED
      BY <3>1, <3>2, GotoType DEF WorkerTypeOK
  <2> QED
    BY <2>1, <2>2, <2>3
<1>30. CASE GarbageCollector
  BY <1>30 DEF GarbageCollector, DiskTypeOK, ProcTypeOK, WorkerTypeOK
<1>31. CASE UNCHANGED vars
  BY <1>31 DEF DiskTypeOK, ProcTypeOK, WorkerTypeOK, vars
<1> QED
  BY <1>1, <1>2, <1>3, <1>4, <1>5, <1>6, <1>7, <1>8, <1>9, <1>10, <1>11,
     <1>12, <1>13, <1>14, <1>15, <1>16, <1>17, <1>18, <1>19, <1>20, <1>21,
     <1>22, <1>23, <1>24, <1>25, <1>26, <1>27, <1>28, <1>29, <1>30, <1>31,
     <1>32
  DEF Next, ProcessStep, WorkerStep, AtRest

(* A step that opens or closes no directory, and one that ends a process.  *)
LEMMA SameDescriptors ==
  ASSUME TypeOK, NEW p \in Proc, NEW u \in Uid, UNCHANGED fd,
         UNCHANGED pc \/ \E s : /\ pc' = [pc EXCEPT ![p][u] = s]
                                /\ s \in Opened <=> pc[p][u] \in Opened
  PROVE  DescriptorOK'
<1> SUFFICES ASSUME NEW q \in Proc, NEW v \in Uid
             PROVE  pc'[q][v] \in Opened <=> pc[q][v] \in Opened
  BY DEF TypeOK, DescriptorOK
<1>1. ASSUME NEW s, pc' = [pc EXCEPT ![p][u] = s], s \in Opened <=> pc[p][u] \in Opened
      PROVE  pc'[q][v] \in Opened <=> pc[q][v] \in Opened
  <2>1. pc'[q][v] = IF q = p /\ v = u THEN s ELSE pc[q][v]
    BY <1>1 DEF TypeOK, WorkerTypeOK
  <2> QED
    BY <1>1, <2>1
<1>2. CASE UNCHANGED pc
  BY <1>2
<1>3. ASSUME \E s : /\ pc' = [pc EXCEPT ![p][u] = s]
                    /\ s \in Opened <=> pc[p][u] \in Opened
      PROVE  pc'[q][v] \in Opened <=> pc[q][v] \in Opened
  BY ONLY <1>1, <1>3
<1> QED
  BY <1>2, <1>3

LEMMA EndDescriptors ==
  ASSUME TypeOK, NEW p \in Proc, NEW s, EndProcess(p, s)
  PROVE  DescriptorOK'
<1>1. ASSUME NEW u \in Uid PROVE fd'[p][u] = NoInode /\ pc'[p][u] = "new"
  BY DEF EndProcess, TypeOK, WorkerTypeOK
<1>2. ASSUME NEW q \in Proc, q # p PROVE fd'[q] = fd[q] /\ pc'[q] = pc[q]
  BY <1>2 DEF EndProcess, TypeOK, WorkerTypeOK
<1>3. "new" \notin Opened
  BY DEF Opened, Held, Critical
<1> QED
  BY <1>1, <1>2, <1>3, CacheAssumption DEF DescriptorOK, TypeOK

LEMMA DescriptorStep == TypeOK /\ [Next]_vars => DescriptorOK'
<1> SUFFICES ASSUME TypeOK, [Next]_vars PROVE DescriptorOK'
  OBVIOUS
<1>1. ASSUME NEW p \in Proc, NEW u \in Uid, OpenTmp(p, u) PROVE DescriptorOK'
  <2>1. /\ fd' = [fd EXCEPT ![p][u] = tmpDir[u]] /\ tmpDir[u] \in Inode \cup {NoInode}
        /\ pc' = [pc EXCEPT ![p][u] = IF tmpDir[u] = NoInode THEN "err" ELSE "lock"]
    BY <1>1 DEF OpenTmp, Goto, TypeOK, DiskTypeOK
  <2>2. fd'[p][u] \in Inode <=> pc'[p][u] \in Opened
    BY <2>1, CacheAssumption DEF Opened, Held, Critical, TypeOK, WorkerTypeOK
  <2>3. \A q \in Proc, v \in Uid : q # p \/ v # u => fd'[q][v] = fd[q][v] /\ pc'[q][v] = pc[q][v]
    BY <2>1 DEF TypeOK, WorkerTypeOK
  <2> QED
    BY <2>2, <2>3 DEF DescriptorOK, TypeOK
<1>2. ASSUME NEW p \in Proc, NEW u \in Uid, CloseDir(p, u) PROVE DescriptorOK'
  <2>1. PICK s \in {"done", "err"} : pc' = [pc EXCEPT ![p][u] = s]
    BY <1>2 DEF CloseDir, Goto
  <2>2. fd' = [fd EXCEPT ![p][u] = NoInode]
    BY <1>2 DEF CloseDir
  <2>3. fd'[p][u] \in Inode <=> pc'[p][u] \in Opened
    BY <2>1, <2>2, CacheAssumption DEF Opened, Held, Critical, TypeOK, WorkerTypeOK
  <2>4. \A q \in Proc, v \in Uid : q # p \/ v # u => fd'[q][v] = fd[q][v] /\ pc'[q][v] = pc[q][v]
    BY <2>1, <2>2 DEF TypeOK, WorkerTypeOK
  <2> QED
    BY <2>3, <2>4 DEF DescriptorOK, TypeOK
<1>3. ASSUME NEW p \in Proc, NEW u \in Uid, WorkerStep(p, u), ~OpenTmp(p, u), ~CloseDir(p, u)
      PROVE  DescriptorOK'
  <2>1. UNCHANGED fd
    BY <1>3 DEF WorkerStep, Prepare, DepsVisited, BrokenByDep, MkdirTmp, Flock, StatManifest,
         RemoveContents, RestoreInto, LinkInto, Heal, StartCmd, FinishCmd, StoreFileToCAS,
         Publish, MkdirGrb, Discard, RenameFails, LstatTmp
  <2>2. UNCHANGED pc \/ \E s : /\ pc' = [pc EXCEPT ![p][u] = s]
                               /\ s \in Opened <=> pc[p][u] \in Opened
    <3>1. CASE Prepare(p, u) \/ DepsVisited(p, u) \/ BrokenByDep(p, u) \/ MkdirTmp(p, u)
      BY <3>1 DEF Prepare, DepsVisited, BrokenByDep, MkdirTmp, Goto, Opened, Held, Critical
    <3>2. CASE Flock(p, u) \/ StatManifest(p, u) \/ RemoveContents(p, u)
      BY <3>2 DEF Flock, StatManifest, RemoveContents, Goto, Opened, Held, Critical
    <3>3. CASE (\E d \in Uid : RestoreInto(p, u, d)) \/ LinkInto(p, u) \/ Heal(p, u) \/ StartCmd(p, u)
      BY <3>3 DEF RestoreInto, LinkInto, Heal, StartCmd, Goto, Opened, Held, Critical
    <3>4. CASE FinishCmd(p, u) \/ (\E b \in Blob : StoreFileToCAS(p, u, b)) \/ Publish(p, u)
      BY <3>4 DEF FinishCmd, StoreFileToCAS, Publish, Goto, Opened, Held, Critical
    <3>5. CASE MkdirGrb(p, u) \/ Discard(p, u) \/ RenameFails(p, u) \/ LstatTmp(p, u)
      BY <3>5 DEF MkdirGrb, Discard, RenameFails, LstatTmp, Goto, Opened, Held, Critical
    <3> QED
      BY <1>3, <3>1, <3>2, <3>3, <3>4, <3>5 DEF WorkerStep
  <2> QED
    BY <2>1, <2>2, SameDescriptors
<1>4. ASSUME UNCHANGED <<pc, fd>> PROVE DescriptorOK'
  BY <1>4 DEF DescriptorOK, TypeOK
<1>5. ASSUME NEW p \in Proc, Start(p) \/ Crash(p) \/ ProcessStep(p) PROVE DescriptorOK'
  <2>1. UNCHANGED <<pc, fd>> \/ \E s : EndProcess(p, s)
    BY <1>5 DEF Start, Crash, ProcessStep, ClearCache, LoadUidSet, FatalException,
      RunReturns, InstallRoot, InstallHeal, Succeed, workers
  <2> QED
    BY <1>4, <2>1, EndDescriptors
<1>6. ASSUME (\E u \in Uid : OrphanExits(u)) \/ GarbageCollector \/ UNCHANGED vars
      PROVE  DescriptorOK'
  BY <1>4, <1>6 DEF OrphanExits, GarbageCollector, workers, vars
<1> QED
  BY <1>1, <1>2, <1>3, <1>5, <1>6 DEF Next, AtRest

LEMMA TypeStep == TypeOK /\ [Next]_vars => TypeOK'
BY TypedStep, DescriptorStep DEF TypeOK, Typed

(* In every reachable state disk, processes and workers have their types,  *)
(* and the workers with an open directory are those under execute's lock.  *)
THEOREM TypeCorrect == Spec => []TypeOK
<1>1. Init => TypeOK
  <2>1. Init => DiskTypeOK
    <3> SUFFICES ASSUME Init PROVE DiskTypeOK
      OBVIOUS
    <3>1. grb \in BOOLEAN
      BY DEF Init
    <3>2. /\ cas \subseteq Blob /\ manifest \in [Uid -> {"none", "good", "bad"}]
          /\ tmpDir \in [Uid -> Inode \cup {NoInode}]
          /\ lock \in [Inode -> Proc \cup {None}]
          /\ content \in [Inode -> SUBSET Item] /\ orphan \subseteq Uid
      BY DEF Init
    <3> QED
      BY <3>1, <3>2 DEF DiskTypeOK
  <2>2. Init => ProcTypeOK
    <3> SUFFICES ASSUME Init PROVE ProcTypeOK
      OBVIOUS
    <3>1. cmdFailed \in BOOLEAN
      BY Zenon DEF Init
    <3> QED
      BY <3>1 DEF Init, ProcTypeOK, PsState
  <2>3. Init => WorkerTypeOK
    BY DEF Init, WorkerTypeOK, PcState
  <2>4. Init => DescriptorOK
    BY CacheAssumption DEF Init, DescriptorOK, Opened, Held, Critical
  <2> QED
    BY <2>1, <2>2, <2>3, <2>4 DEF TypeOK
<1> QED
  BY <1>1, TypeStep, PTL DEF Spec
-----------------------------------------------------------------------------
(***************************************************************************)
(* The cache only grows.                                                   *)
(*                                                                         *)
(* WorkerMove and ProcessMove say what a step of a worker and a step of    *)
(* a process may do to the variables of CacheInv; the invariant follows    *)
(* from them without another look at the actions.                          *)
(***************************************************************************)
WorkerMove(p, u) ==
  /\ UNCHANGED <<ps, uidSet>>
  /\ ps[p] = "build" /\ pc[p][u] # "done"
  /\ cas \subseteq cas'
  /\ \A v \in Uid : \/ manifest'[v] = manifest[v]
                    \/ manifest'[v] = "good" /\ Out[v] \subseteq cas
  /\ \A q \in Proc, v \in Uid :
       q # p \/ v # u =>
         pc'[q][v] = pc[q][v] /\ todo'[q][v] = todo[q][v] /\ dep'[q][v] = dep[q][v]
  /\ pc'[p][u] # "heal"
  /\ pc'[p][u] \in {"discard_ok", "rename_ok", "lstat_ok", "close_ok", "done"} => manifest'[u] = "good"
  /\ pc'[p][u] \in Busy => \A d \in Deps[u] : pc[p][d] = "done"
  /\ pc'[p][u] \in {"restore", "link"} => todo'[p][u] \subseteq Deps[u]
  /\ pc'[p][u] = "link" => dep'[p][u] \in todo'[p][u]
  /\ pc'[p][u] = "store" => Out[u] \ todo'[p][u] \subseteq cas'

ProcessMove(p) ==
  /\ UNCHANGED <<cas, manifest>>
  /\ \A q \in Proc : q # p =>
       /\ ps'[q] = ps[q] /\ uidSet'[q] = uidSet[q]
       /\ pc'[q] = pc[q] /\ todo'[q] = todo[q] /\ dep'[q] = dep[q]
  /\ ps'[p] \in {"load", "build", "install", "ok", "failed", "down"}
  /\ ps'[p] \in {"build", "install"} =>
       /\ pc'[p] = pc[p] /\ todo'[p] = todo[p] /\ dep'[p] = dep[p]
       /\ \A u \in uidSet'[p] : manifest[u] = "good"
  /\ ps'[p] = "install" => \A u \in Uid : pc'[p][u] = "done"
  /\ ps'[p] \notin {"build", "install"} => \A u \in Uid : pc'[p][u] = "new"

(* While a worker runs, its process builds.                                *)
LEMMA WorkerBuilds ==
  ASSUME TypeOK, CacheInv, NEW p \in Proc, NEW u \in Uid,
         pc[p][u] \notin {"new", "done"}
  PROVE  ps[p] = "build"
BY DEF CacheInv, WorkerInv

LEMMA WorkerMoves ==
  ASSUME TypeOK, CacheInv, LinksFind, NEW p \in Proc, NEW u \in Uid, WorkerStep(p, u)
  PROVE  WorkerMove(p, u)
<1> USE CacheAssumption DEF WorkerMove, TypeOK, WorkerTypeOK, disk, procs, others, Goto
<1>0. ASSUME NEW d \in Deps[u], pc[p][u] \in Busy
      PROVE  d \in Uid /\ pc[p][d] = "done" /\ manifest[d] = "good"
  BY <1>0 DEF CacheInv, WorkerInv, DoneInv
<1>1. CASE Prepare(p, u)
  BY <1>1, WorkerBuilds DEF Prepare, Busy, DiskTypeOK, CacheInv, UidCached, SnapshotInv, NoRemoval
<1>2. CASE DepsVisited(p, u)
  BY <1>2, WorkerBuilds DEF DepsVisited, Busy
<1>3. CASE BrokenByDep(p, u)
  BY <1>3, WorkerBuilds DEF BrokenByDep, Busy
<1>4. CASE MkdirTmp(p, u)
  BY <1>4, WorkerBuilds, <1>0 DEF MkdirTmp, Busy
<1>5. CASE OpenTmp(p, u)
  BY <1>5, WorkerBuilds, <1>0 DEF OpenTmp, Busy
<1>6. CASE Flock(p, u)
  BY <1>6, WorkerBuilds, <1>0 DEF Flock, Busy
<1>7. CASE StatManifest(p, u)
  BY <1>7, WorkerBuilds, <1>0 DEF StatManifest, Busy, DiskTypeOK, CacheInv, NoRemoval
<1>8. CASE RemoveContents(p, u)
  BY <1>8, WorkerBuilds, <1>0 DEF RemoveContents, Busy
<1>9. CASE StartCmd(p, u)
  BY <1>9, WorkerBuilds, <1>0 DEF StartCmd, Busy
<1>10. CASE FinishCmd(p, u)
  <2>0. /\ pc[p][u] = "cmd" /\ UNCHANGED <<ps, uidSet, cas, manifest, dep>>
        /\ ps[p] = "build"
    BY <1>10, WorkerBuilds DEF FinishCmd
  <2>a. \A d \in Deps[u] : pc[p][d] = "done"
    BY <2>0, <1>0 DEF Busy
  <2>1. CASE pc' = [pc EXCEPT ![p][u] = "store"] /\ todo' = [todo EXCEPT ![p][u] = Out[u]]
    BY <2>0, <2>a, <2>1 DEF Busy
  <2>2. CASE pc' = [pc EXCEPT ![p][u] = "discard_err"] /\ UNCHANGED todo
    BY <2>0, <2>a, <2>2 DEF Busy
  <2> QED
    BY <1>10, <2>1, <2>2 DEF FinishCmd
<1>11. CASE Publish(p, u)
  BY <1>11, WorkerBuilds, <1>0 DEF Publish, Busy, DiskTypeOK, CacheInv, StoredInv
<1>12. CASE Discard(p, u)
  BY <1>12, WorkerBuilds, <1>0 DEF Discard, Outcome, Busy, DiskTypeOK, CacheInv, DoneInv
<1>13. CASE CloseDir(p, u)
  BY <1>13, WorkerBuilds, <1>0 DEF CloseDir, Busy, DiskTypeOK, CacheInv, DoneInv
<1>14. ASSUME NEW d \in Uid, RestoreInto(p, u, d) PROVE WorkerMove(p, u)
  <2>1. d \in Deps[u] /\ manifest[d] = "good" /\ pc[p][u] = "restore"
    BY <1>14, <1>0 DEF RestoreInto, Busy, CacheInv, WorkerInv
  <2>2. /\ pc' = [pc EXCEPT ![p][u] = "link"] /\ dep' = [dep EXCEPT ![p][u] = d]
        /\ UNCHANGED <<todo, cas, manifest, procs>>
    BY <1>14, <2>1 DEF RestoreInto
  <2>3. /\ pc'[p][u] = "link" /\ dep'[p][u] = d /\ d \in todo[p][u]
        /\ todo[p][u] \subseteq Deps[u]
    BY <1>14, <2>1, <2>2 DEF RestoreInto, CacheInv, WorkerInv
  <2> QED
    BY <1>0, <2>1, <2>2, <2>3, WorkerBuilds DEF Busy
<1>20. CASE LinkInto(p, u)
  <2>1. /\ pc' = [pc EXCEPT ![p][u] = "restore"] /\ dep' = [dep EXCEPT ![p][u] = u]
        /\ todo' = [todo EXCEPT ![p][u] = @ \ {dep[p][u]}]
        /\ UNCHANGED <<cas, manifest, procs>> /\ pc[p][u] = "link"
    BY <1>20 DEF LinkInto, LinksFind
  <2>2. /\ pc'[p][u] = "restore" /\ todo'[p][u] \subseteq Deps[u]
    BY <2>1 DEF CacheInv, WorkerInv
  <2> QED
    BY <1>0, <2>1, <2>2, WorkerBuilds DEF Busy
<1>15. ASSUME Heal(p, u) PROVE FALSE
  BY <1>15 DEF Heal, CacheInv, NoRemoval
<1>16. ASSUME NEW b \in Blob, StoreFileToCAS(p, u, b) PROVE WorkerMove(p, u)
  <2>1. CASE UNCHANGED pc
    BY <1>16, <1>0, <2>1, WorkerBuilds DEF StoreFileToCAS, Busy, CacheInv, StoredInv
  <2>2. CASE pc' = [pc EXCEPT ![p][u] = "discard_err"] /\ UNCHANGED <<cas, todo>>
    <3>1. UNCHANGED <<manifest, ps, uidSet, dep>> /\ pc[p][u] = "store"
      BY <1>16 DEF StoreFileToCAS
    <3>2. pc'[p][u] = "discard_err"
      BY <2>2
    <3> QED
      BY <1>0, <2>2, <3>1, <3>2, WorkerBuilds DEF Busy
  <2> QED
    BY <1>16, <2>1, <2>2 DEF StoreFileToCAS
<1>17. CASE MkdirGrb(p, u)
  BY <1>17, WorkerBuilds, <1>0 DEF MkdirGrb, Outcome, Busy, DiskTypeOK, CacheInv, DoneInv
<1>18. CASE RenameFails(p, u)
  BY <1>18, WorkerBuilds, <1>0 DEF RenameFails, Outcome, Busy, DiskTypeOK, CacheInv, DoneInv
<1>19. CASE LstatTmp(p, u)
  BY <1>19, WorkerBuilds, <1>0 DEF LstatTmp, Outcome, Busy, DiskTypeOK, CacheInv, DoneInv
<1> QED
  BY <1>1, <1>2, <1>3, <1>4, <1>5, <1>6, <1>7, <1>8, <1>9, <1>10, <1>11, <1>12,
     <1>13, <1>14, <1>15, <1>16, <1>17, <1>18, <1>19, <1>20 DEF WorkerStep

LEMMA ProcessMoves ==
  ASSUME GrowsOnly, TypeOK, CacheInv, NEW p \in Proc,
         Start(p) \/ Crash(p) \/ ProcessStep(p)
  PROVE  ProcessMove(p)
<1> USE CacheAssumption
    DEF ProcessMove, TypeOK, ProcTypeOK, WorkerTypeOK, disk, procs, workers, others
<1>1. CASE Start(p)
  <2>1. ps' = [ps EXCEPT ![p] = "load"]
    BY <1>1 DEF Start, GrowsOnly
  <2>2. ps[p] \notin {"build", "install"}
    BY <1>1 DEF Start
  <2>3. \A u \in Uid : pc[p][u] = "new"
    BY <2>2 DEF CacheInv, WorkerInv
  <2>4. UNCHANGED <<cas, manifest, pc, todo, dep>> /\ uidSet' = [uidSet EXCEPT ![p] = {}]
    BY <1>1 DEF Start
  <2> QED
    BY <2>1, <2>3, <2>4
<1>2. CASE Crash(p)
  BY <1>2 DEF Crash, EndProcess
<1>3. ASSUME ClearCache(p) \/ InstallHeal(p) PROVE FALSE
  BY <1>3 DEF ClearCache, InstallHeal, CacheInv, NoRemoval
<1>4. CASE LoadUidSet(p)
  BY <1>4 DEF LoadUidSet, CacheInv, NoRemoval, DiskTypeOK
<1>5. CASE FatalException(p)
  BY <1>5 DEF FatalException, EndProcess
<1>6. CASE RunReturns(p)
  <2>1. CASE EndProcess(p, "failed")
    BY <1>6, <2>1 DEF RunReturns, EndProcess
  <2>2. CASE UNCHANGED <<lock, content, workers>>
    BY <1>6, <2>2 DEF RunReturns, CacheInv, SnapshotInv, EndProcess, PsState
  <2> QED
    BY <1>6, <2>1, <2>2 DEF RunReturns
<1>7. ASSUME NEW r \in Root, InstallRoot(p, r) PROVE ProcessMove(p)
  <2>1. manifest[r] = "good"
    BY <1>7 DEF InstallRoot, CacheInv, WorkerInv, DoneInv
  <2>2. UNCHANGED <<ps, todo, dep, pc, uidSet, cas, manifest>> /\ ps[p] = "install"
    BY <1>7, <2>1 DEF InstallRoot
  <2> QED
    BY <2>2 DEF CacheInv, SnapshotInv, WorkerInv
<1>8. CASE Succeed(p)
  BY <1>8 DEF Succeed, EndProcess
<1> QED
  BY <1>1, <1>2, <1>3, <1>4, <1>5, <1>6, <1>7, <1>8 DEF ProcessStep

LEMMA WorkerKeeps ==
  ASSUME TypeOK, CacheInv, NEW p \in Proc, NEW u \in Uid, WorkerMove(p, u)
  PROVE  CacheInv'
<1> USE DEF CacheInv, WorkerMove
<1>1. NoRemoval'
  BY DEF NoRemoval
<1>2. ManifestBacked'
  BY DEF ManifestBacked
<1>3. StoredInv'
  BY DEF StoredInv
<1>4. SnapshotInv'
  BY CacheAssumption DEF SnapshotInv, TypeOK, ProcTypeOK
<1>5. DoneInv'
  BY DEF DoneInv
<1>6. WorkerInv'
  BY CacheAssumption DEF WorkerInv
<1> QED
  BY <1>1, <1>2, <1>3, <1>4, <1>5, <1>6

LEMMA ProcessKeeps ==
  ASSUME TypeOK, CacheInv, NEW p \in Proc, ProcessMove(p)
  PROVE  CacheInv'
<1> USE DEF CacheInv, ProcessMove
<1>1. NoRemoval'
  BY DEF NoRemoval
<1>2. ManifestBacked'
  BY DEF ManifestBacked
<1>3. StoredInv'
  BY DEF StoredInv
<1>4. SnapshotInv'
  BY CacheAssumption DEF SnapshotInv, TypeOK, ProcTypeOK
<1>5. DoneInv'
  BY DEF DoneInv
<1>6. WorkerInv'
  BY CacheAssumption DEF WorkerInv, Busy
<1> QED
  BY <1>1, <1>2, <1>3, <1>4, <1>5, <1>6

LEMMA CacheInvInit == GrowsOnly /\ Init => CacheInv
BY DEF GrowsOnly, Init, CacheInv, NoRemoval, ManifestBacked, StoredInv,
       SnapshotInv, DoneInv, WorkerInv, Busy

(* Without --clear, and from a cache whose manifests are well formed,      *)
(* nothing removes a manifest as long as workspaces stay where they are.   *)
LEMMA CacheInvStep ==
  ASSUME GrowsOnly, TypeOK, CacheInv, LinksFind, [Next]_vars
  PROVE  CacheInv'
<1>1. ASSUME UNCHANGED <<cas, manifest, ps, uidSet, pc, todo, dep>> PROVE CacheInv'
  BY <1>1 DEF CacheInv, NoRemoval, ManifestBacked, StoredInv, SnapshotInv,
              DoneInv, WorkerInv
<1>2. ASSUME NEW u \in Uid, OrphanExits(u) PROVE CacheInv'
  BY <1>1, <1>2 DEF OrphanExits, procs, workers
<1>3. CASE GarbageCollector
  BY <1>1, <1>3 DEF GarbageCollector, disk, procs, workers
<1>4. CASE UNCHANGED vars
  BY <1>1, <1>4 DEF vars
<1> QED
  BY <1>2, <1>3, <1>4, WorkerMoves, WorkerKeeps, ProcessMoves, ProcessKeeps
  DEF Next, AtRest
-----------------------------------------------------------------------------
(***************************************************************************)
(* Manifests and blobs, whatever is malformed, fails or is healed.         *)
(***************************************************************************)
NoClear == \A p \in Proc : ps[p] \notin {"clear_cas", "clear_tmp", "clear_uid"}

InstallInv ==
  \A p \in Proc : ps[p] \in {"install", "install_heal"} => \A u \in Uid : pc[p][u] = "done"

BackedInv == NoClear /\ InstallInv /\ ManifestBacked /\ StoredInv

(* Blobs are only added, and a manifest is left alone, removed, or written *)
(* when its blobs are there.                                               *)
BackedMove ==
  /\ cas \subseteq cas'
  /\ \A v \in Uid : \/ manifest'[v] \in {manifest[v], "none"}
                    \/ Out[v] \subseteq cas
  /\ \A q \in Proc, v \in Uid :
       pc'[q][v] = "store" => Out[v] \ todo'[q][v] \subseteq cas'

LEMMA SameStores ==
  ASSUME TypeOK, BackedInv, NEW p \in Proc, NEW u \in Uid, cas \subseteq cas',
         UNCHANGED pc \/ \E s : pc' = [pc EXCEPT ![p][u] = s],
         UNCHANGED todo \/ \E x : todo' = [todo EXCEPT ![p][u] = x],
         pc'[p][u] = "store" => Out[u] \ todo'[p][u] \subseteq cas'
  PROVE  \A q \in Proc, v \in Uid :
           pc'[q][v] = "store" => Out[v] \ todo'[q][v] \subseteq cas'
<1> SUFFICES ASSUME NEW q \in Proc, NEW v \in Uid, pc'[q][v] = "store", q # p \/ v # u
             PROVE  Out[v] \ todo'[q][v] \subseteq cas'
  OBVIOUS
<1>1. pc'[q][v] = pc[q][v]
  BY DEF TypeOK, WorkerTypeOK
<1>2. todo'[q][v] = todo[q][v]
  BY DEF TypeOK, WorkerTypeOK
<1> QED
  BY <1>1, <1>2 DEF BackedInv, StoredInv

LEMMA WorkerBacked ==
  ASSUME TypeOK, BackedInv, NEW p \in Proc, NEW u \in Uid, WorkerStep(p, u)
  PROVE  BackedMove /\ UNCHANGED ps /\ InstallInv'
<1> USE CacheAssumption DEF disk, procs, others, Goto
<1>5. pc[p][u] # "done"
  BY DEF WorkerStep, Prepare, DepsVisited, BrokenByDep, MkdirTmp, OpenTmp, Flock,
         StatManifest, RemoveContents, RestoreInto, LinkInto, Heal, StartCmd, FinishCmd,
         StoreFileToCAS, Publish, MkdirGrb, Discard, RenameFails, LstatTmp, CloseDir
<1>6. UNCHANGED pc \/ \E s : pc' = [pc EXCEPT ![p][u] = s]
  BY DEF WorkerStep, Prepare, DepsVisited, BrokenByDep, MkdirTmp, OpenTmp, Flock,
         StatManifest, RemoveContents, RestoreInto, LinkInto, Heal, StartCmd, FinishCmd,
         StoreFileToCAS, Publish, MkdirGrb, Discard, RenameFails, LstatTmp, CloseDir
<1>7. ASSUME UNCHANGED ps PROVE InstallInv'
  BY <1>5, <1>6, <1>7 DEF BackedInv, InstallInv, TypeOK, WorkerTypeOK
<1>1. ASSUME NEW b \in Blob, StoreFileToCAS(p, u, b) PROVE BackedMove /\ UNCHANGED ps
  <2>1. /\ pc[p][u] = "store" /\ cas \subseteq cas' /\ UNCHANGED <<manifest, ps>>
        /\ \/ UNCHANGED pc /\ todo' = [todo EXCEPT ![p][u] = @ \ {b}] /\ b \in cas'
           \/ pc' = [pc EXCEPT ![p][u] = "discard_err"] /\ UNCHANGED todo
    BY <1>1 DEF StoreFileToCAS
  <2>2. pc'[p][u] = "store" => Out[u] \ todo'[p][u] \subseteq cas'
    <3>1. Out[u] \ todo[p][u] \subseteq cas
      BY <2>1 DEF BackedInv, StoredInv
    <3> QED
      BY <2>1, <3>1 DEF TypeOK, WorkerTypeOK
  <2> QED
    BY <2>1, <2>2, SameStores DEF BackedMove
<1>2. CASE Publish(p, u)
  <2>1. /\ Out[u] \subseteq cas /\ UNCHANGED <<cas, todo, ps>>
        /\ pc' = [pc EXCEPT ![p][u] = "discard_ok"]
        /\ manifest' = [manifest EXCEPT ![u] = "good"]
    BY <1>2 DEF Publish, BackedInv, StoredInv
  <2>2. \A q \in Proc, v \in Uid : pc'[q][v] = "store" => Out[v] \ todo'[q][v] \subseteq cas'
    BY <2>1, SameStores DEF TypeOK, WorkerTypeOK
  <2>3. \A v \in Uid : manifest'[v] \in {manifest[v], "none"} \/ Out[v] \subseteq cas
    BY <2>1 DEF TypeOK, DiskTypeOK
  <2>4. cas \subseteq cas' /\ UNCHANGED ps
    BY <2>1
  <2>5. BackedMove
    BY ONLY <2>2, <2>3, <2>4 DEF BackedMove
  <2> QED
    BY <1>7, <2>4, <2>5
<1>3. CASE FinishCmd(p, u)
  <2>1. /\ UNCHANGED <<cas, manifest, ps>>
        /\ \/ pc' = [pc EXCEPT ![p][u] = "store"] /\ todo' = [todo EXCEPT ![p][u] = Out[u]]
           \/ pc' = [pc EXCEPT ![p][u] = "discard_err"] /\ UNCHANGED todo
    BY <1>3 DEF FinishCmd
  <2>2. pc'[p][u] = "store" => Out[u] \ todo'[p][u] \subseteq cas'
    BY <2>1 DEF TypeOK, WorkerTypeOK
  <2>3. \A q \in Proc, v \in Uid : pc'[q][v] = "store" => Out[v] \ todo'[q][v] \subseteq cas'
    <3>1. \E s : pc' = [pc EXCEPT ![p][u] = s]
      BY <2>1
    <3>2. UNCHANGED todo \/ \E x : todo' = [todo EXCEPT ![p][u] = x]
      BY <2>1
    <3>3. cas \subseteq cas'
      BY <2>1
    <3> QED
      BY <2>2, <3>1, <3>2, <3>3, SameStores
  <2>4. cas \subseteq cas' /\ UNCHANGED <<ps, manifest>>
    BY <2>1
  <2>5. BackedMove
    BY ONLY <2>3, <2>4 DEF BackedMove
  <2> QED
    BY <1>7, <2>4, <2>5
<1>4. ASSUME ~(\E b \in Blob : StoreFileToCAS(p, u, b)), ~Publish(p, u), ~FinishCmd(p, u)
      PROVE  BackedMove /\ UNCHANGED ps
  <2>1. UNCHANGED <<cas, ps>> /\ \A v \in Uid : manifest'[v] \in {manifest[v], "none"}
    BY <1>4 DEF WorkerStep, Prepare, DepsVisited, BrokenByDep, MkdirTmp, OpenTmp, Flock,
         StatManifest, RemoveContents, RestoreInto, LinkInto, Heal, StartCmd,
         MkdirGrb, Discard, RenameFails, LstatTmp, CloseDir
  <2>2. \E s : s # "store" /\ pc' = [pc EXCEPT ![p][u] = s]
    BY <1>4 DEF WorkerStep, Prepare, DepsVisited, BrokenByDep, MkdirTmp, OpenTmp, Flock,
         StatManifest, RemoveContents, RestoreInto, LinkInto, Heal, StartCmd,
         MkdirGrb, Discard, RenameFails, LstatTmp, CloseDir
  <2>3. UNCHANGED todo \/ \E x : todo' = [todo EXCEPT ![p][u] = x]
    BY <1>4 DEF WorkerStep, Prepare, DepsVisited, BrokenByDep, MkdirTmp, OpenTmp, Flock,
         StatManifest, RemoveContents, RestoreInto, LinkInto, Heal, StartCmd,
         MkdirGrb, Discard, RenameFails, LstatTmp, CloseDir
  <2>4. pc'[p][u] # "store"
    BY <2>2 DEF TypeOK, WorkerTypeOK
  <2> QED
    BY <2>1, <2>2, <2>3, <2>4, SameStores DEF BackedMove
<1> QED
  BY <1>1, <1>2, <1>3, <1>4, <1>7

LEMMA ProcessBacked ==
  ASSUME ~MayClear, TypeOK, BackedInv, NEW p \in Proc,
         Start(p) \/ Crash(p) \/ ProcessStep(p)
  PROVE  BackedMove /\ NoClear' /\ InstallInv'
<1> USE CacheAssumption DEF disk, procs, workers, others
<1>1. ~ClearCache(p)
  BY DEF ClearCache, BackedInv, NoClear
<1>2. UNCHANGED cas /\ \A v \in Uid : manifest'[v] \in {manifest[v], "none"}
  BY <1>1 DEF Start, Crash, ProcessStep, LoadUidSet, FatalException, RunReturns,
              InstallRoot, InstallHeal, Succeed, TypeOK, DiskTypeOK
<1>3. \E s \in PsState : /\ ps' = ps \/ ps' = [ps EXCEPT ![p] = s]
                         /\ s \notin {"clear_cas", "clear_tmp", "clear_uid"}
  BY <1>1 DEF Start, Crash, ProcessStep, LoadUidSet, FatalException, RunReturns,
              InstallRoot, InstallHeal, Succeed, EndProcess, PsState
<1>4. NoClear'
  BY <1>3 DEF BackedInv, NoClear, TypeOK, ProcTypeOK
<1>5. \/ UNCHANGED pc /\ UNCHANGED todo
      \/ \E s : EndProcess(p, s)
      \/ \E r \in Root : InstallRoot(p, r)
  BY <1>1 DEF Start, Crash, ProcessStep, LoadUidSet, FatalException, RunReturns,
              InstallHeal, Succeed
<1>6. \A q \in Proc, v \in Uid : pc'[q][v] = "store" => Out[v] \ todo'[q][v] \subseteq cas'
  <2>1. CASE UNCHANGED pc /\ UNCHANGED todo
    BY <1>2, <2>1 DEF BackedInv, StoredInv
  <2>2. ASSUME NEW s, EndProcess(p, s), NEW q \in Proc, NEW v \in Uid, pc'[q][v] = "store"
        PROVE  pc'[q][v] = pc[q][v] /\ todo'[q][v] = todo[q][v]
    BY <2>2 DEF EndProcess, TypeOK, WorkerTypeOK
  <2>3. ASSUME NEW r \in Root, InstallRoot(p, r), NEW q \in Proc, NEW v \in Uid, pc'[q][v] = "store"
        PROVE  Out[v] \ todo'[q][v] \subseteq cas'
    <3>1. pc'[q][v] = pc[q][v] /\ (UNCHANGED todo \/ todo' = [todo EXCEPT ![p][r] = {r}])
      BY <2>3 DEF InstallRoot
    <3>2. pc[p][r] = "done"
      BY <2>3 DEF InstallRoot, BackedInv, InstallInv
    <3>3. todo'[q][v] = todo[q][v]
      <4>1. q # p \/ v # r
        BY <2>3, <3>1, <3>2
      <4> QED
        BY <3>1, <4>1 DEF TypeOK, WorkerTypeOK
    <3> QED
      BY <1>2, <2>3, <3>1, <3>3 DEF BackedInv, StoredInv
  <2> QED
    BY <1>2, <1>5, <2>1, <2>2, <2>3 DEF BackedInv, StoredInv
<1>7. InstallInv'
  <2>1. CASE \E r \in Root : InstallRoot(p, r)
    <3>1. UNCHANGED pc /\ ps[p] = "install" /\ (UNCHANGED ps \/ ps' = [ps EXCEPT ![p] = "install_heal"])
      BY <2>1 DEF InstallRoot
    <3> QED
      BY <3>1 DEF BackedInv, InstallInv, TypeOK, ProcTypeOK
  <2>2. ASSUME NEW s \in {"load", "build"}, UNCHANGED pc, ps' = [ps EXCEPT ![p] = s]
        PROVE  InstallInv'
    BY <2>2 DEF BackedInv, InstallInv, TypeOK, ProcTypeOK
  <2>3. CASE /\ UNCHANGED pc /\ ps' = [ps EXCEPT ![p] = "install"]
             /\ \A u \in Uid : pc[p][u] = "done"
    BY <2>3 DEF BackedInv, InstallInv, TypeOK, ProcTypeOK
  <2>4. ASSUME NEW s \in {"ok", "failed", "down"}, EndProcess(p, s) PROVE InstallInv'
    <3>1. ps' = [ps EXCEPT ![p] = s] /\ pc' = [pc EXCEPT ![p] = [u \in Uid |-> "new"]]
      BY <2>4 DEF EndProcess
    <3>2. ps'[p] = s
      BY <3>1 DEF TypeOK, ProcTypeOK
    <3>3. \A q \in Proc : q # p => ps'[q] = ps[q] /\ pc'[q] = pc[q]
      BY <3>1 DEF TypeOK, ProcTypeOK, WorkerTypeOK
    <3> QED
      BY <2>4, <3>2, <3>3 DEF BackedInv, InstallInv
  <2> QED
    BY <1>1, <2>1, <2>2, <2>3, <2>4 DEF Start, Crash, ProcessStep, LoadUidSet,
       FatalException, RunReturns, InstallHeal, Succeed
<1> QED
  BY <1>2, <1>4, <1>6, <1>7 DEF BackedMove

LEMMA BackedStep ==
  ASSUME ~MayClear, TypeOK, BackedInv, [Next]_vars
  PROVE  BackedInv'
<1>1. ASSUME BackedMove PROVE ManifestBacked' /\ StoredInv'
  BY <1>1 DEF BackedMove, BackedInv, ManifestBacked, StoredInv
<1>2. ASSUME UNCHANGED <<cas, manifest, ps, pc, todo>> PROVE BackedInv'
  BY <1>2 DEF BackedInv, NoClear, InstallInv, ManifestBacked, StoredInv
<1>3. ASSUME (\E u \in Uid : OrphanExits(u)) \/ GarbageCollector \/ UNCHANGED vars
      PROVE  BackedInv'
  BY <1>2, <1>3 DEF OrphanExits, GarbageCollector, disk, procs, workers, vars
<1>4. ASSUME NEW p \in Proc, NEW u \in Uid, WorkerStep(p, u) PROVE BackedInv'
  BY <1>1, <1>4, WorkerBacked DEF BackedInv, NoClear
<1>5. ASSUME NEW p \in Proc, Start(p) \/ Crash(p) \/ ProcessStep(p) PROVE BackedInv'
  BY <1>1, <1>5, ProcessBacked DEF BackedInv
<1> QED
  BY <1>3, <1>4, <1>5 DEF Next, AtRest

LEMMA BackedInvariant == ASSUME ~MayClear PROVE Spec => [](TypeOK /\ BackedInv)
<1>1. Init => BackedInv
  BY DEF Init, BackedInv, NoClear, InstallInv, ManifestBacked, StoredInv
<1>2. TypeOK /\ BackedInv /\ [Next]_vars => BackedInv'
  BY BackedStep
<1> QED
  BY <1>1, <1>2, TypeCorrect, PTL DEF Spec

(* A well-formed manifest on disk never names a blob that is not in cas/,  *)
(* whatever process is killed, fails, loses its workspace, heals a         *)
(* malformed manifest or races with another (executor.go storeOutputs).    *)
THEOREM ManifestBackedHolds == ASSUME ~MayClear PROVE Spec => []ManifestBacked
<1>1. BackedInv => ManifestBacked
  BY DEF BackedInv
<1> QED
  BY <1>1, BackedInvariant, PTL

(* What installRoot links to is in cas/ at that moment, for every number   *)
(* of processes, with failing commands and malformed manifests, as long as *)
(* nobody clears the cache.                                                *)
THEOREM InstalledReadableHolds == ASSUME ~MayClear PROVE Spec => InstalledReadable
<1>1. ASSUME TypeOK, BackedInv, [Next]_vars, NEW p \in Proc, NEW r \in Root,
             r \notin installed[p], r \in installed'[p]
      PROVE  Out[r] \subseteq cas
  <2>1. \E q \in Proc, x \in Root : InstallRoot(q, x)
    <3>1. CASE UNCHANGED installed
      BY <1>1, <3>1
    <3>2. ASSUME NEW q \in Proc, Start(q) PROVE FALSE
      BY <1>1, <3>2 DEF Start, TypeOK, ProcTypeOK
    <3>3. ASSUME NEW q \in Proc, Crash(q) PROVE UNCHANGED installed
      BY <3>3 DEF Crash
    <3>4. ASSUME NEW q \in Proc, ProcessStep(q),
                 ~ \E x \in Root : InstallRoot(q, x)
          PROVE  UNCHANGED installed
      BY <3>4 DEF ProcessStep, ClearCache, LoadUidSet, FatalException,
                  RunReturns, InstallHeal, Succeed, procs
    <3>5. ASSUME NEW q \in Proc, NEW u \in Uid, WorkerStep(q, u)
          PROVE  UNCHANGED installed
      BY <3>5 DEF WorkerStep, Prepare, DepsVisited, BrokenByDep, MkdirTmp,
                  OpenTmp, Flock, StatManifest, RemoveContents, RestoreInto,
                  LinkInto, Heal, StartCmd, FinishCmd, StoreFileToCAS, Publish, MkdirGrb,
                  Discard, RenameFails, LstatTmp, CloseDir, procs
    <3>6. ASSUME NEW u \in Uid, OrphanExits(u) PROVE UNCHANGED installed
      BY <3>6 DEF OrphanExits, procs
    <3>7. CASE GarbageCollector
      BY <3>1, <3>7 DEF GarbageCollector, procs
    <3> QED
      BY <1>1, <3>1, <3>2, <3>3, <3>4, <3>5, <3>6, <3>7 DEF Next, AtRest, vars
  <2>2. PICK q \in Proc, x \in Root : InstallRoot(q, x)
    BY <2>1
  <2>3. manifest[x] = "good" /\ installed' = [installed EXCEPT ![q] = @ \cup {x}]
    BY <1>1, <2>2 DEF InstallRoot
  <2>4. x = r
    BY <1>1, <2>3 DEF TypeOK, ProcTypeOK
  <2> QED
    BY <1>1, <2>3, <2>4, CacheAssumption DEF BackedInv, ManifestBacked
<1>2. TypeOK /\ BackedInv /\ [Next]_vars =>
        [\A p \in Proc, r \in Root :
           r \notin installed[p] /\ r \in installed'[p] => Out[r] \subseteq cas]_vars
  BY <1>1
<1> QED
  BY <1>2, BackedInvariant, PTL DEF Spec, InstalledReadable
=============================================================================
