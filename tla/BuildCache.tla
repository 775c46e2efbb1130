----------------------------- MODULE BuildCache -----------------------------
(***************************************************************************)
(* The build cache on disk, shared by every `ay make` that uses the same   *)
(* build directory: the content store cas/, the manifests uid/, the        *)
(* workspaces tmp/<uid> and their locks (executor.go).                     *)
(*                                                                         *)
(* A process p builds the nodes of one graph; a node is named by its uid.  *)
(* The worker <<p, u>> is the goroutine of p that executes node u.  What   *)
(* workers of different processes share is the disk:                       *)
(*                                                                         *)
(*   cas       the blobs present under cas/                                *)
(*   manifest  the state of uid/<u>: absent, well formed or malformed      *)
(*   tmpDir    the inode the path tmp/<u> names, or NoInode                *)
(*   lock      the worker that holds the flock of an inode, or None        *)
(*   content   what lies in a workspace inode, each item with its writer:  *)
(*             a restored dependency or OutFile, what the command wrote    *)
(*                                                                         *)
(* Of a worker, todo is what it has still to restore or to store, and dep  *)
(* the dependency it is restoring (its own node when there is none).       *)
(*                                                                         *)
(* A path and the inode it names are kept apart on purpose: the flock is   *)
(* taken on an open directory, whereas wiping, restoring, running, storing *)
(* and discarding all go through the path.                                 *)
(***************************************************************************)
EXTENDS Naturals, FiniteSets

CONSTANTS
  Proc,        \* processes that share the build directory
  Uid,         \* nodes, named by uid
  Deps,        \* Deps[u]: the build dependencies of node u
  Out,         \* Out[u]: the blobs the command of u produces
  Blob,        \* contents, named by hash
  Root,        \* the results a process installs
  Inode,       \* identities of workspace directories
  NoInode, None, Dead, OutFile,
  Threads,     \* capacity of Executor.sema
  KeepGoing,   \* -k
  CmdMayFail,  \* a command may exit with an error of its own
  MayClear,    \* a process may be started with --clear
  MayBeBad,    \* manifests that may be malformed when the story begins
  MaxStarts,   \* bound: processes started, restarts included
  MaxCrashes   \* bound: processes killed half-way

ASSUME CacheAssumption ==
  /\ Deps \in [Uid -> SUBSET Uid]
  /\ Out \in [Uid -> SUBSET Blob]
  /\ Root \subseteq Uid
  /\ MayBeBad \subseteq Uid
  /\ Threads \in Nat \ {0}
  /\ MaxStarts \in Nat /\ MaxCrashes \in Nat
  /\ KeepGoing \in BOOLEAN /\ CmdMayFail \in BOOLEAN /\ MayClear \in BOOLEAN
  /\ NoInode \notin Inode
  /\ None \notin Proc /\ Dead \notin Proc /\ OutFile \notin Uid

VARIABLES cas, manifest, tmpDir, lock, content,   \* the disk
          grb,                                    \* grb/ exists
          orphan,                                 \* commands left running
          ps, uidSet, installed,                  \* per process
          pc, fd, todo, dep,                      \* per worker
          starts, crashes,                        \* the bounds' counters
          cmdFailed                               \* history: a command has failed by itself

disk == <<cas, manifest, tmpDir, lock, content>>
procs == <<ps, uidSet, installed>>
workers == <<pc, fd, todo, dep>>
others == <<starts, crashes, orphan, grb, cmdFailed>>
vars == <<cas, manifest, tmpDir, lock, content, grb, orphan, ps, uidSet, installed,
          pc, fd, todo, dep, starts, crashes, cmdFailed>>

(* Worker states between acquiring Executor.sema and releasing it.         *)
Busy == {"mkdir", "open", "lock", "stat", "wipe", "restore", "link", "heal",
         "cmd", "store", "discard_ok", "discard_err", "rename_ok", "rename_err",
         "lstat_ok", "lstat_err", "close_ok", "close_err"}

(* Worker states in which the code believes it owns the workspace: after   *)
(* the stat of the manifest under the lock, until discard has returned.    *)
Critical == {"wipe", "restore", "link", "heal", "cmd", "store", "discard_ok",
             "discard_err", "rename_ok", "rename_err", "lstat_ok", "lstat_err"}

(* Worker states with the flock of the directory, and with it open.        *)
Held == {"stat", "close_ok", "close_err"} \cup Critical
Opened == Held \cup {"lock"}

PcState == Busy \cup {"new", "wait", "done", "err"}

PsState == {"down", "clear_cas", "clear_tmp", "clear_uid", "load", "build",
            "install", "install_heal", "ok", "failed"}

Item == (Proc \cup {Dead}) \X (Uid \cup {OutFile})

DiskTypeOK ==
  /\ cas \subseteq Blob
  /\ manifest \in [Uid -> {"none", "good", "bad"}]
  /\ tmpDir \in [Uid -> Inode \cup {NoInode}]
  /\ lock \in [Inode -> Proc \cup {None}]
  /\ content \in [Inode -> SUBSET Item]
  /\ grb \in BOOLEAN
  /\ orphan \subseteq Uid

ProcTypeOK ==
  /\ ps \in [Proc -> PsState]
  /\ uidSet \in [Proc -> SUBSET Uid]
  /\ installed \in [Proc -> SUBSET Root]
  /\ starts \in Nat
  /\ crashes \in Nat
  /\ cmdFailed \in BOOLEAN

WorkerTypeOK ==
  /\ pc \in [Proc -> [Uid -> PcState]]
  /\ fd \in [Proc -> [Uid -> Inode \cup {NoInode}]]
  /\ todo \in [Proc -> [Uid -> SUBSET (Uid \cup Blob)]]
  /\ dep \in [Proc -> [Uid -> Uid]]

(* The directory is open from os.Open to the deferred dir.Close, on every  *)
(* way out of execute.                                                     *)
DescriptorOK ==
  \A p \in Proc, u \in Uid : fd[p][u] \in Inode <=> pc[p][u] \in Opened

(* Types, and that no worker leaves execute with its directory still open. *)
TypeOK == DiskTypeOK /\ ProcTypeOK /\ WorkerTypeOK /\ DescriptorOK

Init ==
  /\ cas = {}
  /\ manifest \in {m \in [Uid -> {"none", "bad"}] :
                      \A u \in Uid \ MayBeBad : m[u] = "none"}
  /\ tmpDir = [u \in Uid |-> NoInode]
  /\ lock = [i \in Inode |-> None]
  /\ content = [i \in Inode |-> {}]
  /\ grb = FALSE
  /\ orphan = {}
  /\ ps = [p \in Proc |-> "down"]
  /\ uidSet = [p \in Proc |-> {}]
  /\ installed = [p \in Proc |-> {}]
  /\ pc = [p \in Proc |-> [u \in Uid |-> "new"]]
  /\ fd = [p \in Proc |-> [u \in Uid |-> NoInode]]
  /\ todo = [p \in Proc |-> [u \in Uid |-> {}]]
  /\ dep = [p \in Proc |-> [u \in Uid |-> u]]
  /\ starts = 0
  /\ crashes = 0
  /\ cmdFailed = FALSE
-----------------------------------------------------------------------------
(***************************************************************************)
(* The file system operations the executor is written with.               *)
(***************************************************************************)
Goto(p, u, s) == pc' = [pc EXCEPT ![p][u] = s]

(* An inode nothing names and nobody has open.                             *)
FreeInode(i) ==
  /\ \A u \in Uid : tmpDir[u] # i
  /\ \A q \in Proc, u \in Uid : fd[q][u] # i

(* os.MkdirAll on a path in tmp/<u>: a missing workspace appears, empty.   *)
MkdirAll(u) ==
  \/ /\ tmpDir[u] # NoInode
     /\ UNCHANGED <<tmpDir, content>>
  \/ /\ tmpDir[u] = NoInode
     /\ \E i \in Inode :
          /\ FreeInode(i)
          /\ tmpDir' = [tmpDir EXCEPT ![u] = i]
          /\ content' = [content EXCEPT ![i] = {}]

(* What the path tmp/<u> shows now.                                        *)
AtPath(u) == IF tmpDir[u] = NoInode THEN {} ELSE content[tmpDir[u]]

(* What os.Exit, a kill and the end of main have in common: the kernel     *)
(* drops the process's locks and open directories.                         *)
Released(p) == [i \in Inode |-> IF lock[i] = p THEN None ELSE lock[i]]

Disown(p) ==
  [i \in Inode |->
    {IF it[1] = p THEN <<Dead, it[2]>> ELSE it : it \in content[i]}]

EndProcess(p, s) ==
  /\ ps' = [ps EXCEPT ![p] = s]
  /\ lock' = Released(p)
  /\ content' = Disown(p)
  /\ fd' = [fd EXCEPT ![p] = [u \in Uid |-> NoInode]]
  /\ todo' = [todo EXCEPT ![p] = [u \in Uid |-> {}]]
  /\ dep' = [dep EXCEPT ![p] = [u \in Uid |-> u]]
  /\ pc' = [pc EXCEPT ![p] = [u \in Uid |-> "new"]]
-----------------------------------------------------------------------------
(***************************************************************************)
(* A process: newExecutor (with clearCache under --clear), loadUidSet, the *)
(* build, the installation of the results, the end.                        *)
(***************************************************************************)
Start(p) ==
  /\ ps[p] \in {"down", "failed", "ok"}
  /\ starts < MaxStarts
  /\ starts' = starts + 1
  /\ \/ ps' = [ps EXCEPT ![p] = "load"]
     \/ MayClear /\ ps' = [ps EXCEPT ![p] = "clear_cas"]
  /\ installed' = [installed EXCEPT ![p] = {}]
  /\ uidSet' = [uidSet EXCEPT ![p] = {}]
  /\ UNCHANGED <<disk, grb, workers, crashes, orphan, cmdFailed>>

(* A fault for ClearCache: the manifests survive the clear.                *)
ClearKeepsManifests(p) ==
  /\ ps[p] \in {"clear_cas", "clear_tmp", "clear_uid"}
  /\ cas' = {}
  /\ tmpDir' = [u \in Uid |-> NoInode]
  /\ ps' = [ps EXCEPT ![p] = "load"]
  /\ grb' = TRUE
  /\ UNCHANGED <<manifest, lock, content, uidSet, installed, workers, starts, crashes, orphan, cmdFailed>>

(* clearCache discards cas, tmp and uid, one rename after the other; each  *)
(* is the last round of the loop of discard, see MkdirGrb.                 *)
ClearCache(p) ==
  /\ \/ /\ ps[p] = "clear_cas"
        /\ cas' = {}
        /\ ps' = [ps EXCEPT ![p] = "clear_tmp"]
        /\ UNCHANGED <<tmpDir, manifest>>
     \/ /\ ps[p] = "clear_tmp"
        /\ tmpDir' = [u \in Uid |-> NoInode]
        /\ ps' = [ps EXCEPT ![p] = "clear_uid"]
        /\ UNCHANGED <<cas, manifest>>
     \/ /\ ps[p] = "clear_uid"
        /\ manifest' = [u \in Uid |-> "none"]
        /\ ps' = [ps EXCEPT ![p] = "load"]
        /\ UNCHANGED <<cas, tmpDir>>
  /\ grb' = TRUE
  /\ UNCHANGED <<lock, content, uidSet, installed, workers, starts, crashes, orphan, cmdFailed>>

LoadUidSet(p) ==
  /\ ps[p] = "load"
  /\ uidSet' = [uidSet EXCEPT ![p] = {u \in Uid : manifest[u] # "none"}]
  /\ ps' = [ps EXCEPT ![p] = "build"]
  /\ UNCHANGED <<disk, installed, workers, others>>

(* fire of a failed node without -k: fatalException, os.Exit(1).  The       *)
(* commands of the other workers are neither waited for nor killed.        *)
FatalException(p) ==
  /\ ps[p] = "build"
  /\ ~KeepGoing
  /\ \E u \in Uid : pc[p][u] = "err"
  /\ EndProcess(p, "failed")
  /\ orphan' = orphan \cup {u \in Uid : pc[p][u] = "cmd"}
  /\ UNCHANGED <<cas, manifest, tmpDir, grb, uidSet, installed, starts, crashes, cmdFailed>>

(* Such a command ends and writes its output where it was told to.         *)
OrphanExits(u) ==
  /\ u \in orphan
  /\ orphan' = orphan \ {u}
  /\ content' = IF tmpDir[u] = NoInode THEN content
                ELSE [content EXCEPT ![tmpDir[u]] = @ \cup {<<Dead, OutFile>>}]
  /\ UNCHANGED <<cas, manifest, tmpDir, lock, grb, procs, workers, starts, crashes, cmdFailed>>

(* run has returned: cmdMake reports the failures or goes on to install.   *)
RunReturns(p) ==
  /\ ps[p] = "build"
  /\ \A u \in Uid : pc[p][u] \in {"done", "err"}
  /\ \/ /\ \A u \in Uid : pc[p][u] = "done"
        /\ ps' = [ps EXCEPT ![p] = "install"]
        /\ UNCHANGED <<lock, content, workers>>
     \/ /\ KeepGoing
        /\ \E u \in Uid : pc[p][u] = "err"
        /\ EndProcess(p, "failed")
  /\ UNCHANGED <<cas, manifest, tmpDir, uidSet, installed, others>>

(* installRoot: symbolic links into cas/, made from the manifest alone; a  *)
(* blob that is not there leaves a dangling link and no error.             *)
InstallRoot(p, r) ==
  /\ ps[p] = "install"
  /\ r \in Root \ installed[p]
  /\ \/ /\ manifest[r] = "good"
        /\ installed' = [installed EXCEPT ![p] = @ \cup {r}]
        /\ UNCHANGED <<ps, todo>>
     \/ /\ manifest[r] # "good"
        /\ ps' = [ps EXCEPT ![p] = "install_heal"]
        /\ todo' = [todo EXCEPT ![p][r] = {r}]
        /\ UNCHANGED installed
  /\ UNCHANGED <<disk, uidSet, pc, fd, dep, others>>

(* A fault for InstallHeal: the failure leaves the manifest where it was.  *)
InstallFailsOnly(p) ==
  /\ ps[p] = "install_heal"
  /\ EndProcess(p, "failed")
  /\ UNCHANGED <<manifest, cas, tmpDir, uidSet, installed, others>>

(* restoreInto removes the manifest it could not restore and rethrows.     *)
InstallHeal(p) ==
  /\ ps[p] = "install_heal"
  /\ \E r \in Root :
       /\ todo[p][r] = {r}
       /\ manifest' = [manifest EXCEPT ![r] = "none"]
  /\ EndProcess(p, "failed")
  /\ UNCHANGED <<cas, tmpDir, uidSet, installed, others>>

Succeed(p) ==
  /\ ps[p] = "install"
  /\ installed[p] = Root
  /\ EndProcess(p, "ok")
  /\ UNCHANGED <<cas, manifest, tmpDir, uidSet, installed, others>>

(* The process group is interrupted, commands included; what it left on    *)
(* disk stays.                                                             *)
Crash(p) ==
  /\ ps[p] \notin {"down", "ok", "failed"}
  /\ crashes < MaxCrashes
  /\ crashes' = crashes + 1
  /\ EndProcess(p, "down")
  /\ UNCHANGED <<cas, manifest, tmpDir, grb, uidSet, installed, starts, orphan, cmdFailed>>
-----------------------------------------------------------------------------
(***************************************************************************)
(* A worker: prepare, then execute.                                        *)
(***************************************************************************)
UidCached(p, u) == u \in uidSet[p] \/ manifest[u] # "none"

(* prepare takes a node after its dependencies, whose uids its own needs;  *)
(* a cached node is complete, whatever became of its dependencies.         *)
Prepare(p, u) ==
  /\ ps[p] = "build"
  /\ pc[p][u] = "new"
  /\ \A d \in Deps[u] : pc[p][d] # "new"
  /\ Goto(p, u, IF UidCached(p, u) THEN "done" ELSE "wait")
  /\ UNCHANGED <<disk, procs, fd, todo, dep, others>>

BusyWorkers(p) == {u \in Uid : pc[p][u] \in Busy}

(* The dependencies are visited before the semaphore is taken.             *)
DepsVisited(p, u) ==
  /\ ps[p] = "build"
  /\ pc[p][u] = "wait"
  /\ \A d \in Deps[u] : pc[p][d] = "done"
  /\ Cardinality(BusyWorkers(p)) < Threads
  /\ Goto(p, u, "mkdir")
  /\ UNCHANGED <<disk, procs, fd, todo, dep, others>>

BrokenByDep(p, u) ==
  /\ ps[p] = "build"
  /\ pc[p][u] = "wait"
  /\ \E d \in Deps[u] : pc[p][d] = "err"
  /\ Goto(p, u, "err")
  /\ UNCHANGED <<disk, procs, fd, todo, dep, others>>

MkdirTmp(p, u) ==
  /\ pc[p][u] = "mkdir"
  /\ MkdirAll(u)
  /\ Goto(p, u, "open")
  /\ UNCHANGED <<cas, manifest, lock, procs, fd, todo, dep, others>>

(* os.Open(tmp): the path may have been discarded since MkdirAll.          *)
OpenTmp(p, u) ==
  /\ pc[p][u] = "open"
  /\ fd' = [fd EXCEPT ![p][u] = tmpDir[u]]
  /\ Goto(p, u, IF tmpDir[u] = NoInode THEN "err" ELSE "lock")
  /\ UNCHANGED <<disk, procs, todo, dep, others>>

(* A fault for Flock: the lock is shared.                                  *)
FlockShared(p, u) ==
  /\ pc[p][u] = "lock"
  /\ lock' = [lock EXCEPT ![fd[p][u]] = p]
  /\ Goto(p, u, "stat")
  /\ UNCHANGED <<cas, manifest, tmpDir, content, procs, fd, todo, dep, others>>

Flock(p, u) ==
  /\ pc[p][u] = "lock"
  /\ lock[fd[p][u]] = None
  /\ lock' = [lock EXCEPT ![fd[p][u]] = p]
  /\ Goto(p, u, "stat")
  /\ UNCHANGED <<cas, manifest, tmpDir, content, procs, fd, todo, dep, others>>

(* Faults for StatManifest: no second look under the lock; a look at the   *)
(* blobs in place of the manifest.                                         *)
StatSkipped(p, u) ==
  /\ pc[p][u] = "stat"
  /\ Goto(p, u, "wipe")
  /\ UNCHANGED <<disk, procs, fd, todo, dep, others>>

StatBlobs(p, u) ==
  /\ pc[p][u] = "stat"
  /\ Goto(p, u, IF Out[u] \subseteq cas THEN "close_ok" ELSE "wipe")
  /\ UNCHANGED <<disk, procs, fd, todo, dep, others>>

StatManifest(p, u) ==
  /\ pc[p][u] = "stat"
  /\ Goto(p, u, IF manifest[u] # "none" THEN "close_ok" ELSE "wipe")
  /\ UNCHANGED <<disk, procs, fd, todo, dep, others>>

(* A fault for RemoveContents: the workspace is used as it was found.      *)
ContentsKept(p, u) ==
  /\ pc[p][u] = "wipe"
  /\ todo' = [todo EXCEPT ![p][u] = Deps[u]]
  /\ Goto(p, u, "restore")
  /\ UNCHANGED <<disk, procs, fd, dep, others>>

(* removeContents lists and discards what the path shows, if it is there.  *)
RemoveContents(p, u) ==
  /\ pc[p][u] = "wipe"
  /\ content' = IF tmpDir[u] = NoInode THEN content
                ELSE [content EXCEPT ![tmpDir[u]] = {}]
  /\ grb' = (grb \/ AtPath(u) # {})
  /\ todo' = [todo EXCEPT ![p][u] = Deps[u]]
  /\ Goto(p, u, "restore")
  /\ UNCHANGED <<cas, manifest, tmpDir, lock, procs, fd, dep, starts, crashes, orphan, cmdFailed>>

(* restoreInto of one dependency reads the manifest and makes directories  *)
(* in the workspace; LinkInto makes the links, all outputs of the          *)
(* dependency in one step.  In between another process may rename the      *)
(* workspace away: then neither the link nor the symbolic link can be made *)
(* and restoreInto drops the manifest although it is well formed.  A blob  *)
(* that is missing is not an error: a dangling symbolic link is left.      *)
RestoreInto(p, u, d) ==
  /\ pc[p][u] = "restore"
  /\ d \in todo[p][u]
  /\ \/ /\ manifest[d] = "good"
        /\ MkdirAll(u)
        /\ dep' = [dep EXCEPT ![p][u] = d]
        /\ Goto(p, u, "link")
        /\ UNCHANGED todo
     \/ /\ manifest[d] # "good"
        /\ todo' = [todo EXCEPT ![p][u] = {d}]
        /\ Goto(p, u, "heal")
        /\ UNCHANGED <<tmpDir, content, dep>>
  /\ UNCHANGED <<cas, manifest, lock, procs, fd, others>>

Linked(p, d) == IF Out[d] \subseteq cas THEN {<<p, d>>} ELSE {}

LinkInto(p, u) ==
  /\ pc[p][u] = "link"
  /\ \/ /\ tmpDir[u] # NoInode
        /\ content' = [content EXCEPT ![tmpDir[u]] = @ \cup Linked(p, dep[p][u])]
        /\ todo' = [todo EXCEPT ![p][u] = @ \ {dep[p][u]}]
        /\ Goto(p, u, "restore")
     \/ /\ tmpDir[u] = NoInode
        /\ todo' = [todo EXCEPT ![p][u] = {dep[p][u]}]
        /\ Goto(p, u, "heal")
        /\ UNCHANGED content
  /\ dep' = [dep EXCEPT ![p][u] = u]
  /\ UNCHANGED <<cas, manifest, tmpDir, lock, procs, fd, others>>

Heal(p, u) ==
  /\ pc[p][u] = "heal"
  /\ manifest' = [d \in Uid |-> IF d \in todo[p][u] THEN "none"
                                ELSE manifest[d]]
  /\ Goto(p, u, "discard_err")
  /\ UNCHANGED <<cas, tmpDir, lock, content, procs, fd, todo, dep, others>>

(* runNode makes the directories of the outputs and starts the command.    *)
StartCmd(p, u) ==
  /\ pc[p][u] = "restore"
  /\ todo[p][u] = {}
  /\ MkdirAll(u)
  /\ Goto(p, u, "cmd")
  /\ UNCHANGED <<cas, manifest, lock, procs, fd, todo, dep, others>>

InputsReadable(u) ==
  tmpDir[u] # NoInode /\ \A d \in Deps[u] : \E it \in AtPath(u) : it[2] = d

(* The command exits: with its output written in the workspace, or with an *)
(* error, certainly so when an input or the workspace is gone.             *)
FinishCmd(p, u) ==
  /\ pc[p][u] = "cmd"
  /\ \/ /\ InputsReadable(u)
        /\ content' = [content EXCEPT ![tmpDir[u]] = @ \cup {<<p, OutFile>>}]
        /\ todo' = [todo EXCEPT ![p][u] = Out[u]]
        /\ Goto(p, u, "store")
        /\ UNCHANGED cmdFailed
     \/ /\ CmdMayFail \/ ~InputsReadable(u)
        /\ cmdFailed' = (cmdFailed \/ InputsReadable(u))
        /\ Goto(p, u, "discard_err")
        /\ UNCHANGED <<content, todo>>
  /\ UNCHANGED <<cas, manifest, tmpDir, lock, procs, fd, dep, starts, crashes, orphan, grb>>

OutputsThere(u) == \E it \in AtPath(u) : it[2] = OutFile

(* storePath of one output: linked into cas/, or an error when it is gone. *)
StoreFileToCAS(p, u, b) ==
  /\ pc[p][u] = "store"
  /\ b \in todo[p][u]
  /\ \/ /\ OutputsThere(u)
        /\ cas' = cas \cup {b}
        /\ todo' = [todo EXCEPT ![p][u] = @ \ {b}]
        /\ UNCHANGED pc
     \/ /\ ~OutputsThere(u)
        /\ Goto(p, u, "discard_err")
        /\ UNCHANGED <<cas, todo>>
  /\ UNCHANGED <<manifest, tmpDir, lock, content, procs, fd, dep, others>>

(* A fault for Publish: the manifest is written before the outputs.        *)
PublishEarly(p, u) ==
  /\ pc[p][u] = "store"
  /\ manifest' = [manifest EXCEPT ![u] = "good"]
  /\ Goto(p, u, "discard_ok")
  /\ UNCHANGED <<cas, tmpDir, lock, content, procs, fd, todo, dep, others>>

(* The manifest is written aside and renamed into place.                   *)
Publish(p, u) ==
  /\ pc[p][u] = "store"
  /\ todo[p][u] = {}
  /\ manifest' = [manifest EXCEPT ![u] = "good"]
  /\ Goto(p, u, "discard_ok")
  /\ UNCHANGED <<cas, tmpDir, lock, content, procs, fd, todo, dep, others>>

(* The deferred discard(tmp), a loop of three calls: grb/ is made, what    *)
(* the path names is renamed into it, and if that fails a path that is     *)
(* still there is tried again.  Between the calls the collector may remove *)
(* grb/, and another process may make or rename the workspace.             *)
Outcome(s) == IF s \in {"discard_ok", "rename_ok", "lstat_ok"} THEN "ok" ELSE "err"

MkdirGrb(p, u) ==
  /\ pc[p][u] \in {"discard_ok", "discard_err"}
  /\ grb' = TRUE
  /\ Goto(p, u, IF Outcome(pc[p][u]) = "ok" THEN "rename_ok" ELSE "rename_err")
  /\ UNCHANGED <<disk, procs, fd, todo, dep, starts, crashes, orphan, cmdFailed>>

Discard(p, u) ==
  /\ pc[p][u] \in {"rename_ok", "rename_err"}
  /\ grb /\ tmpDir[u] # NoInode
  /\ tmpDir' = [tmpDir EXCEPT ![u] = NoInode]
  /\ Goto(p, u, IF Outcome(pc[p][u]) = "ok" THEN "close_ok" ELSE "close_err")
  /\ UNCHANGED <<cas, manifest, lock, content, procs, fd, todo, dep, others>>

RenameFails(p, u) ==
  /\ pc[p][u] \in {"rename_ok", "rename_err"}
  /\ ~grb \/ tmpDir[u] = NoInode
  /\ Goto(p, u, IF Outcome(pc[p][u]) = "ok" THEN "lstat_ok" ELSE "lstat_err")
  /\ UNCHANGED <<disk, procs, fd, todo, dep, others>>

(* A fault for LstatTmp: only the rename is tried again.                   *)
GrbMadeOnce(p, u) ==
  /\ pc[p][u] \in {"lstat_ok", "lstat_err"}
  /\ \/ /\ tmpDir[u] = NoInode
        /\ Goto(p, u, IF Outcome(pc[p][u]) = "ok" THEN "close_ok" ELSE "close_err")
     \/ /\ tmpDir[u] # NoInode
        /\ Goto(p, u, IF Outcome(pc[p][u]) = "ok" THEN "rename_ok" ELSE "rename_err")
  /\ UNCHANGED <<disk, procs, fd, todo, dep, others>>

LstatTmp(p, u) ==
  /\ pc[p][u] \in {"lstat_ok", "lstat_err"}
  /\ \/ /\ tmpDir[u] = NoInode
        /\ Goto(p, u, IF Outcome(pc[p][u]) = "ok" THEN "close_ok" ELSE "close_err")
     \/ /\ tmpDir[u] # NoInode
        /\ Goto(p, u, IF Outcome(pc[p][u]) = "ok" THEN "discard_ok" ELSE "discard_err")
  /\ UNCHANGED <<disk, procs, fd, todo, dep, others>>

(* The collector of some process, `rm -rf grb` in a session of its own,    *)
(* which may outlive the process.                                          *)
GarbageCollector ==
  /\ grb
  /\ grb' = FALSE
  /\ UNCHANGED <<disk, procs, workers, starts, crashes, orphan, cmdFailed>>

(* A fault for CloseDir: the directory is not closed when execute returns. *)
CloseForgotten(p, u) ==
  /\ pc[p][u] \in {"close_ok", "close_err"}
  /\ Goto(p, u, IF pc[p][u] = "close_ok" THEN "done" ELSE "err")
  /\ UNCHANGED <<disk, procs, fd, todo, dep, others>>

(* The deferred dir.Close drops the flock; then the semaphore is released. *)
CloseDir(p, u) ==
  /\ pc[p][u] \in {"close_ok", "close_err"}
  /\ lock' = [lock EXCEPT ![fd[p][u]] = None]
  /\ fd' = [fd EXCEPT ![p][u] = NoInode]
  /\ Goto(p, u, IF pc[p][u] = "close_ok" THEN "done" ELSE "err")
  /\ UNCHANGED <<cas, manifest, tmpDir, content, procs, todo, dep, others>>
-----------------------------------------------------------------------------
ProcessStep(p) ==
  \/ ClearCache(p) \/ LoadUidSet(p) \/ FatalException(p) \/ RunReturns(p)
  \/ (\E r \in Root : InstallRoot(p, r)) \/ InstallHeal(p) \/ Succeed(p)

WorkerStep(p, u) ==
  \/ Prepare(p, u) \/ DepsVisited(p, u) \/ BrokenByDep(p, u)
  \/ MkdirTmp(p, u) \/ OpenTmp(p, u) \/ Flock(p, u) \/ StatManifest(p, u)
  \/ RemoveContents(p, u) \/ (\E d \in Uid : RestoreInto(p, u, d))
  \/ LinkInto(p, u) \/ Heal(p, u) \/ StartCmd(p, u) \/ FinishCmd(p, u)
  \/ (\E b \in Blob : StoreFileToCAS(p, u, b)) \/ Publish(p, u)
  \/ MkdirGrb(p, u) \/ Discard(p, u) \/ RenameFails(p, u) \/ LstatTmp(p, u)
  \/ CloseDir(p, u)

(* No process runs.                                                        *)
AtRest ==
  /\ \A p \in Proc : ps[p] \in {"down", "ok", "failed"}
  /\ UNCHANGED vars

Next ==
  \/ \E p \in Proc : Start(p)
  \/ \E p \in Proc : Crash(p)
  \/ \E p \in Proc : ProcessStep(p)
  \/ \E p \in Proc, u \in Uid : WorkerStep(p, u)
  \/ \E u \in Uid : OrphanExits(u)
  \/ GarbageCollector
  \/ AtRest

Spec == Init /\ [][Next]_vars

(* A process that has been started keeps running: the scheduler runs each  *)
(* goroutine that can run, a command ends, and flock grants a free lock.   *)
(* The last needs strong fairness only between waiters; each worker locks  *)
(* once per build, so weak fairness is enough here.  The rename of discard *)
(* follows the mkdir at once and a collector sleeps for a second after     *)
(* each round, so not every rename comes too late.                         *)
Fairness ==
  \A p \in Proc : /\ WF_vars(ProcessStep(p))
                  /\ \A u \in Uid : WF_vars(WorkerStep(p, u)) /\ SF_vars(Discard(p, u))

FairSpec == Spec /\ Fairness
-----------------------------------------------------------------------------
(***************************************************************************)
(* Safety.                                                                 *)
(***************************************************************************)
(* A well-formed manifest only names blobs that are in cas/: outputs are   *)
(* linked into cas/ before the manifest is renamed into place              *)
(* (storeOutputs), so neither a crash nor another process ever shows a     *)
(* manifest ahead of its blobs.                                            *)
ManifestBacked ==
  \A u \in Uid : manifest[u] = "good" => Out[u] \subseteq cas

(* Until a command fails by itself: a node a process treats as complete    *)
(* has a manifest on disk, so that restoreInto finds it for the dependents *)
(* and for the installation: the snapshot of loadUidSet, the stat of       *)
(* uidCached and the stat under the lock are never contradicted later.     *)
(* Afterwards they may be: the workspace of a restore can be renamed away, *)
(* and restoreInto then drops a good manifest (LinkInto).                  *)
DoneHasManifest ==
  ~cmdFailed =>
    \A p \in Proc, u \in Uid :
      ps[p] \in {"build", "install"} /\ pc[p][u] = "done" => manifest[u] # "none"

(* execute serialises the builders of a node with the flock on tmp/<uid>:  *)
(* no two of them use the workspace at once.                               *)
WorkspaceExclusive ==
  \A p, q \in Proc, u \in Uid :
    pc[p][u] \in Critical /\ pc[q][u] \in Critical => p = q

(* The flock does so until a command fails by itself, and discard renames  *)
(* a workspace away whose manifest has not been published: across crashes, *)
(* restarts and waiters that get the lock of a directory that is gone.     *)
ExclusiveUntilFailure == ~cmdFailed => WorkspaceExclusive

(* Until a command fails by itself, what is stored was produced by the     *)
(* worker's own command from inputs it restored itself: removeContents has *)
(* wiped what a killed process left, and nobody else has written to the    *)
(* workspace since.                                                        *)
CleanOutputs ==
  ~cmdFailed =>
    \A p \in Proc, u \in Uid :
      pc[p][u] = "store" =>
        AtPath(u) = {<<p, d>> : d \in Deps[u]} \cup {<<p, OutFile>>}

(* Until a command fails by itself, the command of a node whose manifest   *)
(* is published is never started again: execute looks at the manifest once *)
(* more under the lock.                                                    *)
NeverRebuilt ==
  [][~cmdFailed =>
       \A p \in Proc, u \in Uid :
         pc[p][u] # "cmd" /\ pc'[p][u] = "cmd" => manifest[u] = "none"]_vars

(* Executors that meet at a node all succeed when its command does: the    *)
(* late ones wait for the lock and take the cached result.                 *)
NoSpuriousFailure ==
  \A p \in Proc, u \in Uid : pc[p][u] # "err"

(* What installRoot links to is there: a build that ends well leaves       *)
(* results that can be read.                                               *)
InstalledReadable ==
  [][\A p \in Proc, r \in Root :
       r \notin installed[p] /\ r \in installed'[p] => Out[r] \subseteq cas]_vars

(* restoreInto drops the manifest it cannot restore, so every build that   *)
(* fails on a malformed manifest leaves one fewer behind, and a cache with *)
(* n of them builds again after at most n failures.                        *)
HealsAfterFailures ==
  \A p \in Proc : starts > Cardinality(MayBeBad) => ps[p] # "failed"

(* Every started process ends: no worker waits for ever for a lock, a      *)
(* dependency or a slot, or repeats discard for ever against the collector.*)
Terminates ==
  \A p \in Proc : ps[p] = "load" ~> ps[p] \in {"ok", "failed", "down"}
=============================================================================
