# A TLA+ model of ay

`ay` is a Go reimplementation of the ya/ymake graph generator with a local
executor.  `ay make` reads `ya.make` files, generates a graph of build nodes and
runs the nodes whose results are not cached.  This directory holds TLA+ models
of the parts of that program whose correctness depends on order, interleaving,
crashes or counters that wrap, the TLC configurations that check them, and
proofs that TLAPS checks.  `PROJECT.json` relates every definition to the lines
of source it models, and lists the runs, the hazards and the theorems.

Contents: [1 inventory](#1-inventory) · [2 plan](#2-plan) ·
[3 models and code](#3-the-models-and-the-code) · [4 runs](#4-the-runs) ·
[5 proofs](#5-the-proofs) · [6 disagreements](#6-disagreements-between-code-and-documentation) ·
[7 not modelled](#7-what-is-not-modelled)

## 1 Inventory

### 1.1 How a build flows

```
 ya.make files --> graph generator --> StreamingEmitter --> Executor.onNode
                     |        ^            (finish:           | batches
                     v        |          dependencies first)  v
               include scanner, codegen                  EventQueue loop: prepare
               registry, closure store                        | uid, cached?
                                                              v
                            main: run(results) --visit--> NodeFuture.once: execute
                                                              |
                                              build cache: tmp/ cas/ uid/ grb/
                                          (shared with every other ay process)
```

The generator and everything it calls is one goroutine.  Concurrency starts at
`onNode`: the main goroutine hands nodes over in batches, the loop of the event
queue prepares them, one goroutine `fire` per node that is not cached executes
it.  The build directory is shared by all `ay` processes that use it, and they
meet nowhere else.

### 1.2 Components

| component | state | operations | what makes it correct |
|---|---|---|---|
| build cache (`executor.go`) | `cas/`, `uid/`, `tmp/<uid>` with its flock, `grb/`; per process the snapshot `uidSet` | start, `--clear`, `loadUidSet`, `execute` (mkdir, open, flock, stat, wipe, restore, run, store, publish, discard), `installRoot`, end, crash | a manifest names only blobs that exist; one user per workspace; what is stored came from a clean workspace; nothing published is rebuilt; a damaged cache heals |
| scheduler (`executor.go`, `make.go`) | futures with `once`, `err`, `uid`; batch and its cap; semaphore; `pending`, `done`, `failed` | `onNode`, `flushPrepBatch`, `prepare`, `fire`, `visit`, `execute`, `run`, `printStats`, exit | dependencies first, failures propagate exactly, no deadlock, the exit code and the statistics tell the truth |
| event queue (`event_queue.go`) | bounded channel, its loop | `post`, `sync`, `close` | nothing is sent after `close`; the loop never waits for a worker |
| node emitter (`node_emitter.go`) | slots, results, publication roots, resolved nodes | `reserve`, `emit`, `emitReserved`, `result`, `finish` | dependencies are delivered first, everything that can be built is delivered, nothing else |
| closure store (`id_set.go`, `bucket_cache.go`, `closure.go`) | `gen` and `epoch`, buckets with epoch cells, two intern tables, scratch | `reset`, `add`, `splice…`, `storeScratch`, `storeBuckets`, `internBucket` | cheap marks compute sets; unchecked memory accesses stay in bounds |
| include scanner (`scanner.go`, `tarjan_ctx.go`, `inc_fixer.go`, `sources.go`, …) | rows of children and closures, `dfsActive`, Tarjan's stack, negative searches, fixes; modes full / noResolve / initialOnly / readOnly | `closureOf`, `resolvedChildren`, `dfs`, `runSCC`, `discoverInput`, `bindGeneratedIncludes`, `activate`, `finish` | a closure that is marked complete is the set of reachable files; a node emitted too early gets the inputs it lacks |
| codegen registry (`codegen_registry.go`, …) | outputs by path, `PendingEmit`, input loops | `register`, `lookup`, `use`, `fire`, `shareInputLoop` | a generator runs once, and before its outputs are scanned |
| garbage collector (`executor.go`) | `grb/` | `discard`, `rm -rf` in the background | discarding ends; nothing live is removed |
| containers (`page_vec.go`, `int_map.go`, interning tables, …) | arrays, hash tables | insert, look up | sequential; `PageVec` is read by workers while the generator writes |
| graph generator (`gen.go`, `peer_request.go`, `command_scope.go`, `warn.go`) | memo, modules under way, depth of deferred publication, warnings held back, frames, export log | `genTarget`, `genModule`, `genSiblingModule`, `toolResult`, `pushFrame`, `fire`, `report`, `replayExport` | warnings of what is needed are reported, once; frames are not reused too early; exceptions leave nothing behind; the order of modules is that of the targets |
| what modules mean, emitters of node kinds | flags, variables, nodes | one function per macro and node kind | agreement with ymake, byte for byte |
| `ya.make` language, include parsers, path resolution, uid computation, fetch, file system layer, output and comparison of graphs, languages and tests, refactoring tool | — | — | pure functions, I/O and data |

### 1.3 What is hard

* **Several processes, one directory.**  The lock of a workspace belongs to an
  open directory, all other operations go by its path, and `discard` renames the
  path away.
* **Crashes.**  A process may die between any two file system calls; commands of
  other workers may outlive a process that exits at the first failure.
* **Three kinds of goroutine and one bounded queue.**  Main, the loop and the
  workers post to it; the main goroutine also waits for the loop (`sync`).
* **Work that belongs to a node.**  `sync.Once` gives the execution of a node to
  whichever visitor comes first: a fired goroutine, the main goroutine at a root,
  or a worker at a dependency.
* **Marks instead of sets.**  Epochs of 16 and 32 bits wrap around in a long
  session, after more walks than a test performs.
* **Re-entrancy.**  A scan may trigger a generator that scans.
* **Recursion with a memo.**  A module may be reached first where nobody needs it, as
  a sibling or through a cycle, and be needed later; exceptions pass through any depth
  of it, and the program goes on.
* **One table, four kinds of walk.**  Modules that resolve includes, modules that do
  not, the configuration of nodes and the read-only walks of the end fill and use
  the same rows and closures, while outputs are still being registered.

`PROJECT.json` lists these as hazards with the line where each bites and the
properties that catch it.

## 2 Plan

In the order of importance for a user of the build: first that the cache never
serves something wrong, then that the scheduler runs the graph in order and
ends, then that it is given the right graph.

| step | module | state |
|---|---|---|
| 1 | `BuildCache`: the directory and its processes | modelled, checked, all safety properties proved, each under the hypotheses it needs |
| 2 | `Executor`, refining `BuildOrder`: one process | modelled, checked, all safety properties and the refinement proved |
| 3 | `Emitter`: what `onNode` is given | modelled, checked, proved in full |
| 4 | `BucketCache`, refining `ClosureSets`: the closure store | modelled, checked, proved in full |
| 5 | `IncludeScan`: rows, `dfs`, Tarjan's algorithm, generators that scan, the four modes, and the fixes; reference definition: reachability | modelled, checked; recursive, for TLC only |
| 6 | the garbage collector, as part of `BuildCache` | modelled, checked, the proofs adapted |
| 7 | `ModuleGen`: the recursion of the generator, warnings, frames, the export log; reference definition: a plain depth-first walk | modelled, checked; frames and recursion proved, warnings and replay (`ModuleReplay`) for TLC only |
| 8 | the rest of the registry: owners, suffix indexes, duplicate registrations, module outputs; the other kinds of fix; modules that answer for others in `ModuleGen` | open |
| 9 | proofs: the run of the executor as a whole (`ExecutorRun_proof`), the emitter (`Emitter_proof`), the workspaces (`Workspace_proof`) and healing (`Heal_proof`) of the cache | done |
| 10 | proofs of `FrameSafe` and `Restored` of `ModuleGen` for all source trees (`ModuleGen_proof`); the recursive replay and the reference walk are in `ModuleReplay` | done |

**Composition.**  `Executor` takes the step that touches the disk (`Work`) as one
step with three outcomes, and `BuildCache` opens it up; `BuildCache` in turn takes
visiting the dependencies as one guard (`DepsVisited`), which `Executor` opens
up.  `Executor.OnNode` assumes that dependencies are handed over first, and that
is `DeliveredInOrder` of `Emitter`.  `IncludeScan` takes a closure to be a set,
which is what `BucketCache` shows of the closure store; `BucketCache` in turn lets a
walk splice anything, and `IncludeScan` says what it splices.  `ModuleGen` decides
which modules `Emitter` gets nodes from and when publication is deferred; its
generators are those that `IncludeScan` fires.  `BuildOrder` and `ClosureSets` are abstract
specifications: what any executor and any closure store must promise.

**Theorems worth having.**  The inductive invariants of the five modules with
shared state, with marks that wrap, with a loop whose end needs an argument or with a
recursion that exceptions may leave at any depth, and the
two refinements, since these are statements about all graphs, sizes and numbers of
processes that no run can make.

## 3 The models and the code

Faults: next to some actions stands an operator whose comment begins "A fault
for …".  It is not part of the specification.  It is the action with a plausible
mistake, and `PROJECT.json` ("mutants") names the property that fails when the
mistake replaces the action.

### 3.1 BuildCache — the directory and its processes

A node is named by its uid.  The worker of process `p` and node `u` has a program
counter `pc[p][u]` that follows `execute` call by call:

| variable | code |
|---|---|
| `cas`, `manifest` | files under `cas/`; `uid/<u>` absent, well formed or malformed |
| `tmpDir`, `lock`, `content` | which inode the path `tmp/<u>` names, who holds its flock, what is in it and who put it there |
| `fd`, `todo`, `dep`, `pc` | the open directory of a worker, what it has left to restore or store, the dependency it is restoring, where it is |
| `ps`, `uidSet`, `installed` | where a process is, its snapshot of `uid/`, which results it has installed |
| `orphan` | commands whose process has exited |
| `grb` | whether the directory `grb/` exists |
| `cmdFailed` | history: a command that found its workspace and its inputs has exited with an error |

Keeping path and inode apart is the point of the module: `Flock` locks the inode
in `fd`, and `RemoveContents`, `RestoreInto`, `LinkInto`, `StartCmd`, `FinishCmd`,
`StoreFileToCAS` and `Discard` go through `tmpDir[u]`.  `restoreManifest` makes
directories (`RestoreInto`) and then links (`LinkInto`).  If the workspace has been
renamed away in between, the link fails and `restoreInto` removes the manifest, a good
one (`Heal`).  It does not fail on a missing blob: `replaceWithSymlink` leaves a
dangling link, and only the command notices (`InputsReadable`).  `FatalException` is
`os.Exit` at the first failure without `-k`: locks are dropped by the kernel, running commands become
orphans.  `Crash` is an interrupt of the process group.

Abstracted: the bytes of blobs and manifests; the two-level directory names; the
temporary names under which manifest and blobs are written before their rename or
link (a reader never sees them, and a crash leaves them as litter); the links of one
dependency are one step; what is in `grb/`; outputs of one node are a set of blobs and one marker `OutFile` in the
workspace.  The deferred `discard` is its three calls `MkdirGrb`, `Discard` (the
rename) or `RenameFails`, and `LstatTmp`, in a loop; `GarbageCollector` may remove
`grb/` between any two of them.  Where `removeContents` and `clearCache` discard,
the loop is one step.  The file system itself, flock
and signals are external.

### 3.2 Executor — one process

| variable | code |
|---|---|
| `futs`, `prepBatch`, `prepBatchCap` | `Executor.futs`, the open batch and its cap, which doubles |
| `queue`, `ch`, `batch` | the channel of `EventQueue`, whether it is closed, the rest of the batch the loop is preparing |
| `once`, `err`, `pc`, `dep` | `NodeFuture.once`, `.err` and the progress of `execute` through `buildDeps` |
| `fire` | the goroutine `prepare` starts |
| `pending`, `done`, `failed`, `taskStats`, `printed` | the counters and the statistics |
| `main`, `root`, `synced`, `exit` | where `cmdMake` is, which result it visits, the signal of `sync`, how the process ended |

Since `once` makes an execution belong to its node, the model keeps the progress
per node, and any visitor (`Visited`) may start it; every visitor continues when
the once is complete.  The deferred calls of `execute` and the report of a failure
happen inside the once, in the code's order.  A send on a closed channel ends the
process (`exit = "panic"`), since `try` catches only the program's own exceptions.

Abstracted: progress lines and warnings posted to the queue by the generator (they
carry no state; reports and failures of workers are kept, as workers hold a slot
while they post); durations; command line parsing.  When the generator throws,
`GenThrows` may happen after any number of nodes: this is more than the code does
(`finish` throws between passes), and harmless for safety.

### 3.3 Emitter — what is handed to the executor

`nodes` is the vector of slots, an unfilled one is `Nil`.  `Reserve`, `Emit`,
`EmitReserved` and `Result` are the generator's calls, in any order.
`Finish`, `PassStep`, `NextPass`, `Stuck` and `Return` are `finish`: stripping of
packages, the publication frontier, one node of a pass, the end of a pass that made
progress, the end of one that did not (`dropUnresolvable` under `-k`, an exception
otherwise), and the results with the modules added.

The loops of `finish` that copy some elements of a slice (`next := pending[:0]`,
`results := e.results[:0]`) are `Kept`: the elements at a set of indices, taken in
ascending order (`Ascending`).  That is the same list as a filter makes, in a form that
can be reasoned about without recursion.

Abstracted: a node is its dependencies and two flags; the nesting depth of
`deferPublication` is zero or not; the flags of the command line are chosen at
`Finish`, the first place that reads them.

### 3.4 BucketCache — the closure store

A closure is one file and a set of interned buckets, each bucket the files of one
index.  `gen`, `epoch`, `stamp` and `bucketEpoch` are the marks of the code with
their wrap-around as constants (2^16 and 2^32 in the code).  A walk is
`BeginDfs`, splices, `EndDfs` or `BeginScc`, splices, `EndScc`, then
`InternBucket`, `SkipIndex` or `ThrowCollision` for each index, then `PutClosure`.
`scratch` and `block` count how often a file is present, so that a duplicate would
be seen; their order, which later sorting removes, is not kept.

Abstracted: which files a walk splices is an input (any interned file, any stored
child), so every include graph is covered; `internBucketList`, the same scheme over
lists of buckets, is equality of lists; `incomplete` is in `IncludeScan`,
`hasDiagnostics`, which only decides on warnings, in neither.  Names are interned only between walks: `dfs` resolves the
children, and their closures, before it resets `gen`, and splicing interns nothing.
`MayRedo` names files whose closure may be computed again, as happens for an
incomplete one and for a file whose closure the walk of a cycle stored while `dfs`
was at work above it.

### 3.5 IncludeScan — what a file includes, and when it is known

| variable | code |
|---|---|
| `entry`, `closure` | the two columns of `codegen.files`: a row is a `ScannedChildren` (`paths`, `deferred`, `diag`), a closure is its set of files and `incomplete` |
| `registered`, `pending`, `ran` | outputs in the registry, `OnUse` not yet fired, includes passed on |
| `active`, `missed`, `loop` | `dfsActive`; the negative answers in `searchTierFlat`; `InputLoopSources` |
| `headers`, `fixes`, `wanted`, `activated`, `visited`, `selected`, `settled` | public headers; fixes, whether they have a `pending` walk, and of which kind; fixes held by a node; `fixVisited`; selected producers; inputs of resolved fixes |
| `project` | the input: directives, generators, templates, main outputs |
| `early`, `spin`, `blunt` | history: outputs walked before they were registered; a call of `activateInclude` that cannot return; files and generators whose walk came after `bindCommandScopes` and did not resolve |

The functions of the scanner are operators from tables to tables, named as in the
code, and an action applies one of them to `Tables`: `Register` is `register`,
`WalkClosure` the walk of a node, `DiscoverInput` and `Configure` the two walks of
configuration, `BindCommandScopes`, `Activate` and `Settle` the three stages of the
end in the order of `genInto`.  A walk is one step, because the generator is one
goroutine, but inside it `Use` fires generators that walk: the tables are threaded
through every call in the code's order, so that an inner walk sees what the outer one
has written and no more.  For instance `AppendResolvedChildren` gets the row read
before the generator ran and the tables after.

A source may be compiled by modules that resolve includes and by modules that do not.
`fix.pending` is set once, with the walk of the module that configures the file first,
and keeps the mode of that module (`emit_cc.go:198`): `fixes[f]` is `resolving` or
`plain` accordingly, and `Activate` walks in this mode, whoever holds the fix.

Abstracted: files have no contents, a directive names its target; whether the target
is given by its path (`exact`) or has to be searched matters and is kept.  A search is
reduced to its outcome.  Directives that name several targets, and the alternatives
of cython, are not distinguished.  A generator is a `RUN_PROGRAM` statement: it walks
its source inputs, uses its generated ones, passes includes on, and walks all inputs
again for its node.  Its rule for which includes are passed on is data (`adds`).
Left out: typed induced includes, fixes of the three other kinds, scopes of commands,
warnings, and what the emission of test suites may scan between `activate` and
`finish`.

### 3.6 ModuleGen and ModuleReplay — the recursion of the generator

The stack of Go is the variable `stack`, a sequence of activations of `genModule` and
of `PendingEmit.fire`; each has a program counter and what the call keeps in local
variables.  `ret` is a result on its way to the caller (`NoAnswer` when there is none,
also when consuming its warnings threw), `exc` an exception on its way up.

| variable | code |
|---|---|
| `memo`, `requests`, `results`, `toolCache` | `ctx.memo` for modules and for peers that could not be evaluated; `ModuleEmitResult` (its warnings, its place in the log, whether it has an output); `ctx.tools` |
| `walking`, `defers` | `ctx.walking`, `emit.deferPublication` |
| `sink`, `warnings`, `printed` | `ctx.warningSink`, the graph of `moduleWarnings`, what the handler was given |
| `frames`, `frameDepth`, `frameSerial`, `store` | `ctx.frames` and the frames themselves (`serial`, `pending`), by number |
| `pending` | `OnUse` of a module's generated file: a `PendingEmit` with its frame and publication |
| `log`, `exportRoots` | `ctx.exportLog`, `ctx.exportRoots` |
| `jobs`, `exit`, `project` | what `genTarget` has left to do, how it ended; the source tree |
| `raised`, `taken`, `bodies`, `cut`, `asked` | history: who raised what, who took whose result, how often each body was begun, whether a visit was cut short, for which tools `genModule` was called |

`GenModule` is `genModule` to the check for cycles; `GenBefore`, `ReadModule`,
`GenPeer`, `ToolResult`, `Register`, `UseFile` and `FinishModule` are the parts of
`genModuleImpl` in its order; `GenAfter` and `EndWalk` are its deferred functions;
`LeaveDeferred` and `LeaveDirect` are the two ways out of `genModule`.  A throw sets
`exc`; `UnwindFire`, `UnwindModule` and `Recover` then take one activation each and do
what the code defers there.  Where the code throws is part of the project: when a
module's statements are read, when it emits, in a generator, at a tool without output,
and in the handler of warnings at a fatal one.

A generator, when it runs, asks for its tools and then reads what it needs (`Fire`,
`ToolResult`, `UseFile`, `RunGenerator`); a tool nobody has asked for before is
generated then, above the generator on the stack and with publication deferred if it
was when the generator was registered.  Generators that run in the frame of their
module (`script`, those of `emitLazyModuleNode`) ask for none.  A tool that is known
(`ctx.tools`) is answered without a call, so it leaves no visit in the log.

`ModuleReplay` extends it with `replayExport`, which reads the log when generation has
ended, and with the two properties of that moment, `WarningsExact` and `ReplayOrder`;
they need recursive operators, which `ModuleGen` itself does without so that it can be
proved about.  The targets are one list in which every root is followed by the modules
it recurses into, the order in which `genTarget` takes them.

Abstracted: a module instance is a name and a demand; it emits one node and at most
one generated file, and raises at most one warning of its own, which is not fatal (a
failure is).  Left out: modules that answer with the result of another one
(`gen.go:1444`, `gen.go:1532`), peers that are missing, prohibited or skipped, Java
modules, tests, and the wrapper of foreign tools.

### 3.7 Abstract specifications

`BuildOrder`: a node is open, built or failed; it is settled once; it is built if
it was cached or all its dependencies are built; it fails by itself, with its
dependencies built, or because one of them failed.  `ClosureSets`: closures are
plain sets, collected from files and from stored closures.

## 4 The runs

All constants are in the `.cfg` files; `MC*.tla` define the graphs.

| run | checks | instance | distinct states |
|---|---|---|---|
| `cache_crash` | `TypeOK` `ManifestBacked` `DoneHasManifest` `ExclusiveUntilFailure` `CleanOutputs` `NeverRebuilt` | two processes under `-k`, a node and its dependency that share a blob, commands that may fail, three starts, one crash | 852 505 |
| `cache_heal` | `HealsAfterFailures` `InstalledReadable` | one process without `-k`, three nodes, two slots, malformed manifests, `--clear`, orphans, four starts | 59 917 |
| `cache_live` | `Terminates` | two processes under `-k`, failing commands, fair | 142 591 |
| `executor` | `TypeOK` `DepsBuiltFirst` `UidsKnown` `KeepGoingFinishes` `OkMeansBuilt` `StatsComplete` `NoSendOnClosed` `ImplementsBuildOrder` `Terminates` | with and without `-k`, `--stat`, three nodes, one of them beside the roots, one slot, a queue of one place, failing commands, a generator that may throw, fair | 30 374 |
| `emit_finish` | `TypeOK` `DeliveredInOrder` `FinishExact` `ResultsDelivered` `StripExact` | every graph of three slots, emitted in every order, four combinations of flags | 2 046 680 |
| `closure_sets` | `TypeOK` `InBounds` `NoDuplicates` `ImplementsClosureSets` | three files, two indexes, epochs of three values, hashes of two | 509 524 |
| `scan` | `TypeOK` `CompleteExact` `FixExact` `LateFound` `SelectedCovers` `ActivationEnds` `LoopShared` `RowsFinal` `BindsAll` | 52 projects of two sources and two to four outputs of two generators, everything in every order | 331 598 |
| `generate` | `WarningsExact` `FrameSafe` `Restored` `ReplayOrder` | 36 992 source trees of four modules | 2 269 946 |
| `cache_share` | `NoSpuriousFailure` is violated | two processes, one node | — |
| `cache_stale_lock` | `WorkspaceExclusive` is violated | two processes, one node whose command may fail, three starts | — |
| `cache_torn_clear` | `InstalledReadable` is violated | one process, `--clear` and a crash | — |
| `emit_strip_k` | `KeepGoingSurvives` is violated | two slots, `-k` with stripping | — |

**What the passing runs show.**

* *cache_crash.*  Until a command fails by itself, the directory is never seen in a
  state that would mislead a process: a node taken as complete has its manifest, a
  waiter looks at the manifest again under the lock, a workspace left by a killed
  process is wiped before it is used, and the lock does exclude.  None of these four
  survives a failing command: without the condition `~cmdFailed` TLC refutes each of
  them in this run.  The lock then does not exclude (`cache_stale_lock`), and a worker
  whose workspace is renamed away between the directories and the links of a restore
  removes the good manifest of a dependency that others have taken as complete.  What
  does survive, with stale locks and good manifests removed in this way: a manifest is
  renamed into place only after its blobs (`ManifestBacked`), and every worker closes
  its directory, with the lock, on every way out of `execute` (`TypeOK`).
* *cache_heal.*  A manifest that cannot be read costs one failed build and is
  gone; with n of them, the build after n failures succeeds, also when the failing
  process left commands running in the workspaces the next one uses.  A complete
  `--clear` never leads to an unreadable result.
* *cache_live.*  Processes that wait for each other's locks, dependencies and slots
  all end, and `discard` ends although the collector removes its target directory:
  it makes `grb/` anew in each round.
* *executor.*  With the smallest queue and one slot, where every blocking send
  blocks, the build ends, also when a failure or the generator stops it.  When `run`
  returns, the counters agree and every report is in the statistics; success means
  that everything handed over has been built, also a node no root needs; no uid is
  used before it is computed; and nothing posts to a closed queue unless an exception
  is already ending the process.
* *emit_finish.*  `finish` delivers exactly the published nodes that can be built,
  in order, and the results it returns have been delivered.
* *closure_sets.*  Marks that wrap, stamped buckets, the fast path and two intern
  tables compute plain sets.
* *scan.*  Whatever has been walked before, in whichever mode, and whatever has been
  registered in between: a closure stored as complete is exactly what the rows
  reach, and these rows stay as they are (`CompleteExact`, `RowsFinal`); a row that
  becomes final has lost no directive, neither one an earlier walk could not resolve
  nor one a generator passes on (`BindsAll`).  A node configured before its
  generated headers exist gets all of them in the end (`FixExact`, `LateFound`), and
  their producers are part of the build (`SelectedCovers`) — as long as the walk its fix
  has kept is one that resolves.  `activateInclude` ends
  (`ActivationEnds`), and outputs that include each other share the sources they pass
  on wherever a walk entered their cycle (`LoopShared`).  Exceptions are in the
  properties and in section 6: outputs walked before they were registered, generators
  that depend on themselves, and what is reached by a late walk that does not resolve
  (`Blunted`), be it the walk a fix has kept from such a module, although a module that
  resolves compiles the file too, or that of a generator.
* *generate.*  The handler gets the warnings of the modules the targets need, whatever
  order they are reached in, each as often as it was raised, and nothing else
  (`WarningsExact`).  A module raises its warning once; a peer that cannot be evaluated
  is reported for each of the demands it is requested with.  Not among the needed
  modules are tools that only a generator asked for at a moment when
  `consumeModuleWarnings` drops what it is given (`Dropped`, section 6).  A
  generator that runs late finds the frame of its module as it was (`FrameSafe`).
  After each target, and after any exception, the counters, the sink, the frames and
  the log are as before, and no module has been generated twice (`Restored`).  The
  replay of the log names every published module once and, if no cycle cut a visit
  short, in the order of a depth-first walk that begins with the targets and goes
  along the peers and the calls that were made for tools (`ReplayOrder`).  These calls
  are part of the statement: only the first user of a tool makes one, and later users
  are answered from `ctx.tools`.  Hence a tool that a module the command line recurses
  into asked for first comes where that module comes, also when a root that is replayed
  earlier needs it; with targets `b`, `c` and `a` below `b`, and a tool `d` of `a` and
  `c`, the replay is `b`, `c`, `d`, `a`, although `c` needs `d`.

**Why the bounds are enough to meet the interesting cases.**  Two processes are
what a lock needs; the third start makes a newcomer meet a waiter and a predecessor.
One crash already leaves a filled workspace or half-stored outputs behind at every
point of `execute`; the proofs cover any number.
Four inodes allow every workspace to be renamed away while its old inode is still
open.  In the executor one node is cached or not, one is a dependency and one lies
beside the roots; batches of one and two are cut in every way.  Three
slots give cycles of length one to three, chains, and an empty slot below either.
Epochs of three values wrap every second walk; two-valued hashes make buckets meet
in the first table, in the overflow table, and in both.  The projects of `scan` come in
six families: cycles through sources and outputs, entered from each member;
generators that read a source or the other's output and pass on includes that are
named or searched, in modules of both kinds; templates and main outputs that come
alone; a cycle with a join outside it, where Tarjan's low links could go wrong; a
generator of a module that does not resolve and that reads an output of a cycle; and
sources that modules of both kinds configure, in either order.
Each file is walked any number of times: the tables are finite, and so is the graph
of their states without a bound.  The source trees of `generate` cross four modules with three lists
of targets, peers with and without cycles, linking or not, `-k` or not, and one
feature each: a module that throws; siblings, also such that generate each other;
tools, also one that needs itself; a peer that cannot be evaluated; generators that
read each other's files and throw; generators that ask for tools, also for the module
that uses their output; and, by itself, a tool shared by roots and by modules they
recurse into.  Four modules are what is needed for two chains to
a module that differ in demand, beside a sibling.  The executor has one instance of
three nodes because its liveness is checked on it; its safety properties and the
refinement are proved for all graphs.  Inodes are symmetric in
the runs without liveness; processes are not declared symmetric.

**Deadlock** is checked except in `closure_sets`, where a collision of hashes ends
the program, and in `scan`, which is over when all fixes are settled.  A finished process, or build, stutters explicitly (`AtRest`,
`Exited`, `Finished`, `Ended`).

**Fairness.**  `BuildCache`: weak fairness of each worker and each process — the Go
scheduler runs what can run, commands end, the kernel grants a free flock.  Each
worker locks once per build, so a waiter is overtaken only finitely often.
Neither starts nor crashes are fair, and the collector need not run.  The rename of
`discard` is strongly fair: it follows the `MkdirAll` at once, whereas a collector
sleeps for a second between its runs, so it cannot remove `grb/` in between each time.
`Executor`: weak fairness of each goroutine's steps, and strong fairness of the
steps that wait for a place in the queue or for a slot of the semaphore, since Go's
channels serve blocked senders in the order they came.  The generator's exception
and a failing command are never required.

## 5 The proofs

Every theorem holds for all values of the constants under the stated assumptions.

**Executor_proof** (`ExecutorAssumption`: the constants have their types; the graph
need not even be acyclic).
`TypeCorrect`, `ExecInvariant`, `DepsBuiltFirstHolds`, `Refinement`.
`DepsBuiltFirst` is not inductive, since a node at `work` does not tell how it got
there.  `ExecInv` adds: `OnceInv`, a future is written by the one execution its
once admits; `DepsInv`, the dependencies the loop has passed are built, which stays
true because complete futures never change; `LastInv`, after the loop all of them
are, unless it ended at a failed one.  For the refinement of `BuildOrder`, the only
steps that change the mapped status are `Prepare` of a cached node,
`ExecuteReturns` and `ReportFailure`, and `LastInv` says which action of
`BuildOrder` each of them is.

**ExecutorRun_proof** (the same assumption).
`ProcessInvariant`, `UidsKnownHolds`, `KeepGoingFinishesHolds`, `OkMeansBuiltHolds`,
`StatsCompleteHolds`, `NoSendOnClosedHolds`.  A node on its way from `onNode` to
`prepare` may be in the open batch, in one of several batches in the queue, between
reports and failures of workers, or in the rest of the batch the loop has taken.
`HandOver` sees these stretches as one line: each node handed over is in it once or
has been prepared, and what it depends on is prepared or ahead of it.  Cutting a
batch, posting anything else and taking the next event leave the line as it is, and
`Prepare` takes its first node.  `SyncInv` says that no batch is behind the `sync` of
`run`, so that main, once past it, finds everything prepared.  `CountInv` says which
goroutines `pending`, `done` and `failed` count, `FireInv` that a goroutine which has
returned leaves a settled node behind, and with `RunInv` that `inFlight.Wait` leaves no
goroutine that could still post; `StatsInv` is `SyncInv` for the reports.  From these,
what holds once `run` has returned, what the statistics contain and that nothing is
sent on the closed queue are read off.

**BuildCache_proof.**  `TypeCorrect` needs `CacheAssumption` only; it contains that a
worker has its directory open exactly from `Open` to the deferred `Close`.
`ManifestBackedHolds` and `InstalledReadableHolds` assume that no process is started
with `--clear`; `cache_torn_clear` shows why.  Malformed manifests, failing commands,
orphans, stale locks, good manifests removed by a failed restore, any number of
processes and crashes are covered.  The argument (`BackedInv`): without `--clear` blobs
are never removed, what has been ticked off `todo` while storing is in `cas/`
(`StoredInv`), so what is published is backed, and stays so, whatever happens to
manifests; a result is installed from a well-formed manifest, hence from a backed one.
A `--clear` by another process while this one builds is neither run nor proved.

The module also holds the part of the next proof that is about blobs and manifests.
`CacheInv` says that nobody is about to remove a manifest (`NoRemoval`), because what is
restored was published before (`WorkerInv`, `DoneInv`) and the snapshot stays true
(`SnapshotInv`).  It assumes a cache that only grows (`GrowsOnly`), and its induction
step that a worker about to link finds its workspace (`LinksFind`).  That is not a
consequence of the rest: with stale locks it is false.

**Workspace_proof.**  `WorkspaceInvariant`, `DoneHasManifestHolds`,
`ExclusiveUntilFailureHolds`, `NeverRebuiltHolds`, `CleanOutputsHolds`, under
`GrowsOnly`: no `--clear` and no manifest that is malformed from the start.  Commands may
fail; the invariant is `TypeOK` and `~cmdFailed => CacheInv /\ WorkspaceInv`, and a step
that does not itself let a command fail keeps it.  `CacheInv` and `WorkspaceInv` are
proved together: the exclusive workspace gives `LinksFind`, and that nobody removes
a manifest keeps the workspace exclusive.  Any number of processes, crashes, threads
and nodes is covered.  The flock is taken on a directory, the work is done at a path, and
`PathInv` says when the two agree: a builder's path names the directory it has locked;
that of a worker at the lock or behind it does so *or the manifest is there*.  The
alternative is what makes it inductive: a builder renames the path away only after
publishing, and the waiter that gets the lock of the renamed directory then sees the
manifest and does not build.  `InodeInv` keeps directories of different nodes apart,
`ContentInv` says what has been restored so far.  That no builder fails for another
reason, which would rename without publishing, is part of the argument: by
`CacheInv` every dependency is restored from a backed manifest, and so the
command finds its inputs and `storeOutputs` its outputs.

The condition `~cmdFailed` is needed (see *cache_crash*).  `CleanOutputsHolds`
moreover assumes `-k`, because without it a process can leave a running command
behind although no command has failed by itself: with two threads and two independent nodes, a process that meets the race of `cache_share` at
one node exits while its command for the other one runs; the next builder of that
node wipes the workspace, and the orphan writes into it.  TLC finds this state when
`cache_crash` is given a second independent node, a second thread and no `-k`.

**Heal_proof.**  `HealingInvariant`, `HealsAfterFailuresHolds`, `InstalledReadableAlone`,
under `Alone`: one process at a time, which is not killed, commands succeed, and
finitely many manifests are malformed at the start; with or without `-k` and `--clear`,
orphans included.  The number of starts alone says nothing, nor does the number of
malformed manifests; `Account` is about their sum `Spent`.  It is at most n when no
process runs, and a start adds one.  A build that has not failed has at most n + 1, or
there is nothing malformed left, or it is one that will execute nothing and heal
nothing (`Complete`), which is how a cache looks after a success, even with malformed
manifests of inner nodes.  A worker fails only behind another failure or by healing
(`LoneStep`); what it heals is a dependency that has been passed, so it has a
manifest, which is not well formed, hence malformed, and goes: the failing build is
back at n.  That nothing else fails rests on `LoneWorker`: the workspace is there and
contains what was restored, and what orphans add does no harm.  `InstalledReadableAlone`
complements `InstalledReadableHolds`: while the process is not killed, the order in
which `--clear` discards the directories cannot be noticed (compare
`cache_torn_clear`).

**Emitter_proof** (`NilAssumption`: `Nil` is no node; `EmitterAssumption`).
`TypeCorrect`, `EmitterInvariant`, `DeliveredInOrderHolds`, `ResultsDeliveredHolds`,
`FinishExactHolds`, `StripExactHolds`.  `InPass` describes a pass of `finish` half-way:
the published nodes are split into those delivered, those kept for the next pass and
those still to come, without repetition, and as long as the pass has kept everything
it has met, each of these still has the dependency it was kept for.  Hence after a pass
that delivers nothing every node left waits for a node left (`LeftInv`).  That such a
node is not `Deliverable`, i.e. needs a cycle or an empty slot, is an induction over
the graph, done here with sets: of the nodes left that a given one needs, take the one
that needs the fewest (`WaitingIsCyclic`; finite sets of naturals have a least element,
`LeastNat`); it waits for one of them, which needs no fewer, so it needs it back.
Conversely what is delivered needs delivered nodes only, each delivered before what
depends on it.  Reachability is defined as the least closed set, which makes the
lemmas about it (`ReachFacts`) direct.

**BucketCache_proof** (`SizeAssumption`: epochs have at least two values;
`IndexAssumption`; `HashAssumption`: a pair of hashes identifies a bucket;
`NoneAssumption`).  `TypeCorrect`, `CacheInvariant`, `InBoundsHolds`,
`NoDuplicatesHolds`, `Refinement`.  What a mark means depends on all earlier walks,
so the invariant says: no cell is ahead of its epoch, and only buckets in a
table carry a stamp (`MarksInv`), so that clearing at the wrap-around reaches all of
them; a table cell holds a bucket of its hash (`TablesInv`); stored closures
consist of interned buckets and names (`ClosuresInv`), hence fit into `gen`; and in
a walk the scratch, or the block, holds each collected file once, and the
buckets stamped in this walk are contained in what it has collected (`WalkInv`),
hence skipping one loses nothing.  `HashAssumption` is what the code assumes of its
hashes; the second table does compare both hashes and throws.

**ModuleGen_proof** (`ProjectAssumption`: a source tree has its types, and nothing else
is assumed of it, so peers, tools, siblings and generators may form any cycle and
anything may throw; `NilAssumption`: `Nil` is no pending emission).
`GenInvariant`, `FrameSafeHolds`, `RestoredHolds`.  `Restored` speaks of the moments
when the stack is empty and is not inductive; what is inductive is that each variable
is what the activations on the stack made of it.  `GenInv` says this with witnesses:
`Deferral`, `Sinks` and `Depth` are functions of the depth that begin at 0 and change at
each activation by what this one did, and end at `defers`, `sink` and `frameDepth`;
`Walks` and `Visits` say that the modules in `walking` and the open visits in the log
are those of the stack.  Pushing an activation extends a witness and popping one cuts
it, hence one lemma for each per part (`PushDefer`, `PopDefer` and so on), of which the
lemmas of the actions consist, one or more for each action; replacing the top is a pop
and a push.  For the frames, `Apart`: what the activations took from `ctx.frames` is
pairwise different, also from what is left above `frameDepth`, and a module's frame is
still in its slot, so that the slot `popFrame` gives up, or `fire` puts back, is free;
`Waits`: a frame's `pending` is the number of generators registered in it that have not
ended, so a frame with none may be renewed, and no other one is.  All of this is about
stacks in which modules and generators alternate in any way, as they do when a
generator asks for a tool.  `Once` is the delicate
part: a module that was begun is memoised, is on the stack, or was given up by an
exception that nothing will catch (`Doomed`); the last follows because only a module
whose publication is not deferred lets an exception pass, and then no activation below
it defers publication either (`NothingDeferred`).  With `Once`, a module that begins has
registered nothing yet (`Unregistered`), hence no second generator replaces a waiting
one.  The attempt corrected the model at one place: a peer that could not be
evaluated, asked for again, whose warnings are fatal, left an answer beside the
exception, and the generator could then take no step; in the code there is no answer.

**Only model-checked.**  Liveness (`Terminates` twice), which is out of the prover's
reach.  `IncludeScan` is recursive as the scanner is, through generators and back, and
TLAPS cannot work with recursive operators: all of it is checked by TLC only, over the
projects of the run.  `WarningsExact` and `ReplayOrder`, which compare the end of a
generation with reachability over the results taken and with a recursive walk, would
need an induction over these definitions.  `GenInv` quantifies over functions without
bound, so TLC cannot evaluate it; it checks `FrameSafe` and `Restored`.

## 6 Disagreements between code and documentation

Shown by a run (details and quotations in `PROJECT.json`, "findings"):

1. `cache_share` — an executor makes `tmp/<uid>` and opens it in two calls.  The
   executor that holds the node renames the directory away in between; the open
   fails and so does a build that nothing is wrong with.
2. `cache_stale_lock` — after a failed command the locked directory is
   renamed away.  A waiter gets the lock of the renamed inode, a newcomer that of
   a new one, and both use `tmp/<uid>`.
3. `cache_torn_clear` — `--clear` discards `cas/` before `uid/`; interrupted in
   between it leaves manifests without blobs, and the next build succeeds with
   dangling links.  Discarding `uid/` first would avoid it.
4. `emit_strip_k` — with `-k`, a producer that was never emitted is survived,
   except under `--strip-packages-from-results`, which dereferences its empty slot.

Noticed in passing, without a run (the first seven in the scanner):

* A closure that already has a child is not given the child's closure
  (`scanner.go:792`, `tarjan_ctx.go:158`).  If the child came alone, as a text
  template or a main output, and is also included, its own includes are missing when
  it comes first and present when it comes second.  `dev/PERF.md:133` and
  `dev/PERF.md:1578` speak of a safeguard, `leafEver`, that is no longer in the code.
  The projects of `scan` avoid this case.
* A walk that does not resolve may meet an incomplete closure twice in one run of
  Tarjan's algorithm; `visitChild` then lowers `low` from a file that has left the
  stack (`tarjan_ctx.go:148`), and the file is taken into a cycle it is not part of.
  Its closure gets files it does not reach; as it is incomplete, only walks of the
  same kind use it.
* A search that fails is remembered for the rest of the session
  (`scanner.go:1156`); an output registered later is not found by sources under the
  same search paths.  `LateFound` has it as an exception.
* An output that is included by its path and walked before it is registered keeps an
  empty row (`early` in the model).
* A generator that depends on one of its own outputs scans it without the includes it
  is about to pass on.  The run includes two such projects, to see that walks end; the
  properties about contents except them.
* A fix keeps the walk of the first module that configures its file
  (`emit_cc.go:198`, `inc_fixer.go:103`).  If this one does not resolve includes and a
  later one does, the file is activated without resolving: outputs registered after
  its configuration are not found, and the closure added to the nodes of the later
  module is truncated.  More generally a walk that does not resolve and comes after
  `bindCommandScopes`, of such a fix or of a generator, takes unresolved rows for what
  they are.  If outputs include each other it may store the closure of one of them as
  complete although it lacks files, and a file may be marked visited above one that is
  still deferred, so that a later fix does not select its producers.
  The properties of `scan` except what such walks reach (`Blunted`).
* Typed induced includes are skipped by walks that do not resolve
  (`scanner.go:651`) without being left for later ones, unlike all other includes.

In the generator:

* What a generator warns about belongs to the module that first uses its output.  If
  that is a sibling nobody needs, the warning, even a fatal one, is not reported,
  although a needed module uses the output as well.  `WarningsExact` therefore speaks
  of the module that was being generated.
* If a generator was registered while publication was deferred and runs for a module
  that is generated directly, `consumeModuleWarnings` finds no sink and a deferred
  publication and does nothing (`gen.go:1296`).  The warnings of a tool the generator
  asks for, a fatal one included, are lost unless somebody else needs the tool.
  `WarningsExact` excepts this case (`Dropped`).
* With cycles of `PEERDIR`, what a module gets from its peers, and the order of the
  replay, depend on the module the walk entered the cycle at.
* The result of a visit of kind `KindForeignDescent`, and that of a program that is
  skipped as a peer, is not consumed by the caller (`gen.go:1450`, `gen.go:1845`).
  What was held back there goes on only to a caller that holds back warnings itself;
  in one that is generated directly it is reported only if somebody else asks for the
  module.

Elsewhere:

* `README.md:8` says that the executor starts running nodes while the graph is
  still being built; `onNode` is only called by `finish`
  (`node_emitter.go:183-210`), after generation.  Nodes do run while `finish` is
  delivering.
* `make.go:610` describes `--add-modules-to-results` as accepted and not modeled;
  `node_emitter.go:251` implements it.
* `dev/docs/20260706-lockfree-audit.md` item 3 asks for a throw when `fetchRefs`
  changes; `executor.go:151` only tests for nil.

## 7 What is not modelled

* **What modules mean, and emitters of node kinds**, by far most of the source
  (`modules.go`, `conf.go`, `gen.go`, `emit_*.go` and the files of single languages
  make up more than half of it, parsers and developer tools most of the rest): one
  thread that computes data.  Its specification is ymake's behaviour, which the
  repository compares byte for byte; a model would be a second implementation, and
  what it could be wrong about is a string, not an order.  For this reason the map
  covers a small part of the source by lines, and is meant to: the parts where the
  order of steps decides are the ones above.
* **Of the registry**: owners, indexes by suffix, duplicate and inputs-only
  registrations, module outputs, generators other than `RUN_PROGRAM`.  **Of the
  scanner**: typed induced includes, the fixes of the kinds `fixIncludedSources`,
  `fixInputLoop` and `fixProducer`, the claims of command scopes, warnings.  **Of the
  generator's recursion**: see the end of section 3.6.
* **Parsers, path resolution, uid computation**: pure functions on strings and
  hashes.  The models take a uid to identify a node and a hash pair a bucket.
* **Fetch, file system layer, graph output, developer tools**: I/O and formatting.
* **Go's memory model.**  Steps of the models are atomic where the code uses a lock,
  a channel, an atomic or a system call.  `PageVec` relies on it: a worker reads an
  element whose id it got through the queue.  The order is modelled
  (`DeliveredInOrder`, `UidsKnown`), its visibility is not.
* **Persistent I/O errors** (a full disk, missing permissions).  `discard` would
  repeat for ever.
