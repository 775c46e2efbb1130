---------------------------- MODULE IncludeScan ----------------------------
(***************************************************************************)
(* The include scanner of one platform: the table of the children and the  *)
(* closures of files (scanned_file_cache.go), the walks that fill it       *)
(* (scanner.go, tarjan_ctx.go), the generators a walk runs on the way      *)
(* (codegen_registry.go) and the fixes that complete, once everything has  *)
(* been generated, the inputs of nodes that were emitted before            *)
(* (inc_fixer.go, command_scope.go).                                       *)
(*                                                                         *)
(* All of this runs on one goroutine, so a walk with everything it fires   *)
(* is one step.  What can go wrong is the order of the steps: walks of     *)
(* modules that resolve, of modules that do not, and of the configuration  *)
(* share one table, and outputs are registered in between.                 *)
(*                                                                         *)
(* A closure is a set of files: BucketCache shows that buckets are sets.   *)
(* Search paths are reduced to their outcome: a source is found, an output *)
(* from its registration on, unless a source includes it and the search    *)
(* has been answered in the negative before; outputs look in the registry  *)
(* first.  Warnings are left out, and so are the typed induced includes    *)
(* (appendResolvedInducedDeps), which are looked up without a search and   *)
(* skipped, without a trace in Diagnostics, by a walk that does not        *)
(* resolve.                                                                *)
(***************************************************************************)
EXTENDS Naturals, Sequences, FiniteSets, SequencesExt

CONSTANTS
  Source,     \* files of the source tree
  Build,      \* outputs of generators
  Gen,        \* generators: statements whose outputs are registered together
  Projects    \* the projects to scan, see ProjectAssumption

File == Source \cup Build

(* An include directive: exact if it names its target's path, otherwise    *)
(* the target is what the search finds.                                    *)
Directive == [to : File, exact : BOOLEAN]

(* incs: the directives of a file, for an output those that are known when *)
(*   it is registered, its closure leaves included;                        *)
(* gen: the generator of an output; ins: what a generator reads; adds: the *)
(*   directives its outputs inherit from these when it runs; plain: the    *)
(*   generators of modules that do not resolve includes; modes: whether    *)
(*   the modules that compile a source are ones that do not;               *)
(* main: the main output of the generator of an output, or the output      *)
(*   itself; opaque: outputs in which no includes are looked for;          *)
(* text: the text templates of an output; from: the sources an input loop  *)
(*   of the output passes on.                                              *)
ASSUME ProjectAssumption ==
  /\ Source \cap Build = {}
  /\ \A p \in Projects :
       /\ \A f \in File : p.incs[f] \in Seq(Directive)
       /\ DOMAIN p.gen \subseteq Build /\ Range(p.gen) \subseteq Gen /\ p.plain \subseteq Gen
       /\ p.modes \in [Source -> SUBSET BOOLEAN]
       /\ \A g \in Gen : p.ins[g] \in Seq(File) /\ p.adds[g] \in Seq(Directive)
       /\ p.main \in [Build -> Build] /\ p.opaque \subseteq Build
       /\ \A b \in p.opaque : \A i \in 1..Len(p.incs[b]) : p.incs[b][i].exact
       /\ p.text \in [Build -> SUBSET Source]
       /\ p.from \in [Build -> SUBSET Source]

VARIABLES
  project,    \* the project, never changed
  phase,      \* "generate", "activate", "finish": the order of genInto
  registered, \* generators whose outputs are in the registry
  pending,    \* registered generators that have not run
  ran,        \* generators whose outputs have inherited what adds says
  entry,      \* codegen.files, first column: children
  closure,    \* codegen.files, second column: closures
  active,     \* dfsActive
  missed,     \* searchTierFlat, the negative answers
  loop,       \* InputLoopSources and IncludedInputs of the outputs
  headers,    \* public headers of modules, roots of bindCommandScopes
  fixes,      \* the fixes of kind fixIncludes: none, with a walk pending, without
  wanted,     \* fixes that some node holds
  activated,  \* fixes that have been activated
  visited,    \* fixVisited
  selected,   \* outputs whose producers activation has selected
  settled,    \* inputs of the fixes resolved so far
  spin,       \* activateInclude does not return
  early,      \* history: outputs whose rows were final when they were registered
  blunt       \* history: late walks that do not resolve, of fixes and generators

vars == <<project, phase, registered, pending, ran, entry, closure, active,
          missed, loop, headers, fixes, wanted, activated, visited, selected,
          settled, spin, early, blunt>>

(* The fixes with a walk pending, by the mode of the module it is from.    *)
Pending == {"resolving", "plain"}

(* What get1 and get2 return for a file without a row.                     *)
Unbound   == [bound |-> FALSE, deferred |-> FALSE, paths |-> <<>>, diag |-> <<>>]
NoClosure == [known |-> FALSE, files |-> {}, incomplete |-> FALSE]

(* A row that will not be resolved again.                                  *)
Final(e) == e.bound /\ ~e.deferred

(* The three switches of a ScanCtx.                                        *)
Walk(noResolve) == [noResolve |-> noResolve, initialOnly |-> FALSE, readOnly |-> FALSE]
InitialWalk(noResolve) == [Walk(noResolve) EXCEPT !.initialOnly = TRUE]
ReadOnlyWalk == [Walk(FALSE) EXCEPT !.readOnly = TRUE]

(* The tables a walk reads and changes.                                    *)
Tables == [pending |-> pending, ran |-> ran, entry |-> entry, closure |-> closure,
           active |-> active, missed |-> missed, loop |-> loop,
           visited |-> visited, selected |-> selected, spin |-> spin]

Becomes(t) ==
  /\ pending' = t.pending /\ ran' = t.ran /\ entry' = t.entry
  /\ closure' = t.closure /\ active' = t.active /\ missed' = t.missed
  /\ loop' = t.loop /\ visited' = t.visited /\ selected' = t.selected
  /\ spin' = t.spin

-----------------------------------------------------------------------------
(* The registry.                                                           *)
Outputs(g) == {b \in DOMAIN project.gen : project.gen[b] = g}
Known(f) == f \in DOMAIN project.gen /\ project.gen[f] \in registered

(* parsedIncludes: nothing is known of an output without a producer.       *)
ParsedIncludes(t, f) ==
  IF f \in Source THEN project.incs[f]
  ELSE IF ~Known(f) THEN <<>>
  ELSE project.incs[f] \o IF project.gen[f] \in t.ran
                          THEN project.adds[project.gen[f]] ELSE <<>>

(* mainOut, opaqueMainOut and opaqueInputs: files added to a closure by    *)
(* themselves, without theirs.                                             *)
MainOut(f) == IF Known(f) /\ f \notin project.opaque THEN {project.main[f]} \ {f} ELSE {}
OpaqueMainOut(f) == IF Known(f) /\ f \in project.opaque THEN {project.main[f]} \ {f} ELSE {}
OpaqueInputs(f) == IF Known(f) THEN project.text[f] ELSE {}

-----------------------------------------------------------------------------
(* The search, with its memory of what has not been found.                 *)
ResolveContextSearchTier(missd, to) == to \in Source \/ (Known(to) /\ to \notin missd)
ResolveSearchPath(f, missd, to) ==
  (f \in Build /\ Known(to)) \/ ResolveContextSearchTier(missd, to)
CacheSearchTier(sc, missd, to) == IF sc.initialOnly THEN missd ELSE missd \cup {to}

(* Faults for ResolveOne: the search is answered in the negative without   *)
(* having been made; a directive that is not resolved is forgotten.        *)
ResolveOneNegative(sc, f, acc, d) ==
  IF sc.noResolve /\ (f \in Source \/ ~d.exact)
  THEN [acc EXCEPT !.diag = Append(@, d), !.missed = @ \cup {d.to}]
  ELSE [acc EXCEPT !.paths = Append(@, d.to)]

ResolveOneSilent(sc, f, acc, d) ==
  IF sc.noResolve /\ (f \in Source \/ ~d.exact) THEN acc
  ELSE IF d.exact \/ ResolveSearchPath(f, acc.missed, d.to)
  THEN [acc EXCEPT !.paths = Append(@, d.to)]
  ELSE [acc EXCEPT !.diag = Append(@, d)]

(* resolve, over a sequence of directives of f.                            *)
ResolveOne(sc, f, acc, d) ==
  IF sc.noResolve /\ (f \in Source \/ ~d.exact)
  THEN IF f \in Build THEN [acc EXCEPT !.diag = Append(@, d)] ELSE acc
  ELSE IF d.exact \/ ResolveSearchPath(f, acc.missed, d.to)
  THEN [acc EXCEPT !.paths = Append(@, d.to)]
  ELSE [acc EXCEPT !.diag = Append(@, d), !.missed = CacheSearchTier(sc, @, d.to)]

Resolve(sc, f, paths, missd, ds) ==
  FoldLeft(LAMBDA acc, d : ResolveOne(sc, f, acc, d),
           [paths |-> paths, diag |-> <<>>, missed |-> missd], ds)

(* cachedWindow: may this walk take v's closure as it is?                  *)
CachedWindow(t, sc, v) ==
  LET cl == t.closure[v]
      e  == t.entry[v]
  IN  /\ cl.known
      /\ \/ ~cl.incomplete
         \/ sc.initialOnly
         \/ (sc.noResolve /\ e.deferred /\ (v \in Source \/ e.diag # <<>>))

(* A fault for Deferred: what an initial walk has not found is final.      *)
DeferredOnlyPlain(sc, diag) == sc.noResolve /\ diag # <<>>

(* Is a row with these directives left to be resolved again?               *)
Deferred(sc, diag) == (sc.initialOnly \/ sc.noResolve) /\ diag # <<>>

(* A fault for ShareInputLoop: only outputs with sources of their own.     *)
ShareAmongSources(t, members) ==
  LET known  == {m \in members : Known(m) /\ project.from[m] # {}}
      shared == UNION {project.from[m] \cup t.loop[m] : m \in known}
  IN  [t EXCEPT !.loop = [b \in Build |-> IF b \in known THEN shared ELSE @[b]]]

(* shareInputLoop.                                                         *)
ShareInputLoop(t, members) ==
  LET known  == {m \in members : Known(m)}
      shared == UNION {project.from[m] \cup t.loop[m] : m \in known}
  IN  IF Cardinality(members) < 2 \/ shared = {} THEN t
      ELSE [t EXCEPT !.loop = [b \in Build |-> IF b \in known THEN shared ELSE @[b]]]

RECURSIVE Use(_, _), ClosureOf(_, _, _), Strongconnect(_, _, _)

(* fire: the generator is cleared first, so a use from inside finds it     *)
(* gone.  It walks its source inputs, uses its generated ones, passes      *)
(* their includes on to its outputs and emits its node, for which every    *)
(* input is walked again if its closure is not complete.                   *)
GenWalk(g) == Walk(g \in project.plain)

WalkSources(t, g) ==
  FoldLeft(LAMBDA u, i : IF i \in Source THEN ClosureOf(u, GenWalk(g), i) ELSE u,
           t, project.ins[g])

WalkInputs(t, g) ==
  FoldLeft(LAMBDA u, i : ClosureOf(u, GenWalk(g), i), t, project.ins[g])

PassOn(t, g) ==
  [FoldLeft(LAMBDA u, i : Use(u, i), t, project.ins[g]) EXCEPT !.ran = @ \cup {g}]

Fire(t, g) == WalkInputs(PassOn(WalkSources([t EXCEPT !.pending = @ \ {g}], g), g), g)

(* use and fireGenerated.                                                  *)
Use(t, f) ==
  IF Known(f) /\ project.gen[f] \in t.pending THEN Fire(t, project.gen[f]) ELSE t

(* The row e of f, if bound, will do for this walk.                        *)
RowServes(e, sc, f) ==
  /\ e.bound
  /\ \/ ~e.deferred
     \/ sc.noResolve /\ (f \in Source \/ e.diag # <<>>)
     \/ sc.initialOnly
     \/ sc.readOnly

(* resolvedChildren returns the tables and the row of f.                   *)
Put(t, f, e) == <<[t EXCEPT !.entry[f] = e], e>>

PutResolved(t, sc, f, r) ==
  Put([t EXCEPT !.missed = r.missed], f,
      [bound |-> TRUE, paths |-> r.paths, diag |-> r.diag, deferred |-> Deferred(sc, r.diag)])

(* appendResolvedChildren: of a deferred row the paths stay, and only the  *)
(* directives left in its diagnostics are resolved.  previous was read     *)
(* before the generator ran, t after.                                      *)
AppendResolvedChildren(t, sc, f, previous) ==
  PutResolved(t, sc, f,
    Resolve(sc, f, IF previous.deferred THEN previous.paths ELSE <<>>, t.missed,
            IF t.entry[f].deferred /\ t.entry[f].diag # <<>>
            THEN t.entry[f].diag ELSE ParsedIncludes(t, f)))

ResolvedChildren(t, sc, f) ==
  IF RowServes(t.entry[f], sc, f) THEN <<t, t.entry[f]>>
  ELSE IF sc.readOnly THEN <<t, Unbound>>
  ELSE IF (f \in Source /\ sc.noResolve) \/ (f \in Build /\ sc.initialOnly)
  THEN Put(t, f, [Unbound EXCEPT !.bound = TRUE, !.deferred = TRUE])
  ELSE AppendResolvedChildren(Use(t, f), sc, f, t.entry[f])

-----------------------------------------------------------------------------
(* A fault for Splice: whether the child is complete is not looked at.     *)
SpliceFiles(t, acc, ch) ==
  [acc EXCEPT !.files = @ \cup t.closure[ch].files \cup OpaqueMainOut(ch)]

(* One child spliced into the closure being collected, in dfs and in       *)
(* spliceChild: nothing is done for a file the closure already has.        *)
Splice(t, acc, ch) ==
  IF ch \in acc.files THEN acc
  ELSE [acc EXCEPT !.files = @ \cup t.closure[ch].files \cup OpaqueMainOut(ch),
                   !.incomplete = @ \/ t.closure[ch].incomplete]

(* Tarjan's algorithm.  x carries the tables t and the scratch: index is 0 *)
(* for a file that has not been discovered.                                *)
Enter(x, v) ==
  [x EXCEPT !.next = @ + 1, !.index[v] = x.next + 1, !.low[v] = x.next + 1,
            !.stack = Append(@, v)]

Lower(x, v, n) == IF n < x.low[v] THEN [x EXCEPT !.low[v] = n] ELSE x
LowerFrom(x, v, w) == Lower(x, v, x.low[w])

VisitChild(x, sc, v, w) ==
  IF CachedWindow(x.t, sc, w) THEN x
  ELSE IF x.index[w] = 0 THEN LowerFrom(Strongconnect(x, sc, w), v, w)
  ELSE Lower(x, v, x.index[w])

VisitChildren(x, sc, v, resolved) ==
  FoldLeft(LAMBDA a, w : VisitChild(a, sc, v, w), [x EXCEPT !.t = resolved[1]], resolved[2].paths)

(* emitMembers: the closure of the members, children on the stack aside.   *)
SpliceChildren(acc, on, resolved) ==
  FoldLeft(LAMBDA a, ch : IF ch \in on THEN a ELSE Splice(a.t, a, ch),
           [acc EXCEPT !.t = resolved[1]], resolved[2].paths)

EmitMembers(t, sc, members, on) ==
  FoldLeft(LAMBDA acc, u : SpliceChildren(acc, on, ResolvedChildren(acc.t, sc, u)),
           [t |-> t, incomplete |-> FALSE,
            files |-> ToSet(members) \cup UNION {MainOut(u) \cup OpaqueInputs(u) : u \in ToSet(members)}],
           members)

(* emitClosure: one closure for all members.                               *)
MembersIncomplete(t, own, on) ==
  \E u \in own : \/ t.entry[u].deferred
                 \/ \E ch \in ToSet(t.entry[u].paths) \ on : t.closure[ch].incomplete

StoreMembers(x, sc, own, acc) ==
  [x EXCEPT !.t = [acc.t EXCEPT !.closure = [f \in File |->
                     IF f \notin own THEN @[f]
                     ELSE [known |-> TRUE, files |-> acc.files,
                           incomplete |-> ~sc.readOnly /\ MembersIncomplete(acc.t, own, ToSet(x.stack))]]],
            !.stack = SelectSeq(@, LAMBDA u : u \notin own)]

EmitClosure(x, sc, members) ==
  StoreMembers(x, sc, ToSet(members),
    EmitMembers(IF sc.readOnly THEN x.t ELSE ShareInputLoop(x.t, ToSet(members)),
                sc, members, ToSet(x.stack)))

(* The part of the stack that begins with v.                               *)
StackFrom(x, v) ==
  SubSeq(x.stack, CHOOSE i \in 1..Len(x.stack) : x.stack[i] = v, Len(x.stack))

EmitIfRoot(x, sc, v) ==
  IF x.low[v] # x.index[v] THEN x ELSE EmitClosure(x, sc, StackFrom(x, v))

Strongconnect(x, sc, v) ==
  EmitIfRoot(VisitChildren(Enter(x, v), sc, v, ResolvedChildren(x.t, sc, v)), sc, v)

RunSCC(t, sc, root) ==
  Strongconnect([t |-> t, next |-> 0, stack |-> <<>>,
                 index |-> [f \in File |-> 0], low |-> [f \in File |-> 0]], sc, root).t

(* dfs: a file met again while it is being walked is left to Tarjan's      *)
(* algorithm; otherwise the closures of its children are joined.           *)
Children(row, f) == SelectSeq(row.paths, LAMBDA c : c # f)

ScanChildren(resolved, sc, f) ==
  <<FoldLeft(LAMBDA t, c : ClosureOf(t, sc, c), resolved[1], Children(resolved[2], f)), resolved[2]>>

StoreDfs(t, f, acc) ==
  [t EXCEPT !.closure[f] = [known |-> TRUE, files |-> acc.files \cup MainOut(f),
                            incomplete |-> acc.incomplete],
            !.active = @ \ {f}]

Collect(scanned, sc, f) ==
  StoreDfs(scanned[1], f,
    FoldLeft(LAMBDA a, c : Splice(scanned[1], a, c),
             [files |-> {f} \cup OpaqueInputs(f),
              incomplete |-> scanned[2].deferred /\ ~sc.readOnly],
             Children(scanned[2], f)))

Dfs(t, sc, f) ==
  IF f \in t.active THEN RunSCC(t, sc, f)
  ELSE Collect(ScanChildren(ResolvedChildren([t EXCEPT !.active = @ \cup {f}], sc, f), sc, f), sc, f)

ClosureOf(t, sc, f) == IF CachedWindow(t, sc, f) THEN t ELSE Dfs(t, sc, f)

-----------------------------------------------------------------------------
(* A fault for BindGenerated: rows that are final are bound again.         *)
BindAgain(t, f) ==
  LET e     == t.entry[f]
      found == SelectSeq(ParsedIncludes(t, f), LAMBDA d : d.exact \/ Known(d.to))
      paths == FoldLeft(LAMBDA ps, d : IF d.to \in ToSet(ps) THEN ps ELSE Append(ps, d.to),
                        e.paths, found)
  IN  IF ~Known(f) \/ Len(paths) = Len(e.paths) THEN t
      ELSE [t EXCEPT !.entry[f] = [e EXCEPT !.bound = TRUE, !.deferred = TRUE, !.paths = paths]]

(* bindGeneratedIncludes: without a search, what the registry knows.       *)
BindGenerated(t, f) ==
  LET e     == t.entry[f]
      found == SelectSeq(ParsedIncludes(t, f), LAMBDA d : d.exact \/ Known(d.to))
      paths == FoldLeft(LAMBDA ps, d : IF d.to \in ToSet(ps) THEN ps ELSE Append(ps, d.to),
                        e.paths, found)
  IN  IF (e.bound /\ ~e.deferred) \/ ~Known(f) \/ Len(paths) = Len(e.paths) THEN t
      ELSE [t EXCEPT !.entry[f] = [e EXCEPT !.bound = TRUE, !.deferred = TRUE, !.paths = paths]]

RECURSIVE BindFrom(_, _, _), ActivateInclude(_, _, _)

(* visit of bindCommandScopes, over the files still to be visited.         *)
BindFrom(t, seen, todo) ==
  IF todo = {} THEN t
  ELSE LET f == CHOOSE f \in todo : TRUE
           u == IF f \in Build THEN BindGenerated(t, f) ELSE t
       IN  BindFrom(u, seen \cup {f},
                    (todo \cup ToSet(u.entry[f].paths)) \ (seen \cup {f}))

(* A fault for MarkVisited: no file is marked.  A fault for SelectOutput:  *)
(* the producer is selected only if it had still to run.                   *)
MarkNone(t, f) == t

SelectPending(t, f) ==
  [Use(t, f) EXCEPT !.selected = IF Known(f) /\ project.gen[f] \in t.pending
                                 THEN @ \cup {f} ELSE @]

(* A deferred source is not marked: its row may change.                    *)
MarkVisited(t, f) ==
  IF Final(t.entry[f]) \/ f \in Build THEN [t EXCEPT !.visited = @ \cup {f}] ELSE t

SelectOutput(t, f) ==
  [Use(t, f) EXCEPT !.selected = IF Known(f) THEN @ \cup {f} ELSE @]

(* activateInclude.  above holds the calls below which this one is made; a *)
(* call repeated on the same tables would be repeated for ever.            *)
ActivateChildren(t, f, above) ==
  FoldLeft(LAMBDA a, c : ActivateInclude(a, c, above), t, t.entry[f].paths)

ActivateInclude(t, f, above) ==
  IF f \in t.visited \/ t.spin THEN t
  ELSE IF <<f, t>> \in above THEN [t EXCEPT !.spin = TRUE]
  ELSE ActivateChildren(IF f \in Build
                        THEN BindGenerated(SelectOutput(MarkVisited(t, f), f), f)
                        ELSE MarkVisited(t, f),
                        f, above \cup {<<f, t>>})

-----------------------------------------------------------------------------
Init ==
  /\ project \in Projects
  /\ phase = "generate"
  /\ registered = {} /\ pending = {} /\ ran = {}
  /\ entry = [f \in File |-> Unbound]
  /\ closure = [f \in File |-> NoClosure]
  /\ active = {} /\ missed = {}
  /\ loop = [b \in Build |-> {}]
  /\ headers = {}
  /\ fixes = [f \in Source |-> "none"]
  /\ wanted = {} /\ activated = {} /\ visited = {} /\ selected = {}
  /\ settled = [f \in Source |-> {}]
  /\ spin = FALSE /\ early = {} /\ blunt = {}

(* register, for the outputs of a statement.                               *)
Register(g) ==
  /\ phase = "generate"
  /\ g \notin registered
  /\ registered' = registered \cup {g}
  /\ pending' = pending \cup {g}
  /\ early' = early \cup {b \in Outputs(g) : entry[b].bound /\ ~entry[b].deferred}
  /\ UNCHANGED <<project, phase, ran, entry, closure, active, missed, loop, headers,
                 fixes, wanted, activated, visited, selected, settled, spin, blunt>>

(* walkClosure and inputClosure: a node is emitted, in a module that       *)
(* resolves includes or in one that does not.                              *)
WalkClosure(f, noResolve) ==
  /\ phase = "generate"
  /\ f \in Source \/ Known(f)
  /\ Becomes(ClosureOf(Tables, Walk(noResolve), f))
  /\ UNCHANGED <<project, phase, registered, headers, fixes, wanted, activated,
                 settled, early, blunt>>

(* discoverInput, for an input of a generator or for a public header.      *)
DiscoverInput(f, noResolve, header) ==
  /\ phase = "generate"
  /\ headers' = IF header THEN headers \cup {f} ELSE headers
  /\ Becomes(IF closure[f].known THEN Tables
             ELSE ClosureOf(Tables, InitialWalk(noResolve), f))
  /\ UNCHANGED <<project, phase, registered, fixes, wanted, activated, settled, early, blunt>>

(* emitCCWith under deferred publication: the node of f is emitted with    *)
(* what an initial walk finds.  If that is not everything, a fix is given  *)
(* the full walk of this module, unless it has kept the walk of another    *)
(* module that compiles f, and is added to the node if the module resolves *)
(* includes.                                                               *)
Configure(f, noResolve) ==
  LET t    == ClosureOf(Tables, InitialWalk(noResolve), f)
      late == t.closure[f].incomplete
  IN  /\ phase = "generate"
      /\ noResolve \in project.modes[f]
      /\ Becomes(t)
      /\ fixes' = IF late /\ fixes[f] \notin Pending
                  THEN [fixes EXCEPT ![f] = IF noResolve THEN "plain" ELSE "resolving"]
                  ELSE fixes
      /\ wanted' = IF late /\ ~noResolve THEN wanted \cup {f} ELSE wanted
      /\ UNCHANGED <<project, phase, registered, headers, activated, settled, early, blunt>>

(* bindCommandScopes.                                                      *)
BindCommandScopes ==
  /\ phase = "generate"
  /\ phase' = "activate"
  /\ Becomes(BindFrom(Tables, {}, headers))
  /\ UNCHANGED <<project, registered, headers, fixes, wanted, activated, settled, early, blunt>>

(* A fault for Activate: the pending walk is dropped.                      *)
ActivateUnwalked(f) ==
  /\ phase = "activate"
  /\ f \in wanted
  /\ activated' = activated \cup {f}
  /\ fixes' = [fixes EXCEPT ![f] = "idle"]
  /\ Becomes(ActivateInclude(Tables, f, {}))
  /\ UNCHANGED <<project, phase, registered, headers, wanted, settled, early, blunt>>

(* activate, for the fixes of a node that bindForeignTools selects; another *)
(* node may hold the same fix.                                             *)
Activate(f) ==
  LET t == IF fixes[f] \in Pending THEN ClosureOf(Tables, Walk(fixes[f] = "plain"), f)
           ELSE Tables
  IN  /\ phase = "activate"
      /\ f \in wanted
      /\ activated' = activated \cup {f}
      /\ fixes' = [fixes EXCEPT ![f] = "idle"]
      /\ Becomes(ActivateInclude(t, f, {}))
      /\ blunt' = blunt \cup {x \in {f} : fixes[x] = "plain"}
                        \cup ((ran' \ ran) \cap project.plain)
      /\ UNCHANGED <<project, phase, registered, headers, wanted, settled, early>>

(* resolve of the fixer, with establishedClosure, for each fix in finish.  *)
(* The file itself, an input of its nodes already, is counted here.        *)
EstablishedClosure(t, f) ==
  IF t.closure[f].known /\ ~t.closure[f].incomplete THEN t ELSE ClosureOf(t, ReadOnlyWalk, f)

Settle(f) ==
  LET t == EstablishedClosure(Tables, f)
  IN  /\ phase \in {"activate", "finish"}
      /\ wanted \subseteq activated
      /\ fixes[f] # "none" /\ settled[f] = {}
      /\ phase' = "finish"
      /\ Becomes(t)
      /\ settled' = [settled EXCEPT ![f] = t.closure[f].files]
      /\ UNCHANGED <<project, registered, headers, fixes, wanted, activated, early, blunt>>

Next ==
  \/ \E g \in Gen : Register(g)
  \/ \E f \in File, n \in BOOLEAN : WalkClosure(f, n)
  \/ \E f \in Source, n, h \in BOOLEAN : DiscoverInput(f, n, h)
  \/ \E f \in Source, n \in BOOLEAN : Configure(f, n)
  \/ BindCommandScopes
  \/ \E f \in Source : Activate(f)
  \/ \E f \in Source : Settle(f)

Spec == Init /\ [][Next]_vars
-----------------------------------------------------------------------------
(* What the properties compare with.                                       *)
RECURSIVE Reachable(_), Upstream(_)

(* The files the rows lead to.                                             *)
Reachable(S) ==
  LET more == S \cup UNION {ToSet(entry[f].paths) : f \in S}
  IN  IF more = S THEN S ELSE Reachable(more)

(* The closure of f: the files its rows lead to and the single files that  *)
(* belong to these.                                                        *)
WholeClosure(f) ==
  LET r == Reachable({f})
  IN  r \cup UNION {MainOut(x) \cup OpaqueInputs(x) : x \in r}
        \cup UNION {OpaqueMainOut(x) : x \in r \ {f}}

(* What is reached from a file that was walked without resolving after     *)
(* bindCommandScopes, by the walk a fix has kept from a module of that     *)
(* mode or by a generator of such a module.  Such a walk finds nothing new *)
(* in a source, and takes incomplete closures of outputs for what they     *)
(* are: where outputs include each other it may store one as complete.     *)
Blunted ==
  Reachable((blunt \cap Source) \cup UNION {ToSet(project.ins[g]) : g \in blunt \cap Gen})

(* No file f leads to was walked late without resolving, and none of them  *)
(* was final before it was registered.                                     *)
Sharp(f) == blunt = {} \/ Reachable({f}) \cap Blunted = {}
Unspoilt(f) == Sharp(f) /\ Reachable({f}) \cap early = {}

(* Everything a scan of the files S can depend on, and the projects with a *)
(* generator that depends in this way on an output of its own.  Such a     *)
(* generator is entered again while it runs.                               *)
Upstream(S) ==
  LET Targets(ds) == {ds[i].to : i \in DOMAIN ds}
      more == S \cup UNION {Targets(project.incs[f]) : f \in S}
                \cup UNION {Targets(project.adds[project.gen[b]])
                              \cup ToSet(project.ins[project.gen[b]]) : b \in S \cap DOMAIN project.gen}
  IN  IF more = S THEN S ELSE Upstream(more)

SelfDependent == \E g \in Gen : Upstream(ToSet(project.ins[g])) \cap Outputs(g) # {}

TypeOK ==
  /\ phase \in {"generate", "activate", "finish"}
  /\ ran \subseteq registered /\ pending \subseteq registered \ ran
  /\ \A f \in File :
       /\ entry[f].bound \in BOOLEAN /\ entry[f].deferred \in BOOLEAN
       /\ entry[f].paths \in Seq(File) /\ entry[f].diag \in Seq(Directive)
       /\ closure[f].known \in BOOLEAN /\ closure[f].incomplete \in BOOLEAN
       /\ closure[f].files \subseteq File
  /\ active = {}
  /\ missed \subseteq Build /\ loop \in [Build -> SUBSET Source]
  /\ headers \subseteq Source /\ fixes \in [Source -> Pending \cup {"none", "idle"}]
  /\ activated \subseteq wanted /\ wanted \subseteq Source
  /\ visited \subseteq File /\ selected \subseteq Build
  /\ settled \in [Source -> SUBSET File] /\ spin \in BOOLEAN /\ early \subseteq Build
  /\ blunt \subseteq activated \cup project.plain

(* A closure that is stored as complete is complete: it is what the rows   *)
(* lead to, and all of these rows are final.  dfs, the splices and Tarjan's *)
(* algorithm must get this right whatever walks of other modes have left   *)
(* in the table, since no later walk looks at the closure again            *)
(* (cachedWindow).  Outputs that were walked before they were registered   *)
(* are excepted: they stay without includes; and so is what a late walk    *)
(* that does not resolve has reached (Blunted).  The read-only walks of    *)
(* finish, after which nothing is walked, are left to FixExact.            *)
CompleteExact ==
  phase # "finish" /\ ~SelfDependent =>
    \A f \in File :
      LET cl == closure[f]
      IN  cl.known /\ ~cl.incomplete /\ Unspoilt(f) =>
            /\ cl.files = WholeClosure(f)
            /\ \A x \in Reachable({f}) : Final(entry[x])

(* A final row never changes: closures were computed from it.  The hazard  *)
(* is resolvedChildren, which reads the row, then runs a generator that    *)
(* walks the same files, then writes the row; and bindGeneratedIncludes.   *)
RowsFinal ==
  [][~SelfDependent => \A f \in File : Final(entry[f]) => entry'[f] = entry[f]]_vars

(* A row that becomes final accounts for every directive its file has by   *)
(* then, those included that its generator passes on: the generator runs   *)
(* before its output is scanned, and what earlier walks left in Diagnostics *)
(* is not lost when only that is resolved again.                           *)
BindsAll ==
  [][\A f \in File :
       LET ds == ParsedIncludes(Tables, f)'
       IN  ~SelfDependent /\ ~Final(entry[f]) /\ Final(entry'[f]) =>
             \A i \in DOMAIN ds : \/ ds[i].to \in ToSet(entry'[f].paths)
                                  \/ ds[i] \in ToSet(entry'[f].diag)]_vars

(* The inputs a fix adds to its nodes in the end are the whole closure of  *)
(* the source, from final rows, although the node was emitted from an      *)
(* initial walk and generators have been registered and run since: the     *)
(* read-only walk of establishedClosure never meets a row that is missing. *)
(* This is so for fixes whose pending walk is from a module that resolves; *)
(* a walk kept from one that does not leaves the closure truncated.        *)
FixExact ==
  ~SelfDependent =>
    \A f \in wanted :
      settled[f] # {} /\ Unspoilt(f) =>
        /\ settled[f] = WholeClosure(f)
        /\ \A x \in Reachable({f}) : Final(entry[x])

(* An include that could not be found when the node was emitted, and whose *)
(* target has been registered since, is found by the fix, unless a walk of *)
(* another node has asked for it too early (cacheSearchTier), or the walk  *)
(* that was kept for the fix is one that does not resolve.                 *)
LateFound ==
  \A f \in {f \in wanted : Sharp(f)} : \A x \in settled[f] \cap Reachable({f}) \cap Source :
    \A d \in ToSet(project.incs[x]) :
      Known(d.to) /\ d.to \notin missed => d.to \in settled[f]

(* Every output among the inputs a fix adds has been produced: activation  *)
(* has run its generator and selected its producer, whichever fixes, in    *)
(* whichever order, have visited the files on the way there before, late   *)
(* walks that do not resolve aside.                                        *)
SelectedCovers ==
  ~SelfDependent =>
    \A f \in {f \in wanted : Sharp(f)} : \A b \in (settled[f] \cap Reachable({f})) \ early :
      Known(b) => b \in selected /\ project.gen[b] \notin pending

(* activateInclude returns, although it does not mark deferred sources and *)
(* files include each other.                                               *)
ActivationEnds == ~spin

(* Outputs that include each other pass on the same sources, however the   *)
(* walk entered their cycle, unless a late walk that does not resolve has  *)
(* reached it.                                                             *)
LoopShared ==
  ~SelfDependent /\ phase # "finish" =>
    \A b, c \in Build :
      LET Done(x) == Known(x) /\ closure[x].known /\ ~closure[x].incomplete
      IN  /\ b # c /\ Done(b) /\ Done(c) /\ Unspoilt(b)
          /\ b \in Reachable({c}) /\ c \in Reachable({b})
          => loop[b] = loop[c] /\ project.from[b] \subseteq loop[c]
=============================================================================
