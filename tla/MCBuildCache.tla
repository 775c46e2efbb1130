--------------------------- MODULE MCBuildCache ---------------------------
(* Small instances of BuildCache for TLC.                                  *)
EXTENDS BuildCache, TLC

CONSTANTS lib, app, tool, b1, b2

(* app depends on lib; the two share a blob, as equal outputs do in cas/.  *)
ChainDeps == (lib :> {}) @@ (app :> {lib})
ChainOut  == (lib :> {b1}) @@ (app :> {b1, b2})

(* A third node runs beside the chain.                                     *)
ForkDeps == ChainDeps @@ (tool :> {})
ForkOut  == ChainOut @@ (tool :> {b1})

(* One node alone, for the runs about its lock.                            *)
OneDeps == (app :> {})
OneOut  == (app :> {b2})

InodeSymmetry == Permutations(Inode)
=============================================================================
