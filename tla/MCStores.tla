------------------------------- MODULE MCStores -------------------------------
(* Collection, reference counts and restore cursors on a small instance.  The
   three share no state, so a behaviour of all is one of each side by side: it
   is enough to let one of them move while the others are still new. *)
EXTENDS Collection, RefCounts, RestoreCursor

storesVars == <<collVars, refVars, cursorVars>>

StoresInit == CollectionInit /\ RefCountsInit /\ CursorInit

StoresNext ==
    \/ RefCountsInit /\ CursorInit /\ CollectionNext /\ UNCHANGED <<refVars, cursorVars>>
    \/ CollectionInit /\ CursorInit /\ RefCountsNext /\ UNCHANGED <<collVars, cursorVars>>
    \/ CollectionInit /\ RefCountsInit /\ CursorNext /\ UNCHANGED <<collVars, refVars>>

StoresSpec == StoresInit /\ [][StoresNext]_storesVars

StoresSymmetry == Permutations(Snapshots) \union Permutations(Digests) \union Permutations(Plans)
=============================================================================
