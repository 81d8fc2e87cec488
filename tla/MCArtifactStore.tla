--------------------------- MODULE MCArtifactStore ---------------------------
(***************************************************************************)
(* Model checking the two create-only stores.  Three calls of write_json    *)
(* race for two paths: one in a directory that was there before, one in a   *)
(* directory the calls have to make.  Beside it, runs share the response    *)
(* cache.                                                                   *)
(***************************************************************************)
EXTENDS ArtifactStore, ResponseCache, TLC

CONSTANTS c1, c2, c3, old, new, oldPath, newPath

VARIABLE subject  \* what is checked: "artifacts" or "cache"

MCCalls == {c1, c2, c3}
MCPaths == {oldPath, newPath}
MCDirs == {old, new}
MCOldDirs == {old}
MCDirOf == (oldPath :> old) @@ (newPath :> new)

MCInit == subject \in {"artifacts", "cache"} /\ Init /\ CacheInit

MCNext ==
  /\ \/ subject = "artifacts" /\ Next /\ UNCHANGED cacheVars
     \/ subject = "cache" /\ CacheNext /\ UNCHANGED vars
  /\ UNCHANGED subject

MCSpec == MCInit /\ [][MCNext]_<<subject, vars, cacheVars>>

=============================================================================
