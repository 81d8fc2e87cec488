----------------------------- MODULE ArtifactStore -----------------------------
(***************************************************************************)
(* ArtifactStore.write_json, system call by system call: several calls, of *)
(* threads and processes that share the root, race for the same paths.  A  *)
(* call writes its bytes to a temporary file, syncs it, links it to the    *)
(* final name (the link fails when the name is taken) and syncs the        *)
(* directory; a file system that cannot do that is put up with.  A system  *)
(* call may fail, a process may stop in between, and a power failure keeps *)
(* only what reached the disk.                                             *)
(*                                                                         *)
(* The bytes of a call are its inode: final[p] names the call whose inode  *)
(* carries the name p.                                                     *)
(***************************************************************************)
EXTENDS Naturals

CONSTANTS Calls,      \* calls of write_json, each with its own content
          Paths,      \* artifact paths
          Dirs,       \* directories
          DirOf,      \* path -> its directory
          OldDirs,    \* directories that exist, on the disk too, from the start
          Size,       \* length of the content, in units os.write may split at
          MaxErrors,  \* bound: failing system calls
          MaxLosses,  \* bound: power failures
          None

ASSUME ArtifactStoreAssumption ==
  /\ DirOf \in [Paths -> Dirs]
  /\ OldDirs \subseteq Dirs
  /\ Size \in Nat \ {0}
  /\ MaxErrors \in Nat /\ MaxLosses \in Nat
  /\ None \notin Calls \cup Paths

VARIABLES
  made,     \* directories that exist
  final,    \* path -> call whose inode is linked there
  stored,   \* path -> the same, as far as it is known to be on the disk
  tmp,      \* calls whose temporary name exists
  data,     \* call -> length of its inode
  synced,   \* call -> length known to be on the disk
  pc,       \* call -> control point
  target,   \* call -> path
  outcome,  \* call -> how it will end: "ok", "exists" or "error"
  unsynced, \* calls whose directory could not be synced; the code keeps no such
            \* record, and no step reads it
  errors,   \* failed system calls so far
  losses    \* power failures so far

disk == <<made, final, stored, tmp, data, synced>>
vars == <<disk, pc, target, outcome, unsynced, errors, losses>>

Init ==
  /\ made = OldDirs
  /\ final = [p \in Paths |-> None]
  /\ stored = [p \in Paths |-> None]
  /\ tmp = {}
  /\ data = [c \in Calls |-> 0]
  /\ synced = [c \in Calls |-> 0]
  /\ pc = [c \in Calls |-> "idle"]
  /\ target = [c \in Calls |-> None]
  /\ outcome = [c \in Calls |-> "ok"]
  /\ unsynced = {}
  /\ errors = 0 /\ losses = 0

Goes(c, to) == pc' = [pc EXCEPT ![c] = to]

\* A system call of c fails: the finally clause takes over.
Error == errors < MaxErrors /\ errors' = errors + 1
Raises(c, to) ==
  /\ Error
  /\ outcome' = [outcome EXCEPT ![c] = "error"]
  /\ Goes(c, to)

Begin(c, p) ==
  /\ pc[c] = "idle"
  /\ target' = [target EXCEPT ![c] = p]
  /\ Goes(c, "mkdir")
  /\ UNCHANGED <<disk, outcome, unsynced, errors, losses>>

\* _open_parent(create=True); nothing to clean up when it fails.
OpenParent(c) ==
  /\ pc[c] = "mkdir"
  /\ \/ /\ made' = made \cup {DirOf[target[c]]}
        /\ Goes(c, "open")
        /\ UNCHANGED <<outcome, errors>>
     \/ /\ made' \in {made, made \cup {DirOf[target[c]]}}
        /\ Raises(c, "done")
  /\ UNCHANGED <<final, stored, tmp, data, synced, target, unsynced, losses>>

OpenTemporary(c) ==
  /\ pc[c] = "open"
  /\ \/ /\ tmp' = tmp \cup {c}
        /\ Goes(c, "write")
        /\ UNCHANGED <<outcome, errors>>
     \/ /\ UNCHANGED tmp
        /\ Raises(c, "unlink")
  /\ UNCHANGED <<made, final, stored, data, synced, target, unsynced, losses>>

\* _write_all: os.write may write less than it was given.
WriteSome(c) ==
  /\ pc[c] = "write"
  /\ \/ /\ data[c] < Size
        /\ \E n \in (data[c] + 1)..Size : data' = [data EXCEPT ![c] = n]
        /\ UNCHANGED <<pc, outcome, errors>>
     \/ /\ data[c] = Size
        /\ Goes(c, "fsync")
        /\ UNCHANGED <<data, outcome, errors>>
     \/ /\ Raises(c, "unlink")
        /\ UNCHANGED data
  /\ UNCHANGED <<made, final, stored, tmp, synced, target, unsynced, losses>>

\* Mutant: the temporary file is closed without os.fsync.
ForgetSync(c) == UNCHANGED synced

\* os.fsync(temporary_fd)
Sync(c) == synced' = [synced EXCEPT ![c] = data[c]]

SyncTemporary(c) ==
  /\ pc[c] = "fsync"
  /\ \/ /\ Sync(c)
        /\ Goes(c, "link")
        /\ UNCHANGED <<outcome, errors>>
     \/ /\ UNCHANGED synced
        /\ Raises(c, "unlink")
  /\ UNCHANGED <<made, final, stored, tmp, data, target, unsynced, losses>>

\* Mutant: the final name is checked by nobody, as with os.rename.
FreeAlways(p) == TRUE

\* The name is free.
Free(p) == final[p] = None

LinkFinal(c) ==
  LET p == target[c] IN
  /\ pc[c] = "link"
  /\ \/ /\ Free(p)
        /\ final' = [final EXCEPT ![p] = c]
        /\ Goes(c, "syncdir")
        /\ UNCHANGED <<outcome, errors>>
     \/ /\ ~Free(p)
        /\ outcome' = [outcome EXCEPT ![c] = "exists"]
        /\ Goes(c, "unlink")
        /\ UNCHANGED <<final, errors>>
     \/ /\ UNCHANGED final
        /\ Raises(c, "unlink")
  /\ UNCHANGED <<made, stored, tmp, data, synced, target, unsynced, losses>>

\* Mutant: the directory is not synced after the link.
ForgetSyncDir(d) == UNCHANGED stored

\* os.fsync(parent_fd): every entry of the directory reaches the disk.
SyncDir(d) ==
  stored' = [p \in Paths |-> IF DirOf[p] = d THEN final[p] ELSE stored[p]]

\* _fsync_directory: EINVAL, of a file system that does not sync directories, is
\* ignored: nothing reaches the disk and the call goes on as if it had.
SyncDirectory(c) ==
  /\ pc[c] = "syncdir"
  /\ \/ /\ SyncDir(DirOf[target[c]])
        /\ Goes(c, "unlink")
        /\ UNCHANGED <<outcome, unsynced, errors>>
     \/ /\ unsynced' = unsynced \cup {c}
        /\ Goes(c, "unlink")
        /\ UNCHANGED <<stored, outcome, errors>>
     \/ /\ UNCHANGED <<stored, unsynced>>
        /\ Raises(c, "unlink")
  /\ UNCHANGED <<made, final, tmp, data, synced, target, losses>>

\* The finally clause; the call then returns, or raises what it had to raise.
Unlink(c) ==
  /\ pc[c] = "unlink"
  /\ \/ /\ tmp' = tmp \ {c}
        /\ Goes(c, "done")
        /\ UNCHANGED <<outcome, errors>>
     \/ /\ UNCHANGED tmp
        /\ c \in tmp
        /\ Raises(c, "done")
  /\ UNCHANGED <<made, final, stored, data, synced, target, unsynced, losses>>

-------------------------------------------------------------------------------
(* Environment                                                             *)

Ended == {"idle", "done", "gone"}

\* The process of call c stops.
Die(c) ==
  /\ pc[c] \notin Ended
  /\ Goes(c, "gone")
  /\ UNCHANGED <<disk, target, outcome, unsynced, errors, losses>>

\* Power fails.  A directory made since may be missing, with all it holds; an
\* entry not synced may be missing; an inode keeps at least what was synced.
PowerLoss ==
  /\ losses < MaxLosses
  /\ losses' = losses + 1
  /\ pc' = [c \in Calls |-> IF pc[c] \in Ended THEN pc[c] ELSE "gone"]
  /\ \E kept \in SUBSET made, names \in SUBSET Paths, n \in [Calls -> 0..Size] :
       /\ OldDirs \subseteq kept
       /\ \A c \in Calls : synced[c] <= n[c] /\ n[c] <= data[c]
       /\ made' = kept
       /\ final' = [p \in Paths |->
                      IF DirOf[p] \notin kept THEN None
                      ELSE IF p \in names THEN final[p] ELSE stored[p]]
       /\ data' = n
  /\ stored' = final'
  /\ synced' = data'
  /\ tmp' = {}
  /\ UNCHANGED <<target, outcome, unsynced, errors>>

-------------------------------------------------------------------------------
Step(c) ==
  \/ \E p \in Paths : Begin(c, p)
  \/ OpenParent(c) \/ OpenTemporary(c) \/ WriteSome(c) \/ SyncTemporary(c)
  \/ LinkFinal(c) \/ SyncDirectory(c) \/ Unlink(c) \/ Die(c)

Next == (\E c \in Calls : Step(c)) \/ PowerLoss

Spec == Init /\ [][Next]_vars

-------------------------------------------------------------------------------
(* Properties                                                              *)

TypeOK ==
  /\ made \in SUBSET Dirs
  /\ final \in [Paths -> Calls \cup {None}]
  /\ stored \in [Paths -> Calls \cup {None}]
  /\ tmp \in SUBSET Calls
  /\ data \in [Calls -> 0..Size]
  /\ synced \in [Calls -> 0..Size]
  /\ pc \in [Calls -> {"idle", "mkdir", "open", "write", "fsync", "link",
                       "syncdir", "unlink", "done", "gone"}]
  /\ target \in [Calls -> Paths \cup {None}]
  /\ outcome \in [Calls -> {"ok", "exists", "error"}]
  /\ unsynced \in SUBSET Calls
  /\ errors \in Nat /\ losses \in Nat

\* "Complete, fsync, then atomically publish": whoever reads a published path,
\* before or after a power failure, reads a whole document.
NeverTorn == \A p \in Paths : final[p] # None => data[final[p]] = Size

\* The call has returned an ArtifactRef.
Acknowledged(c) == pc[c] = "done" /\ outcome[c] = "ok"

\* A reference that a power failure spares: the directory was on the disk before
\* (write_json does not sync the parents of directories it makes), and it was synced
\* after the link (write_json ignores EINVAL).
Lasting(c) == Acknowledged(c) /\ DirOf[target[c]] \in OldDirs /\ c \notin unsynced

\* A caller that was given an ArtifactRef finds its own content at that path as long
\* as power does not fail, whatever other calls and dying processes do; and for ever,
\* power failures included, when the directory was there before and its file system
\* synced it.
AcknowledgedSurvives ==
  \A c \in Calls :
    /\ Acknowledged(c) /\ losses = 0 => final[target[c]] = c
    /\ Lasting(c) => final[target[c]] = c /\ stored[target[c]] = c

\* The inductive invariant behind these: an inode is whole and synced before it
\* gets its final name, a name on the disk is a name in memory, and a call that
\* is about to return a reference owns its path, on the disk too if it was synced.
Whole(c) == data[c] = Size /\ synced[c] = Size

Invariant ==
  /\ TypeOK
  /\ \A c \in Calls :
       /\ pc[c] # "idle" => target[c] \in Paths
       /\ pc[c] = "fsync" => data[c] = Size
       /\ pc[c] = "link" => Whole(c)
       /\ pc[c] = "syncdir" => final[target[c]] = c
       /\ pc[c] \in {"idle", "mkdir", "open", "write", "fsync", "link"} =>
            \A p \in Paths : final[p] # c
       /\ pc[c] \in {"unlink", "done"} /\ outcome[c] = "ok" =>
            /\ losses = 0 \/ pc[c] = "unlink" => final[target[c]] = c
            /\ DirOf[target[c]] \in OldDirs /\ c \notin unsynced =>
                 final[target[c]] = c /\ stored[target[c]] = c
  /\ \A p \in Paths :
       /\ final[p] # None => Whole(final[p]) /\ target[final[p]] = p
       /\ stored[p] # None => stored[p] = final[p]

\* The store is the abstract create-only store, where a path is safe once a call has
\* returned a lasting reference to it.
SafePaths == {p \in Paths : \E c \in Calls : Lasting(c) /\ target[c] = p}

Store == INSTANCE CreateOnlyStore
           WITH files <- final, safe <- SafePaths, Contents <- Calls

StoreSpec == Store!Spec

===============================================================================
