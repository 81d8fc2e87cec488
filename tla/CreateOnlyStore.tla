---------------------------- MODULE CreateOnlyStore ----------------------------
(***************************************************************************)
(* What the artifact store promises: a path is given its content once and  *)
(* keeps it; a power failure may take away what is not safe, never what    *)
(* is.  Which returned references are safe is for the implementation to    *)
(* say: ArtifactStore does.                                                *)
(***************************************************************************)
CONSTANTS Paths, Contents, None

VARIABLES files,  \* path -> content, or None
          safe    \* paths a caller was given a lasting reference to

vars == <<files, safe>>

Init == files = [p \in Paths |-> None] /\ safe = {}

Create(p, c) ==
  /\ files[p] = None
  /\ files' = [files EXCEPT ![p] = c]
  /\ UNCHANGED safe

Acknowledge(p) ==
  /\ files[p] # None
  /\ safe' = safe \cup {p}
  /\ UNCHANGED files

Lose(S) ==
  /\ S \cap safe = {}
  /\ files' = [p \in Paths |-> IF p \in S THEN None ELSE files[p]]
  /\ UNCHANGED safe

Next ==
  \/ \E p \in Paths : Acknowledge(p) \/ \E c \in Contents : Create(p, c)
  \/ \E S \in SUBSET Paths : Lose(S)

Spec == Init /\ [][Next]_vars

===============================================================================
