----------------------------- MODULE MCLibraryServices -----------------------------
(***************************************************************************)
(* The instance TLC checks: three pointers of two objects; three file      *)
(* objects over a root, a directory and a file; a process of two threads   *)
(* and its child, seen through two objects; two page arrays in five pages; *)
(* two threads that print; days around ends of years and centuries.        *)
(***************************************************************************)
EXTENDS LibraryServices, TLC

CONSTANTS top, dir, file, init, l1, t1, l2

MCParent == (top :> top) @@ (dir :> top) @@ (file :> dir)
MCLeader == (init :> init) @@ (l1 :> l1) @@ (t1 :> l1) @@ (l2 :> l2)

MCWaits == 1..2500
MCFrequencies == {100, 250, 300, 1000}
MCStack == [start |-> 4, end |-> 12]
MCPaths == UNION {{<<"/">> \o s : s \in [1..n -> {"/", "a"}]} : n \in 1..5}
MCZoneMinutes == {-825, -330, -60, -1, 0, 1, 90, 300, 720}

(* Repeated failures of Iterate are alike.                                 *)
MCFew == failedIterates <= 1

MCSymmetry == Permutations(Objects) \cup Permutations(Handles)
=============================================================================
