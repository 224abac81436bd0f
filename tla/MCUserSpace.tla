------------------------------- MODULE MCUserSpace -------------------------------
(***************************************************************************)
(* The instance TLC checks: a process of two threads, and one that comes   *)
(* after it with the pid of its leader.                                    *)
(***************************************************************************)
EXTENDS UserSpace

CONSTANTS l1, t1, l2, s1, s2

MCThreads == {l1, t1, l2}
MCLeader == (l1 :> l1) @@ (t1 :> l1) @@ (l2 :> l2)
MCPid == (l1 :> 1) @@ (t1 :> 2) @@ (l2 :> 1)
MCNameSize == (s1 :> 2) @@ (s2 :> 3)

(* Three affairs that share no state beyond the registration file are      *)
(* explored one at a time: files beside it, tracking, and calls.           *)
Others == Files \ {RegistrationFile}
FilesBeside == \E f \in Others : at[f] # "none"
Hooked == startHooks \cup exitHooks # {} \/ \E t \in Threads : thread[t] \in {"exiting", "gone"}
Calling == delegated_fns # << >>

MCOneAffair ==
  /\ Cardinality({i \in 1..3 : <<FilesBeside, Hooked, Calling>>[i]}) <= 1
  /\ FilesBeside => (\A t \in Threads : registering[t] = "no") /\ opens[l1] + opens[t1] <= 2
  /\ FilesBeside \/ Calling => thread[l2] = "unborn"
  /\ Calling => \A t \in Threads : registering[t] \in {"no", "done"} /\ running[t] = Idle
  /\ startHooks = {} \/ exitHooks = {}
  /\ opens[l2] <= 1
  /\ startHooks \cup exitHooks # {} => thread[l2] = "unborn"
  /\ Cardinality({t \in Threads : asked[t] # -1 \/ pulled[t] # {}}) <= 1

MCSymmetry == Permutations(Others)
=============================================================================
