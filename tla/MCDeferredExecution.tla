-------------------------- MODULE MCDeferredExecution --------------------------
(***************************************************************************)
(* Instances of DeferredExecution for the model checker.  Jobs run on      *)
(* "user"; the leader of its process does nothing but exit.  In MCHeirs    *)
(* a thread may follow "user" under its id, and the second job may be for  *)
(* that one.                                                               *)
(***************************************************************************)
EXTENDS DeferredExecution

MCJobs     == {"j1", "j2"}
MCCallers  == {"c1", "c2"}
MCLeader   == "leader"

MCTargets  == {"leader", "user"}
MCPidOf    == [t \in MCTargets |-> t]
MCMadeFor  == [j \in MCJobs |-> {"user"}]

MCThree    == {"leader", "user", "heir"}
MCHeirs    == {"heir"}
MCPidOfThree == [t \in MCThree |-> IF t = "heir" THEN "user" ELSE t]
MCMadeForTwo == [j \in MCJobs |-> IF j = "j1" THEN {"user"} ELSE {"user", "heir"}]

(* Only the first job is given a callback, which may schedule the second.  *)
MCOneCallback == ~callback["j2"]

=============================================================================
