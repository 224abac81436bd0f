----------------------------- MODULE ProcessTracking -----------------------------
(***************************************************************************)
(* Process tracking: a thread that opens the registration file gives its   *)
(* process the handler of system calls and has it registered by the pid of *)
(* its leader.  The first registration runs the start hooks and plants     *)
(* ProcessesExit among the exit callbacks of the thread that asked; that   *)
(* one runs the exit hooks if the thread's own pid is registered.          *)
(*                                                                         *)
(* Threads, their pids, which may be used again, and their exit callbacks  *)
(* are external, and so are the hooks: what counts is whom they were told. *)
(* Whatever holds tracking_mutex from its lock to its unlock is one step.  *)
(***************************************************************************)
EXTENDS Integers, FiniteSets

CONSTANTS
  Threads,        \* threads of processes
  Leader,         \* Leader[t]: the leader of t's group
  Pid,            \* Pid[t]: its pid; two threads may have it one after the other
  Hooks           \* functions of other modules

ASSUME ThreadAssumption ==
  /\ Leader \in [Threads -> Threads]
  /\ \A t \in Threads : Leader[Leader[t]] = Leader[t]
  /\ Pid \in [Threads -> Nat]
  /\ "nobody" \notin Threads

Leaders == {t \in Threads : Leader[t] = t}
Group(l) == {t \in Threads : Leader[t] = l}
Pids == {Pid[t] : t \in Threads}

VARIABLES
  thread,         \* unborn, alive, exiting or gone
  registering,    \* how far RegisterCurrent of a thread has come
  handler,        \* the processes whose system calls are handled, by leader
  tracked,        \* tracking_locked: pids
  exitCallback,   \* threads with ProcessesExit among their exit callbacks
  startHooks,     \* tracking_start_cbs
  exitHooks,      \* tracking_exit_cbs
  started,        \* started[l]: the start hooks were run for l (history)
  exited,         \* exited[t]: who had put the link that t's exit hooks were run for (history)
  trackedBy,      \* trackedBy[p]: who had pid p put into the chain (history)
  lost            \* threads whose notice found no memory (history)

trackVars == <<thread, registering, handler, tracked, exitCallback, startHooks, exitHooks, started,
               exited, trackedBy, lost>>

TrackTypeOK ==
  /\ thread \in [Threads -> {"unborn", "alive", "exiting", "gone"}]
  /\ registering \in [Threads -> {"no", "handler", "register", "start", "callback", "done"}]
  /\ handler \subseteq Leaders
  /\ tracked \subseteq Pids
  /\ exitCallback \subseteq Threads
  /\ startHooks \subseteq Hooks /\ exitHooks \subseteq Hooks
  /\ started \in [Leaders -> Nat]
  /\ exited \in [Threads -> Threads \cup {"nobody"}]
  /\ trackedBy \in [Pids -> Threads \cup {"nobody"}]
  /\ lost \subseteq Threads

TrackInit ==
  /\ thread = [t \in Threads |-> "unborn"]
  /\ registering = [t \in Threads |-> "no"]
  /\ handler = {}
  /\ tracked = {}
  /\ exitCallback = {}
  /\ startHooks = {}
  /\ exitHooks = {}
  /\ started = [l \in Leaders |-> 0]
  /\ exited = [t \in Threads |-> "nobody"]
  /\ trackedBy = [p \in Pids |-> "nobody"]
  /\ lost = {}

-----------------------------------------------------------------------------
(* A thread is born with a pid nobody alive has; that of a leader stays    *)
(* taken until its whole group is gone.                                    *)
Taken(p) ==
  \/ \E t \in Threads : Pid[t] = p /\ thread[t] \in {"alive", "exiting"}
  \/ \E l \in Leaders : Pid[l] = p /\ \E t \in Group(l) : thread[t] \in {"alive", "exiting"}

Fork(t) ==
  /\ thread[t] = "unborn" /\ ~Taken(Pid[t])
  /\ t # Leader[t] => thread[Leader[t]] = "alive"
  /\ thread' = [thread EXCEPT ![t] = "alive"]
  /\ UNCHANGED <<registering, handler, tracked, exitCallback, startHooks, exitHooks, started,
                 exited, trackedBy, lost>>

-----------------------------------------------------------------------------
(* RegisterCurrent.                                                        *)

RegisterCurrent(t) ==
  /\ thread[t] = "alive" /\ registering[t] \in {"no", "done"}
  /\ registering' = [registering EXCEPT ![t] = "handler"]
  /\ UNCHANGED <<thread, handler, tracked, exitCallback, startHooks, exitHooks, started, exited,
                 trackedBy, lost>>

SetSyscallHandler(t) ==
  /\ registering[t] = "handler"
  /\ registering' = [registering EXCEPT ![t] = "register"]
  /\ handler' = handler \cup {Leader[t]}
  /\ UNCHANGED <<thread, tracked, exitCallback, startHooks, exitHooks, started, exited, trackedBy,
                 lost>>

(* ProcessesTryRegister: only who finds no link goes on.                   *)
ProcessesTryRegisterAlways(t) ==     \* mutant: the link is not looked at
  /\ registering[t] = "register"
  /\ registering' = [registering EXCEPT ![t] = "start"]
  /\ tracked' = tracked \cup {Pid[Leader[t]]}
  /\ trackedBy' = [trackedBy EXCEPT ![Pid[Leader[t]]] = t]
  /\ UNCHANGED <<thread, handler, exitCallback, startHooks, exitHooks, started, exited, lost>>

ProcessesTryRegisterThread(t) ==     \* mutant: the thread itself, not its leader
  /\ registering[t] = "register"
  /\ registering' = [registering EXCEPT ![t] = IF Pid[t] \in tracked THEN "done" ELSE "start"]
  /\ tracked' = tracked \cup {Pid[t]}
  /\ trackedBy' = IF Pid[t] \in tracked THEN trackedBy ELSE [trackedBy EXCEPT ![Pid[t]] = t]
  /\ UNCHANGED <<thread, handler, exitCallback, startHooks, exitHooks, started, exited, lost>>

ProcessesTryRegister(t) ==
  LET p == Pid[Leader[t]] IN
  /\ registering[t] = "register"
  /\ registering' = [registering EXCEPT ![t] = IF p \in tracked THEN "done" ELSE "start"]
  /\ tracked' = tracked \cup {p}
  /\ trackedBy' = IF p \in tracked THEN trackedBy ELSE [trackedBy EXCEPT ![p] = t]
  /\ UNCHANGED <<thread, handler, exitCallback, startHooks, exitHooks, started, exited, lost>>

(* ProcessesStart: without memory for the process object no hook is told.  *)
ProcessesStart(t) ==
  /\ registering[t] = "start"
  /\ registering' = [registering EXCEPT ![t] = "callback"]
  /\ \/ started' = [started EXCEPT ![Leader[t]] = @ + 1] /\ UNCHANGED lost
     \/ lost' = lost \cup {Leader[t]} /\ UNCHANGED started
  /\ UNCHANGED <<thread, handler, tracked, exitCallback, startHooks, exitHooks, exited, trackedBy>>

(* The callbacks are those of the current thread, whoever is registered.   *)
InitExitHandler(t) ==
  /\ registering[t] = "callback"
  /\ registering' = [registering EXCEPT ![t] = "done"]
  /\ exitCallback' = exitCallback \cup {t}
  /\ UNCHANGED <<thread, handler, tracked, startHooks, exitHooks, started, exited, trackedBy, lost>>

-----------------------------------------------------------------------------
(* A thread exits: ProcessesExit runs before its pid is free again.        *)

Exit(t) ==
  /\ thread[t] = "alive"
  /\ registering[t] \in {"no", "done"}
  /\ thread' = [thread EXCEPT ![t] = IF t \in exitCallback THEN "exiting" ELSE "gone"]
  /\ UNCHANGED <<registering, handler, tracked, exitCallback, startHooks, exitHooks, started,
                 exited, trackedBy, lost>>

ProcessesExit(t) ==
  /\ thread[t] = "exiting"
  /\ thread' = [thread EXCEPT ![t] = "gone"]
  /\ \/ /\ Pid[t] \in tracked
        /\ tracked' = tracked \ {Pid[t]}
        /\ exited' = [exited EXCEPT ![t] = trackedBy[Pid[t]]]
        /\ UNCHANGED lost
     \/ /\ Pid[t] \notin tracked
        /\ UNCHANGED <<tracked, exited, lost>>
     \/ lost' = lost \cup {t} /\ UNCHANGED <<tracked, exited>>
  /\ UNCHANGED <<registering, handler, exitCallback, startHooks, exitHooks, started, trackedBy>>

-----------------------------------------------------------------------------
(* ProcessesAddStartHook and the other three.  A hook that is not there    *)
(* cannot be removed; an addition may find no memory.                      *)

AddStartHook(h) ==
  /\ h \notin startHooks
  /\ startHooks' = startHooks \cup {h}
  /\ UNCHANGED <<thread, registering, handler, tracked, exitCallback, exitHooks, started, exited,
                 trackedBy, lost>>

RemoveStartHook(h) ==
  /\ h \in startHooks
  /\ startHooks' = startHooks \ {h}
  /\ UNCHANGED <<thread, registering, handler, tracked, exitCallback, exitHooks, started, exited,
                 trackedBy, lost>>

AddExitHook(h) ==
  /\ h \notin exitHooks
  /\ exitHooks' = exitHooks \cup {h}
  /\ UNCHANGED <<thread, registering, handler, tracked, exitCallback, startHooks, started, exited,
                 trackedBy, lost>>

RemoveExitHook(h) ==
  /\ h \in exitHooks
  /\ exitHooks' = exitHooks \ {h}
  /\ UNCHANGED <<thread, registering, handler, tracked, exitCallback, startHooks, started, exited,
                 trackedBy, lost>>

HookStep ==
  \E h \in Hooks : AddStartHook(h) \/ RemoveStartHook(h) \/ AddExitHook(h) \/ RemoveExitHook(h)

RegisterStep(t) ==
  \/ SetSyscallHandler(t) \/ ProcessesTryRegister(t) \/ ProcessesStart(t) \/ InitExitHandler(t)

-----------------------------------------------------------------------------
(* The exit hooks were told that t exits.                                  *)
Told(t) == exited[t] # "nobody"

(* However many of its threads register a process, its start hooks run     *)
(* once; again only if its leader has exited and the exit hooks were told, *)
(* though threads of the process live on (OProcessTracking.cpp:197, 202).  *)
StartedOnce == \A l \in Leaders : started[l] <= IF Told(l) THEN 2 ELSE 1

(* A link outlives its process only if another thread than the leader had  *)
(* it put there, or a notice was lost for want of memory; a process that   *)
(* has registered and runs is untold to the hooks only while its first     *)
(* thread is about to tell them, or because of such a link                 *)
(* (OProcessTracking.cpp:34, 202).                                         *)
Unnoticed(t) == t # Leader[t] \/ t \in lost

LinksOutlive ==
  /\ \A l \in Leaders : thread[l] = "gone" /\ Pid[l] \in tracked
       /\ (\A m \in Leaders : Pid[m] = Pid[l] /\ m # l => thread[m] = "unborn")
       => Unnoticed(trackedBy[Pid[l]])
  /\ \A t \in Threads :
       thread[t] = "alive" /\ registering[t] = "done" /\ started[Leader[t]] = 0
       /\ Leader[t] \notin lost =>
         LET first == trackedBy[Pid[Leader[t]]] IN
         registering[first] = "start" \/ Unnoticed(first)

(* Exit hooks are told of a leader, and after the start hooks, unless the  *)
(* link they found was left behind.                                        *)
ExitAfterStart ==
  \A t \in Threads : Told(t) =>
    \/ t = Leader[t] /\ (started[t] > 0 \/ t \in lost)
    \/ Unnoticed(exited[t])
=============================================================================
