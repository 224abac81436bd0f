---------------------------- MODULE LinuxSleeping ----------------------------
(***************************************************************************)
(* LinuxSleep and LinuxPokeThread: the one way a thread of the library     *)
(* blocks.  LinuxSleep(ms, callback, context) loops over                   *)
(*                                                                         *)
(*    callback true?  -> return TRUE                                       *)
(*    time used up?   -> return FALSE                                      *)
(*    set TASK_INTERRUPTIBLE and schedule()                                *)
(*                                                                         *)
(* The callback is evaluated BEFORE the task state is set, so there is a   *)
(* window ("arming") in which wake_up_process finds a running task and     *)
(* does nothing.  The module keeps that window: a poke moves a thread only *)
(* when it is asleep.                                                      *)
(*                                                                         *)
(* The module holds no Init and no Next: the synchronisation objects       *)
(* EXTEND it and say what the callback reads and who pokes.                *)
(***************************************************************************)
EXTENDS Naturals

CONSTANT Threads        \* the kernel threads that may block

ASSUME ThreadsAssumption == Threads # {}

VARIABLES
  sleep,                \* sleep[t]: where t stands in LinuxSleep
  timer                 \* timer[t]: what is left of the time t may sleep

sleepVars == <<sleep, timer>>

(***************************************************************************)
(* out       not in LinuxSleep                                             *)
(* checking  about to evaluate the callback (top of the loop)              *)
(* arming    callback was false and time is left, task still TASK_RUNNING  *)
(* asleep    TASK_INTERRUPTIBLE                                            *)
(* woken     LinuxSleep has returned TRUE,  its caller not yet relocked    *)
(* expired   LinuxSleep has returned FALSE, its caller not yet relocked    *)
(***************************************************************************)
SleepPhases == {"out", "checking", "arming", "asleep", "woken", "expired"}

InLoop == {"checking", "arming", "asleep"}

(***************************************************************************)
(* SleepState: forever = not timeoutable (ms = -1), running = timeout > 0, *)
(* elapsed = timeout = 0.  The number of ticks is abstracted: MAX(1, ..)   *)
(* makes every timed sleep start with time left.                           *)
(***************************************************************************)
Timers == {"forever", "running", "elapsed"}

GetSleepState(ms) == IF ms = "forever" THEN "forever" ELSE "running"

LinuxSleepTimedout(t) == timer[t] = "elapsed"

SleepTypeOK ==
  /\ sleep \in [Threads -> SleepPhases]
  /\ timer \in [Threads -> Timers]

SleepInit ==
  /\ sleep = [t \in Threads |-> "out"]
  /\ timer = [t \in Threads |-> "forever"]

-----------------------------------------------------------------------------
(* The call, and the return to the caller.                                 *)

EnterSleep(t, ms) ==
  /\ sleep' = [sleep EXCEPT ![t] = "checking"]
  /\ timer' = [timer EXCEPT ![t] = GetSleepState(ms)]

LeaveSleep(t) ==
  /\ sleep' = [sleep EXCEPT ![t] = "out"]
  /\ timer' = [timer EXCEPT ![t] = "forever"]

(* Mutant: the loop head looks at the time before it asks the callback.    *)
CheckTimeFirst(t, callback) ==
  /\ sleep[t] = "checking"
  /\ sleep' = [sleep EXCEPT ![t] = IF LinuxSleepTimedout(t) THEN "expired"
                                   ELSE IF callback THEN "woken"
                                   ELSE "arming"]
  /\ UNCHANGED timer

(* One evaluation of the loop head: callback first, then the time.         *)
CheckWake(t, callback) ==
  /\ sleep[t] = "checking"
  /\ sleep' = [sleep EXCEPT ![t] = IF callback THEN "woken"
                                   ELSE IF LinuxSleepTimedout(t) THEN "expired"
                                   ELSE "arming"]
  /\ UNCHANGED timer

(* The task state becomes TASK_INTERRUPTIBLE and the thread leaves the CPU. *)
Schedule(t) ==
  /\ sleep[t] = "arming"
  /\ sleep' = [sleep EXCEPT ![t] = "asleep"]
  /\ UNCHANGED timer

(* Mutant: what schedule_timeout_interruptible returns is thrown away.     *)
TimerFiresUnnoticed(t) ==
  /\ sleep[t] = "asleep"
  /\ timer[t] = "running"
  /\ sleep' = [sleep EXCEPT ![t] = "checking"]
  /\ UNCHANGED timer

(* schedule_timeout_interruptible returns 0: the time is used up.          *)
TimerFires(t) ==
  /\ sleep[t] = "asleep"
  /\ timer[t] = "running"
  /\ sleep' = [sleep EXCEPT ![t] = "checking"]
  /\ timer' = [timer EXCEPT ![t] = "elapsed"]

(* Anything else in the kernel may wake an interruptible task, a pending   *)
(* signal for one; the loop goes round again.                              *)
Disturbed(t) ==
  /\ sleep[t] = "asleep"
  /\ sleep' = [sleep EXCEPT ![t] = "checking"]
  /\ UNCHANGED timer

(* LinuxPokeThread on every thread of T: it wakes those that are asleep.   *)
LinuxPokeThread(T) ==
  /\ sleep' = [t \in Threads |->
                 IF t \in T /\ sleep[t] = "asleep" THEN "checking" ELSE sleep[t]]
  /\ UNCHANGED timer

=============================================================================
