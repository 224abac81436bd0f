--------------------------- MODULE CountingSemaphore ---------------------------
(***************************************************************************)
(* OCountingSemaphoreImpl: a counter, a FIFO list of pointers to entries   *)
(* on the stacks of the waiting threads, and a mutex around both.          *)
(*                                                                         *)
(* Everything between mutex_lock and mutex_unlock is one action: no other  *)
(* thread reads the counter or the list without the mutex.  The sleep in   *)
(* the middle of Wait happens outside the mutex and is interleaved step by *)
(* step (LinuxSleeping).                                                   *)
(*                                                                         *)
(* An entry lives in the frame of GoToSleep.  When GoToSleep returns       *)
(* without having been popped, its pointer stays in the list and points    *)
(* into a dead frame ("live" is FALSE).  Trigger pops and writes through   *)
(* it all the same; the write either hits nothing the semaphore looks at   *)
(* or, if the same thread waits again from the same stack depth, the       *)
(* signal flag of its new entry.                                           *)
(***************************************************************************)
EXTENDS LinuxSleeping, Integers, FiniteSets, Sequences

CONSTANTS
  StartCount,       \* the count given to CreateCountingSemaphore
  TriggerCounts,    \* the counts Trigger is called with
  Timeouts,         \* the ms values Wait is called with: "forever", "finite"
  MaxTriggered,     \* bound: total of all counts given to Trigger
  MaxTimeouts       \* bound: waits that time out

ASSUME SemaphoreAssumption ==
  /\ StartCount \in Nat
  /\ TriggerCounts \subseteq Nat
  /\ Timeouts \subseteq {"forever", "finite"}
  /\ MaxTriggered \in Nat
  /\ MaxTimeouts \in Nat
  /\ IsFiniteSet(Threads)

VARIABLES
  counter,          \* _counter
  list,             \* _list: the entries in order of arrival
  signal,           \* signal[t]: the flag in t's entry, while t is in GoToSleep
  lifetime,         \* the object: alive, destroyed, or its destructor asserted
  triggered,        \* history: permits given to Trigger so far
  taken,            \* history: waits that ended with a permit
  timeouts          \* history: waits whose LinuxSleep returned FALSE

vars == <<sleep, timer, counter, list, signal, lifetime, triggered, taken, timeouts>>

Entry == [thread : Threads, live : BOOLEAN]

Smaller(a, b) == IF a < b THEN a ELSE b

Init ==
  /\ SleepInit
  /\ counter = StartCount
  /\ list = <<>>
  /\ signal = [t \in Threads |-> FALSE]
  /\ lifetime = "alive"
  /\ triggered = 0
  /\ taken = 0
  /\ timeouts = 0

TypeOK ==
  /\ SleepTypeOK
  /\ counter \in Nat
  /\ list \in Seq(Entry)
  /\ signal \in [Threads -> BOOLEAN]
  /\ lifetime \in {"alive", "destroyed", "panicked"}
  /\ triggered \in Nat
  /\ taken \in Nat
  /\ timeouts \in Nat

-----------------------------------------------------------------------------
(* Wait.  The path on which dyn_list_append_ex fails returns its error and *)
(* leaves everything as it was, so it is no step here.                     *)

(* Mutant: the counter is taken from without a look at it.                 *)
WaitTakesUnchecked(t) ==
  /\ lifetime = "alive"
  /\ sleep[t] = "out"
  /\ counter' = counter - 1
  /\ taken' = taken + 1
  /\ UNCHANGED <<sleepVars, list, signal, lifetime, triggered, timeouts>>

(* A permit is there: take it and return.                                  *)
WaitTakesPermit(t) ==
  /\ lifetime = "alive"
  /\ sleep[t] = "out"
  /\ counter > 0
  /\ counter' = counter - 1
  /\ taken' = taken + 1
  /\ UNCHANGED <<sleepVars, list, signal, lifetime, triggered, timeouts>>

(* Bound on timed waits, so that the list stays finite in the checks.      *)
MayTimeOut ==
  timeouts + Cardinality({u \in Threads : timer[u] # "forever" /\ sleep[u] # "expired"})
    < MaxTimeouts

(* NewThreadContext: the entry appended to _list.                          *)
NewThreadContext(t) ==
  /\ list' = Append(list, [thread |-> t, live |-> TRUE])
  /\ signal' = [signal EXCEPT ![t] = FALSE]

(* No permit: queue an entry, drop the mutex and sleep.                    *)
WaitGoesToSleep(t, ms) ==
  /\ lifetime = "alive"
  /\ sleep[t] = "out"
  /\ ~(counter > 0)
  /\ ms # "forever" => MayTimeOut
  /\ NewThreadContext(t)
  /\ EnterSleep(t, ms)
  /\ UNCHANGED <<counter, lifetime, triggered, taken, timeouts>>

(* SemaphoreIsWaking reads the flag without the mutex.                     *)
SemaphoreIsWaking(t) == signal[t]

SleepCheck(t) ==
  /\ CheckWake(t, SemaphoreIsWaking(t))
  /\ timeouts' = IF sleep'[t] = "expired" THEN timeouts + 1 ELSE timeouts
  /\ UNCHANGED <<counter, list, signal, lifetime, triggered, taken>>

(* The frame of GoToSleep is gone; what the list still holds of it dangles. *)
FrameDies(t) ==
  [i \in DOMAIN list |->
     IF list[i].thread = t THEN [list[i] EXCEPT !.live = FALSE] ELSE list[i]]

(* LinuxSleep has returned: relock, leave GoToSleep and Wait.              *)
WaitReturns(t) ==
  /\ sleep[t] \in {"woken", "expired"}
  /\ LeaveSleep(t)
  /\ list' = FrameDies(t)
  /\ signal' = [signal EXCEPT ![t] = FALSE]
  /\ taken' = IF sleep[t] = "woken" THEN taken + 1 ELSE taken
  /\ UNCHANGED <<counter, lifetime, triggered, timeouts>>

-----------------------------------------------------------------------------
(* Trigger.                                                                *)

(* The threads that see a signal when the first k entries are popped: the  *)
(* live ones, and of the dead ones those in reused, whose thread has a new *)
(* entry at the same address.                                              *)
Signalled(k, reused) ==
  {t \in Threads : /\ sleep[t] \in InLoop
                   /\ \E i \in 1..k : /\ list[i].thread = t
                                      /\ list[i].live \/ t \in reused}

(* Mutant: the entries are signalled but stay in the list.                 *)
ContExecutionKeepsEntries(k, reused) ==
  /\ signal' = [t \in Threads |-> signal[t] \/ t \in Signalled(k, reused)]
  /\ LinuxPokeThread(Signalled(k, reused))
  /\ UNCHANGED list

ContExecution(k, reused) ==
  /\ list' = SubSeq(list, k + 1, Len(list))
  /\ signal' = [t \in Threads |-> signal[t] \/ t \in Signalled(k, reused)]
  /\ LinuxPokeThread(Signalled(k, reused))

(* Mutant: the counter is raised by the whole count, served or not.        *)
TriggerCountsTwice(n) ==
  /\ lifetime = "alive"
  /\ triggered + n <= MaxTriggered
  /\ \E reused \in SUBSET Threads : ContExecution(Smaller(n, Len(list)), reused)
  /\ counter' = counter + n
  /\ triggered' = triggered + n
  /\ UNCHANGED <<lifetime, taken, timeouts>>

(* Mutant: one waiting thread is served, whatever the count.               *)
TriggerServesOne(n) ==
  /\ lifetime = "alive"
  /\ triggered + n <= MaxTriggered
  /\ \E reused \in SUBSET Threads :
       LET released == Smaller(1, Len(list)) IN
       /\ ContExecution(released, reused)
       /\ counter' = counter + (n - released)
  /\ triggered' = triggered + n
  /\ UNCHANGED <<lifetime, taken, timeouts>>

Trigger(n) ==
  /\ lifetime = "alive"
  /\ triggered + n <= MaxTriggered
  /\ \E reused \in SUBSET Threads :
       LET released == Smaller(n, Len(list)) IN
       /\ ContExecution(released, reused)
       /\ counter' = counter + (n - released)
  /\ triggered' = triggered + n
  /\ UNCHANGED <<lifetime, taken, timeouts>>

-----------------------------------------------------------------------------
(* The destructor.  Whoever destroys the object makes sure first that no   *)
(* thread is inside Wait; the code can only assert it.                     *)
Destroy ==
  /\ lifetime = "alive"
  /\ \A t \in Threads : sleep[t] = "out"
  /\ lifetime' = IF list = <<>> THEN "destroyed" ELSE "panicked"
  /\ UNCHANGED <<sleepVars, counter, list, signal, triggered, taken, timeouts>>

-----------------------------------------------------------------------------
Unrelated == <<counter, list, signal, lifetime, triggered, taken, timeouts>>

SleepSchedule(t)  == Schedule(t)   /\ UNCHANGED Unrelated
SleepTimer(t)     == TimerFires(t) /\ UNCHANGED Unrelated
SleepDisturbed(t) == Disturbed(t)  /\ UNCHANGED Unrelated

Next ==
  \/ \E t \in Threads :
       \/ WaitTakesPermit(t)
       \/ \E ms \in Timeouts : WaitGoesToSleep(t, ms)
       \/ SleepCheck(t)
       \/ SleepSchedule(t)
       \/ SleepTimer(t)
       \/ SleepDisturbed(t)
       \/ WaitReturns(t)
  \/ \E n \in TriggerCounts : Trigger(n)
  \/ Destroy

Spec == Init /\ [][Next]_vars

(***************************************************************************)
(* A runnable thread gets the CPU and the mutex sooner or later, and time  *)
(* passes while a thread sleeps.  Nobody has to call Wait, Trigger or the  *)
(* destructor, and nothing disturbs a sleeper on a schedule.               *)
(***************************************************************************)
Fairness ==
  \A t \in Threads :
    /\ WF_vars(SleepCheck(t))
    /\ WF_vars(SleepSchedule(t))
    /\ WF_vars(WaitReturns(t))
    /\ SF_vars(SleepTimer(t))

FairSpec == Spec /\ Fairness

-----------------------------------------------------------------------------
(* Properties.                                                             *)

(* Threads a permit is on its way to.                                      *)
InFlight == {t \in Threads : signal[t] /\ sleep[t] \in InLoop \cup {"woken"}}

(* Permits that went in and that nobody has, holds or will find.           *)
Lost == StartCount + triggered - counter - Cardinality(InFlight) - taken

(***************************************************************************)
(* Permits are never made up and, but for waits that timed out, never      *)
(* dropped: each timed-out wait costs one permit at most, because Trigger  *)
(* hands it to the entry that wait left in the list.                       *)
(***************************************************************************)
LedgerBounds == 0 <= Lost /\ Lost <= timeouts

(***************************************************************************)
(* Wait checks the counter before it queues, Trigger serves the queue      *)
(* before it raises the counter: a permit is never on offer while an entry *)
(* is queued, so no thread sleeps beside a free permit.                    *)
(***************************************************************************)
NoStrandedPermit == counter > 0 => list = <<>>

(***************************************************************************)
(* The destructor's "Destroyed counting semaphore with items awaiting"     *)
(* can fire on a caller that waited for everyone to leave only after some  *)
(* wait has timed out.                                                     *)
(***************************************************************************)
DestroyAssertion == lifetime = "panicked" => timeouts > 0

(***************************************************************************)
(* A wait with a time limit ends, poked or not: a poke lost in the arming  *)
(* window is made up for by the timer.                                     *)
(***************************************************************************)
TimedWaitReturns ==
  \A t \in Threads : (timer[t] # "forever") ~> (sleep[t] = "out")

(***************************************************************************)
(* A thread whose permit is on its way returns from Wait.  The code does   *)
(* not keep this for waits without a limit: a poke in the arming window is *)
(* lost and the thread sleeps with its signal set.                         *)
(***************************************************************************)
SignalledReturns == \A t \in Threads : signal[t] ~> (sleep[t] = "out")

(***************************************************************************)
(* Why the ledger balances.  Trigger moves a permit to the counter or pops *)
(* an entry, a wait that sleeps adds an entry, and a thread stops waiting  *)
(* by taking a permit or by timing out: the number of entries owes nothing *)
(* to who is signalled.  Every thread still to be signalled has a live     *)
(* entry, and a thread LinuxSleep has let go was signalled.                *)
(***************************************************************************)
Waiting == {t \in Threads : sleep[t] \in InLoop \cup {"woken"}}

Pending == {t \in Threads : sleep[t] \in InLoop /\ ~signal[t]}

Balance ==
  StartCount + triggered + Len(list)
    = counter + taken + timeouts + Cardinality(Waiting)

SignalledAreWaiting ==
  \A t \in Threads : /\ signal[t] => t \in Waiting
                     /\ sleep[t] = "woken" => signal[t]

PendingAreQueued ==
  \A t \in Pending : \E i \in 1..Len(list) : list[i].thread = t /\ list[i].live

IInv ==
  /\ TypeOK
  /\ NoStrandedPermit
  /\ SignalledAreWaiting
  /\ PendingAreQueued
  /\ Balance
  /\ 0 <= Lost
  /\ DestroyAssertion

(***************************************************************************)
(* The semaphore implements the pool of permits.                           *)
(***************************************************************************)
Pool == INSTANCE PermitPool WITH
  x       <- counter + Cardinality(InFlight),
  added   <- triggered,
  givenUp <- timeouts,
  lost    <- Lost

ImplementsPool == Pool!PoolSpec

=============================================================================
