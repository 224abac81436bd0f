------------------------------- MODULE WorkQueue -------------------------------
(***************************************************************************)
(* OWorkQueueImpl: three counters, two lists of pointers to stack entries  *)
(* (one of waiting owners, one of waiting workers) and a mutex.            *)
(*                                                                         *)
(* As in CountingSemaphore, what happens between mutex_lock and            *)
(* mutex_unlock is one action, the sleep in the middle of WaitAndAddOwner  *)
(* and BeginWork is interleaved, and an entry whose GoToSleep returned     *)
(* unpopped stays in its list with "live" FALSE.  ContExecution pops the   *)
(* whole list, so a write through a dead entry that hits a reused frame    *)
(* signals a thread that is signalled anyway and needs no choice here.     *)
(***************************************************************************)
EXTENDS LinuxSleeping, Integers, FiniteSets, Sequences

CONSTANTS
  Owners,           \* threads that call WaitAndAddOwner and ReleaseOwner
  Workers,          \* threads that call BeginWork and EndWork
  WorkItems,        \* _workItems, the count given to CreateWorkQueue
  Timeouts,         \* the ms values WaitAndAddOwner is called with
  UsesWakeup,       \* do callers pass a SpuriousWakeup_f?
  MaxEntries,       \* bound: a timed wait starts only below this many entries
  MaxOverrun        \* bound: tasks begun beyond the round's

ASSUME WorkQueueAssumption ==
  /\ Owners \cup Workers = Threads
  /\ Owners \cap Workers = {}
  /\ IsFiniteSet(Threads)
  /\ WorkItems \in Nat \ {0}
  /\ Timeouts \subseteq {"forever", "finite"}
  /\ UsesWakeup \in BOOLEAN
  /\ MaxEntries \in Nat
  /\ MaxOverrun \in Nat \ {0}

VARIABLES
  owners,           \* _owners
  activeWork,       \* _activeWork
  completed,        \* _completed
  waiters,          \* _waiters
  workers,          \* _workers
  signal,           \* signal[t]: the flag in t's entry
  isOwner,          \* isOwner[t]: t returned as owner and has not released
  working,          \* working[w]: w is between BeginWork and EndWork
  lifetime,         \* the object: alive, destroyed, or its destructor asserted
  abandoned,        \* history: some wait returned with its entry still queued
  unslept           \* history: some worker found no memory to go to sleep with

counters == <<owners, activeWork, completed>>

vars == <<sleep, timer, owners, activeWork, completed, waiters, workers, signal,
          isOwner, working, lifetime, abandoned, unslept>>

Entry == [thread : Threads, live : BOOLEAN]

Init ==
  /\ SleepInit
  /\ owners = 0
  /\ activeWork = 0
  /\ completed = 0
  /\ waiters = <<>>
  /\ workers = <<>>
  /\ signal = [t \in Threads |-> FALSE]
  /\ isOwner = [t \in Owners |-> FALSE]
  /\ working = [w \in Workers |-> FALSE]
  /\ lifetime = "alive"
  /\ abandoned = FALSE
  /\ unslept = FALSE

TypeOK ==
  /\ SleepTypeOK
  /\ owners \in Nat
  /\ activeWork \in Nat
  /\ completed \in Nat
  /\ waiters \in Seq(Entry)
  /\ workers \in Seq(Entry)
  /\ signal \in [Threads -> BOOLEAN]
  /\ isOwner \in [Owners -> BOOLEAN]
  /\ working \in [Workers -> BOOLEAN]
  /\ lifetime \in {"alive", "destroyed", "panicked"}
  /\ abandoned \in BOOLEAN
  /\ unslept \in BOOLEAN

-----------------------------------------------------------------------------
(* Lists of entries.                                                       *)

NewEntry(t) == [thread |-> t, live |-> TRUE]

(* t's GoToSleep has returned: what the list still holds of it dangles.    *)
FrameDies(list, t) ==
  [i \in DOMAIN list |->
     IF list[i].thread = t THEN [list[i] EXCEPT !.live = FALSE] ELSE list[i]]

(* Threads whose entry is in the list and whose frame is still there.      *)
LiveThreads(list) ==
  {t \in Threads : \E i \in DOMAIN list : list[i].thread = t /\ list[i].live}

(* ContExecution: every entry is signalled, poked and removed.             *)
ContExecutionFirstOnly(list) ==
  LET first == IF list = <<>> THEN {} ELSE {Head(list).thread} IN
  /\ signal' = [t \in Threads |-> signal[t] \/ t \in first \cap LiveThreads(list)]
  /\ LinuxPokeThread(first)

ContExecution(list) ==
  /\ signal' = [t \in Threads |-> signal[t] \/ t \in LiveThreads(list)]
  /\ LinuxPokeThread(LiveThreads(list))

-----------------------------------------------------------------------------
(* Owners.  When dyn_list_append_ex fails, WaitAndAddOwner takes back the  *)
(* owner it counted before it unlocks, and leaves the queue as it was.     *)

(* The round is complete: the caller is an owner at once.                  *)
WaitFindsComplete(t) ==
  /\ lifetime = "alive"
  /\ sleep[t] = "out" /\ ~isOwner[t]
  /\ completed = WorkItems
  /\ owners' = owners + 1
  /\ isOwner' = [isOwner EXCEPT ![t] = TRUE]
  /\ UNCHANGED <<sleepVars, activeWork, completed, waiters, workers, signal, working,
                 lifetime, abandoned, unslept>>

(* Mutant: the owner is not counted before it sleeps.                      *)
WaitGoesToSleepUncounted(t, ms) ==
  /\ lifetime = "alive"
  /\ sleep[t] = "out" /\ ~isOwner[t]
  /\ completed # WorkItems
  /\ ms # "forever" => Len(waiters) < MaxEntries
  /\ waiters' = Append(waiters, NewEntry(t))
  /\ signal' = [signal EXCEPT ![t] = FALSE]
  /\ EnterSleep(t, ms)
  /\ UNCHANGED <<counters, workers, isOwner, working, lifetime, abandoned, unslept>>

WaitGoesToSleep(t, ms) ==
  /\ lifetime = "alive"
  /\ sleep[t] = "out" /\ ~isOwner[t]
  /\ completed # WorkItems
  /\ ms # "forever" => Len(waiters) < MaxEntries
  /\ owners' = owners + 1
  /\ waiters' = Append(waiters, NewEntry(t))
  /\ signal' = [signal EXCEPT ![t] = FALSE]
  /\ EnterSleep(t, ms)
  /\ UNCHANGED <<activeWork, completed, workers, isOwner, working, lifetime, abandoned, unslept>>

(* WorkerThreadIsWaking: the flag, or else whatever the callback says.     *)
WaitCheck(t) ==
  /\ \E asked \in (IF UsesWakeup THEN BOOLEAN ELSE {FALSE}) :
       CheckWake(t, signal[t] \/ asked)
  /\ UNCHANGED <<counters, waiters, workers, signal, isOwner, working, lifetime, abandoned, unslept>>

(* Mutant: a wait that timed out stays counted as an owner.                *)
WaitReturnsStillCounted(t) ==
  /\ sleep[t] \in {"woken", "expired"}
  /\ isOwner' = [isOwner EXCEPT ![t] = sleep[t] = "woken"]
  /\ LeaveSleep(t)
  /\ waiters' = FrameDies(waiters, t)
  /\ signal' = [signal EXCEPT ![t] = FALSE]
  /\ abandoned' = (abandoned \/ ~signal[t])
  /\ UNCHANGED <<counters, workers, working, lifetime, unslept>>

(* Back from LinuxSleep with the mutex: an owner, or timed out.            *)
WaitReturns(t) ==
  /\ sleep[t] \in {"woken", "expired"}
  /\ IF sleep[t] = "woken"
     THEN isOwner' = [isOwner EXCEPT ![t] = TRUE] /\ UNCHANGED owners
     ELSE owners' = owners - 1 /\ UNCHANGED isOwner
  /\ LeaveSleep(t)
  /\ waiters' = FrameDies(waiters, t)
  /\ signal' = [signal EXCEPT ![t] = FALSE]
  /\ abandoned' = (abandoned \/ ~signal[t])
  /\ UNCHANGED <<activeWork, completed, workers, working, lifetime, unslept>>

(* Mutant: every release opens the next round, not only the last one.      *)
ReleaseOwnerAlwaysResets(t) ==
  /\ lifetime = "alive"
  /\ isOwner[t]
  /\ isOwner' = [isOwner EXCEPT ![t] = FALSE]
  /\ owners' = IF owners = 0 THEN 0 ELSE owners - 1
  /\ activeWork' = 0
  /\ completed' = 0
  /\ ContExecution(workers)
  /\ workers' = <<>>
  /\ UNCHANGED <<waiters, working, lifetime, abandoned, unslept>>

(* Mutant: the last release forgets to reset _completed.                   *)
ReleaseOwnerKeepsCompleted(t) ==
  /\ lifetime = "alive"
  /\ isOwner[t]
  /\ isOwner' = [isOwner EXCEPT ![t] = FALSE]
  /\ owners' = IF owners = 0 THEN 0 ELSE owners - 1
  /\ IF owners = 1
     THEN /\ activeWork' = 0
          /\ ContExecution(workers)
          /\ workers' = <<>>
     ELSE UNCHANGED <<sleepVars, activeWork, workers, signal>>
  /\ UNCHANGED <<completed, waiters, working, lifetime, abandoned, unslept>>

(* Only owners release.  The last one opens the next round.                *)
ReleaseOwner(t) ==
  /\ lifetime = "alive"
  /\ isOwner[t]
  /\ isOwner' = [isOwner EXCEPT ![t] = FALSE]
  /\ owners' = IF owners = 0 THEN 0 ELSE owners - 1
  /\ IF owners = 1
     THEN /\ activeWork' = 0
          /\ completed' = 0
          /\ ContExecution(workers)
          /\ workers' = <<>>
     ELSE UNCHANGED <<sleepVars, activeWork, completed, workers, signal>>
  /\ UNCHANGED <<waiters, working, lifetime, abandoned, unslept>>

(* SpuriousWakeupOwners pokes the entry at index 0 as often as there are   *)
(* entries.                                                                *)
SpuriousWakeupOwners ==
  /\ lifetime = "alive"
  /\ waiters # <<>>
  /\ LinuxPokeThread({Head(waiters).thread})
  /\ UNCHANGED <<counters, waiters, workers, signal, isOwner, working, lifetime, abandoned, unslept>>

-----------------------------------------------------------------------------
(* Workers.                                                                *)

BeginWorkGoesOn(w) ==
  /\ lifetime = "alive"
  /\ sleep[w] = "out" /\ ~working[w]
  /\ activeWork # WorkItems /\ activeWork < WorkItems + MaxOverrun
  /\ activeWork' = activeWork + 1
  /\ working' = [working EXCEPT ![w] = TRUE]
  /\ UNCHANGED <<sleepVars, owners, completed, waiters, workers, signal, isOwner,
                 lifetime, abandoned, unslept>>

BeginWorkGoesToSleep(w) ==
  /\ lifetime = "alive"
  /\ sleep[w] = "out" /\ ~working[w]
  /\ activeWork = WorkItems
  /\ workers' = Append(workers, NewEntry(w))
  /\ signal' = [signal EXCEPT ![w] = FALSE]
  /\ EnterSleep(w, "forever")
  /\ UNCHANGED <<counters, waiters, isOwner, working, lifetime, abandoned, unslept>>

(* BeginWork drops what GoToSleep answers: without memory for its entry    *)
(* the worker does not sleep, and begins a task of a round that has none.  *)
BeginWorkCannotSleep(w) ==
  /\ lifetime = "alive"
  /\ sleep[w] = "out" /\ ~working[w]
  /\ activeWork = WorkItems
  /\ activeWork' = activeWork + 1
  /\ working' = [working EXCEPT ![w] = TRUE]
  /\ unslept' = TRUE
  /\ UNCHANGED <<sleepVars, owners, completed, waiters, workers, signal, isOwner,
                 lifetime, abandoned>>

BeginWorkCheck(w) ==
  /\ CheckWake(w, signal[w])
  /\ UNCHANGED <<counters, waiters, workers, signal, isOwner, working, lifetime, abandoned, unslept>>

(* Woken, the worker goes on without looking at _activeWork again.         *)
BeginWorkReturns(w) ==
  /\ sleep[w] \in {"woken", "expired"}
  /\ activeWork' = activeWork + 1
  /\ working' = [working EXCEPT ![w] = TRUE]
  /\ LeaveSleep(w)
  /\ workers' = FrameDies(workers, w)
  /\ signal' = [signal EXCEPT ![w] = FALSE]
  /\ UNCHANGED <<owners, completed, waiters, isOwner, lifetime, abandoned, unslept>>

(* Mutant: the owners are woken but their entries stay in the list.        *)
EndWorkKeepsEntries(w) ==
  /\ lifetime = "alive"
  /\ working[w]
  /\ working' = [working EXCEPT ![w] = FALSE]
  /\ completed' = completed + 1
  /\ IF completed' = WorkItems
     THEN ContExecution(waiters)
     ELSE UNCHANGED <<sleepVars, signal>>
  /\ UNCHANGED <<owners, activeWork, waiters, workers, isOwner, lifetime, abandoned, unslept>>

EndWork(w) ==
  /\ lifetime = "alive"
  /\ working[w]
  /\ working' = [working EXCEPT ![w] = FALSE]
  /\ completed' = completed + 1
  /\ IF completed' = WorkItems
     THEN ContExecution(waiters) /\ waiters' = <<>>
     ELSE UNCHANGED <<sleepVars, waiters, signal>>
  /\ UNCHANGED <<owners, activeWork, workers, isOwner, lifetime, abandoned, unslept>>

-----------------------------------------------------------------------------
(* The destructor.  Whoever destroys the queue makes sure first that no    *)
(* thread is inside a call; the code can only assert it.                   *)
Destroy ==
  /\ lifetime = "alive"
  /\ \A t \in Threads : sleep[t] = "out"
  /\ lifetime' = IF workers = <<>> /\ waiters = <<>> THEN "destroyed" ELSE "panicked"
  /\ UNCHANGED <<sleepVars, counters, waiters, workers, signal, isOwner, working, abandoned, unslept>>

-----------------------------------------------------------------------------
Unrelated == <<counters, waiters, workers, signal, isOwner, working, lifetime, abandoned, unslept>>

SleepStep(t) ==
  /\ Schedule(t) \/ TimerFires(t) \/ Disturbed(t)
  /\ UNCHANGED Unrelated

Next ==
  \/ \E t \in Owners :
       \/ WaitFindsComplete(t)
       \/ \E ms \in Timeouts : WaitGoesToSleep(t, ms)
       \/ WaitCheck(t)
       \/ WaitReturns(t)
       \/ ReleaseOwner(t)
  \/ \E w \in Workers :
       \/ BeginWorkGoesOn(w)
       \/ BeginWorkGoesToSleep(w)
       \/ BeginWorkCannotSleep(w)
       \/ BeginWorkCheck(w)
       \/ BeginWorkReturns(w)
       \/ EndWork(w)
  \/ \E t \in Threads : SleepStep(t)
  \/ SpuriousWakeupOwners
  \/ Destroy

Spec == Init /\ [][Next]_vars

-----------------------------------------------------------------------------
(* Properties.                                                             *)

(* Owners inside WaitAndAddOwner.                                          *)
InWait == {t \in Owners : sleep[t] # "out"}

(* Owners that hold the finished round.                                    *)
Holders == {t \in Owners : isOwner[t]}

(***************************************************************************)
(* _owners is raised before the wait and lowered after a timeout: at every *)
(* moment it counts the threads still waiting and those that own the       *)
(* queue, whatever waits time out or are woken early, so ReleaseOwner      *)
(* never finds an owner that does not exist and the last one does reset    *)
(* the round.                                                              *)
(***************************************************************************)
OwnersAccounting == owners = Cardinality(InWait) + Cardinality(Holders)

(***************************************************************************)
(* While any thread owns the queue the round stays finished: nothing is    *)
(* being worked on and the count it was woken for still stands.  The code  *)
(* keeps this until a worker finds no memory for its entry: it then works  *)
(* while the owners still read the results (OWorkQueue.cpp:155-158).       *)
(***************************************************************************)
OwnerSeesFinishedRound ==
  ~unslept => \A t \in Holders : /\ completed = WorkItems
                                 /\ \A w \in Workers : ~working[w]

(***************************************************************************)
(* No thread is left behind when the lists are served: an unsignalled      *)
(* owner sleeps only while tasks are missing, an unsignalled worker only   *)
(* while the round has no task left.  Once a worker could not sleep the    *)
(* counts pass _workItems, the tests for equality no longer hold, and the  *)
(* owners that come later are left.                                        *)
(***************************************************************************)
NoThreadLeftBehind ==
  ~unslept =>
    /\ \A t \in Owners  : sleep[t] \in InLoop /\ ~signal[t] => completed < WorkItems
    /\ \A w \in Workers : sleep[w] \in InLoop /\ ~signal[w] => activeWork >= WorkItems

(***************************************************************************)
(* The destructor's assertions that both lists are empty can fire, on a    *)
(* caller that waited for everyone to leave, only after a wait has         *)
(* returned with its entry still queued: by its time limit or its own      *)
(* callback.  That a worker could not sleep does not lead there.           *)
(***************************************************************************)
DestroyAssertion == lifetime = "panicked" => abandoned

(***************************************************************************)
(* A round has a set amount of tasks (OWorkQueue.hpp).  The code does not  *)
(* keep this with two workers, even if memory never runs out: both sleep   *)
(* in BeginWork, the release wakes both, and neither looks at _activeWork  *)
(* again.                                                                  *)
(***************************************************************************)
WithinTaskCount == ~unslept => activeWork <= WorkItems

(***************************************************************************)
(* Why the owners are counted right: no thread both waits and owns.        *)
(***************************************************************************)
CountInv ==
  /\ TypeOK
  /\ \A t \in Holders : sleep[t] = "out"
  /\ OwnersAccounting

(***************************************************************************)
(* Why the lists are right, whatever failed: threads enter a list as they  *)
(* go to sleep and are signalled as they leave it.                         *)
(***************************************************************************)
QueuesInv ==
  /\ \A t \in Threads : /\ signal[t] => sleep[t] # "out"
                        /\ sleep[t] = "woken" => signal[t]
  /\ \A t \in Owners  : sleep[t] \in InLoop /\ ~signal[t] => t \in LiveThreads(waiters)
  /\ \A w \in Workers : sleep[w] \in InLoop /\ ~signal[w] => w \in LiveThreads(workers)
  /\ LiveThreads(waiters) \subseteq {t \in Owners  : sleep[t] # "out"}
  /\ LiveThreads(workers) \subseteq {w \in Workers : sleep[w] # "out"}
  /\ \A w \in Workers : /\ timer[w] = "forever" /\ sleep[w] # "expired"
                        /\ working[w] => sleep[w] = "out"

(***************************************************************************)
(* Why the round works with one worker and no callback, while its worker   *)
(* sleeps when it has to.  A signalled owner is still counted, so the      *)
(* round stays complete until it has returned and released; a signalled    *)
(* worker finds the round at zero, because no other worker can have begun. *)
(***************************************************************************)
ProgressInv ==
  /\ completed <= activeWork /\ activeWork <= WorkItems
  /\ \A w \in Workers : /\ working[w]  => activeWork = completed + 1
                        /\ ~working[w] => activeWork = completed
                        /\ sleep[w] # "out" /\ ~signal[w] => activeWork = WorkItems
                        /\ signal[w] => activeWork = 0
  /\ \A t \in Owners : /\ isOwner[t] \/ signal[t] => completed = WorkItems
                       /\ sleep[t] \in InLoop /\ ~signal[t] => completed < WorkItems

RoundInv == CountInv /\ QueuesInv /\ (~unslept => ProgressInv)

(***************************************************************************)
(* The queue implements the round of tasks: a thread inside                *)
(* WaitAndAddOwner holds the round as soon as it is complete.  Every step  *)
(* is one of the round until a worker finds no memory to sleep with, whose *)
(* task no round has.                                                      *)
(***************************************************************************)
Round == INSTANCE TaskRound WITH
  Clients <- Owners,
  Doers   <- Workers,
  Tasks   <- WorkItems,
  begun   <- activeWork,
  done    <- completed,
  busy    <- {w \in Workers : working[w]},
  waiting <- IF completed = WorkItems THEN {} ELSE InWait,
  holding <- IF completed = WorkItems THEN Holders \cup InWait ELSE Holders

ImplementsRound ==
  Round!RoundInit /\ [][Round!RoundNext \/ unslept']_(Round!roundVars)

=============================================================================
