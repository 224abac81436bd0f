---------------------------- MODULE ThreadLifecycle ----------------------------
(***************************************************************************)
(* Kernel threads of the library: SpawnOThread, the entry point            *)
(* RuntimeThreadEP of the new thread, TryMurder on its handle, the exit    *)
(* callback RuntimeThreadExit, and the destruction of the handle.          *)
(*                                                                         *)
(* A thread t and its OThreadImp are named by the thread's id, which is    *)
(* used once.  Three mutexes are owner variables, as is the spinlock of    *)
(* each handle; the semaphore of sync_thread_create is a pool of permits   *)
(* (PermitPool: Wait takes one, Trigger(1) adds one).                      *)
(*                                                                         *)
(* External: do_exit runs the exit callback on the exiting thread, and the *)
(* post context switch hook runs whenever a thread that installed it gets  *)
(* the processor again, the thread being inside its exit callback or not.  *)
(***************************************************************************)
EXTENDS Naturals, FiniteSets

CONSTANTS
  Pids,             \* ids the kernel gives to the threads
  Clients,          \* threads that spawn, murder and destroy
  ReturnCodes,      \* exit codes of entry points,
  MurderCodes       \* and of callers of TryMurder

Codes == ReturnCodes \cup MurderCodes

Free == "free"
Nobody == "nobody"
NoCode == "no code"

ASSUME LifecycleAssumption ==
  /\ IsFiniteSet(Pids)
  /\ Pids \cap Clients = {}
  /\ Free \notin Pids \cup Clients
  /\ Nobody \notin Pids

VARIABLES
  pc,               \* pc[t]: where thread t stands
  died,             \* died[t]: the code t gave to do_exit
  told,             \* told[t]: the messages its entry point was sent
  handle,           \* handle[t]: none, alive or deleted
  task,             \* task[t]: is _tsk set?
  tryKill,          \* _try_kill
  exitCode,         \* _exit_code
  lock,             \* owner of _task_holder
  deathSignal,      \* *_death_signal is not 0 (storage of the thread)
  deathCode,        \* *_death_code
  closing,          \* closing_threads
  handles,          \* threads in thread_handle_chain
  entries,          \* threads in thread_ep_chain
  instance,         \* sync_thread_create.instance
  permits,          \* sync_thread_create.semaphore
  unslept,          \* has a spawner found no memory to wait with?
  spawnMutex,       \* owners of sync_thread_create.mutex,
  chainMutex,       \* thread_chain_mutex
  deallocMutex,     \* and thread_dealloc_mutex
  at,               \* at[c]: where client c stands
  on,               \* on[c]: the thread it is busy with
  owned             \* threads whose handle the clients were given

threadVars == <<pc, died, told>>
handleVars == <<handle, task, tryKill, exitCode, lock>>
deathVars  == <<deathSignal, deathCode, closing>>
chainVars  == <<handles, entries>>
createVars == <<instance, permits, unslept, spawnMutex>>
clientVars == <<at, on, owned>>

vars == <<threadVars, handleVars, deathVars, chainVars, createVars, chainMutex, deallocMutex,
          clientVars>>

(* Inside RuntimeThreadExit, under thread_chain_mutex; in "telling" the    *)
(* entry point of the thread runs, which is the client's code.             *)
ExitInside == {"notify", "telling", "look up", "signal", "leave"}

Init ==
  /\ pc = [t \in Pids |-> "none"]
  /\ died = [t \in Pids |-> NoCode]
  /\ told = [t \in Pids |-> {}]
  /\ handle = [t \in Pids |-> "none"]
  /\ task = [t \in Pids |-> FALSE]
  /\ tryKill = [t \in Pids |-> FALSE]
  /\ exitCode = [t \in Pids |-> NoCode]
  /\ lock = [t \in Pids |-> Free]
  /\ deathSignal = [t \in Pids |-> FALSE]
  /\ deathCode = [t \in Pids |-> NoCode]
  /\ closing = 0
  /\ handles = {}
  /\ entries = {}
  /\ instance = Nobody
  /\ permits = 0
  /\ unslept = FALSE
  /\ spawnMutex = Free
  /\ chainMutex = Free
  /\ deallocMutex = Free
  /\ at = [c \in Clients |-> "out"]
  /\ on = [c \in Clients |-> Nobody]
  /\ owned = {}

TypeOK ==
  /\ pc \in [Pids -> {"none", "entering", "hooking", "create", "announce", "start",
                      "exiting", "stuck", "gone"} \cup ExitInside]
  /\ \A f \in {died, exitCode, deathCode} : f \in [Pids -> Codes \cup {NoCode}]
  /\ told \in [Pids -> SUBSET {"create", "start", "exit"}]
  /\ handle \in [Pids -> {"none", "alive", "deleted"}]
  /\ \A f \in {task, tryKill, deathSignal} : f \in [Pids -> BOOLEAN]
  /\ lock \in [Pids -> Clients \cup {Free}]
  /\ closing \in 0..Cardinality(Pids)
  /\ handles \subseteq Pids /\ entries \subseteq Pids /\ owned \subseteq Pids
  /\ instance \in Pids \cup {Nobody}
  /\ permits \in Nat /\ unslept \in BOOLEAN
  /\ ~unslept => permits \in 0..1
  /\ spawnMutex \in Clients \cup {Free}
  /\ chainMutex \in Pids \cup {Free} /\ deallocMutex \in Pids \cup {Free}
  /\ at \in [Clients -> {"out", "spawning", "taking", "counting", "signalling", "waking",
                         "deleting"}]
  /\ on \in [Clients -> Pids \cup {Nobody}]

-----------------------------------------------------------------------------
(* Clients.                                                                *)

Move(c, place, t) ==
  /\ at' = [at EXCEPT ![c] = place]
  /\ on' = [on EXCEPT ![c] = t]

(* Mutated form of SpawnOThread: two threads may be created at a time.     *)
SpawnOThreadUnlocked(c, t) ==
  /\ at[c] = "out"
  /\ pc[t] = "none"
  /\ spawnMutex' = c
  /\ instance' = Nobody
  /\ pc' = [pc EXCEPT ![t] = "entering"]
  /\ Move(c, "spawning", t)
  /\ UNCHANGED <<died, told, handleVars, deathVars, chainVars, permits, unslept, chainMutex,
                 deallocMutex, owned>>

(* SpawnOThread up to the wait; the kernel gives the new thread an id.     *)
SpawnOThread(c, t) ==
  /\ at[c] = "out"
  /\ pc[t] = "none"
  /\ spawnMutex = Free
  /\ spawnMutex' = c
  /\ instance' = Nobody
  /\ pc' = [pc EXCEPT ![t] = "entering"]
  /\ Move(c, "spawning", t)
  /\ UNCHANGED <<died, told, handleVars, deathVars, chainVars, permits, unslept, chainMutex,
                 deallocMutex, owned>>

SpawnWakes(c) ==
  /\ at[c] = "spawning"
  /\ permits > 0
  /\ permits' = permits - 1
  /\ Move(c, "taking", on[c])
  /\ UNCHANGED <<threadVars, handleVars, deathVars, chainVars, instance, unslept, spawnMutex,
                 chainMutex, deallocMutex, owned>>

(* The semaphore has no memory for its list: Wait fails, which is not      *)
(* looked at.                                                              *)
SpawnCannotWait(c) ==
  /\ at[c] = "spawning"
  /\ permits = 0
  /\ unslept' = TRUE
  /\ Move(c, "taking", on[c])
  /\ UNCHANGED <<threadVars, handleVars, deathVars, chainVars, instance, permits, spawnMutex,
                 chainMutex, deallocMutex, owned>>

SpawnReturns(c) ==
  /\ at[c] = "taking"
  /\ owned' = owned \cup ({instance} \ {Nobody})
  /\ spawnMutex' = Free
  /\ Move(c, "out", Nobody)
  /\ UNCHANGED <<threadVars, handleVars, deathVars, chainVars, instance, permits, unslept,
                 chainMutex, deallocMutex>>

(* Handles a client can use: from the create message on, until the last    *)
(* reference is given up.                                                  *)
Published(t) ==
  /\ handle[t] = "alive"
  /\ "create" \in told[t]
  /\ \A d \in Clients : ~(at[d] = "deleting" /\ on[d] = t)

(* Mutated form of TryMurder: a second murder is not refused.              *)
TryMurderAgain(c, t, code) ==
  /\ at[c] = "out"
  /\ Published(t)
  /\ lock[t] = Free
  /\ task[t]
  /\ lock' = [lock EXCEPT ![t] = c]
  /\ tryKill' = [tryKill EXCEPT ![t] = TRUE]
  /\ deathCode' = [deathCode EXCEPT ![t] = code]
  /\ Move(c, "counting", t)
  /\ UNCHANGED <<threadVars, handle, task, exitCode, deathSignal, closing, chainVars,
                 createVars, chainMutex, deallocMutex, owned>>

(* TryMurder when it is not refused; a refusal changes nothing.  The rest  *)
(* of it is the next three actions, under the spinlock.                    *)
TryMurder(c, t, code) ==
  /\ at[c] = "out"
  /\ Published(t)
  /\ lock[t] = Free
  /\ task[t]
  /\ ~tryKill[t]
  /\ lock' = [lock EXCEPT ![t] = c]
  /\ tryKill' = [tryKill EXCEPT ![t] = TRUE]
  /\ deathCode' = [deathCode EXCEPT ![t] = code]
  /\ Move(c, "counting", t)
  /\ UNCHANGED <<threadVars, handle, task, exitCode, deathSignal, closing, chainVars,
                 createVars, chainMutex, deallocMutex, owned>>

MurderCounts(c) ==
  /\ at[c] = "counting"
  /\ closing' = closing + 1
  /\ Move(c, "signalling", on[c])
  /\ UNCHANGED <<threadVars, handleVars, deathSignal, deathCode, chainVars, createVars,
                 chainMutex, deallocMutex, owned>>

MurderSignals(c) ==
  /\ at[c] = "signalling"
  /\ deathSignal' = [deathSignal EXCEPT ![on[c]] = TRUE]
  /\ Move(c, "waking", on[c])
  /\ UNCHANGED <<threadVars, handleVars, deathCode, closing, chainVars, createVars,
                 chainMutex, deallocMutex, owned>>

(* wake_up_process on the task, Unlock.                                    *)
MurderWakes(c) ==
  /\ at[c] = "waking"
  /\ lock' = [lock EXCEPT ![on[c]] = Free]
  /\ Move(c, "out", Nobody)
  /\ UNCHANGED <<threadVars, handle, task, tryKill, exitCode, deathVars, chainVars,
                 createVars, chainMutex, deallocMutex, owned>>

(* Mutated form of InvalidateImp: thread_dealloc_mutex is not taken.       *)
InvalidateUnlocked(c, t) ==
  /\ at[c] = "out"
  /\ t \in owned
  /\ \A d \in Clients : on[d] # t
  /\ handles' = handles \ {t}
  /\ owned' = owned \ {t}
  /\ Move(c, "deleting", t)
  /\ UNCHANGED <<threadVars, handleVars, deathVars, entries, createVars, chainMutex,
                 deallocMutex>>

(* InvalidateImp.  The last reference is given up when nobody is inside a  *)
(* call on the handle.                                                     *)
InvalidateImp(c, t) ==
  /\ at[c] = "out"
  /\ t \in owned
  /\ \A d \in Clients : on[d] # t
  /\ deallocMutex = Free
  /\ handles' = handles \ {t}
  /\ owned' = owned \ {t}
  /\ Move(c, "deleting", t)
  /\ UNCHANGED <<threadVars, handleVars, deathVars, entries, createVars, chainMutex,
                 deallocMutex>>

(* The delete in OObject::Destroy.                                         *)
Delete(c) ==
  /\ at[c] = "deleting"
  /\ handle' = [handle EXCEPT ![on[c]] = "deleted"]
  /\ Move(c, "out", Nobody)
  /\ UNCHANGED <<threadVars, task, tryKill, exitCode, lock, deathVars, chainVars, createVars,
                 chainMutex, deallocMutex, owned>>

-----------------------------------------------------------------------------
(* RuntimeThreadEP, on the new thread.                                     *)

(* The handle is made and both chains know the thread.                     *)
ThreadEPHandleChains(t) ==
  /\ pc[t] = "entering"
  /\ chainMutex = Free
  /\ handle' = [handle EXCEPT ![t] = "alive"]
  /\ task' = [task EXCEPT ![t] = TRUE]
  /\ handles' = handles \cup {t}
  /\ entries' = entries \cup {t}
  /\ pc' = [pc EXCEPT ![t] = "hooking"]
  /\ UNCHANGED <<died, told, tryKill, exitCode, lock, deathVars, createVars, chainMutex,
                 deallocMutex, clientVars>>

(* Thread storage, exit callback and switch hook are installed; the entry  *)
(* point is sent kMsgThreadCreate with the handle.                         *)
ThreadEPInstalls(t) ==
  /\ pc[t] = "hooking"
  /\ told' = [told EXCEPT ![t] = @ \cup {"create"}]
  /\ pc' = [pc EXCEPT ![t] = "create"]
  /\ UNCHANGED <<died, handleVars, deathVars, chainVars, createVars, chainMutex,
                 deallocMutex, clientVars>>

CreateReturns(t) ==
  /\ pc[t] = "create"
  /\ instance' = t
  /\ pc' = [pc EXCEPT ![t] = "announce"]
  /\ UNCHANGED <<died, told, handleVars, deathVars, chainVars, permits, unslept, spawnMutex,
                 chainMutex, deallocMutex, clientVars>>

(* Trigger(1), then kMsgThreadStart.                                       *)
Announce(t) ==
  /\ pc[t] = "announce"
  /\ permits' = permits + 1
  /\ told' = [told EXCEPT ![t] = @ \cup {"start"}]
  /\ pc' = [pc EXCEPT ![t] = "start"]
  /\ UNCHANGED <<died, handleVars, deathVars, chainVars, instance, unslept, spawnMutex,
                 chainMutex, deallocMutex, clientVars>>

(* The entry point returns: the thread ends with the code it chose.        *)
StartReturns(t, code) ==
  /\ pc[t] = "start"
  /\ died' = [died EXCEPT ![t] = code]
  /\ pc' = [pc EXCEPT ![t] = "exiting"]
  /\ UNCHANGED <<told, handleVars, deathVars, chainVars, createVars, chainMutex,
                 deallocMutex, clientVars>>

-----------------------------------------------------------------------------
(* RuntimeThreadPostContextSwitch, on a thread that was told to die.       *)

DeathSeen(t) == closing > 0 /\ deathSignal[t]

(* Mutated form of ConsumeSignal: the count is taken for a flag.           *)
ConsumeSignalClears(t) ==
  /\ deathSignal' = [deathSignal EXCEPT ![t] = FALSE]
  /\ closing' = 0

ConsumeSignal(t) ==
  /\ deathSignal' = [deathSignal EXCEPT ![t] = FALSE]
  /\ closing' = closing - 1

(* do_exit with the code of the murder.  A thread that was about to run    *)
(* its exit callback runs it from the start.                               *)
RuntimeThreadPostContextSwitch(t) ==
  /\ pc[t] \in {"create", "announce", "start", "exiting"}
  /\ DeathSeen(t)
  /\ ConsumeSignal(t)
  /\ died' = [died EXCEPT ![t] = deathCode[t]]
  /\ pc' = [pc EXCEPT ![t] = "exiting"]
  /\ UNCHANGED <<told, handleVars, deathCode, chainVars, createVars, chainMutex,
                 deallocMutex, clientVars>>

(* The same on a thread that is exiting.  Inside the exit callback a second *)
(* do_exit never comes back: the kernel parks the thread, or it asks for    *)
(* thread_chain_mutex again; blocked before it has that mutex (:298), the   *)
(* thread is parked without it.                                             *)
ExitsWhileExiting(t) ==
  /\ pc[t] \in {"exiting"} \cup ExitInside
  /\ DeathSeen(t)
  /\ ConsumeSignal(t)
  /\ pc' = [pc EXCEPT ![t] = "stuck"]
  /\ UNCHANGED <<died, told, handleVars, deathCode, chainVars, createVars, chainMutex,
                 deallocMutex, clientVars>>

-----------------------------------------------------------------------------
(* RuntimeThreadExit.                                                      *)

RuntimeThreadExit(t) ==
  /\ pc[t] = "exiting"
  /\ chainMutex = Free
  /\ chainMutex' = t
  /\ pc' = [pc EXCEPT ![t] = "notify"]
  /\ UNCHANGED <<died, told, handleVars, deathVars, chainVars, createVars, deallocMutex,
                 clientVars>>

(* ThreadExitNtfyEP calls the entry point, with thread_chain_mutex held.   *)
(* What it does of the library's meanwhile are the clients' steps; it may  *)
(* wait for ever, for example for a thread it spawns, which needs that     *)
(* mutex to announce itself.                                               *)
ThreadExitNtfyEP(t) ==
  /\ pc[t] = "notify"
  /\ IF t \in entries
     THEN /\ told' = [told EXCEPT ![t] = @ \cup {"exit"}]
          /\ pc' = [pc EXCEPT ![t] = "telling"]
     ELSE UNCHANGED told /\ pc' = [pc EXCEPT ![t] = "look up"]
  /\ UNCHANGED <<died, handleVars, deathVars, chainVars, createVars, chainMutex, deallocMutex,
                 clientVars>>

ExitMessageReturns(t) ==
  /\ pc[t] = "telling"
  /\ entries' = entries \ {t}
  /\ pc' = [pc EXCEPT ![t] = "look up"]
  /\ UNCHANGED <<died, told, handleVars, deathVars, handles, createVars, chainMutex,
                 deallocMutex, clientVars>>

(* ThreadExitNtfyObject: the handle is looked up under the mutex that its  *)
(* destruction takes.                                                      *)
ThreadExitNtfyObject(t) ==
  /\ pc[t] = "look up"
  /\ deallocMutex = Free
  /\ deallocMutex' = t
  /\ pc' = [pc EXCEPT ![t] = IF t \in handles THEN "signal" ELSE "leave"]
  /\ UNCHANGED <<died, told, handleVars, deathVars, chainVars, createVars, chainMutex,
                 clientVars>>

(* Mutated form of SignalDead: the code of the last murder is told.        *)
SignalDeadCodeless(t) ==
  /\ pc[t] = "signal"
  /\ lock[t] = Free
  /\ task' = [task EXCEPT ![t] = FALSE]
  /\ exitCode' = [exitCode EXCEPT ![t] = deathCode[t]]
  /\ pc' = [pc EXCEPT ![t] = "leave"]
  /\ UNCHANGED <<died, told, handle, tryKill, lock, deathVars, chainVars, createVars,
                 chainMutex, deallocMutex, clientVars>>

SignalDead(t) ==
  /\ pc[t] = "signal"
  /\ lock[t] = Free
  /\ task' = [task EXCEPT ![t] = FALSE]
  /\ exitCode' = [exitCode EXCEPT ![t] = died[t]]
  /\ pc' = [pc EXCEPT ![t] = "leave"]
  /\ UNCHANGED <<died, told, handle, tryKill, lock, deathVars, chainVars, createVars,
                 chainMutex, deallocMutex, clientVars>>

(* Mutated form of ExitLeaves: thread_chain_mutex is not unlocked.         *)
ExitLeavesLocked(t) ==
  /\ pc[t] = "leave"
  /\ deallocMutex' = Free
  /\ pc' = [pc EXCEPT ![t] = "gone"]
  /\ UNCHANGED <<died, told, handleVars, deathVars, chainVars, createVars, chainMutex,
                 clientVars>>

ExitLeaves(t) ==
  /\ pc[t] = "leave"
  /\ deallocMutex' = Free
  /\ chainMutex' = Free
  /\ pc' = [pc EXCEPT ![t] = "gone"]
  /\ UNCHANGED <<died, told, handleVars, deathVars, chainVars, createVars, clientVars>>

-----------------------------------------------------------------------------
(* The exit callback where it is the library's own code.                   *)
Exit(t) ==
  \/ RuntimeThreadExit(t)
  \/ ThreadExitNtfyEP(t)
  \/ ThreadExitNtfyObject(t)
  \/ SignalDead(t)
  \/ ExitLeaves(t)

Murder(c) ==
  \/ MurderCounts(c)
  \/ MurderSignals(c)
  \/ MurderWakes(c)

Next ==
  \/ \E c \in Clients :
       \/ \E t \in Pids : \/ SpawnOThread(c, t)
                          \/ \E code \in MurderCodes : TryMurder(c, t, code)
                          \/ InvalidateImp(c, t)
       \/ SpawnWakes(c)
       \/ SpawnCannotWait(c)
       \/ SpawnReturns(c)
       \/ Murder(c)
       \/ Delete(c)
  \/ \E t \in Pids :
       \/ ThreadEPHandleChains(t)
       \/ ThreadEPInstalls(t)
       \/ CreateReturns(t)
       \/ Announce(t)
       \/ \E code \in ReturnCodes : StartReturns(t, code)
       \/ RuntimeThreadPostContextSwitch(t)
       \/ ExitsWhileExiting(t)
       \/ Exit(t)
       \/ ExitMessageReturns(t)

Spec == Init /\ [][Next]_vars

(* The exit callback goes on where it is the library's own code: its steps *)
(* wait for nothing but the mutexes and the spinlock.  Nothing is assumed  *)
(* of an entry point, in its exit message or before, nor of the callers of *)
(* TryMurder; the hook runs when the thread is next switched to, if ever.  *)
Fairness == \A t \in Pids : WF_vars(Exit(t))

FairSpec == Spec /\ Fairness

-----------------------------------------------------------------------------
(* Properties.                                                             *)

(* The exit callback never writes to a handle that was deleted, whenever   *)
(* its owner gives it up.                                                  *)
ExitTouchesLiveHandle == \A t \in Pids : pc[t] = "signal" => handle[t] = "alive"

(* TryMurder writes to the storage of a thread, and wakes a task, that is  *)
(* still there.                                                            *)
MurderTouchesLiveTask ==
  \A c \in Clients : at[c] \in {"counting", "signalling", "waking"} =>
    /\ pc[on[c]] # "gone"
    /\ task[on[c]]

(* Neither the exit callback nor TryMurder writes to what is gone.         *)
TouchesOnlyLive == ExitTouchesLiveHandle /\ MurderTouchesLiveTask

(* A handle that outlives its thread says that it is dead and gives the    *)
(* code the thread really ended with.                                      *)
HandleTellsDeath ==
  \A t \in Pids :
    /\ pc[t] = "gone" /\ t \in handles => ~task[t]
    /\ handle[t] = "alive" /\ ~task[t] => exitCode[t] = died[t]

(* A thread told to die sees it at its next switch: the count that guards  *)
(* the test is never below the number of signals pending.                  *)
PendingDeathSeen == closing >= Cardinality({t \in Pids : deathSignal[t]})

(* SpawnOThread returns the handle of the thread it created, until one     *)
(* found no memory to wait with: it goes on with what is there, and the    *)
(* permit that it did not take lets a later one go on too early.           *)
SpawnGetsOwnThread == \A c \in Clients : at[c] = "taking" => instance = on[c] \/ unslept

(* The client's code comes back where the library waits for it: from every *)
(* exit message, and out of the spinlock that TryMurder holds (a caller    *)
(* that is itself told to die in there takes the spinlock with it).        *)
CallsReturn ==
  /\ \A t \in Pids : []<>(pc[t] # "telling")
  /\ \A c \in Clients : []<>(at[c] \notin {"counting", "signalling", "waking"})

(* A thread that is parked in its exit callback with thread_chain_mutex.   *)
ChainMutexLost == \E u \in Pids : pc[u] = "stuck" /\ chainMutex = u

(* A thread that has begun to exit tells its handle, if it still has one,  *)
(* as long as the client's code comes back where all exits wait for it.    *)
(* The code keeps this but for a thread that is told to die while it is    *)
(* exiting: it is parked and never tells, and with thread_chain_mutex      *)
(* nobody does after it.                                                   *)
ExitTold ==
  CallsReturn =>
    \A t \in Pids :
      (pc[t] = "exiting" /\ t \in handles)
        ~> (~task[t] \/ t \notin handles \/ pc[t] = "stuck" \/ ChainMutexLost)

=============================================================================
