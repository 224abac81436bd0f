# Verification of KernelSourceLibOS

KernelSourceLibOS is a C++ library that runs inside a patched Linux kernel and
gives kernel code an object-oriented interface to threads, processes, memory,
files, synchronisation and to calls into user mode.  This directory holds TLA+
models of the parts where the order of events decides whether the code is right,
TLC configurations that check them on small instances, and proofs, checked by
TLAPS, for every value of the constants.

All paths below are relative to the repository.

## 1. The system

| Component | Where | State | Operations | Hard about it | Correct when | Status |
|---|---|---|---|---|---|---|
| Sleeping | `Source/Core/Synchronization/LinuxSleeping.cpp` | task state, time left | `LinuxSleep`, `LinuxPokeThread` | a poke between test and sleep; a poke as time runs out | a timed sleep ends; whoever was signalled returns | modelled |
| Semaphores | `.../OSemaphore.cpp` | counter, list of stack entries | `Wait`, `Trigger`, destructor | timed-out waits leave entries behind | no permit made up, stranded, or lost but to a timeout | modelled, proved |
| Work queue | `.../OWorkQueue.cpp` | three counters, two lists | `WaitAndAddOwner`, `ReleaseOwner`, `BeginWork`, `EndWork`, `SpuriousWakeupOwners`, destructor | reuse, timeouts, several owners and workers | owners counted; rounds do not mix; nobody forgotten | modelled, proved |
| Deferred execution | `Source/Core/UserSpace/DeferredExecution/` | jobs, handlers, a list per thread, saved registers, two mutexes | `Schedule`, `WaitExecute`, `AwaitExecute`, `Destroy`, completion, thread exit | preemption of a running thread, destruction against completion, exit | links sound; order kept; a wait means the job ran; context restored | partly modelled, proved |
| Process tracking | `Source/Core/Processes/OProcessTracking.cpp` | pids of tracked leaders, hook lists, exit callbacks | registration, start and exit hooks | threads of one process register at once; exits in between; pids used again | hooks told once, in order | modelled, proved |
| Kernel threads | `Source/Core/CPU/OThread.cpp` | handles, two chains, death signal and code, the spawner's semaphore | spawn, `TryMurder`, exit, destruction | killing a thread that ends by itself, giving up its handle meanwhile | no use of what is gone; a handle tells the death as it was | partly modelled, proved |
| Objects | `Include/Base/Objects/` | reference counters, dead flag | assignment, reference, ownership, `Invalidate`, `Destroy` | order of release and acquire; copies nobody counts | freed once, when unused | modelled, proved |
| Memory | `Source/Core/Memory/Linux/x86_64/AddressSpaces/`, `OLinuxMemory*.cpp` | descriptors with a chain of page entries, zones, references of an mm | reserve, insert, remove, linger, destroy | a lock dropped between the steps of one insertion; errors not looked at; the process moves its areas meanwhile | what is mapped is what was inserted; the mm counted; the process's own areas untouched | partly modelled, proved |
| Physical pages | `.../x86_64/OLinuxMemoryPages.cpp`, `OLinuxStack.cpp` | arrays with a hidden first entry | allocate contiguous or page by page, free | unwinding, length in 24 bits | pages given back once | modelled, proved |
| Delegated calls | `Source/Core/UserSpace/DelegatedCalls/` | a table that grows | add, pull (in two calls), call by id | a pointer used after the unlock | an id reaches the function it was pulled for | modelled, proved |
| Pseudo files, registration | `Source/Core/UserSpace/Files/`, `ORegistration.cpp` | ids and handles, devices, stubs, callbacks | create, open, call, release, delete | deletion of open files; a mutex unlocked twice | ids unique; stubs outlive the device; whoever opens is registered | modelled, proved |
| Processes and threads from outside | `Source/Core/Processes/OProcesses.cpp`, `OProcessTransversal.cpp`, ... | references of tasks and mms | find, iterate, access memory, give up | tasks fork and exit meanwhile | references balanced | partly modelled, proved |
| Files, directories, paths | `Source/Core/FIO/` | references of entries and of the mount, open files, stubs | open, delete, up, iterate, stat | failures half way | references balanced | partly modelled, proved |
| Logging | `Source/Logging/Logging.cpp` | two shared buffers, a file, a mutex | start, print | buffers used outside the mutex | lines whole | modelled, proved |
| Dates, ticks and other computations | `Source/Utils/DateHelper.cpp`, `FileIOHelper.cpp`, ... | none | convert | boundaries, wrapping | agree with a definition | modelled; all but dates proved |
| Mutex and spinlock, calling conventions, one-call helpers | | | | one kernel call each | | not modelled |

How they interact.  Everything that blocks does it through `LinuxSleep`, with a
callback that reads a flag in an entry on the sleeper's stack; everything that
wakes sets that flag under the object's mutex and calls `LinuxPokeThread`.  A
deferred-execution job owns a work queue made for one task: callers are its
owners (`WaitExecute`), the completion of the job its only worker (`Hit`).  The
exit hook of process tracking ends the engine's state of a process.  A new
`OThread` announces itself to its spawner through a semaphore that starts at 0.
A process meets the library by opening pseudo file 0, whose callback gives it the
handler of delegated calls and registers it with process tracking.

`PROJECT.json` lists every component, and under "hazards" each place where this
code can go wrong in a way a test would hardly reach, with the property that
would show it.

## 2. The modules

    LinuxSleeping  <-- CountingSemaphore --> PermitPool     (refinement)
         ^               ^--- CountingSemaphoreProofs
         |
         +----------- WorkQueue ---------> TaskRound        (refinement)
                         ^--- WorkQueueProofs  ^
                                               |
    DeferredExecution -------------------------+            (uses the round)
         ^--- MCDeferredExecution
         ^--- DeferredExecutionProofs <-- DeferredExecutionOrderProofs

    ThreadLifecycle                                         (the pool inlined)
         ^--- ThreadLifecycleProofs

    VirtualMemory <-- MemoryDescriptors <-- MCMemoryDescriptors
                             ^--- MemoryDescriptorsProofs

    PseudoFiles, ProcessTracking, DelegatedCalls            (composed by)
         ^--- UserSpace <-- MCUserSpace
                 ^--- UserSpaceProofs

    ObjectPointers, FileObjects, ProcessObjects,
    PhysicalPages, Logging, Clock, Numbers                  (collected by)
         ^--- LibraryServices <-- MCLibraryServices
                     ^--- LibraryServicesProofs

**LinuxSleeping** has the loop of `LinuxSleep` as phases of a thread: *checking*
(callback, then time), *arming* (callback false, task still `TASK_RUNNING`),
*asleep*, and *woken* or *expired* (returned, caller not yet relocked).  A poke
moves a thread only if it is asleep: this is what `wake_up_process` does, and
keeping the arming phase is what makes a lost wake-up visible.  Ticks are
abstracted to "time left" or "elapsed"; `MAX(1, ...)` in `GetSleepState` is why a
timed sleep never starts elapsed.

**CountingSemaphore** has one action for each section under the object's mutex.
An entry is a record of the thread and whether its stack frame is still there:
`GoToSleep` never removes its entry, so after a timeout the list holds a pointer
to a dead frame.  `Trigger` writes through it; the model lets that write hit
nothing, or the new entry of the same thread (a frame at the same depth).
`Destroy` is the destructor, called by someone who made sure nobody is inside.

**PermitPool** is what a semaphore promises: the two lines of pseudo code in
`Include/Core/Synchronization/OWorkQueue.hpp:62-65`, plus the price of timed
waits, one permit at most for each that gave up.

**WorkQueue** is modelled in the same way.  Its lists are always popped whole, so
a write through a dead entry changes nothing that is not changed anyway.
`UsesWakeup` says whether callers pass a callback of their own.  `BeginWork` drops
the error of `GoToSleep`: a worker for whose entry there is no memory begins a task
of a round that has none (`BeginWorkCannotSleep`), which `unslept` records.

**TaskRound** is the protocol of `OWorkQueue.hpp:48-56`: tasks of a round begin
and end; the last hands the round to everyone who waits; the last release opens
the next.

**DeferredExecution** has one action for each stretch of code between two points
where another thread can come in.  The critical section and
`work_watcher_mutex` are owner variables (`engine`, `watcher`), because the
completion holds them over several steps: pop, `Hit` (store the result,
`BeginWork`, `EndWork`, detach), callback, choice of what to run next.  Register
states are abstracted to what they resume: the thread's own code, the return
stub, or the job of a handler.  The swap of registers is external: the patched
kernel does it, on the way back to user mode, when `swap_bool` is set.  The work
queue of each job is the `TaskRound` that WorkQueue was shown to implement for
one worker; the watcher makes `Hit` that one worker, and `TriggerCannotSleep` is its
step without memory.  A job has run (`ran`) when its function has returned in user
mode, before the completion is told of it.  The exit of a group leader frees what the
engine has for the process, if process tracking tells it: it does not where it has no
link for the leader, or no memory.  The exit of another thread is told to nobody.  A
job that is still running when its list goes comes to its completion late: it finds no
state, and the entry of the process is made again, or it finds what was scheduled
since.  What the engine keeps of a thread is found by the thread's id
(`task`, `queue`, `hasPrevious`, `restore`), and a later thread of the process, an
heir, may get that id.  Scheduling goes through `UpdatePidHandle`, which destroys
what is kept there if it was made for another thread.  Each allocation may fail
(`APC_AddPendingWorkFails`); where the code then leaves an entry that was never set,
or one that it deletes twice, the process's entry is "wrecked", and what is looked up
in it is undefined and no step.  `robbed` records the living threads that lost a list.

**ThreadLifecycle** has the threads the library starts and the clients that spawn,
murder and give them up.  The three mutexes and each handle's spinlock are
variables with an owner wherever they are held over more than one step:
`TryMurder` is split at each write (flag and code, `closing_threads`, the
signal, the wake-up), the exit callback at each mutex it takes.  The semaphore of
`sync_thread_create` is reduced to its permits, which is what CountingSemaphore
promises of untimed waits.  The switch hook may run at any moment after it was
installed, so it may also find the thread inside its exit callback; the step
`ExitsWhileExiting` says that a `do_exit` from there does not come back: the
kernel parks the thread, or the callback asks for a mutex its thread holds.  The
exit callback sends the entry point an exit message while it has
`thread_chain_mutex` (`OThread.cpp:266`); the call and its return are two steps, and
between them the thread runs its client's code.
Clients keep the usual contract of references: the last one is given up when
nobody is inside a call on the handle, and nobody uses it after.

**MemoryDescriptors** is a table of pages and the zone they are put in, of the
kernel or of a process.  `InsertAt` of a user zone is the three locked steps it is
in the code (allowance, mprotect, page), and the process may map, protect, unmap
and exit between them.  Removal, replacement, the clean-up after a failure
and the destruction all go through it.  A descriptor has no lock and one caller
at a time, so the insertion under way is part of the descriptor.  A page is put by
`vm_insert_page`, which asks whether the area has it; an address or a frame by
`remap_pfn_range`, which does not, so it may land where no area is (`stray`).  The
answer of munmap is not looked at, and it may refuse (`kept`).
**VirtualMemory** has the kernel's side: areas, `find_vma` (which answers with an
area above the address if none covers it), and how mprotect and munmap cut them.
The address space ends in a page that stands for every error code taken for an
address, after which addresses wrap.

**PseudoFiles** has one action for each step of creation, deletion and use of a
file; `pfns_mutex` is an owner variable, because a failure unlocks it twice.
**ProcessTracking** has the registration of a process by any of its threads and
their exits; a pid may be used again.  **DelegatedCalls** is the table, pulled in
two calls and called by id; the step between lookup and call is where it may
grow.  **UserSpace** puts them together: the open callback of the registration
file is where a thread registers, and a system call needs the handler that this
gave its process.

**LibraryServices** collects modules that share no state, which the variable
`service` chooses from at the start of a behaviour.  **ObjectPointers**: counted,
owning and plain pointers; an object's counter has the object's name.
**FileObjects**: what every object of FIO holds of the file system; each call is
one step, with its failures at their places.  **ProcessObjects**: process and
thread objects and their references of tasks, beside tasks that fork and exit,
with the descendants of a task as the smallest set that its children and theirs
are in.  **PhysicalPages**:
blocks of pages, arrays, the unwinding page by page, and the freeing by the
hidden entry.  **Logging**: the two shared buffers, filled outside the mutex, and
the two writes of a line inside it.  **Clock**: the code's own loops over years
and months, day after day, against a calendar stated in terms of the day
before.  **Numbers**: computations without state, asked with every input of a
set.

Every module keeps its *mutants* beside the definitions they change: plausible
bugs (a dropped guard, a missing reset, a wrong order) under which the property
named in `PROJECT.json` fails.  They are used by no specification.

## 3. The runs

| Run | Configuration | Question | Result |
|---|---|---|---|
| `semaphore` | 3 threads, 1 permit, up to 3 more, 1 timed wait | do permits balance, is anyone stranded, does it implement the pool? | holds |
| `semaphore_lost_wakeup` | the same without timed waits | does a signalled thread return? | **no** |
| `work_queue` | 2 owners, 1 worker, 2 tasks | are owners counted, do rounds mix, is anyone forgotten, does it implement the round? | holds, all but the first until a worker finds no memory to sleep with |
| `work_queue_two_workers` | 1 owner, 2 workers, 1 task | does a round stay within its tasks? | **no** |
| `deferred_execution` | 2 callers, 2 jobs and 2 schedulings, 1 target thread, one that gets its id, a leader | links, order, meaning of a wait, release of the engine, use of the queue | holds, with the exceptions the properties name |
| `engine_blocked` | as `deferred_execution`, no heir | is the engine always left again? | **no** |
| `context_lost` | as `deferred_execution`, no heir | is what the thread ran of its own kept? | **no** |
| `thread_lifecycle` | 2 threads, 2 clients, an exit code of their own and one of murder | do murder, natural exit and destruction meet safely, does each spawner get its thread, is a death told? | holds, with memory to wait with; the last if the client's code returns and but for a thread killed while it exits |
| `memory` | 2 descriptors of 2 pages in a process, 1 in the kernel, 4 pages and the wrap, 1 system call of the process, 2 insertions | is the mm counted, does the code panic only if the process meddled, do pages, areas and descriptors agree, are the process's own areas left alone? | holds, with the exceptions the properties name |
| `user_space` | 3 files, a process of 2 threads, a later one with the same pid, 1 hook, 2 symbols | are ids unique, do stubs outlive the device, are hooks told once and in order, does opening register, do calls reach their function? | holds, with the exceptions the properties name |
| `library_services` | see below | are owners and references counted, lines whole, computations right, dates in order? | holds, with the exceptions the properties name |
| `weekday` | the first weeks of 1970, from a Monday | is the day's name looked up where it is? | **no** |

Bounds.  Semaphore: `MaxTriggered` and `MaxTimeouts` bound the history counters;
with three threads one can be served, one time out and one be left, and one
timed-out entry is enough for a later `Trigger` to spend a permit on it and for a
reused frame.  Work queue: `MaxEntries` bounds the list only for timed waits;
two tasks tell the first completion from the last, two owners the last release
from the others, and rounds repeat without bound.  `MaxOverrun` bounds the tasks begun
beyond a round's: two tell a queue that was left once from one that was left again.
Deferred execution:
`MaxHandlers` = 2 is two jobs in a row on one thread, which is what the saved
context is for, or one job twice.  `MCOneCallback` gives the callback to the first job
only; it may schedule the second or not.  There is one process: that a later process
with the leader's id finds an entry which was not freed is left out.  The second job may be for
the thread or for its heir: either may come first, so the heir finds the state of
the thread that is gone, or a late job for that one finds the heir's.  Thread lifecycle: two
threads are needed for two exits to meet on the mutexes, for two spawners and for
two pending murders in one count; an id is used once; two codes tell the
murderer's from the thread's own, and no entry point uses the other.

Memory: two descriptors are needed for one to take the place of the other, two
pages for a neighbour in the same area and for an area that is split; a start of
2 and one of 0 are a place asked for and one that is looked for.  One system call
of the process (an mmap, munmap or mprotect of any pages, at any moment) is
enough to change the area under an insertion.  The constraint `MCOneKind` keeps
descriptors of the kernel and of the process out of each other's behaviours, for
they share no state; `MCOneOdd` lets one descriptor linger, or keep areas that munmap
refused, and another lie where its
owner asked, possibly where the first still is; or one be given a frame, and then
none of this.  User space: three files are the registration file and two that
race for an id; `MaxAdded` = 2 entries of the table may be two names or one name twice;
`MCOneAffair` explores files, hooks and calls one at a time, each
together with the registration.  Library services: two objects with three
pointers and a reference each (assignment to oneself, to another holder, to the
last one); three file objects over three entries; two process objects and four
tasks; two page arrays in five pages of which a block of four does not always
find room, with a length field of two bits; two printers that print twice; days
from 0, 10950 and 47475 on, which take in 1972, the leap century 2000 and the
common one 2100; waits up to 2.5 s at four tick rates; paths up to six
characters of an alphabet of two; a stack in an address space of 16.  `MCFew`
counts failures of Iterate only once.  Symmetric sets are those no constant
distinguishes (descriptors of the process, files beside the registration file,
objects, file objects); none of these runs checks liveness.

Deadlock is not checked where the system may really stop: nobody has to call
again, an object is destroyed, a process is gone, and an assertion of the code
stops the machine.

Fairness.  In CountingSemaphore a runnable thread gets the processor and the
mutex (weak fairness of the checks, of going to sleep and of returning), and time
passes for a sleeping thread (strong fairness of its timer: disturbances may wake
it in between, each leaves it less time).  Nobody has to call `Wait` or `Trigger`.
In DeferredExecution only the completion code is fair: it is kernel code that
runs once begun.  User code may run a job for ever, and callers owe nothing; nor is a completion that
sleeps ever waked by a lack of memory.  In
ThreadLifecycle the exit callback is fair where it is the library's own code, for
the same reason.  Nothing is assumed of an entry point, in its exit message either,
of the callers of `TryMurder`, or of the switch hook.  That all exits wait behind
the client's code is therefore a hypothesis of `ExitTold`, stated in it
(`CallsReturn`): every exit message returns, and so does every caller out of the
spinlock of `TryMurder`.
The other runs check safety only: what they model is driven by callers that owe
nothing, and each call ends in a bounded number of its own steps.

### What the failing runs show

1. `LinuxSleeping.cpp:48-64`.  The callback is evaluated before the task becomes
   `TASK_INTERRUPTIBLE`.  A poke in between finds a running task.  An untimed
   wait then sleeps with its signal set.  Timed waits are saved by their timer
   (`TimedWaitReturns` holds).
2. `OWorkQueue.cpp:155-158`.  A worker woken in `BeginWork` does not test
   `_activeWork` again.  With two workers asleep, a release lets both through;
   the counters pass `_workItems`, and every later test is for equality.
3. `ODeferredExecution.cpp:119-125`.  Only the release of an owner resets a work
   queue.  A job that ran while nobody waited has a complete queue; scheduled
   again, its completion sleeps in `BeginWork` under both mutexes.  A later
   `WaitExecute` on it returns at once, for the run before, and frees it.  The run
   `deferred_execution` shows that no other job does this (`EngineFreed`).
4. `ODEThread.cpp:143-158`.  The registers to go on with wait in `next_user`
   after the critical section is left.  A job appended in that time is the first
   of its list and overwrites them.  This one depends on the external kernel
   patch swapping only at the return to user mode.
5. `DateHelper.cpp:75`.  The comment says that the epoch starts on a Thursday, so
   with Monday at 0 a day's name is at (d + 3) % 7.  The code takes the day modulo
   7 *less* 3, and the index one less again.  It is right from Monday to
   Wednesday only because two errors cancel, and negative otherwise.

Also seen while modelling: a destructor's "threads waiting" assertion can fire
with nobody waiting after a wait has timed out (`OSemaphore.cpp:156`,
`OWorkQueue.cpp:246`; `DestroyAssertion` says when), a completion callback that
schedules a job waits for a mutex its own thread holds (`ODEWork.cpp:47`), and
waiters of a job whose process exits are never woken (`ODEWork.cpp:52-61`).  A
thread told to die while inside its exit callback keeps `thread_chain_mutex`
(`OThread.cpp:338`; `ExitTold` excepts it, because what `do_exit` does then is
the kernel's business), and so does one whose entry point does not return from its
exit message (`OThread.cpp:266`), for example because it spawns a thread, which
needs that mutex; and one murdered before it announced itself leaves
`SpawnOThread` waiting (`OThread.cpp:489`).  `HandleTellsDeath` is about the fields
of a handle: `GetExitCode` (`OThread.cpp:47-52`) refuses to give the code exactly
when the thread is dead.

The properties hold *except where they say so*, and what they except is there in
the model:

  - `OwnerSeesFinishedRound`, `NoThreadLeftBehind`, `ImplementsRound`, and `UsesRound`
    of a job's queue: a worker that finds no memory for its entry does not sleep
    (`OWorkQueue.cpp:87`, `:103`, ignored at `:155`).  It works in a finished round,
    while owners read its results; `_activeWork` and `_completed` pass `_workItems`,
    the tests for equality never hold again, and later waiters are left.
  - `RunsHead`: a job for a thread that is gone, scheduled when another has its id,
    destroys the state of that living thread with the jobs queued for it
    (`ODEThread.cpp:65`): a job it is running is no longer in its list.  The exit of
    the leader does the same to threads that outlive it.
  - `WaitExecuteMeansExecuted`: such a thread still ends the job it was running, in the
    stub.  Its completion pops whatever was appended since (`ODEThread.cpp:420`), and
    whoever waits for that job is answered although it never ran.  And a job that is
    scheduled again may have a queue that is still complete (finding 3).
  - `EngineFreed`: a job that is scheduled again, by the same finding.
  - `ExitTold`: a thread told to die while it exits, see above.
  - `SpawnGetsOwnThread`: a spawner that finds no memory to wait with goes on at once
    (`OThread.cpp:489`), mostly with no handle, and leaves a permit that makes the next
    one go on too early.
  - `MmCounted`: an insertion where no area is found puts a reference of the mm
    that was never taken (`UserVMManager.cpp:332`); such insertions happen, for
    the error of `MappingTryInsert` is not looked at (`:112`).
  - `PanicNeedsMeddling`: a munmap or mprotect of the process between the steps
    of `InsertAt` ends in a panic (`:382`), or in a frame that is put where no area
    is (`:289`).
  - `TablesSound`: such a frame stays when its descriptor goes, and areas that munmap
    refused to take away (`:252`) stay with a fault handler that is freed; one that
    lingers leaves both by design.
  - `FilesSound`: a file object that cannot be allocated unlocks the mutex twice
    (`OPseudoFile.cpp:319`), after which two files may get one id; a file that is
    deleted while it is open leaves its openers with freed stubs (`:361`).
  - `OpenRegisters`: the registration file can be opened before it has its callback
    (`ORegistration.cpp:38`).
  - `TrackingSound`: a registration made by a thread that is not the leader
    outlives the process (`OProcessTracking.cpp:34`).
  - `CallsSound`: the entry of a call may have moved between the lookup and the
    call (`ODelegtedCalls.cpp:155`).
  - `OwnersCounted`: pointers passed by value are counted down and never up
    (`Logging.cpp:98, 172`); assigning an empty pointer goes through null.
  - `ReferencesBalanced`: `Iterate` leaves its stub where the directory cannot be
    opened (`ODirectory.cpp:132`); an access to a process without an mm leaves its
    array (`OProcesses.cpp:357`).  Pages pinned by an access are never put.
  - `LinesWhole`: two threads that print at once garble each other's text
    (`Logging.cpp:65`); lines stay lines.
  - `NumbersRight`: the cache type asked of a page entry is overwritten by the
    access (`OLinuxMemory.cpp:116`, `:123`): every entry is cached.

Each exception is bounded by the property: the harm needs exactly the event named.

What the runs explore, in distinct states: `semaphore` 26,741, `work_queue` 59,166,
`deferred_execution` 599,178, `thread_lifecycle` 431,375, `memory` 1,241,037, `user_space` 628,361,
`library_services` 537,052.

## 4. The proofs

`CountingSemaphoreProofs` (for any threads, counts and bounds; assumption
`SemaphoreAssumption`).  Types first.  The ledger is not inductive by itself: it
counts the threads a permit is on its way to, and nothing in it says that a
popped entry belongs to such a thread.  `IInv` adds that a signalled thread is
still inside `Wait` and that LinuxSleep lets go as woken only who is signalled
(`SignalledAreWaiting`), that whoever is still unsignalled has a live entry
(`PendingAreQueued`), and an equation over the length of the list (`Balance`):
permits given plus entries queued equal permits free and taken, timeouts and
threads waiting.  From it follow `NoStrandedPermit`, `LedgerBounds`,
`DestroyAssertion` and, step by step, the refinement of PermitPool.

`WorkQueueProofs`.  `CountInv` (no thread both waits and owns) gives
`OwnersAccounting` for any number of workers, any timeouts and callbacks.  As
general is `DestroyAssertion`, from `ListsInv`: whoever has an entry in a list is
still inside the call and unsignalled, of the owners until a wait has ended by its
limit or its callback, of the workers always, for they have neither.  The
rest needs `SingleUse`: one worker, no callbacks; finding 2 is why.  `RoundInv`
adds what a thread in a list stands for (`QueuesInv`) and, until a worker found no
memory to sleep with (`unslept`), how the counters go with
the phases (`ProgressInv`): a signalled owner is still counted in `_owners`, so the
round stays complete until it has released; a signalled worker finds the round
at zero, because no other worker can have begun.  From it follow
`OwnerSeesFinishedRound`, `NoThreadLeftBehind` and the refinement of TaskRound, each
with `unslept` as its only way out: from then on the counts say nothing.

`ThreadLifecycleProofs` (any threads, clients and codes; assumption
`LifecycleAssumption`: finitely many threads, which no client or free mutex is
taken for).  None of the properties is inductive.  `IInv` has a part for each
protocol.  `SpawnInv`: a thread that has not announced itself is the one the
owner of the spawner's mutex waits for, and a permit is for the thread named in
`instance`; all this until a spawner found no memory to wait with.  `MurderInv`: a murder holds the handle's spinlock from the flag to the
wake-up, so one thread has one murder, and no signal before the count is raised.
`HandleInv`: a handle is linked from its creation until its destruction begins;
whoever writes to it from the exit callback holds the mutex that cuts the link,
and a murderer's handle is linked with its task set.  `CountInv`: `closing_threads`
is exactly the number of threads that were signalled and have not seen it, or
whose murderer is between the two writes; this needs `MurderInv`, which says that
a thread is added once.  From them follow `TypeOK`, `TouchesOnlyLive`,
`HandleTellsDeath`, `PendingDeathSeen` and `SpawnGetsOwnThread`.  They are stated of
`Spec`, without fairness.

`DeferredExecutionProofs` (any jobs, callers and threads, threads sharing ids in
any way; assumption `EngineAssumption`: a job is made for some thread, and the
words for "no job", "free" and "nobody" name none).  `LinksSound` says that
handlers in use are alive and that they and their jobs point at each other.  A
completion takes its handler out of the list long before it tells the job, a
destruction and an exit cut links from the other side, and each is safe only
because of what the others hold at that moment.  `IInv` says what: the
critical section is held from the pop to the choice of what is next, and the
watcher while the result is delivered (`MutexInv`); a handler is in one list,
once, or being completed (`PlaceInv`); what is listed or being hit is linked, and
what is in its callback is not (`LinkInv`); a job stays while a caller is inside a
call on it, and the handler of one that is being scheduled is known to its caller
alone (`CallerInv`).

`DeferredExecutionOrderProofs` adds three invariants that are inductive with it.
`RoundInv`: a round has owners only when it is over, and, unless it was overrun,
nobody waits when it is over; a caller is in the queue
of the job it waits for.  From it follows, step by step, that the engine takes only
steps of TaskRound (`UsesRound`), until a completion that found no memory to sleep
with has overrun one.  `OrderInv`: a living thread that was not robbed (`Own`) has a
context above 0 only if that is the head of its list, one that was
saved is never a job, one still to be swapped in is the head or its own, and what it
completes is the job that ran (`OwnOrder`).  Of every thread, robbed or gone as well, it
says that it completes a job only from the stub (`StubRuns`), finds a state that is its
own (`StateFound`), whose list holds only jobs for it (`QueueOwned`), and so completes
none made for another (`HitOwned`): without the last a thread that was robbed could
answer for a job of one that was not.  From it follows
`RunsHead`.  `ExecInv`: a round that is over means that a handler of the job has run,
unless the thread it was for was robbed (`DoneRan`), and a caller expects a handler of
the job it waits for (`ExpectsOwn`); a job that was scheduled once has but one.  From
it follows `WaitExecuteMeansExecuted`.  None of them needs a hypothesis; finding 3 is
why the last excepts jobs that were scheduled again.

`UserSpaceProofs` (any files, threads, pids and symbols; assumptions
`FileAssumption`, `ThreadAssumption`, `SymbolAssumption` and `SpaceAssumption`:
finitely many files, one of them the registration file; a leader leads itself; the
words for nothing name nothing).  The three parts share no variable, so a step of
the whole is a step of each part or leaves it alone (`StepParts`), and each part
has an invariant of its own.

  - `FileInv`: as long as no file object failed to be allocated, whoever looks for
    an id has the mutex, and an id is nobody's from the search to the link and the
    file's alone afterwards; a device is there only while its stubs are; who finds a
    stub gone had the file open when it was freed.  The registration file comes
    first and finds every id free.  From it follows `FilesSound`.
  - `TrackInv`: no thread alive has a pid another has, or that of the leader of a
    group with somebody in it; one thread at a time registers a process, and the
    link is there from then on while the leader lives; a link whose maker
    registered its own process and lost no notice has its maker alive.  From it
    follows `TrackingSound`: start hooks run at most once, and once more only after
    the leader's exit was told.
  - `CallInv`: entries of the table stay where they are, so what was pulled stays
    true.  `TypeOK` also says that the length a process is told is a number.
    It is the value of a fold, a recursive function over finite sets; that it
    exists and is a number is proved without induction, by the least size at which
    it would not (`SumsExist`, `SumsAreNumbers`).
  - `OpenInv` ties the parts: who has the registration file open, and opened it
    with the callback set, has registered.  From it follows `OpenRegisters`.

TLC checks these invariants as well, on the instance of the run and on one with two
processes of two threads that share both pids.  The latter showed that what
`TrackingSound` says of exits has to name who had put the link at the time of the
exit, not the last who ever put it: `exited` now records this.

`MemoryDescriptorsProofs` (any descriptors in the process and in the kernel, of any
size, in an address space of any size, any entries and starts; assumptions
`TopAssumption` and `DescriptorAssumption`: finitely many descriptors, which the
words for the process and for nothing do not name; a start that can be mapped is
not so near the end of the address space that a zone would wrap around it; what is
inserted as an address is aligned, as the callers have it from the kernel).  It
begins with what the kernel's operations do to areas: what `find_vma` answers, and
that munmap, mprotect, the allowance and a new mapping leave areas that share no
page (`Sound`), give nothing to anybody (`Within`) and spare the process's own
(`OfApp`).  `UserCases` then takes the three locked steps of an insertion
apart into the seven ways they end in.  `DescriptorInv` is:

  - `OwnInv`: an area or a page of a descriptor lies in its zone, a page in an
    area, and its descriptor lives, or lingered, or munmap refused; but for a frame
    that strays.  This is what `TablesSound` needs: when a
    descriptor goes, `munmap` takes exactly its zone, so nothing of it remains unless
    it refuses, and
    a failed insertion or a process that unmaps half of it can only leave less.
    It is not inductive without `LifeInv` (a zone does not wrap unless it has an
    error for an address, and such a zone never gets past mprotect).
  - `StepInv`: after mprotect, the area has the protection that was asked for, or
    somebody touched it since.  From it follow `PanicNeedsMeddling`, that a page is
    injected only where the zone is, and that a frame strays only after somebody
    touched the area.
  - `MmCounted` itself, with the finite set of holders moved by one descriptor at
    a time, and a user of the mm that has work to do among its holders.
  - `KernelInv`: the two ways to the address behind an entry agree, page by page.
    For an address they do only because it is aligned (`KernelMapsPhys`).
  - `StaleOnlyLingering`: who lost its fault handler had lingered.

`AppAreasKept` is an action property: only a call on a descriptor changes its work
(`ActorCases`), each such call changes areas of its own as long as its zone is its own
(`InsertingApp`, `LivingApp`), and munmap of a zone that is covered by areas of its
own meets no other (`UnmapSpecialApp`).  TLC checks the parts of the invariant as
well, on the run's instance and on descriptors of three pages in five.

`LibraryServicesProofs` (any objects, pointers, entries, tasks, arrays, printers and
inputs).  Its assumptions stand with the constants they are about:

  - `PointerAssumption`, `EntryAssumption`, `ProcessAssumption`: finitely many
    pointers, file objects, tasks and process objects; the root is its own parent, a
    leader leads itself.
  - `PageAssumption`: whoever allocates asks for fewer pages than the length in the
    hidden entry can count, which is below 2^24.  Nothing in the code checks it, and a
    longer array would be freed in part.
  - `LogAssumption`: the words for nobody, for garbled text and for the end of a line
    are no printers, and the first log is never too many.
  - `ClockAssumption`, `NumbersAssumption`: days are natural numbers, waits are not of
    0 ms (which divides by zero), a path begins with a slash and is not the root, and
    zones are at most 15 hours, which is what the kernel accepts of `settimeofday`.

The services share no variable, and one of them acts in a behaviour, so `IInv` is
the invariants of all of them, each kept by its own steps and by those of the others.

  - `PointerInv`.  `OwnersKnown` is the strengthening of `OwnersCounted`: what
    something points to is shared, and what is not made yet has no owner.  Each call
    moves one pointer, so one element of the set of an object's holders (`Moved`,
    `NotMoved`), and the counter goes with it.  That a counter is never above the
    number of holders, even of an object that was copied by value (`Bounded`), is
    what `TypeOK` needs.
  - `FsInv`.  Only files have a file open, and only directories die (`Sane`).  With
    this every call, at whichever step it fails, replaces one object by another and
    changes the references by the difference (`BecomesStep`).
  - `ProcInv`.  The usage of a task is its objects and one of its own until the
    grace period after it was unlinked ends; users of its address space are the tasks that share it and the accesses
    under way; a leader outlasts its threads.
  - `PageInv`.  The blocks the kernel handed out are exactly those of the arrays, and
    no two arrays share one, whichever allocation was cut short.  That a block
    is large enough for its array is a fact about powers of two.
  - `LogInv`.  Who writes has the mutex, and only the end of its line is missing while
    it does; a printer that met nobody since it began still has its own text in the
    shared buffer (`MeetingsKnown`, `BuffersKept`).  From it follows that a garbled line
    had a second printer (`WriteWhole`).
  - `NumbersRight` is about one answer at a time, and each question is a lemma: ticks
    by the laws of division (`Division`), ranges by a sum that wraps at most once
    (`Wrapping`), the directory above a path by counting the names that begin after a
    slash, a zone by quotient and rest of its minutes.

TLC checks these invariants too, on the run's instance.

Every safety invariant a passing run checks is thus a theorem.  Only model-checked:
`TimedWaitReturns`, `EngineFreed` and `ExitTold`, because liveness under fairness is
beyond the prover, and `DatesFollow`.  Clock has the code's loops over years and
months as recursive functions; what those compute for every day is an induction
over data, which the prover cannot do, so TLC compares them with the calendar day
after day around the ends of years and centuries.

## 5. Not modelled, and why

Within modelled components: allocations whose failure is reported and changes
nothing (of a semaphore, a work queue, a thread's handle, a job or its handler, an
entry of a waiting owner, a descriptor).  Those that leave something behind are steps:
the worker's entry (`BeginWorkCannotSleep`, `TriggerCannotSleep`), the spawner's
(`SpawnCannotWait`), the states and lists
of the engine (`APC_AddPendingWorkFails`, `NtfyFindsNoThread`), the notice of an exit,
and those of files, page arrays, zones and file objects.  What happens after memory
that was freed is used is undefined; the model ends that path or takes the outcomes it
names.
`SpuriousWakeupOwners` returning with its mutex locked (its list cannot fail to be
counted); the width of counters; the id
of a dead OThread whose handle is kept; the stacks of a thread, beyond that making them
may fail, and the calling conventions of a
job; a later process that has the leader's id and finds an entry that was not freed;
two callers racing in `Schedule` of the same job, which is not locked and left to the caller;
the empty-list assertion of `PopCompletedTask` (a stop, not a step).

In the newer modules: trap handlers, `MapPhys` and `MapPage` of memory, and the
location of pages; the bytes copied by an access to a process's memory, and that
it pins one page too few where it crosses a page's end (`OProcesses.cpp:350`); a
wait of 0 ms, which divides by zero (`DateHelper.hpp:30`); contents, offsets and
names of files; names, flags and nice values of processes; a thread object's
`GetParent`, which answers with a pointer that nothing counts
(`OThreadImpl.cpp:66`).  The traversal visits the children of leaders only, as
the model does; whether children forked by other threads should be found is
said nowhere.

Components marked "not modelled" in section 1 make one call into the kernel per
operation and keep no state of their own between calls.

## 6. Plan

Done, in the order they were made: sleeping, semaphore and pool; work queue and
round (checked and proved); deferred execution on top of the round; threads
(checked and proved);
memory (checked and proved); pseudo files, tracking and delegated calls, with their composition (checked
and proved);
objects, files, processes, pages, log, dates and computations (checked, and all but
dates proved).

Next:

1. A second process in DeferredExecution: one that gets the id of a leader whose exit
   was not told, and what it finds in the engine.
2. An abstract specification of a descriptor (a map from indices to pages) and
   its refinement by the kernel's zones.
3. The id and the lists that `OThread` keeps of dead threads.
