------------------------------- MODULE PseudoFiles -------------------------------
(***************************************************************************)
(* Pseudo files: character devices a kernel module creates and processes   *)
(* open.  A file takes the smallest id nobody uses, under pfns_mutex;      *)
(* registers its device with five callbacks, each through a stub that      *)
(* knows the object; and may be deleted by its owner at any time, whoever  *)
(* has it open.                                                            *)
(*                                                                         *)
(* The owner of an object makes one call on it at a time, so how far the   *)
(* call has come is at[f].  Stubs, chains, device numbers and the mutex    *)
(* are external: an unlock of a mutex takes it from whoever holds it.      *)
(***************************************************************************)
EXTENDS Integers, FiniteSets

CONSTANTS
  Files,      \* file objects, each created once
  Tasks,      \* threads of processes, each with one file open at most
  Opens       \* bound on the files a task opens

ASSUME FileAssumption ==
  Opens \in Nat /\ IsFiniteSet(Files) /\ {"no file", "nobody"} \cap Files = {}

Ids == 0..(Cardinality(Files) - 1)
NoFile == "no file"
Nobody == "nobody"
Idle == "idle"

VARIABLES
  at,           \* the owner's call on a file, or what it left behind
  id,           \* char_dev_id; -1 before it has one
  links,        \* links[i]: the files that hold the handle of i's link; {} is no link
  stubbed,      \* ops and the five stubs exist
  device,       \* none, registered (the number), there (the node in /dev)
  callbacks,    \* which of open_cb and those of the other calls are set
  pfns,         \* who holds pfns_mutex
  opened,       \* the file a task has open
  running,      \* the call of a task into a file: open, call, or in the callback
  opens,        \* files each task has opened
  starved,      \* a file object could not be allocated (history)
  openWhenFreed,\* files somebody had open when their stubs went (history)
  fault

fileVars == <<at, id, links, stubbed, device, callbacks, pfns, opened, running, opens, starved,
              openWhenFreed, fault>>

FileTypeOK ==
  /\ at \in [Files -> {"none", "searching", "linking", "linked", "unlocked once", "out",
                       "numbered", "stubs", "major", "alive", "failed", "closing",
                       "unregistered", "freed stubs", "dead"}]
  /\ id \in [Files -> Ids \cup {-1}]
  /\ links \in [Ids -> SUBSET Files]
  /\ stubbed \in [Files -> BOOLEAN] /\ callbacks \in [Files -> SUBSET {"open", "call"}]
  /\ device \in [Files -> {"none", "registered", "there"}]
  /\ pfns \in Files \cup {Nobody}
  /\ opened \in [Tasks -> Files \cup {NoFile}]
  /\ running \in [Tasks -> {Idle, "open", "call", "callback"}]
  /\ opens \in [Tasks -> 0..Opens]
  /\ starved \in BOOLEAN /\ openWhenFreed \subseteq Files
  /\ fault \in {"no", "freed stub", "dead link", "no operations"}

FileInit ==
  /\ at = [f \in Files |-> "none"]
  /\ id = [f \in Files |-> -1]
  /\ links = [i \in Ids |-> {}]
  /\ stubbed = [f \in Files |-> FALSE]
  /\ device = [f \in Files |-> "none"]
  /\ callbacks = [f \in Files |-> {}]
  /\ pfns = Nobody
  /\ opened = [t \in Tasks |-> NoFile]
  /\ running = [t \in Tasks |-> Idle]
  /\ opens = [t \in Tasks |-> 0]
  /\ starved = FALSE
  /\ openWhenFreed = {}
  /\ fault = "no"

Go(f, from, to) == at[f] = from /\ at' = [at EXCEPT ![f] = to]

userVars == <<opened, running, opens>>

-----------------------------------------------------------------------------
(* CreateTempKernFile, its number: AllocateNewFileHandle_s.                *)

Lock(f) ==
  /\ pfns = Nobody /\ pfns' = f
  /\ Go(f, "none", "searching")
  /\ UNCHANGED <<id, links, stubbed, device, callbacks, userVars, starved, openWhenFreed, fault>>

NextFileIdCounted == {1 + Cardinality({i \in Ids : links[i] # {}})}   \* mutant: one past the count

NextFileId == {i \in Ids : links[i] = {} /\ \A j \in 0..(i - 1) : links[j] # {}}

(* An error of the chain: the file is given up.                            *)
GetNextFileId(f) ==
  /\ \/ \E i \in NextFileId :
          /\ Go(f, "searching", "linking")
          /\ id' = [id EXCEPT ![f] = i]
     \/ Go(f, "searching", "out") /\ UNCHANGED id
  /\ UNCHANGED <<links, stubbed, device, callbacks, pfns, userVars, starved, openWhenFreed, fault>>

(* A link that is there already is given to the second caller as well.  A  *)
(* file that cannot be allocated gives its link back and unlocks the mutex,*)
(* which its caller does once more.                                        *)
AllocateLink(f) ==
  /\ \/ /\ Go(f, "linking", "linked")
        /\ links' = [links EXCEPT ![id[f]] = @ \cup {f}]
        /\ UNCHANGED <<pfns, starved>>
     \/ /\ Go(f, "linking", "unlocked once")
        /\ links' = [links EXCEPT ![id[f]] = {}]
        /\ pfns' = Nobody
        /\ starved' = TRUE
     \/ Go(f, "linking", "out") /\ UNCHANGED <<links, pfns, starved>>
  /\ UNCHANGED <<id, stubbed, device, callbacks, userVars, openWhenFreed, fault>>

Unlock(f) ==
  /\ \/ Go(f, "linked", "numbered")
     \/ Go(f, "unlocked once", "dead")
     \/ Go(f, "out", "dead")
  /\ pfns' = Nobody
  /\ UNCHANGED <<id, links, stubbed, device, callbacks, userVars, starved, openWhenFreed, fault>>

-----------------------------------------------------------------------------
(* CreateCharDev.  Operations that could not be allocated are written to.  *)

AllocateStubs(f) ==
  /\ at[f] = "numbered"
  /\ \/ Go(f, "numbered", "stubs") /\ stubbed' = [stubbed EXCEPT ![f] = TRUE] /\ UNCHANGED fault
     \/ Go(f, "numbered", "failed") /\ stubbed' = [stubbed EXCEPT ![f] = TRUE] /\ UNCHANGED fault
     \/ fault' = "no operations" /\ UNCHANGED <<at, stubbed>>
  /\ UNCHANGED <<id, links, device, callbacks, pfns, userVars, starved, openWhenFreed>>

RegisterChrdev(f) ==
  /\ \/ Go(f, "stubs", "major") /\ device' = [device EXCEPT ![f] = "registered"]
     \/ Go(f, "stubs", "failed") /\ UNCHANGED device
  /\ UNCHANGED <<id, links, stubbed, callbacks, pfns, userVars, starved, openWhenFreed, fault>>

DeviceCreate(f) ==
  /\ \/ Go(f, "major", "alive") /\ device' = [device EXCEPT ![f] = "there"]
     \/ Go(f, "major", "failed") /\ UNCHANGED device
  /\ UNCHANGED <<id, links, stubbed, callbacks, pfns, userVars, starved, openWhenFreed, fault>>

(* OnOpen and the others: the file may be opened before it has them.       *)
SetCallbacks(f, set) ==
  /\ at[f] = "alive" /\ callbacks[f] = {}
  /\ callbacks' = [callbacks EXCEPT ![f] = set]
  /\ UNCHANGED <<at, id, links, stubbed, device, pfns, userVars, starved, openWhenFreed, fault>>

-----------------------------------------------------------------------------
(* Delete and Destroy: InvalidateImp, FreeCharDev and FreeFileHandle.      *)
(* What was never registered is asked away in vain.                        *)

Delete(f) ==
  /\ Go(f, "alive", "closing") \/ Go(f, "failed", "closing")
  /\ UNCHANGED <<id, links, stubbed, device, callbacks, pfns, userVars, starved, openWhenFreed,
                 fault>>

FreeCharDevKeepsDevice(f) ==       \* mutant: the device stays
  /\ Go(f, "closing", "unregistered")
  /\ UNCHANGED <<id, links, stubbed, device, callbacks, pfns, userVars, starved, openWhenFreed,
                 fault>>

FreeCharDev(f) ==
  /\ Go(f, "closing", "unregistered")
  /\ device' = [device EXCEPT ![f] = "none"]
  /\ UNCHANGED <<id, links, stubbed, callbacks, pfns, userVars, starved, openWhenFreed, fault>>

FreeStubs(f) ==
  /\ Go(f, "unregistered", "freed stubs")
  /\ stubbed' = [stubbed EXCEPT ![f] = FALSE]
  /\ openWhenFreed' = IF \E t \in Tasks : opened[t] = f THEN openWhenFreed \cup {f}
                                                        ELSE openWhenFreed
  /\ UNCHANGED <<id, links, device, callbacks, pfns, userVars, starved, fault>>

(* The link goes with the first of the files that share it.                *)
FreeFileHandle(f) ==
  /\ pfns = Nobody
  /\ Go(f, "freed stubs", "dead")
  /\ IF f \in links[id[f]]
       THEN links' = [links EXCEPT ![id[f]] = {}] /\ UNCHANGED fault
       ELSE fault' = "dead link" /\ UNCHANGED links
  /\ UNCHANGED <<id, stubbed, device, callbacks, pfns, userVars, starved, openWhenFreed>>

-----------------------------------------------------------------------------
(* Processes.  A task looks the node up and opens it; from then on its     *)
(* calls go through the stubs of the file.  The callback runs with the     *)
(* file object in its hand; what it does with it is its module's affair.   *)

Open(t, f) ==
  /\ device[f] = "there" /\ opened[t] = NoFile /\ opens[t] < Opens
  /\ opens' = [opens EXCEPT ![t] = @ + 1]
  /\ opened' = [opened EXCEPT ![t] = f]
  /\ running' = [running EXCEPT ![t] = "open"]
  /\ UNCHANGED <<at, id, links, stubbed, device, callbacks, pfns, starved, openWhenFreed, fault>>

fop_call(t) ==
  /\ opened[t] # NoFile /\ running[t] = Idle
  /\ running' = [running EXCEPT ![t] = "call"]
  /\ UNCHANGED <<at, id, links, stubbed, device, callbacks, pfns, opened, opens, starved,
                 openWhenFreed, fault>>

NoUserChange == UNCHANGED <<at, id, links, stubbed, device, callbacks, pfns, opens, starved,
                            openWhenFreed>>

(* fop_open, fop_read and fop_write look for a callback first, and answer  *)
(* without one where there is none, the latter two also where there is no  *)
(* memory for the bytes; fop_seek has none to ask.                         *)
EntersStub(t, op) ==
  LET f == opened[t] IN
  /\ running[t] = op
  /\ IF ~stubbed[f]
       THEN fault' = "freed stub" /\ UNCHANGED running
       ELSE /\ \/ op \in callbacks[f] /\ running' = [running EXCEPT ![t] = "callback"]
               \/ op \notin callbacks[f] \cap {"open"} /\ running' = [running EXCEPT ![t] = Idle]
            /\ UNCHANGED fault
  /\ UNCHANGED opened
  /\ NoUserChange

(* A callback of open that refuses leaves the file closed.                 *)
Returns(t, refused) ==
  /\ running[t] = "callback"
  /\ running' = [running EXCEPT ![t] = Idle]
  /\ opened' = IF refused THEN [opened EXCEPT ![t] = NoFile] ELSE opened
  /\ UNCHANGED fault
  /\ NoUserChange

(* fop_release and its callback, when the task closes the file.            *)
fop_release(t) ==
  LET f == opened[t] IN
  /\ f # NoFile /\ running[t] = Idle
  /\ IF ~stubbed[f]
       THEN fault' = "freed stub" /\ UNCHANGED opened
       ELSE opened' = [opened EXCEPT ![t] = NoFile] /\ UNCHANGED fault
  /\ UNCHANGED running
  /\ NoUserChange

-----------------------------------------------------------------------------
OwnerStep(f) ==
  \/ Lock(f) \/ GetNextFileId(f) \/ AllocateLink(f) \/ Unlock(f)
  \/ AllocateStubs(f) \/ RegisterChrdev(f) \/ DeviceCreate(f)
  \/ Delete(f) \/ FreeCharDev(f) \/ FreeStubs(f) \/ FreeFileHandle(f)

-----------------------------------------------------------------------------
(* Two files never have one id, and no handle is freed twice, unless a     *)
(* file object could not be allocated: only then is the mutex unlocked     *)
(* under somebody else (OPseudoFile.cpp:289, 311, 319).                    *)
Numbered(f) == at[f] \in {"numbered", "stubs", "major", "alive", "failed", "closing",
                          "unregistered", "freed stubs"}

IdsKept ==
  ~starved => /\ \A f, g \in Files : f # g /\ Numbered(f) /\ Numbered(g) => id[f] # id[g]
              /\ \A f \in Files : Numbered(f) => links[id[f]] = {f}
              /\ fault # "dead link"

(* A task runs into a freed stub only in a file it had open while the      *)
(* owner freed the stubs: nobody opens a file that is being taken down     *)
(* (OPseudoFile.cpp:361).                                                  *)
StubsGoAfterDevice ==
  /\ \A f \in Files : ~stubbed[f] => device[f] = "none"
  /\ fault = "freed stub" =>
       \E t \in Tasks : opened[t] \in openWhenFreed /\ ~stubbed[opened[t]]
=============================================================================
