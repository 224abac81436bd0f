------------------------------ MODULE UserSpaceProofs ------------------------------
(***************************************************************************)
(* The safety of UserSpace, for every number of files, threads, pids and   *)
(* symbols.  Its three parts share no variable: a step of the whole is a   *)
(* step of each part, or leaves the part alone (StepParts), so each part   *)
(* has an inductive invariant of its own (FileInv, TrackInv, CallInv), and *)
(* one more ties the registration file to the process it registers         *)
(* (OpenInv).                                                              *)
(***************************************************************************)
EXTENDS UserSpace, FiniteSetTheorems, WellFoundedInduction, TLAPS

-----------------------------------------------------------------------------
(* The three parts take turns: a step of the whole is a step of each part, *)
(* or leaves it alone.                                                     *)

FileNext ==
  /\ fault = "no"
  /\ \/ \E f \in Files : (f = RegistrationFile \/ Booted) /\ OwnerStep(f)
                           /\ at'[RegistrationFile] # "closing"
     \/ SetCallbacks(RegistrationFile, {"open"})
     \/ \E f \in Files \ {RegistrationFile} : SetCallbacks(f, {"open", "call"})
     \/ \E t \in Tasks :
          \/ \E f \in Files : Open(t, f)
          \/ fop_call(t) \/ EntersStub(t, "open") \/ EntersStub(t, "call")
          \/ fop_release(t) \/ \E refused \in BOOLEAN : Returns(t, refused)

TrackNext ==
  \/ \E t \in Threads :
       RegisterCurrent(t) \/ RegisterStep(t) \/ Fork(t) \/ Exit(t) \/ ProcessesExit(t)
  \/ HookStep

CallNext == (\E s \in Symbols : AddKernelSymbol(s)) \/ \E t \in Callers : CallStep(t)

(* What the whole does with its parts.                                     *)
LEMMA StepParts ==
  ASSUME [Next]_vars
  PROVE  /\ FileNext \/ UNCHANGED fileVars
         /\ TrackNext \/ UNCHANGED trackVars
         /\ CallNext \/ UNCHANGED callVars
<1> USE SpaceAssumption
<1>1. CASE FileStep /\ fault = "no"
  BY <1>1 DEF FileStep, FileNext
<1>2. CASE ModuleStep
  BY <1>2 DEF ModuleStep, HookStep, AddStartHook, RemoveStartHook, AddExitHook,
     RemoveExitHook, TrackNext, CallNext
<1>3. ASSUME NEW t \in Threads, fault = "no",
             OpenFile(t) \/ EnterOpen(t) \/ CallFile(t) \/ ReturnFromFile(t)
      PROVE  /\ FileNext /\ UNCHANGED callVars
             /\ RegisterCurrent(t) \/ UNCHANGED trackVars
  BY <1>3 DEF OpenFile, EnterOpen, CallFile, ReturnFromFile, FileNext
<1>4. ASSUME NEW t \in Threads, Registers(t) \/ SysCallHandler(t) \/ ThreadStep(t)
      PROVE  /\ UNCHANGED fileVars
             /\ TrackNext \/ UNCHANGED trackVars
             /\ CallNext \/ UNCHANGED callVars
  BY <1>4 DEF Registers, SysCallHandler, ThreadStep, TrackNext, CallNext
<1>5. CASE UNCHANGED vars
  BY <1>5 DEF vars
<1> QED
  BY <1>1, <1>2, <1>3, <1>4, <1>5 DEF Next, TrackNext

-----------------------------------------------------------------------------
(* Files.                                                                  *)

Searching == {"searching", "linking", "linked", "out"}
Unstubbed == {"none", "searching", "linking", "linked", "unlocked once", "out", "numbered",
              "freed stubs", "dead"}

(* Whoever looks for an id has the mutex.                                  *)
SearchInv ==
  ~starved => /\ \A f \in Files : at[f] \in Searching <=> pfns = f
              /\ \A f \in Files : at[f] # "unlocked once"

(* An id that was found is nobody's until its link is made, and then the   *)
(* file's alone.                                                           *)
IdInv ==
  /\ \A f \in Files : at[f] \in {"linking", "linked"} \/ Numbered(f) => id[f] \in Ids
  /\ ~starved => /\ \A f \in Files : at[f] = "linking" => links[id[f]] = {}
                 /\ \A f \in Files : at[f] = "linked" \/ Numbered(f) => links[id[f]] = {f}
                 /\ fault # "dead link"

(* A device is there only between the making of the stubs and their end;   *)
(* who finds the stubs gone had the file open then.                        *)
StubInv ==
  /\ \A f \in Files : stubbed[f] <=> at[f] \notin Unstubbed
  /\ \A f \in Files : device[f] # "none" => at[f] \in {"major", "alive", "failed", "closing"}
  /\ \A t \in Tasks : /\ running[t] # Idle => opened[t] # NoFile
                      /\ opened[t] # NoFile /\ ~stubbed[opened[t]] => opened[t] \in openWhenFreed
  /\ StubsGoAfterDevice

(* The registration file is alone until it has its callback.               *)
FirstInv ==
  /\ ~Booted => \A f \in Files : f # RegistrationFile => at[f] = "none"
  /\ Booted => at[RegistrationFile] = "alive"
  /\ at[RegistrationFile] \in {"none", "searching"} => \A i \in Ids : links[i] = {}
  /\ at[RegistrationFile] \in {"linking", "linked"} \/ Numbered(RegistrationFile)
       => id[RegistrationFile] = 0

FileInv == FileTypeOK /\ SearchInv /\ IdInv /\ StubInv /\ FirstInv

(* Names, and which ids are free.                                          *)
LEMMA FileFacts ==
  ASSUME FileTypeOK
  PROVE  /\ RegistrationFile \in Files /\ NoFile \notin Files /\ Nobody \notin Files
         /\ Ids \subseteq Int /\ -1 \notin Ids /\ Opens \in Nat
         /\ NextFileId \subseteq Ids
         /\ (\A i \in Ids : links[i] = {}) => NextFileId \subseteq {0}
         /\ \A i \in NextFileId : links[i] = {}
<1>1. Cardinality(Files) \in Nat
  BY FileAssumption, FS_CardinalityType
<1>2. Ids \subseteq Int /\ -1 \notin Ids /\ \A i \in Ids : i # 0 => i > 0 /\ 0 \in Ids
  BY <1>1 DEF Ids
<1>3. ASSUME \A i \in Ids : links[i] = {}, NEW i \in NextFileId, i # 0
      PROVE  FALSE
  <2>1. i \in Ids /\ i > 0 /\ 0 \in Ids
    BY <1>2, <1>3 DEF NextFileId
  <2>2. 0 \in 0..(i - 1)
    BY <1>2, <2>1
  <2>3. links[0] # {}
    BY <1>3, <2>2 DEF NextFileId
  <2> QED
    BY <1>3, <2>1, <2>3
<1> QED
  BY <1>2, <1>3, FileAssumption, SpaceAssumption DEF NoFile, Nobody, NextFileId

AtOK ==
  at \in [Files -> {"none", "searching", "linking", "linked", "unlocked once", "out",
                    "numbered", "stubs", "major", "alive", "failed", "closing",
                    "unregistered", "freed stubs", "dead"}]

IdOK == id \in [Files -> Ids \cup {-1}] /\ links \in [Ids -> SUBSET Files]

DeviceOK ==
  /\ stubbed \in [Files -> BOOLEAN] /\ callbacks \in [Files -> SUBSET {"open", "call"}]
  /\ device \in [Files -> {"none", "registered", "there"}]

TaskOK ==
  /\ opened \in [Tasks -> Files \cup {NoFile}]
  /\ running \in [Tasks -> {Idle, "open", "call", "callback"}]
  /\ opens \in [Tasks -> 0..Opens]

RestOK ==
  /\ pfns \in Files \cup {Nobody}
  /\ starved \in BOOLEAN /\ openWhenFreed \subseteq Files
  /\ fault \in {"no", "freed stub", "dead link", "no operations"}

LEMMA FileTypeParts == FileTypeOK <=> AtOK /\ IdOK /\ DeviceOK /\ TaskOK /\ RestOK
BY DEF FileTypeOK, AtOK, IdOK, DeviceOK, TaskOK, RestOK

(* An owner's step moves its own file.                                     *)
LEMMA AtStep ==
  ASSUME AtOK, NEW f \in Files, OwnerStep(f)
  PROVE  AtOK' /\ \A g \in Files : g # f => at'[g] = at[g]
<1>1. \/ at' = at
      \/ \E to \in {"searching", "linking", "linked", "unlocked once", "out", "numbered", "stubs",
                    "major", "alive", "failed", "closing", "unregistered", "freed stubs", "dead"} :
           at' = [at EXCEPT ![f] = to]
  BY DEF OwnerStep, Lock, GetNextFileId, AllocateLink, Unlock, AllocateStubs,
         RegisterChrdev, DeviceCreate, Delete, FreeCharDev, FreeStubs, FreeFileHandle, Go
<1> QED
  BY <1>1 DEF AtOK

LEMMA SearchStep ==
  ASSUME FileInv, FileNext
  PROVE  SearchInv'
<1>0. AtOK /\ RestOK /\ NoFile \notin Files /\ Nobody \notin Files
  BY FileTypeParts, FileFacts DEF FileInv
<1>1. ASSUME NEW f \in Files, OwnerStep(f)
      PROVE  SearchInv'
  BY <1>0, <1>1 DEF OwnerStep, Lock, GetNextFileId, AllocateLink, Unlock, AllocateStubs,
     RegisterChrdev, DeviceCreate, Delete, FreeCharDev, FreeStubs, FreeFileHandle, Go,
     FileInv, SearchInv, Searching, AtOK, RestOK
<1>2. ASSUME UNCHANGED <<at, pfns, starved>>
      PROVE  SearchInv'
  BY <1>2 DEF FileInv, SearchInv
<1> QED
  BY <1>1, <1>2 DEF FileNext, SetCallbacks, Open, fop_call, EntersStub, fop_release,
     Returns, NoUserChange

(* An id is given to a link that nobody has, as long as one file looks for *)
(* an id at a time.                                                        *)
LEMMA IdStep ==
  ASSUME FileInv, FileNext
  PROVE  IdInv'
<1>0. /\ AtOK /\ IdOK /\ RestOK /\ NoFile \notin Files /\ Nobody \notin Files
      /\ SearchInv /\ IdInv
      /\ NextFileId \subseteq Ids /\ \A i \in NextFileId : links[i] = {}
  BY FileTypeParts, FileFacts DEF FileInv
<1>1. ASSUME NEW f \in Files, Lock(f) \/ Unlock(f) \/ Delete(f)
      PROVE  IdInv'
  BY <1>0, <1>1 DEF Lock, Unlock, Delete, Go, AtOK, IdInv, SearchInv, Numbered
<1>2. ASSUME NEW f \in Files, GetNextFileId(f)
      PROVE  IdInv'
  <2>1. links' = links /\ starved' = starved /\ fault' = fault
    BY <1>2 DEF GetNextFileId
  <2>2. CASE Go(f, "searching", "out") /\ UNCHANGED id
    BY <1>0, <2>1, <2>2 DEF Go, AtOK, IdInv, Numbered
  <2>3. ASSUME NEW i \in NextFileId, Go(f, "searching", "linking"), id' = [id EXCEPT ![f] = i]
        PROVE  IdInv'
    <3>1. i \in Ids /\ links[i] = {}
      BY <1>0, <2>3
    <3>2. /\ at'[f] = "linking" /\ id'[f] = i
          /\ \A g \in Files : g # f => at'[g] = at[g] /\ id'[g] = id[g]
      BY <1>0, <2>3 DEF Go, AtOK, IdOK
    <3> QED
      BY <1>0, <2>1, <3>1, <3>2 DEF IdInv, Numbered
  <2> QED
    BY <1>2, <2>2, <2>3 DEF GetNextFileId
<1>3. ASSUME NEW f \in Files, AllocateLink(f)
      PROVE  IdInv'
  <2>1. id' = id /\ fault' = fault /\ at[f] = "linking" /\ id[f] \in Ids
    BY <1>0, <1>3 DEF AllocateLink, Go, IdInv
  <2>2. CASE Go(f, "linking", "out") /\ UNCHANGED <<links, pfns, starved>>
    BY <1>0, <2>1, <2>2 DEF Go, AtOK, IdInv, Numbered
  <2>3. CASE Go(f, "linking", "unlocked once") /\ starved'
    BY <1>0, <2>1, <2>3 DEF Go, AtOK, IdInv, Numbered
  <2>4. ASSUME Go(f, "linking", "linked"), starved' = starved,
               links' = [links EXCEPT ![id[f]] = @ \cup {f}]
        PROVE  IdInv'
    <3>1. /\ at'[f] = "linked" /\ \A g \in Files : g # f => at'[g] = at[g]
          /\ links'[id[f]] = links[id[f]] \cup {f}
          /\ \A i \in Ids : i # id[f] => links'[i] = links[i]
      BY <1>0, <2>1, <2>4 DEF Go, AtOK, IdOK
    <3>2. CASE starved
      BY <1>0, <2>1, <2>4, <3>1, <3>2 DEF IdInv, Numbered
    <3>3. CASE ~starved
      <4>1. links[id[f]] = {} /\ links'[id[f]] = {f}
        BY <1>0, <2>1, <3>1, <3>3 DEF IdInv
      <4>2. \A g \in Files : g # f => at[g] \notin {"linking", "linked"}
        BY <1>0, <2>1, <3>3 DEF SearchInv, Searching
      <4>3. \A g \in Files : Numbered(g) => id[g] \in Ids /\ links[id[g]] = {g} /\ id[g] # id[f]
        <5> SUFFICES ASSUME NEW g \in Files, Numbered(g)
                     PROVE  id[g] \in Ids /\ links[id[g]] = {g} /\ id[g] # id[f]
          OBVIOUS
        <5>1. id[g] \in Ids /\ links[id[g]] = {g}
          BY <1>0, <3>3 DEF IdInv
        <5> QED
          BY <4>1, <5>1
      <4>4. \A g \in Files : at'[g] = "linked" \/ Numbered(g)' => links'[id[g]] = {g} /\ id[g] \in Ids
        BY <2>1, <3>1, <4>1, <4>2, <4>3 DEF Numbered
      <4>5. \A g \in Files : at'[g] # "linking"
        BY <2>1, <3>1, <4>2
      <4> QED
        BY <1>0, <2>1, <2>4, <3>3, <4>4, <4>5 DEF IdInv
    <3> QED
      BY <3>2, <3>3
  <2> QED
    BY <1>3, <2>2, <2>3, <2>4 DEF AllocateLink
<1>4. ASSUME NEW f \in Files, FreeFileHandle(f)
      PROVE  IdInv'
  <2>1. id' = id /\ starved' = starved /\ pfns = Nobody /\ Numbered(f) /\ id[f] \in Ids
    BY <1>0, <1>4 DEF FreeFileHandle, Go, IdInv, Numbered
  <2>2. at'[f] = "dead" /\ \A g \in Files : g # f => at'[g] = at[g]
    BY <1>0, <1>4 DEF FreeFileHandle, Go, AtOK
  <2>3. CASE starved
    BY <1>0, <2>1, <2>2, <2>3 DEF IdInv, Numbered
  <2>4. CASE ~starved
    <3>1. links[id[f]] = {f} /\ fault # "dead link"
      BY <1>0, <2>1, <2>4 DEF IdInv
    <3>2. fault' = fault /\ links' = [links EXCEPT ![id[f]] = {}]
      BY <1>4, <3>1 DEF FreeFileHandle
    <3>3. ASSUME NEW g \in Files, g # f, Numbered(g)
          PROVE  id[g] \in Ids /\ links[id[g]] = {g} /\ id[g] # id[f]
      <4>1. id[g] \in Ids /\ links[id[g]] = {g}
        BY <1>0, <2>4, <3>3 DEF IdInv
      <4> QED
        BY <3>1, <3>3, <4>1
    <3>4. \A g \in Files : at[g] \notin Searching
      BY <1>0, <2>1, <2>4 DEF SearchInv
    <3>5. \A i \in Ids : i # id[f] => links'[i] = links[i]
      BY <1>0, <3>2 DEF IdOK
    <3>6. ASSUME NEW g \in Files, Numbered(g)'
          PROVE  id[g] \in Ids /\ links'[id[g]] = {g}
      <4>1. g # f /\ Numbered(g)
        BY <2>2, <3>6 DEF Numbered
      <4> QED
        BY <3>3, <3>5, <4>1
    <3>7. \A g \in Files : at'[g] \notin {"linking", "linked"}
      BY <2>2, <3>4 DEF Searching
    <3> QED
      BY <2>1, <2>4, <3>1, <3>2, <3>6, <3>7 DEF IdInv
  <2> QED
    BY <2>3, <2>4
<1>5. ASSUME NEW f \in Files,
             \/ AllocateStubs(f) \/ RegisterChrdev(f) \/ DeviceCreate(f) \/ FreeCharDev(f)
             \/ FreeStubs(f)
      PROVE  IdInv'
  BY <1>0, <1>5 DEF AllocateStubs, RegisterChrdev, DeviceCreate, FreeCharDev, FreeStubs, Go, AtOK,
     IdInv, Numbered
<1>6. ASSUME UNCHANGED <<at, id, links, starved>>, fault # "dead link" => fault' # "dead link"
      PROVE  IdInv'
  BY <1>0, <1>6 DEF IdInv, Numbered
<1> QED
  BY <1>1, <1>2, <1>3, <1>4, <1>5, <1>6 DEF FileNext, OwnerStep, SetCallbacks, Open, fop_call,
     EntersStub, fop_release, Returns, NoUserChange

LEMMA FileTypeStep ==
  ASSUME FileInv, FileNext
  PROVE  FileTypeOK'
<1>0. /\ AtOK /\ IdOK /\ DeviceOK /\ TaskOK /\ RestOK /\ IdInv /\ Opens \in Nat
      /\ NextFileId \subseteq Ids
  BY FileTypeParts, FileFacts DEF FileInv
<1>1. ASSUME NEW f \in Files, OwnerStep(f)
      PROVE  FileTypeOK'
  <2>1. AtOK'
    BY <1>0, <1>1, AtStep
  <2>2. IdOK'
    <3>1. id' = id \/ \E i \in Ids : id' = [id EXCEPT ![f] = i]
      BY <1>0, <1>1 DEF OwnerStep, Lock, GetNextFileId, AllocateLink, Unlock, AllocateStubs,
         RegisterChrdev, DeviceCreate, Delete, FreeCharDev, FreeStubs, FreeFileHandle
    <3>2. \/ links' = links
          \/ /\ id[f] \in Ids
             /\ \E set \in {links[id[f]] \cup {f}, {}} : links' = [links EXCEPT ![id[f]] = set]
      BY <1>0, <1>1 DEF OwnerStep, Lock, GetNextFileId, AllocateLink, Unlock, AllocateStubs,
         RegisterChrdev, DeviceCreate, Delete, FreeCharDev, FreeStubs, FreeFileHandle, Go,
         IdInv, Numbered
    <3>3. id[f] \in Ids => links[id[f]] \cup {f} \in SUBSET Files
      BY <1>0 DEF IdOK
    <3>4. links' \in [Ids -> SUBSET Files]
      BY <1>0, <3>2, <3>3 DEF IdOK
    <3> QED
      BY <1>0, <3>1, <3>4 DEF IdOK
  <2>3. DeviceOK'
    <3>1. /\ callbacks' = callbacks
          /\ stubbed' = stubbed \/ \E b \in BOOLEAN : stubbed' = [stubbed EXCEPT ![f] = b]
          /\ \/ device' = device
             \/ \E d \in {"none", "registered", "there"} : device' = [device EXCEPT ![f] = d]
      BY <1>1 DEF OwnerStep, Lock, GetNextFileId, AllocateLink, Unlock, AllocateStubs,
         RegisterChrdev, DeviceCreate, Delete, FreeCharDev, FreeStubs, FreeFileHandle
    <3> QED
      BY <1>0, <3>1 DEF DeviceOK
  <2>4. TaskOK'
    BY <1>0, <1>1 DEF TaskOK, userVars, OwnerStep, Lock, GetNextFileId, AllocateLink, Unlock,
       AllocateStubs, RegisterChrdev, DeviceCreate, Delete, FreeCharDev, FreeStubs, FreeFileHandle
  <2>5. RestOK'
    BY <1>0, <1>1 DEF RestOK, OwnerStep, Lock, GetNextFileId, AllocateLink, Unlock, AllocateStubs,
       RegisterChrdev, DeviceCreate, Delete, FreeCharDev, FreeStubs, FreeFileHandle
  <2> QED
    BY <2>1, <2>2, <2>3, <2>4, <2>5 DEF FileTypeOK, AtOK, IdOK, DeviceOK, TaskOK, RestOK
<1>2. ASSUME NEW f \in Files, NEW set \in SUBSET {"open", "call"}, SetCallbacks(f, set)
      PROVE  FileTypeOK'
  <2>1. callbacks' \in [Files -> SUBSET {"open", "call"}]
    BY <1>0, <1>2 DEF SetCallbacks, DeviceOK
  <2>2. AtOK' /\ IdOK' /\ DeviceOK' /\ TaskOK' /\ RestOK'
    BY <1>0, <1>2, <2>1 DEF SetCallbacks, AtOK, IdOK, DeviceOK, TaskOK, RestOK, userVars
  <2> QED
    BY <2>2 DEF FileTypeOK, AtOK, IdOK, DeviceOK, TaskOK, RestOK
<1>3. ASSUME NEW t \in Tasks,
             \/ \E f \in Files : Open(t, f)
             \/ fop_call(t) \/ EntersStub(t, "open") \/ EntersStub(t, "call") \/ fop_release(t)
             \/ \E refused \in BOOLEAN : Returns(t, refused)
      PROVE  FileTypeOK'
  <2>1. UNCHANGED <<at, id, links, stubbed, device, callbacks, pfns, starved, openWhenFreed>>
    BY <1>3 DEF Open, fop_call, EntersStub, fop_release, Returns, NoUserChange
  <2>2. /\ opened' = opened \/ \E f \in Files \cup {NoFile} : opened' = [opened EXCEPT ![t] = f]
        /\ \/ running' = running
           \/ \E r \in {Idle, "open", "call", "callback"} : running' = [running EXCEPT ![t] = r]
        /\ fault' = fault \/ fault' = "freed stub"
    <3>1. CASE \E f \in Files : Open(t, f)
      BY <3>1 DEF Open
    <3>2. CASE fop_call(t) \/ fop_release(t)
      BY <3>2 DEF fop_call, fop_release, NoUserChange
    <3>3. CASE EntersStub(t, "open") \/ EntersStub(t, "call")
      BY <3>3 DEF EntersStub, NoUserChange
    <3>4. CASE \E refused \in BOOLEAN : Returns(t, refused)
      BY <3>4 DEF Returns, NoUserChange
    <3> QED
      BY <1>3, <3>1, <3>2, <3>3, <3>4
  <2>3. opens' \in [Tasks -> 0..Opens]
    <3>1. ASSUME NEW f \in Files, Open(t, f)
          PROVE  opens' \in [Tasks -> 0..Opens]
      <4>1. opens[t] < Opens /\ opens[t] \in 0..Opens /\ opens' = [opens EXCEPT ![t] = @ + 1]
        BY <1>0, <3>1 DEF Open, TaskOK
      <4>2. opens[t] + 1 \in 0..Opens
        BY <1>0, <4>1
      <4> QED
        BY <1>0, <4>1, <4>2 DEF TaskOK
    <3>2. NoUserChange \/ fop_call(t) => opens' = opens
      BY DEF NoUserChange, fop_call
    <3>3. ASSUME NEW op, EntersStub(t, op)
          PROVE  NoUserChange
      BY <3>3 DEF EntersStub
    <3>4. ASSUME NEW refused, Returns(t, refused)
          PROVE  NoUserChange
      BY <3>4 DEF Returns
    <3>5. fop_release(t) => NoUserChange
      BY DEF fop_release
    <3>6. opens' = opens \/ \E f \in Files : Open(t, f)
      BY <1>3, <3>2, <3>3, <3>4, <3>5
    <3> QED
      BY <1>0, <3>1, <3>6 DEF TaskOK
  <2>5. TaskOK'
    BY <1>0, <2>2, <2>3 DEF TaskOK
  <2>6. AtOK' /\ IdOK' /\ DeviceOK' /\ RestOK'
    BY <1>0, <2>1, <2>2 DEF AtOK, IdOK, DeviceOK, RestOK
  <2> QED
    BY <2>5, <2>6 DEF FileTypeOK, AtOK, IdOK, DeviceOK, TaskOK, RestOK
<1> QED
  BY <1>1, <1>2, <1>3, SpaceAssumption DEF FileNext

(* Stubs go when the device has gone, and never while a file is opened.    *)
LEMMA StubStep ==
  ASSUME FileInv, FileNext
  PROVE  StubInv'
<1>0. /\ AtOK /\ DeviceOK /\ TaskOK /\ StubInv /\ fault = "no"
      /\ NoFile \notin Files /\ openWhenFreed \subseteq Files
  BY FileTypeParts, FileFacts DEF FileInv, FileNext, RestOK
<1>1. ASSUME NEW f \in Files,
             \/ Lock(f) \/ GetNextFileId(f) \/ AllocateLink(f) \/ Unlock(f) \/ Delete(f)
             \/ FreeFileHandle(f)
      PROVE  StubInv'
  <2>1. /\ UNCHANGED <<stubbed, device, opened, running, openWhenFreed>>
        /\ fault' # "freed stub"
    BY <1>0, <1>1 DEF Lock, GetNextFileId, AllocateLink, Unlock, Delete, FreeFileHandle, userVars
  <2>2. \A g \in Files : g # f => at'[g] = at[g]
    BY <1>0, <1>1, AtStep DEF OwnerStep
  <2>3. /\ at[f] \in Unstubbed <=> at'[f] \in Unstubbed
        /\ at[f] \notin Unstubbed => at'[f] = "closing"
    BY <1>0, <1>1 DEF Lock, GetNextFileId, AllocateLink, Unlock, Delete, FreeFileHandle, Go, AtOK,
       Unstubbed
  <2>4. \A g \in Files : /\ at[g] \in Unstubbed <=> at'[g] \in Unstubbed
                         /\ device[g] # "none" => at'[g] \in {"major", "alive", "failed", "closing"}
    BY <1>0, <2>2, <2>3 DEF StubInv, Unstubbed
  <2> QED
    BY <1>0, <2>1, <2>4 DEF StubInv, StubsGoAfterDevice
<1>2. ASSUME NEW f \in Files,
             AllocateStubs(f) \/ RegisterChrdev(f) \/ DeviceCreate(f) \/ FreeCharDev(f)
      PROVE  StubInv'
  <2>1. UNCHANGED <<opened, running, openWhenFreed>> /\ fault' # "freed stub"
    BY <1>0, <1>2 DEF AllocateStubs, RegisterChrdev, DeviceCreate, FreeCharDev, userVars
  <2>2. \A g \in Files \ {f} : at'[g] = at[g] /\ stubbed'[g] = stubbed[g] /\ device'[g] = device[g]
    BY <1>0, <1>2 DEF AllocateStubs, RegisterChrdev, DeviceCreate, FreeCharDev, Go, AtOK, DeviceOK
  <2>3. /\ stubbed'[f] <=> at'[f] \notin Unstubbed
        /\ device'[f] # "none" => at'[f] \in {"major", "alive", "failed", "closing"}
        /\ ~stubbed'[f] => ~stubbed[f] /\ device'[f] = "none"
    <3>1. CASE AllocateStubs(f)
      BY <1>0, <3>1 DEF AllocateStubs, Go, AtOK, DeviceOK, StubInv, Unstubbed
    <3>2. CASE RegisterChrdev(f)
      BY <1>0, <3>2 DEF RegisterChrdev, Go, AtOK, DeviceOK, StubInv, Unstubbed
    <3>3. CASE DeviceCreate(f)
      BY <1>0, <3>3 DEF DeviceCreate, Go, AtOK, DeviceOK, StubInv, Unstubbed
    <3>4. CASE FreeCharDev(f)
      BY <1>0, <3>4 DEF FreeCharDev, Go, AtOK, DeviceOK, StubInv, Unstubbed
    <3> QED
      BY <1>2, <3>1, <3>2, <3>3, <3>4
  <2>4. \A g \in Files : /\ stubbed'[g] <=> at'[g] \notin Unstubbed
                         /\ device'[g] # "none" => at'[g] \in {"major", "alive", "failed", "closing"}
                         /\ ~stubbed'[g] => ~stubbed[g] /\ device'[g] = "none"
    <3> SUFFICES ASSUME NEW g \in Files
                 PROVE  /\ stubbed'[g] <=> at'[g] \notin Unstubbed
                        /\ device'[g] # "none" => at'[g] \in {"major", "alive", "failed", "closing"}
                        /\ ~stubbed'[g] => ~stubbed[g] /\ device'[g] = "none"
      OBVIOUS
    <3> QED
      BY <1>0, <2>2, <2>3 DEF StubInv, StubsGoAfterDevice
  <2>5. \A t \in Tasks : opened[t] # NoFile => opened[t] \in Files
    BY <1>0 DEF TaskOK
  <2> QED
    BY <1>0, <2>1, <2>4, <2>5 DEF StubInv, StubsGoAfterDevice
<1>3. ASSUME NEW f \in Files, FreeStubs(f)
      PROVE  StubInv'
  <2>1. UNCHANGED <<device, opened, running, fault>>
    BY <1>3 DEF FreeStubs, userVars
  <2>2. /\ at[f] = "unregistered" /\ at'[f] = "freed stubs" /\ ~stubbed'[f]
        /\ \A g \in Files \ {f} : at'[g] = at[g] /\ stubbed'[g] = stubbed[g]
        /\ openWhenFreed \subseteq openWhenFreed'
        /\ \A t \in Tasks : opened[t] = f => f \in openWhenFreed'
    BY <1>0, <1>3 DEF FreeStubs, Go, AtOK, DeviceOK
  <2>3. device[f] = "none"
    BY <1>0, <2>2 DEF StubInv
  <2>4. \A g \in Files : /\ stubbed'[g] <=> at'[g] \notin Unstubbed
                         /\ device[g] # "none" => at'[g] \in {"major", "alive", "failed", "closing"}
                         /\ ~stubbed'[g] => device[g] = "none"
    BY <1>0, <2>2, <2>3 DEF StubInv, StubsGoAfterDevice, Unstubbed
  <2>5. \A t \in Tasks : opened[t] # NoFile /\ ~stubbed'[opened[t]] => opened[t] \in openWhenFreed'
    <3> SUFFICES ASSUME NEW t \in Tasks, opened[t] # NoFile, opened[t] # f, ~stubbed'[opened[t]]
                 PROVE  opened[t] \in openWhenFreed'
      BY <2>2
    <3>1. opened[t] \in Files \ {f}
      BY <1>0 DEF TaskOK
    <3>2. ~stubbed[opened[t]]
      BY <2>2, <3>1
    <3> QED
      BY <1>0, <2>2, <3>2 DEF StubInv
  <2> QED
    BY <1>0, <2>1, <2>4, <2>5 DEF StubInv, StubsGoAfterDevice
<1>4. ASSUME NEW t \in Tasks, NEW f \in Files, Open(t, f)
      PROVE  StubInv'
  <2>1. stubbed[f]
    BY <1>0, <1>4 DEF Open, StubInv, StubsGoAfterDevice
  <2>2. /\ opened'[t] = f /\ \A u \in Tasks \ {t} : opened'[u] = opened[u] /\ running'[u] = running[u]
        /\ UNCHANGED <<at, stubbed, device, openWhenFreed, fault>>
    BY <1>0, <1>4 DEF Open, TaskOK
  <2> QED
    BY <1>0, <2>1, <2>2 DEF StubInv, StubsGoAfterDevice
<1>5. ASSUME NEW t \in Tasks, EntersStub(t, "open") \/ EntersStub(t, "call")
      PROVE  StubInv'
  <2>1. /\ UNCHANGED <<at, stubbed, device, openWhenFreed, opened>>
        /\ running[t] # Idle /\ \A u \in Tasks \ {t} : running'[u] = running[u]
        /\ fault' = "freed stub" => ~stubbed[opened[t]]
    BY <1>0, <1>5 DEF EntersStub, NoUserChange, TaskOK, Idle
  <2> QED
    BY <1>0, <2>1 DEF StubInv, StubsGoAfterDevice
<1>6. ASSUME NEW t \in Tasks,
             fop_call(t) \/ fop_release(t) \/ \E refused \in BOOLEAN : Returns(t, refused)
      PROVE  StubInv'
  <2>1. /\ UNCHANGED <<at, stubbed, device, openWhenFreed>>
        /\ \A u \in Tasks \ {t} : running'[u] = running[u] /\ opened'[u] = opened[u]
    BY <1>0, <1>6 DEF fop_call, fop_release, Returns, NoUserChange, TaskOK
  <2>2. /\ running'[t] # Idle => opened'[t] # NoFile
        /\ opened'[t] \in {opened[t], NoFile}
        /\ fault' = "freed stub" => opened[t] # NoFile /\ ~stubbed[opened[t]] /\ opened' = opened
    BY <1>0, <1>6 DEF fop_call, fop_release, Returns, NoUserChange, TaskOK, Idle
  <2> QED
    BY <1>0, <2>1, <2>2 DEF StubInv, StubsGoAfterDevice
<1>7. ASSUME UNCHANGED <<at, stubbed, device, opened, running, openWhenFreed, fault>>
      PROVE  StubInv'
  BY <1>0, <1>7 DEF StubInv, StubsGoAfterDevice
<1>8. ASSUME NEW f \in Files, NEW set, SetCallbacks(f, set)
      PROVE  UNCHANGED <<at, stubbed, device, opened, running, openWhenFreed, fault>>
  BY <1>8 DEF SetCallbacks, userVars
<1> QED
  BY <1>1, <1>2, <1>3, <1>4, <1>5, <1>6, <1>7, <1>8, SpaceAssumption DEF FileNext, OwnerStep

(* Until the registration file has its callback it is alone, and after     *)
(* that it stays alive: so it finds no link, and takes the id zero.        *)
LEMMA FirstStep ==
  ASSUME FileInv, FileNext
  PROVE  FirstInv'
<1>0. /\ AtOK /\ IdOK /\ FirstInv /\ callbacks \in [Files -> SUBSET {"open", "call"}]
      /\ RegistrationFile \in Files /\ fault = "no"
      /\ (\A i \in Ids : links[i] = {}) => NextFileId \subseteq {0}
  BY FileTypeParts, FileFacts DEF FileInv, FileNext, DeviceOK
<1>1. ASSUME NEW f \in Files, OwnerStep(f), f = RegistrationFile \/ Booted,
             at'[RegistrationFile] # "closing"
      PROVE  FirstInv'
  <2>1. callbacks' = callbacks
    BY <1>1 DEF OwnerStep, Lock, GetNextFileId, AllocateLink, Unlock, AllocateStubs,
       RegisterChrdev, DeviceCreate, Delete, FreeCharDev, FreeStubs, FreeFileHandle
  <2>2. \A g \in Files : g # f => at'[g] = at[g]
    BY <1>0, <1>1, AtStep
  <2>3. CASE f # RegistrationFile
    <3>1. id' = id \/ \E i : id' = [id EXCEPT ![f] = i]
      BY <1>1 DEF OwnerStep, Lock, GetNextFileId, AllocateLink, Unlock, AllocateStubs,
         RegisterChrdev, DeviceCreate, Delete, FreeCharDev, FreeStubs, FreeFileHandle
    <3>2. /\ Booted /\ at'[RegistrationFile] = at[RegistrationFile]
          /\ id'[RegistrationFile] = id[RegistrationFile]
      BY <1>0, <1>1, <2>2, <2>3, <3>1 DEF IdOK
    <3> QED
      BY <1>0, <2>1, <3>2 DEF FirstInv, Booted, Numbered
  <2>4. CASE f = RegistrationFile
    <3>1. CASE at[f] = "alive"
      <4>1. Delete(f)
        BY <1>1, <3>1 DEF OwnerStep, Lock, GetNextFileId, AllocateLink, Unlock, AllocateStubs,
           RegisterChrdev, DeviceCreate, FreeCharDev, FreeStubs, FreeFileHandle, Go
      <4> QED
        BY <1>0, <1>1, <2>4, <4>1 DEF Delete, Go, AtOK
    <3>2. CASE at[f] # "alive"
      <4>1. ~Booted
        BY <1>0, <2>4, <3>2 DEF FirstInv
      <4>2. CASE Lock(f) \/ AllocateLink(f) \/ Unlock(f) \/ Delete(f) \/ FreeFileHandle(f)
        BY <1>0, <2>1, <2>2, <2>4, <4>1, <4>2 DEF Lock, AllocateLink, Unlock, Delete,
           FreeFileHandle, Go, AtOK, FirstInv, Booted, Numbered
      <4>3. CASE AllocateStubs(f) \/ RegisterChrdev(f) \/ DeviceCreate(f) \/ FreeCharDev(f)
                 \/ FreeStubs(f)
        BY <1>0, <2>1, <2>2, <2>4, <4>1, <4>3 DEF AllocateStubs, RegisterChrdev, DeviceCreate,
           FreeCharDev, FreeStubs, Go, AtOK, FirstInv, Booted, Numbered
      <4>4. CASE GetNextFileId(f)
        <5>1. links' = links /\ at[f] = "searching" /\ at'[f] \in {"linking", "out"}
          BY <1>0, <4>4 DEF GetNextFileId, Go, AtOK
        <5>2. NextFileId \subseteq {0}
          BY <1>0, <2>4, <5>1 DEF FirstInv
        <5>3. at'[f] = "linking" => id'[f] = 0
          BY <1>0, <4>4, <5>2 DEF GetNextFileId, Go, AtOK, IdOK
        <5> QED
          BY <1>0, <2>1, <2>2, <2>4, <4>1, <5>1, <5>3 DEF FirstInv, Booted, Numbered
      <4> QED
        BY <1>1, <4>2, <4>3, <4>4 DEF OwnerStep
    <3> QED
      BY <3>1, <3>2
  <2> QED
    BY <2>3, <2>4
<1>2. ASSUME NEW f \in Files, NEW set \in SUBSET {"open", "call"}, SetCallbacks(f, set), set # {},
             f # RegistrationFile \/ at[RegistrationFile] = "alive"
      PROVE  FirstInv'
  <2>1. /\ UNCHANGED <<at, id, links>> /\ at[f] = "alive"
        /\ callbacks'[f] = set /\ \A g \in Files \ {f} : callbacks'[g] = callbacks[g]
    BY <1>0, <1>2 DEF SetCallbacks
  <2>2. Booted' <=> Booted \/ f = RegistrationFile
    BY <1>0, <1>2, <2>1 DEF Booted
  <2> QED
    BY <1>0, <2>1, <2>2 DEF FirstInv, Numbered
<1>3. ASSUME UNCHANGED <<at, id, links, callbacks>>
      PROVE  FirstInv'
  BY <1>0, <1>3 DEF FirstInv, Booted, Numbered
<1>4. ASSUME \/ \E t \in Tasks, f \in Files : Open(t, f)
             \/ \E t \in Tasks : fop_call(t)
             \/ NoUserChange
      PROVE  UNCHANGED <<at, id, links, callbacks>>
  BY <1>4 DEF Open, fop_call, NoUserChange
<1>5. SetCallbacks(RegistrationFile, {"open"}) => at[RegistrationFile] = "alive"
  BY DEF SetCallbacks
<1> QED
  BY <1>0, <1>1, <1>2, <1>3, <1>4, <1>5 DEF FileNext, EntersStub, fop_release, Returns

LEMMA FileStart == FileInit => FileInv
<1> SUFFICES ASSUME FileInit PROVE FileInv
  OBVIOUS
<1>1. FileTypeOK
  <2>1. AtOK /\ IdOK /\ DeviceOK
    BY DEF FileInit, AtOK, IdOK, DeviceOK
  <2>2. TaskOK /\ RestOK
    <3>1. 0 \in 0..Opens
      <4>1. Opens \in Nat
        BY FileAssumption
      <4> QED
        BY <4>1
    <3> QED
      BY <3>1 DEF FileInit, TaskOK, RestOK
  <2> QED
    BY <2>1, <2>2, FileTypeParts
<1> QED
  BY <1>1, FileFacts DEF FileInit, FileInv, SearchInv, Searching, IdInv, StubInv,
     StubsGoAfterDevice, Unstubbed, FirstInv, Booted, Numbered, Idle

LEMMA FileInvStep == FileInv /\ (FileNext \/ UNCHANGED fileVars) => FileInv'
<1>1. FileInv /\ FileNext => FileInv'
  BY FileTypeStep, SearchStep, IdStep, StubStep, FirstStep DEF FileInv
<1>2. ASSUME FileInv, UNCHANGED fileVars
      PROVE  FileInv'
  <2>1. FileTypeOK'
    BY <1>2 DEF FileInv, fileVars, FileTypeOK
  <2>2. SearchInv' /\ IdInv'
    BY <1>2 DEF FileInv, fileVars, SearchInv, IdInv, Numbered
  <2>3. StubInv'
    BY <1>2 DEF FileInv, fileVars, StubInv, StubsGoAfterDevice
  <2>4. FirstInv'
    BY <1>2 DEF FileInv, fileVars, FirstInv, Booted, Numbered
  <2> QED
    BY <2>1, <2>2, <2>3, <2>4 DEF FileInv
<1> QED
  BY <1>1, <1>2

LEMMA FilesFollow == FileInv => FilesSound
<1> SUFFICES ASSUME FileInv PROVE FilesSound
  OBVIOUS
<1>1. IdsKept
  <2> SUFFICES ASSUME ~starved, NEW f \in Files, NEW g \in Files, f # g, Numbered(f), Numbered(g)
               PROVE  id[f] # id[g]
    BY DEF FileInv, IdInv, IdsKept
  <2>1. links[id[f]] = {f} /\ links[id[g]] = {g}
    BY DEF FileInv, IdInv
  <2> QED
    BY <2>1
<1> QED
  BY <1>1 DEF FileInv, StubInv, FirstInv, FilesSound, RegistrationIsZero

-----------------------------------------------------------------------------
(* Tracking.                                                               *)

Live(t) == thread[t] \in {"alive", "exiting"}
Peopled(l) == \E t \in Group(l) : Live(t)
Registrant(t) == registering[t] \in {"start", "callback"}
Linked(l) == Pid[l] \in tracked

(* A thread comes after its leader; nobody alive has the pid of another,   *)
(* nor that of the leader of somebody else's group that is not empty.      *)
WorldInv ==
  /\ \A t \in Threads : thread[t] # "unborn" => thread[Leader[t]] # "unborn"
  /\ \A t, u \in Threads : Live(t) /\ Live(u) /\ Pid[t] = Pid[u] => t = u
  /\ \A l \in Leaders, u \in Threads : Peopled(l) /\ Live(u) /\ Pid[u] = Pid[l] => u = l
  /\ \A l, m \in Leaders : Peopled(l) /\ Peopled(m) /\ Pid[l] = Pid[m] => l = m

(* What a thread has done, it did alive.                                   *)
CourseInv ==
  /\ \A t \in Threads :
       /\ registering[t] \notin {"no", "done"} => thread[t] = "alive"
       /\ registering[t] # "no" \/ t \in exitCallback => thread[t] # "unborn"
       /\ thread[t] = "exiting" => t \in exitCallback
       /\ Told(t) => thread[t] = "gone"
  /\ \A l \in Leaders : thread[l] = "unborn" => started[l] = 0

(* One thread of a process registers it, and its link is there then; it is *)
(* there as well while the leader lives that has ProcessesExit to run, and *)
(* no thread of the process registers it meanwhile.                        *)
LinkInv ==
  /\ \A t \in Threads : Registrant(t) => Linked(Leader[t])
  /\ \A t, u \in Threads : Registrant(t) /\ Registrant(u) /\ Leader[t] = Leader[u] => t = u
  /\ \A l \in Leaders \cap exitCallback :
       Live(l) => Linked(l) /\ \A t \in Group(l) : ~Registrant(t)
  /\ \A t \in Threads :
       registering[t] \in {"start", "callback", "done"} /\ thread[Leader[t]] = "alive"
         => Linked(Leader[t])

(* Whoever put a link for its own process, and lost no notice, lives, and  *)
(* is on the way to the exit callback or has it.  The link that a thread   *)
(* with a registered process finds is its process's, or one left behind.   *)
Sought(t) == thread[t] = "alive" /\ registering[t] \in {"start", "callback", "done"}

OriginInv ==
  /\ \A p \in tracked : trackedBy[p] \in Threads
  /\ \A w \in Threads, p \in tracked :
       trackedBy[p] = w => /\ Pid[Leader[w]] = p
                           /\ ~Unnoticed(w) => Live(w) /\ (Registrant(w) \/ w \in exitCallback)
  /\ \A t \in Threads : Sought(t) => trackedBy[Pid[Leader[t]]] \in Threads
  /\ \A t, w \in Threads :
       Sought(t) /\ trackedBy[Pid[Leader[t]]] = w => Leader[w] = Leader[t] \/ Unnoticed(w)
  /\ \A l \in Leaders :
       trackedBy[Pid[l]] = l => registering[l] = "start" \/ started[l] > 0 \/ l \in lost

(* A process whose start hooks were run as often as they may is not about  *)
(* to be registered: its link is there as long as anybody lives in it.     *)
Often(l) == IF Told(l) THEN 2 ELSE 1
StartInv ==
  \A l \in Leaders :
    /\ started[l] <= Often(l)
    /\ started[l] = Often(l) => /\ \A t \in Group(l) : registering[t] # "start"
                                /\ Peopled(l) => Linked(l)

TrackInv ==
  TrackTypeOK /\ WorldInv /\ CourseInv /\ LinkInv /\ OriginInv /\ StartInv /\ ExitAfterStart

ThreadOK == thread \in [Threads -> {"unborn", "alive", "exiting", "gone"}]

RegisterOK ==
  /\ registering \in [Threads -> {"no", "handler", "register", "start", "callback", "done"}]
  /\ handler \subseteq Leaders

TrackedOK ==
  /\ tracked \subseteq Pids /\ trackedBy \in [Pids -> Threads \cup {"nobody"}]
  /\ exitCallback \subseteq Threads /\ lost \subseteq Threads

ToldOK == started \in [Leaders -> Nat] /\ exited \in [Threads -> Threads \cup {"nobody"}]

HooksOK == startHooks \subseteq Hooks /\ exitHooks \subseteq Hooks

LEMMA TrackTypeParts == TrackTypeOK <=> ThreadOK /\ RegisterOK /\ TrackedOK /\ ToldOK /\ HooksOK
BY DEF TrackTypeOK, ThreadOK, RegisterOK, TrackedOK, ToldOK, HooksOK

(* Leaders and their groups.                                               *)
LEMMA GroupFacts ==
  /\ \A t \in Threads : Leader[t] \in Leaders /\ t \in Group(Leader[t]) /\ Pid[t] \in Pids
  /\ \A l \in Leaders : l \in Threads /\ Leader[l] = l
  /\ \A l : \A t \in Group(l) : t \in Threads /\ Leader[t] = l
  /\ "nobody" \notin Threads
BY ThreadAssumption DEF Leaders, Group, Pids

(* What a step of a thread is.                                             *)
LEMMA TrackCases ==
  ASSUME TrackNext
  PROVE  \/ \E t \in Threads :
              \/ RegisterCurrent(t) \/ SetSyscallHandler(t) \/ ProcessesTryRegister(t)
              \/ ProcessesStart(t) \/ InitExitHandler(t)
              \/ Fork(t) \/ Exit(t) \/ ProcessesExit(t)
         \/ UNCHANGED <<thread, registering, handler, tracked, exitCallback, started, exited,
                        trackedBy, lost>>
BY DEF TrackNext, RegisterStep, HookStep, AddStartHook, RemoveStartHook, AddExitHook, RemoveExitHook

LEMMA TrackTypeStep ==
  ASSUME TrackTypeOK, OriginInv, TrackNext
  PROVE  TrackTypeOK'
<1>0. ThreadOK /\ RegisterOK /\ TrackedOK /\ ToldOK /\ HooksOK
  BY TrackTypeParts
<1>1. ASSUME NEW t \in Threads, RegisterCurrent(t) \/ RegisterStep(t)
      PROVE  TrackTypeOK'
  <2>1. RegisterOK'
    <3>1. \E r \in {"handler", "register", "start", "callback", "done"} :
            registering' = [registering EXCEPT ![t] = r]
      BY <1>1 DEF RegisterCurrent, RegisterStep, SetSyscallHandler, ProcessesTryRegister,
         ProcessesStart, InitExitHandler
    <3>2. handler' \in {handler, handler \cup {Leader[t]}}
      BY <1>1 DEF RegisterCurrent, RegisterStep, SetSyscallHandler, ProcessesTryRegister,
         ProcessesStart, InitExitHandler
    <3> QED
      BY <1>0, <3>1, <3>2, GroupFacts DEF RegisterOK
  <2>2. TrackedOK'
    <3>1. /\ tracked' \in {tracked, tracked \cup {Pid[Leader[t]]}}
          /\ trackedBy' \in {trackedBy, [trackedBy EXCEPT ![Pid[Leader[t]]] = t]}
          /\ exitCallback' \in {exitCallback, exitCallback \cup {t}}
          /\ lost' \in {lost, lost \cup {Leader[t]}}
      BY <1>1 DEF RegisterCurrent, RegisterStep, SetSyscallHandler, ProcessesTryRegister,
         ProcessesStart, InitExitHandler
    <3>2. Leader[t] \in Threads /\ Pid[Leader[t]] \in Pids
      BY GroupFacts
    <3> QED
      BY <1>0, <3>1, <3>2 DEF TrackedOK
  <2>3. ToldOK'
    <3>1. /\ started' \in {started, [started EXCEPT ![Leader[t]] = @ + 1]}
          /\ exited' = exited
      BY <1>1 DEF RegisterCurrent, RegisterStep, SetSyscallHandler, ProcessesTryRegister,
         ProcessesStart, InitExitHandler
    <3> QED
      BY <1>0, <3>1, GroupFacts DEF ToldOK
  <2>4. UNCHANGED <<thread, startHooks, exitHooks>>
    BY <1>1 DEF RegisterCurrent, RegisterStep, SetSyscallHandler, ProcessesTryRegister,
       ProcessesStart, InitExitHandler
  <2> QED
    BY <1>0, <2>1, <2>2, <2>3, <2>4
    DEF TrackTypeOK, ThreadOK, RegisterOK, TrackedOK, ToldOK, HooksOK
<1>2. ASSUME NEW t \in Threads, Fork(t) \/ Exit(t) \/ ProcessesExit(t)
      PROVE  TrackTypeOK'
  <2>1. ThreadOK'
    BY <1>0, <1>2 DEF Fork, Exit, ProcessesExit, ThreadOK
  <2>2. TrackedOK' /\ RegisterOK' /\ HooksOK'
    BY <1>0, <1>2 DEF Fork, Exit, ProcessesExit, TrackedOK, RegisterOK, HooksOK
  <2>3. ToldOK'
    <3>1. started' = started /\ (exited' = exited \/ exited' = [exited EXCEPT ![t] = trackedBy[Pid[t]]])
      BY <1>2 DEF Fork, Exit, ProcessesExit
    <3>2. trackedBy[Pid[t]] \in Threads \cup {"nobody"}
      BY <1>0, GroupFacts DEF TrackedOK
    <3> QED
      BY <1>0, <3>1, <3>2 DEF ToldOK
  <2> QED
    BY <2>1, <2>2, <2>3 DEF TrackTypeOK, ThreadOK, RegisterOK, TrackedOK, ToldOK, HooksOK
<1>3. ASSUME HookStep
      PROVE  TrackTypeOK'
  <2>1. HooksOK'
    BY <1>0, <1>3 DEF HookStep, AddStartHook, RemoveStartHook, AddExitHook, RemoveExitHook, HooksOK
  <2>2. UNCHANGED <<thread, registering, handler, tracked, exitCallback, started, exited, trackedBy,
                    lost>>
    BY <1>3 DEF HookStep, AddStartHook, RemoveStartHook, AddExitHook, RemoveExitHook
  <2> QED
    BY <1>0, <2>1, <2>2 DEF TrackTypeOK, ThreadOK, RegisterOK, TrackedOK, ToldOK, HooksOK
<1> QED
  BY <1>1, <1>2, <1>3 DEF TrackNext

(* A birth apart, a step makes nobody live.                                *)
LEMMA LiveStep ==
  ASSUME ThreadOK, TrackNext
  PROVE  \/ \E t \in Threads : Fork(t)
         \/ \A u \in Threads : /\ Live(u)' => Live(u)
                               /\ thread'[u] = "unborn" <=> thread[u] = "unborn"
                               /\ thread'[u] = "alive" => thread[u] = "alive"
<1>1. ASSUME NEW t \in Threads, Exit(t) \/ ProcessesExit(t), NEW u \in Threads
      PROVE  /\ Live(u)' => Live(u)
             /\ thread'[u] = "unborn" <=> thread[u] = "unborn"
             /\ thread'[u] = "alive" => thread[u] = "alive"
  BY <1>1 DEF Exit, ProcessesExit, Live, ThreadOK
<1>2. \/ UNCHANGED thread
      \/ \E t \in Threads : Fork(t) \/ Exit(t) \/ ProcessesExit(t)
  BY TrackCases DEF RegisterCurrent, SetSyscallHandler, ProcessesTryRegister, ProcessesStart,
     InitExitHandler
<1>3. UNCHANGED thread =>
        \A u \in Threads : /\ Live(u)' => Live(u)
                           /\ thread'[u] = "unborn" <=> thread[u] = "unborn"
                           /\ thread'[u] = "alive" => thread[u] = "alive"
  BY DEF Live
<1> QED
  BY <1>1, <1>2, <1>3

(* What a birth changes.                                                   *)
LEMMA ForkStep ==
  ASSUME ThreadOK, NEW t \in Threads, Fork(t)
  PROVE  /\ thread[t] = "unborn" /\ thread'[t] = "alive"
         /\ \A u \in Threads \ {t} : thread'[u] = thread[u]
         /\ \A u \in Threads : Live(u)' <=> Live(u) \/ u = t
         /\ \A l \in Leaders : Peopled(l)' <=> Peopled(l) \/ l = Leader[t]
         /\ t # Leader[t] => thread[Leader[t]] = "alive" /\ Peopled(Leader[t])
         /\ \A u \in Threads : Live(u) => Pid[u] # Pid[t]
         /\ \A l \in Leaders : Peopled(l) => Pid[l] # Pid[t]
         /\ UNCHANGED <<registering, handler, tracked, exitCallback, started, exited, trackedBy, lost>>
<1>1. /\ thread[t] = "unborn" /\ thread'[t] = "alive"
      /\ \A u \in Threads \ {t} : thread'[u] = thread[u]
      /\ t # Leader[t] => thread[Leader[t]] = "alive"
      /\ UNCHANGED <<registering, handler, tracked, exitCallback, started, exited, trackedBy, lost>>
      /\ ~Taken(Pid[t])
  BY DEF Fork, ThreadOK
<1>2. \A u \in Threads : Live(u)' <=> Live(u) \/ u = t
  BY <1>1 DEF Live
<1>3. \A l \in Leaders : Peopled(l)' <=> Peopled(l) \/ l = Leader[t]
  BY <1>2, GroupFacts DEF Peopled
<1>4. t # Leader[t] => Peopled(Leader[t])
  BY <1>1, GroupFacts DEF Peopled, Live
<1>5. /\ \A u \in Threads : Live(u) => Pid[u] # Pid[t]
      /\ \A l \in Leaders : Peopled(l) => Pid[l] # Pid[t]
  BY <1>1 DEF Taken, Live, Peopled
<1> QED
  BY <1>1, <1>2, <1>3, <1>4, <1>5

LEMMA WorldStep ==
  ASSUME ThreadOK, WorldInv, TrackNext
  PROVE  WorldInv'
<1>1. ASSUME NEW t \in Threads, Fork(t)
      PROVE  WorldInv'
  <2>1. \A u \in Threads : thread'[u] # "unborn" => thread'[Leader[u]] # "unborn"
    BY <1>1, ForkStep, GroupFacts DEF WorldInv
  <2>2. \A u, v \in Threads : Live(u)' /\ Live(v)' /\ Pid[u] = Pid[v] => u = v
    BY <1>1, ForkStep DEF WorldInv
  <2>3. ASSUME NEW l \in Leaders, NEW u \in Threads, Peopled(l)', Live(u)', Pid[u] = Pid[l]
        PROVE  u = l
    <3>1. CASE Peopled(l)
      BY <1>1, <2>3, <3>1, ForkStep DEF WorldInv
    <3>2. CASE l = Leader[t] /\ ~Peopled(l)
      BY <1>1, <2>3, <3>2, ForkStep DEF WorldInv
    <3> QED
      BY <1>1, <2>3, <3>1, <3>2, ForkStep
  <2>4. ASSUME NEW l \in Leaders, NEW m \in Leaders, Peopled(l)', Peopled(m)', Pid[l] = Pid[m]
        PROVE  l = m
    <3>1. CASE Peopled(l) /\ Peopled(m)
      BY <2>4, <3>1 DEF WorldInv
    <3>2. ASSUME NEW k \in Leaders, k = Leader[t], ~Peopled(k)
          PROVE  k = t /\ \A n \in Leaders : Peopled(n) => Pid[n] # Pid[k]
      BY <1>1, <3>2, ForkStep
    <3> QED
      BY <1>1, <2>4, <3>1, <3>2, ForkStep
  <2> QED
    BY <2>1, <2>2, <2>3, <2>4 DEF WorldInv
<1>2. ASSUME \A u \in Threads : /\ Live(u)' => Live(u)
                                /\ thread'[u] = "unborn" <=> thread[u] = "unborn"
      PROVE  WorldInv'
  <2>1. \A l \in Leaders : Peopled(l)' => Peopled(l)
    BY <1>2, GroupFacts DEF Peopled
  <2>2. \A u \in Threads : thread'[u] # "unborn" => thread'[Leader[u]] # "unborn"
    BY <1>2, GroupFacts DEF WorldInv
  <2>3. \A u, v \in Threads : Live(u)' /\ Live(v)' /\ Pid[u] = Pid[v] => u = v
    BY <1>2 DEF WorldInv
  <2> QED
    BY <1>2, <2>1, <2>2, <2>3 DEF WorldInv
<1> QED
  BY <1>1, <1>2, LiveStep

(* What a step of a registration changes, of a thread that lives.          *)
LEMMA RegisterMoves ==
  ASSUME TrackTypeOK, CourseInv, NEW t \in Threads, RegisterCurrent(t) \/ RegisterStep(t)
  PROVE  /\ thread[t] = "alive" /\ Live(t)
         /\ \A u \in Threads \ {t} : registering'[u] = registering[u]
         /\ registering'[t] \notin {registering[t], "no"}
         /\ registering[t] = "start" => registering'[t] = "callback"
         /\ registering[t] = "callback" => registering'[t] = "done" /\ t \in exitCallback'
         /\ \A u \in Threads : u \in exitCallback => u \in exitCallback'
         /\ \A u \in Threads : u \in exitCallback' =>
              u \in exitCallback \/ (u = t /\ registering[t] = "callback")
         /\ lost \subseteq lost'
         /\ registering[t] # "register" => tracked' = tracked /\ trackedBy' = trackedBy
         /\ registering[t] # "start" => started' = started /\ lost' = lost
         /\ thread' = thread /\ exited' = exited
<1>0. ThreadOK /\ RegisterOK
  BY TrackTypeParts
<1>1. CASE RegisterCurrent(t)
  <2>1. /\ registering'[t] = "handler" /\ registering[t] \in {"no", "done"}
        /\ \A u \in Threads \ {t} : registering'[u] = registering[u]
    BY <1>0, <1>1 DEF RegisterCurrent, RegisterOK
  <2>2. thread[t] = "alive"
    BY <1>1, <2>1 DEF RegisterCurrent, CourseInv
  <2> QED
    BY <1>1, <2>1, <2>2 DEF RegisterCurrent, Live
<1>2. CASE SetSyscallHandler(t)
  <2>1. /\ registering'[t] = "register" /\ registering[t] = "handler"
        /\ \A u \in Threads \ {t} : registering'[u] = registering[u]
    BY <1>0, <1>2 DEF SetSyscallHandler, RegisterOK
  <2>2. thread[t] = "alive"
    BY <1>2, <2>1 DEF SetSyscallHandler, CourseInv
  <2> QED
    BY <1>2, <2>1, <2>2 DEF SetSyscallHandler, Live
<1>3. CASE ProcessesTryRegister(t)
  <2>1. /\ registering'[t] \in {"start", "done"} /\ registering[t] = "register"
        /\ \A u \in Threads \ {t} : registering'[u] = registering[u]
    BY <1>0, <1>3 DEF ProcessesTryRegister, RegisterOK
  <2>2. thread[t] = "alive"
    BY <1>3, <2>1 DEF ProcessesTryRegister, CourseInv
  <2> QED
    BY <1>3, <2>1, <2>2 DEF ProcessesTryRegister, Live
<1>4. CASE ProcessesStart(t)
  <2>1. /\ registering'[t] = "callback" /\ registering[t] = "start"
        /\ \A u \in Threads \ {t} : registering'[u] = registering[u]
    BY <1>0, <1>4 DEF ProcessesStart, RegisterOK
  <2>2. thread[t] = "alive"
    BY <1>4, <2>1 DEF ProcessesStart, CourseInv
  <2> QED
    BY <1>4, <2>1, <2>2 DEF ProcessesStart, Live
<1>5. CASE InitExitHandler(t)
  BY <1>0, <1>5 DEF InitExitHandler, Live, RegisterOK, CourseInv
<1> QED
  BY <1>1, <1>2, <1>3, <1>4, <1>5 DEF RegisterStep

(* What the exit of a thread changes.                                      *)
LEMMA ExitMoves ==
  ASSUME ThreadOK, NEW t \in Threads, Exit(t) \/ ProcessesExit(t)
  PROVE  /\ \A u \in Threads \ {t} : thread'[u] = thread[u]
         /\ \A u \in Threads : Live(u)' => Live(u)
         /\ Live(t)
         /\ UNCHANGED <<registering, handler, exitCallback, started, trackedBy>>
         /\ lost \subseteq lost'
         /\ Exit(t) => /\ thread[t] = "alive" /\ registering[t] \in {"no", "done"}
                       /\ thread'[t] = IF t \in exitCallback THEN "exiting" ELSE "gone"
                       /\ UNCHANGED <<tracked, exited, lost>>
         /\ ProcessesExit(t) => thread[t] = "exiting" /\ thread'[t] = "gone" /\ ~Live(t)'
BY DEF Exit, ProcessesExit, ThreadOK, Live

(* A thread that exits and has ProcessesExit to run takes its link away.   *)
LEMMA LinkMoves ==
  ASSUME TrackTypeOK, NEW t \in Threads, ProcessesExit(t)
  PROVE  /\ \/ /\ Pid[t] \in tracked /\ tracked' = tracked \ {Pid[t]} /\ lost' = lost
               /\ exited' = [exited EXCEPT ![t] = trackedBy[Pid[t]]]
               /\ exited'[t] = trackedBy[Pid[t]]
            \/ tracked' = tracked /\ exited' = exited /\ (Pid[t] \notin tracked \/ t \in lost')
         /\ \A u \in Threads \ {t} : exited'[u] = exited[u]
<1>1. exited \in [Threads -> Threads \cup {"nobody"}]
  BY TrackTypeParts DEF ToldOK
<1> QED
  BY <1>1 DEF ProcessesExit

LEMMA CourseStep ==
  ASSUME TrackTypeOK, WorldInv, CourseInv, TrackNext
  PROVE  CourseInv'
<1>0. ThreadOK /\ RegisterOK /\ TrackedOK /\ ToldOK
  BY TrackTypeParts
<1>1. ASSUME NEW t \in Threads, RegisterCurrent(t) \/ RegisterStep(t)
      PROVE  CourseInv'
  <2>1. \A l \in Leaders : started'[l] = started[l] \/ l = Leader[t]
    BY <1>0, <1>1 DEF RegisterCurrent, RegisterStep, SetSyscallHandler, ProcessesTryRegister,
       ProcessesStart, InitExitHandler, ToldOK
  <2>2. thread[Leader[t]] # "unborn"
    BY <1>1, RegisterMoves DEF WorldInv
  <2> QED
    BY <1>1, <2>1, <2>2, RegisterMoves DEF CourseInv, Told
<1>2. ASSUME NEW t \in Threads, Fork(t)
      PROVE  CourseInv'
  BY <1>0, <1>2, ForkStep, GroupFacts DEF CourseInv, Told
<1>3. ASSUME NEW t \in Threads, Exit(t)
      PROVE  CourseInv'
  BY <1>0, <1>3, ExitMoves, GroupFacts DEF CourseInv, Told
<1>4. ASSUME NEW t \in Threads, ProcessesExit(t)
      PROVE  CourseInv'
  <2>1. \A u \in Threads \ {t} : exited'[u] = exited[u]
    BY <1>0, <1>4, LinkMoves
  <2> QED
    BY <1>0, <1>4, <2>1, ExitMoves, GroupFacts DEF CourseInv, Told
<1>5. ASSUME UNCHANGED <<thread, registering, exitCallback, started, exited>>
      PROVE  CourseInv'
  BY <1>5 DEF CourseInv, Told
<1> QED
  BY <1>1, <1>2, <1>3, <1>4, <1>5, TrackCases DEF RegisterStep

LEMMA LinkStep ==
  ASSUME TrackTypeOK, WorldInv, CourseInv, LinkInv, TrackNext
  PROVE  LinkInv'
<1>0. ThreadOK /\ RegisterOK /\ TrackedOK
  BY TrackTypeParts
<1>1. ASSUME NEW t \in Threads, ProcessesTryRegister(t)
      PROVE  LinkInv'
  <2>1. /\ tracked' = tracked \cup {Pid[Leader[t]]} /\ exitCallback' = exitCallback
        /\ thread' = thread
        /\ registering'[t] = IF Linked(Leader[t]) THEN "done" ELSE "start"
        /\ \A u \in Threads \ {t} : registering'[u] = registering[u]
    BY <1>0, <1>1 DEF ProcessesTryRegister, RegisterOK, Linked
  <2>2. \A l : Linked(l) => Linked(l)'
    BY <2>1 DEF Linked
  <2>3. Linked(Leader[t])'
    BY <2>1 DEF Linked
  <2>4. \A u \in Threads : Registrant(u)' => Registrant(u) \/ (u = t /\ ~Linked(Leader[t]))
    <3>1. \A u \in Threads \ {t} : Registrant(u)' => Registrant(u)
      BY <2>1 DEF Registrant
    <3>2. Registrant(t)' => ~Linked(Leader[t])
      BY <2>1 DEF Registrant
    <3> QED
      BY <3>1, <3>2 DEF Registrant
  <2>5. \A u \in Threads : Registrant(u)' => Linked(Leader[u])'
    BY <2>2, <2>3, <2>4 DEF LinkInv
  <2>6. \A u, v \in Threads : Registrant(u)' /\ Registrant(v)' /\ Leader[u] = Leader[v] => u = v
    BY <2>4 DEF LinkInv
  <2>7. ASSUME NEW l \in Leaders \cap exitCallback', Live(l)'
        PROVE  Linked(l)' /\ \A u \in Group(l) : ~Registrant(u)'
    <3>1. Linked(l) /\ \A u \in Group(l) : ~Registrant(u)
      BY <2>1, <2>7 DEF LinkInv, Live
    <3> QED
      BY <2>2, <2>4, <3>1, GroupFacts
  <2>8. \A u \in Threads :
          registering'[u] \in {"start", "callback", "done"} /\ thread'[Leader[u]] = "alive"
            => Linked(Leader[u])'
    BY <2>1, <2>2, <2>3 DEF LinkInv
  <2> QED
    BY <2>5, <2>6, <2>7, <2>8 DEF LinkInv
<1>2. ASSUME NEW t \in Threads,
             RegisterCurrent(t) \/ SetSyscallHandler(t) \/ ProcessesStart(t) \/ InitExitHandler(t)
      PROVE  LinkInv'
  <2>1. registering[t] # "register"
    BY <1>2 DEF RegisterCurrent, SetSyscallHandler, ProcessesStart, InitExitHandler
  <2>2. RegisterCurrent(t) \/ RegisterStep(t)
    BY <1>2 DEF RegisterStep
  <2>3. UNCHANGED <<thread, tracked>>
    BY <2>1, <2>2, RegisterMoves
  <2>4. \A l : (Linked(l) <=> Linked(l)') /\ (Live(l) <=> Live(l)')
    BY <2>3 DEF Linked, Live
  <2>5. /\ registering'[t] \in {"start", "callback", "done"} =>
             registering[t] \in {"start", "callback"} /\ registering'[t] \in {"callback", "done"}
        /\ \A u \in Threads \ {t} : registering'[u] = registering[u]
    BY <1>0, <1>2 DEF RegisterCurrent, SetSyscallHandler, ProcessesStart, InitExitHandler, RegisterOK
  <2>6. \A u \in Threads : Registrant(u)' => Registrant(u)
    BY <2>5 DEF Registrant
  <2>7. ASSUME NEW l \in Leaders \cap exitCallback', Live(l)'
        PROVE  Linked(l)' /\ \A u \in Group(l) : ~Registrant(u)'
    <3>1. CASE l \in exitCallback
      BY <2>4, <2>6, <2>7, <3>1, GroupFacts DEF LinkInv
    <3>2. CASE l = t /\ registering[t] = "callback"
      <4>1. Registrant(l) /\ ~Registrant(l)' /\ Leader[l] = l
        BY <2>2, <3>2, RegisterMoves, GroupFacts DEF Registrant
      <4>2. Linked(l)
        BY <4>1, GroupFacts DEF LinkInv
      <4>3. \A u \in Group(l) : Registrant(u) => u = l
        BY <4>1, GroupFacts DEF LinkInv
      <4> QED
        BY <2>4, <2>6, <4>1, <4>2, <4>3, GroupFacts
    <3> QED
      BY <2>2, <2>7, <3>1, <3>2, RegisterMoves, GroupFacts
  <2>8. \A u \in Threads :
          registering'[u] \in {"start", "callback", "done"} /\ thread'[Leader[u]] = "alive"
            => Linked(Leader[u])'
    BY <2>3, <2>4, <2>5 DEF LinkInv
  <2> QED
    BY <2>4, <2>6, <2>7, <2>8 DEF LinkInv
<1>3. ASSUME NEW t \in Threads, Fork(t)
      PROVE  LinkInv'
  <2>1. /\ UNCHANGED <<registering, exitCallback, tracked>>
        /\ t \notin exitCallback
        /\ \A u \in Threads : u # t => thread'[u] = thread[u] /\ (Live(u)' => Live(u))
    BY <1>0, <1>3, ForkStep DEF CourseInv
  <2>2. \A u \in Threads : registering[u] # "no" => Leader[u] # t
    BY <1>0, <1>3, ForkStep DEF CourseInv, WorldInv
  <2> QED
    BY <2>1, <2>2, GroupFacts DEF LinkInv, Linked, Registrant
<1>4. ASSUME NEW t \in Threads, Exit(t)
      PROVE  LinkInv'
  <2>1. /\ UNCHANGED <<registering, exitCallback, tracked>>
        /\ \A u \in Threads : /\ Live(u)' => Live(u)
                              /\ thread'[u] = "alive" => thread[u] = "alive"
    BY <1>0, <1>4, ExitMoves
  <2> QED
    BY <2>1, GroupFacts DEF LinkInv, Linked, Registrant
<1>5. ASSUME NEW t \in Threads, ProcessesExit(t)
      PROVE  LinkInv'
  <2>1. /\ UNCHANGED <<registering, exitCallback>> /\ thread[t] = "exiting" /\ Live(t) /\ ~Live(t)'
        /\ \A u \in Threads : u # t => thread'[u] = thread[u] /\ (Live(u)' => Live(u))
        /\ thread'[t] = "gone" /\ t \in exitCallback
    BY <1>0, <1>5, ExitMoves DEF CourseInv
  <2>2. tracked \ {Pid[t]} \subseteq tracked'
    BY <1>5, LinkMoves
  <2>3. \A l \in Leaders : Linked(l) /\ Peopled(l) => Linked(l)' \/ l = t
    BY <2>1, <2>2 DEF Linked, WorldInv
  <2>4. ASSUME NEW u \in Threads, Registrant(u)'
        PROVE  Linked(Leader[u])'
    <3>1. Registrant(u) /\ Live(u)
      BY <2>1, <2>4 DEF Registrant, CourseInv, Live
    <3>2. Leader[u] # t
      BY <2>1, <3>1, GroupFacts DEF LinkInv
    <3>3. Peopled(Leader[u])
      BY <3>1, GroupFacts DEF Peopled
    <3> QED
      BY <2>3, <3>1, <3>2, <3>3, GroupFacts DEF LinkInv
  <2>5. ASSUME NEW l \in Leaders \cap exitCallback', Live(l)'
        PROVE  Linked(l)' /\ \A u \in Group(l) : ~Registrant(u)'
    <3>1. l # t /\ Live(l) /\ l \in Threads
      BY <2>1, <2>5, GroupFacts
    <3>2. Peopled(l)
      BY <3>1, <2>5, GroupFacts DEF Peopled
    <3> QED
      BY <2>1, <2>3, <2>5, <3>1, <3>2 DEF LinkInv, Registrant
  <2>6. ASSUME NEW u \in Threads, registering'[u] \in {"start", "callback", "done"},
               thread'[Leader[u]] = "alive"
        PROVE  Linked(Leader[u])'
    <3>1. Leader[u] # t /\ thread[Leader[u]] = "alive" /\ Leader[u] \in Leaders
      BY <2>1, <2>6, GroupFacts
    <3>2. Peopled(Leader[u])
      BY <3>1, GroupFacts DEF Peopled, Live
    <3> QED
      BY <2>1, <2>3, <2>6, <3>1, <3>2 DEF LinkInv
  <2> QED
    BY <2>1, <2>4, <2>5, <2>6 DEF LinkInv, Registrant
<1>6. ASSUME UNCHANGED <<thread, registering, exitCallback, tracked>>
      PROVE  LinkInv'
  BY <1>6 DEF LinkInv, Registrant, Linked, Live
<1> QED
  BY <1>1, <1>2, <1>3, <1>4, <1>5, <1>6, TrackCases

(* The thread that put the link of a process that is not empty is the      *)
(* leader, or left the link behind unnoticed.                              *)
LEMMA OwnLink ==
  ASSUME WorldInv, OriginInv, NEW l \in Leaders, Linked(l), Peopled(l),
         NEW w \in Threads, trackedBy[Pid[l]] = w
  PROVE  w = l \/ Unnoticed(w)
<1>1. Pid[Leader[w]] = Pid[l] /\ (~Unnoticed(w) => Live(w))
  BY DEF OriginInv, Linked
<1>2. ASSUME ~Unnoticed(w)
      PROVE  w = l
  <2>1. w = Leader[w] /\ Live(w)
    BY <1>1, <1>2 DEF Unnoticed
  <2>2. w \in Leaders /\ Peopled(w)
    BY <1>1, <2>1, GroupFacts DEF Peopled
  <2> QED
    BY <1>1, <2>1, <2>2 DEF WorldInv
<1> QED
  BY <1>1, <1>2

LEMMA OriginStep ==
  ASSUME TrackTypeOK, WorldInv, CourseInv, OriginInv, TrackNext
  PROVE  OriginInv'
<1>0. ThreadOK /\ RegisterOK /\ TrackedOK /\ ToldOK
  BY TrackTypeParts
<1>1. ASSUME NEW t \in Threads, ProcessesTryRegister(t)
      PROVE  OriginInv'
  <2>1. /\ thread' = thread /\ exitCallback' = exitCallback /\ started' = started /\ lost' = lost
        /\ registering[t] = "register" /\ thread[t] = "alive"
        /\ registering'[t] = IF Linked(Leader[t]) THEN "done" ELSE "start"
        /\ \A u \in Threads \ {t} : registering'[u] = registering[u]
        /\ tracked' = tracked \cup {Pid[Leader[t]]}
    BY <1>0, <1>1 DEF ProcessesTryRegister, RegisterOK, Linked, CourseInv
  <2>2. \A u : (Unnoticed(u)' <=> Unnoticed(u)) /\ (Live(u)' <=> Live(u))
    BY <2>1 DEF Unnoticed, Live
  <2>3. Leader[t] \in Leaders /\ Peopled(Leader[t]) /\ Live(t) /\ Pid[Leader[t]] \in Pids
    BY <2>1, GroupFacts DEF Peopled, Live
  <2>4. \A u \in Threads \ {t} : (Sought(u)' <=> Sought(u)) /\ (Registrant(u)' <=> Registrant(u))
    BY <2>1 DEF Sought, Registrant
  <2>5. ~Registrant(t)
    BY <2>1 DEF Registrant
  <2>6. CASE Linked(Leader[t])
    <3>1. trackedBy' = trackedBy /\ tracked' = tracked
      BY <1>1, <2>1, <2>6 DEF ProcessesTryRegister, Linked
    <3>2. \A u \in Threads : Registrant(u) => Registrant(u)'
      BY <2>4, <2>5
    <3>3. trackedBy[Pid[Leader[t]]] \in Threads
      BY <2>6 DEF OriginInv, Linked
    <3>4. ASSUME NEW w \in Threads, trackedBy[Pid[Leader[t]]] = w
          PROVE  Leader[w] = Leader[t] \/ Unnoticed(w)
      BY <2>3, <2>6, <3>4, OwnLink, GroupFacts
    <3>5. ASSUME NEW w \in Threads, NEW p \in tracked', trackedBy'[p] = w
          PROVE  /\ Pid[Leader[w]] = p
                 /\ ~Unnoticed(w)' => Live(w)' /\ (Registrant(w)' \/ w \in exitCallback')
      BY <2>1, <2>2, <3>1, <3>2, <3>5 DEF OriginInv
    <3>6. ASSUME NEW u \in Threads, Sought(u)'
          PROVE  /\ trackedBy'[Pid[Leader[u]]] \in Threads
                 /\ \A w \in Threads : trackedBy'[Pid[Leader[u]]] = w =>
                      Leader[w] = Leader[u] \/ Unnoticed(w)'
      BY <2>2, <2>4, <3>1, <3>3, <3>4, <3>6 DEF OriginInv
    <3>7. ASSUME NEW l \in Leaders, trackedBy'[Pid[l]] = l
          PROVE  registering'[l] = "start" \/ started'[l] > 0 \/ l \in lost'
      BY <2>1, <3>1, <3>7, GroupFacts DEF OriginInv
    <3> QED
      BY <3>1, <3>5, <3>6, <3>7 DEF OriginInv
  <2>7. CASE ~Linked(Leader[t])
    <3>1. /\ trackedBy'[Pid[Leader[t]]] = t
          /\ \A p \in Pids : p # Pid[Leader[t]] => trackedBy'[p] = trackedBy[p]
          /\ registering'[t] = "start" /\ Registrant(t)'
      BY <1>0, <1>1, <2>1, <2>3, <2>7 DEF ProcessesTryRegister, Linked, TrackedOK, Registrant
    <3>2. \A p \in tracked' : p = Pid[Leader[t]] \/ (p \in tracked /\ trackedBy'[p] = trackedBy[p])
      BY <1>0, <2>1, <3>1 DEF TrackedOK
    <3>3. \A u \in Threads : Registrant(u) => Registrant(u)'
      BY <2>4, <2>5
    <3>4. \A p \in tracked' : trackedBy'[p] \in Threads
      BY <3>1, <3>2 DEF OriginInv
    <3>5. ASSUME NEW w \in Threads, NEW p \in tracked', trackedBy'[p] = w
          PROVE  /\ Pid[Leader[w]] = p
                 /\ ~Unnoticed(w)' => Live(w)' /\ (Registrant(w)' \/ w \in exitCallback')
      <4>1. CASE p = Pid[Leader[t]]
        <5>1. w = t
          BY <3>1, <3>5, <4>1
        <5>2. Live(t)'
          BY <2>2, <2>3
        <5> QED
          BY <3>1, <4>1, <5>1, <5>2
      <4>2. CASE p # Pid[Leader[t]]
        <5>1. p \in tracked /\ trackedBy[p] = w
          BY <3>2, <3>5, <4>2
        <5>2. /\ Pid[Leader[w]] = p
              /\ ~Unnoticed(w) => Live(w) /\ (Registrant(w) \/ w \in exitCallback)
          BY <5>1 DEF OriginInv
        <5> QED
          BY <2>1, <2>2, <3>3, <5>2
      <4> QED
        BY <4>1, <4>2
    <3>6. ASSUME NEW u \in Threads, Sought(u)'
          PROVE  /\ trackedBy'[Pid[Leader[u]]] \in Threads
                 /\ \A w \in Threads : trackedBy'[Pid[Leader[u]]] = w =>
                      Leader[w] = Leader[u] \/ Unnoticed(w)'
      <4>1. CASE Pid[Leader[u]] = Pid[Leader[t]]
        <5>1. Leader[u] \in Leaders /\ Peopled(Leader[u])
          BY <2>1, <3>6, GroupFacts DEF Peopled, Live, Sought
        <5>2. Leader[u] = Leader[t]
          BY <2>3, <4>1, <5>1 DEF WorldInv
        <5> QED
          BY <3>1, <5>2
      <4>2. CASE Pid[Leader[u]] # Pid[Leader[t]]
        <5>1. u # t /\ Pid[Leader[u]] \in Pids
          BY <4>2, GroupFacts
        <5>2. trackedBy'[Pid[Leader[u]]] = trackedBy[Pid[Leader[u]]] /\ Sought(u)
          BY <2>4, <3>1, <3>6, <4>2, <5>1
        <5> QED
          BY <2>2, <5>2 DEF OriginInv
      <4> QED
        BY <4>1, <4>2
    <3>7. ASSUME NEW l \in Leaders, trackedBy'[Pid[l]] = l
          PROVE  registering'[l] = "start" \/ started'[l] > 0 \/ l \in lost'
      <4>1. l \in Threads /\ Pid[l] \in Pids
        BY GroupFacts
      <4>2. CASE l = t
        BY <3>1, <4>2
      <4>3. CASE l # t
        <5>1. trackedBy[Pid[l]] = l
          BY <3>1, <3>7, <4>1, <4>3
        <5>2. registering[l] = "start" \/ started[l] > 0 \/ l \in lost
          BY <5>1 DEF OriginInv
        <5> QED
          BY <2>1, <4>1, <4>3, <5>2
      <4> QED
        BY <4>2, <4>3
    <3> QED
      BY <3>4, <3>5, <3>6, <3>7 DEF OriginInv
  <2> QED
    BY <2>6, <2>7
<1>2. ASSUME NEW t \in Threads,
             RegisterCurrent(t) \/ SetSyscallHandler(t) \/ ProcessesStart(t) \/ InitExitHandler(t)
      PROVE  OriginInv'
  <2>1. /\ registering[t] # "register" /\ (registering[t] = "start" => ProcessesStart(t))
        /\ RegisterCurrent(t) \/ RegisterStep(t)
        /\ registering'[t] \in {"start", "callback", "done"} => registering[t] \in {"start", "callback"}
    BY <1>0, <1>2 DEF RegisterCurrent, SetSyscallHandler, ProcessesStart, InitExitHandler, RegisterStep,
       RegisterOK
  <2>2. /\ thread' = thread /\ tracked' = tracked /\ trackedBy' = trackedBy /\ lost \subseteq lost'
        /\ \A u \in Threads \ {t} : registering'[u] = registering[u]
        /\ \A u \in Threads : u \in exitCallback => u \in exitCallback'
        /\ registering[t] = "start" => registering'[t] = "callback"
        /\ registering[t] = "callback" => t \in exitCallback'
    BY <2>1, RegisterMoves
  <2>3. \A u : (Unnoticed(u) => Unnoticed(u)') /\ (Live(u)' <=> Live(u))
    BY <2>2 DEF Unnoticed, Live
  <2>4. \A u \in Threads : Registrant(u) => Registrant(u)' \/ u \in exitCallback'
    BY <2>2 DEF Registrant
  <2>5. \A u \in Threads : Sought(u)' => Sought(u)
    BY <2>1, <2>2 DEF Sought
  <2>6. ASSUME NEW w \in Threads, NEW p \in tracked', trackedBy'[p] = w
        PROVE  /\ Pid[Leader[w]] = p
               /\ ~Unnoticed(w)' => Live(w)' /\ (Registrant(w)' \/ w \in exitCallback')
    <3>1. /\ Pid[Leader[w]] = p
          /\ ~Unnoticed(w) => Live(w) /\ (Registrant(w) \/ w \in exitCallback)
      BY <2>2, <2>6 DEF OriginInv
    <3> QED
      BY <2>2, <2>3, <2>4, <3>1
  <2>7. ASSUME NEW u \in Threads, NEW w \in Threads, Sought(u)', trackedBy'[Pid[Leader[u]]] = w
        PROVE  Leader[w] = Leader[u] \/ Unnoticed(w)'
    <3>1. Leader[w] = Leader[u] \/ Unnoticed(w)
      BY <2>2, <2>5, <2>7 DEF OriginInv
    <3> QED
      BY <2>3, <3>1
  <2>8. ASSUME NEW l \in Leaders, trackedBy'[Pid[l]] = l
        PROVE  registering'[l] = "start" \/ started'[l] > 0 \/ l \in lost'
    <3>1. registering[l] = "start" \/ started[l] > 0 \/ l \in lost
      BY <2>2, <2>8 DEF OriginInv
    <3>2. CASE registering[t] # "start"
      <4>1. started' = started
        BY <2>1, <3>2, RegisterMoves
      <4> QED
        BY <2>2, <3>1, <3>2, <4>1, GroupFacts
    <3>3. CASE ProcessesStart(t)
      <4>1. l \in Threads /\ Leader[l] = l /\ started[l] \in Nat
        BY <1>0, GroupFacts DEF ToldOK
      <4>2. \/ started' = [started EXCEPT ![Leader[t]] = @ + 1]
            \/ started' = started /\ lost' = lost \cup {Leader[t]}
        BY <3>3 DEF ProcessesStart
      <4>3. started[l] > 0 => started'[l] > 0
        BY <1>0, <4>1, <4>2 DEF ToldOK
      <4>4. t = l => started'[l] > 0 \/ l \in lost'
        BY <1>0, <4>1, <4>2 DEF ToldOK
      <4> QED
        BY <2>2, <3>1, <4>1, <4>3, <4>4
    <3> QED
      BY <2>1, <3>2, <3>3
  <2> QED
    BY <2>2, <2>5, <2>6, <2>7, <2>8 DEF OriginInv
<1>3. ASSUME NEW t \in Threads, Fork(t) \/ Exit(t) \/ ProcessesExit(t)
      PROVE  OriginInv'
  <2>1. /\ registering' = registering /\ exitCallback' = exitCallback /\ started' = started
        /\ trackedBy' = trackedBy /\ lost \subseteq lost' /\ tracked' \subseteq tracked
        /\ \A u \in Threads : u # t => (Live(u)' <=> Live(u))
        /\ Fork(t) \/ Exit(t) => tracked' = tracked
    BY <1>0, <1>3 DEF Fork, Exit, ProcessesExit, Live, ThreadOK
  <2>2. \A u : (Unnoticed(u) => Unnoticed(u)') /\ (Registrant(u)' <=> Registrant(u))
    BY <2>1 DEF Unnoticed, Registrant
  <2>3. \A u \in Threads : Sought(u)' => Sought(u)
    BY <1>0, <1>3, <2>1 DEF Fork, Exit, ProcessesExit, ThreadOK, CourseInv, Sought
  <2>4. ASSUME NEW w \in Threads, NEW p \in tracked', trackedBy'[p] = w
        PROVE  /\ Pid[Leader[w]] = p
               /\ ~Unnoticed(w)' => Live(w)' /\ (Registrant(w)' \/ w \in exitCallback')
    <3>1. /\ Pid[Leader[w]] = p
          /\ ~Unnoticed(w) => Live(w) /\ (Registrant(w) \/ w \in exitCallback)
      BY <2>1, <2>4 DEF OriginInv
    <3>2. ASSUME ~Unnoticed(w)', w = t
          PROVE  Live(w)'
      <4>1. ~Unnoticed(w) /\ Leader[w] = w /\ w \notin lost'
        BY <2>2, <3>2 DEF Unnoticed
      <4>2. Live(w) /\ (Registrant(w) \/ w \in exitCallback) /\ Pid[w] = p
        BY <3>1, <4>1
      <4>3. CASE Fork(t)
        BY <1>0, <3>2, <4>3, ForkStep DEF Live
      <4>4. CASE Exit(t)
        <5>1. registering[t] \in {"no", "done"} /\ thread'[t] = IF t \in exitCallback THEN "exiting" ELSE "gone"
          BY <1>0, <4>4, ExitMoves
        <5> QED
          BY <3>2, <4>2, <5>1 DEF Registrant, Live
      <4>5. CASE ProcessesExit(t)
        <5>1. Pid[t] \notin tracked' \/ t \in lost'
          BY <4>5, LinkMoves
        <5> QED
          BY <2>4, <3>2, <4>1, <4>2, <5>1
      <4> QED
        BY <1>3, <4>3, <4>4, <4>5
    <3>3. w # t => (Live(w)' <=> Live(w))
      BY <2>1
    <3> QED
      BY <2>1, <2>2, <3>1, <3>2, <3>3
  <2>5. ASSUME NEW u \in Threads, NEW w \in Threads, Sought(u)', trackedBy'[Pid[Leader[u]]] = w
        PROVE  Leader[w] = Leader[u] \/ Unnoticed(w)'
    <3>1. Leader[w] = Leader[u] \/ Unnoticed(w)
      BY <2>1, <2>3, <2>5 DEF OriginInv
    <3> QED
      BY <2>2, <3>1
  <2>6. ASSUME NEW l \in Leaders, trackedBy'[Pid[l]] = l
        PROVE  registering'[l] = "start" \/ started'[l] > 0 \/ l \in lost'
    BY <2>1, <2>6 DEF OriginInv
  <2> QED
    BY <2>1, <2>3, <2>4, <2>5, <2>6 DEF OriginInv
<1>4. ASSUME UNCHANGED <<thread, registering, exitCallback, tracked, trackedBy, started, lost>>
      PROVE  OriginInv'
  BY <1>4 DEF OriginInv, Unnoticed, Live, Registrant, Sought
<1> QED
  BY <1>1, <1>2, <1>3, <1>4, TrackCases

LEMMA StartStep ==
  ASSUME TrackTypeOK, WorldInv, CourseInv, LinkInv, OriginInv, StartInv, TrackNext
  PROVE  StartInv'
<1>0. ThreadOK /\ RegisterOK /\ TrackedOK /\ ToldOK
  BY TrackTypeParts
<1> DEFINE Within(l) == /\ started[l] <= Often(l)
                        /\ started[l] = Often(l) => /\ \A t \in Group(l) : registering[t] # "start"
                                                    /\ Peopled(l) => Linked(l)
<1>1. \A l \in Leaders : Within(l) /\ started[l] \in Nat
  BY <1>0 DEF StartInv, ToldOK
<1>2. ASSUME NEW t \in Threads, ProcessesTryRegister(t), NEW l \in Leaders
      PROVE  Within(l)'
  <2>1. /\ thread' = thread /\ started' = started /\ exited' = exited /\ thread[t] = "alive"
        /\ registering'[t] = "start" => ~Linked(Leader[t])
        /\ \A u \in Threads \ {t} : registering'[u] = registering[u]
        /\ Linked(l) => Linked(l)'
    BY <1>0, <1>2 DEF ProcessesTryRegister, RegisterOK, Linked, CourseInv
  <2>2. (Often(l)' = Often(l)) /\ (Peopled(l)' <=> Peopled(l))
    BY <2>1 DEF Often, Told, Peopled, Live
  <2>3. Peopled(Leader[t])
    BY <2>1, GroupFacts DEF Peopled, Live
  <2>4. ASSUME started[l] = Often(l), NEW u \in Group(l)
        PROVE  registering'[u] # "start"
    BY <1>1, <2>1, <2>3, <2>4, GroupFacts
  <2> QED
    BY <1>1, <2>1, <2>2, <2>4
<1>3. ASSUME NEW t \in Threads, ProcessesStart(t), NEW l \in Leaders
      PROVE  Within(l)'
  <2>1. /\ thread' = thread /\ exited' = exited /\ tracked' = tracked /\ registering[t] = "start"
        /\ registering'[t] = "callback"
        /\ \A u \in Threads \ {t} : registering'[u] = registering[u]
    BY <1>0, <1>3 DEF ProcessesStart, RegisterOK
  <2>2. (Often(l)' = Often(l)) /\ (Peopled(l)' <=> Peopled(l)) /\ (Linked(l)' <=> Linked(l))
    BY <2>1 DEF Often, Told, Peopled, Live, Linked
  <2>3. \A u \in Group(l) : registering'[u] = "start" => registering[u] = "start"
    BY <2>1, GroupFacts
  <2>4. CASE started'[l] = started[l]
    BY <1>1, <2>2, <2>3, <2>4
  <2>5. CASE started'[l] # started[l]
    <3>1. l = Leader[t] /\ started'[l] = started[l] + 1
      BY <1>0, <1>3, <2>5 DEF ProcessesStart, ToldOK
    <3>2. started[l] # Often(l)
      BY <1>1, <2>1, <3>1, GroupFacts
    <3>3. Often(l) \in Nat
      BY DEF Often
    <3>4. started'[l] <= Often(l)
      BY <1>1, <3>1, <3>2, <3>3
    <3>5. Registrant(t) /\ Linked(l)
      BY <2>1, <3>1 DEF Registrant, LinkInv
    <3>6. \A u \in Group(l) : registering'[u] # "start"
      BY <2>1, <3>1, <3>5, GroupFacts DEF LinkInv, Registrant
    <3> QED
      BY <2>2, <3>4, <3>5, <3>6
  <2> QED
    BY <2>4, <2>5
<1>4. ASSUME NEW t \in Threads, RegisterCurrent(t) \/ SetSyscallHandler(t) \/ InitExitHandler(t),
             NEW l \in Leaders
      PROVE  Within(l)'
  <2>1. /\ thread' = thread /\ exited' = exited /\ tracked' = tracked /\ started' = started
        /\ \A u \in Threads : registering'[u] = "start" => registering[u] = "start"
    BY <1>0, <1>4 DEF RegisterCurrent, SetSyscallHandler, InitExitHandler, RegisterOK
  <2>2. (Often(l)' = Often(l)) /\ (Peopled(l)' <=> Peopled(l)) /\ (Linked(l)' <=> Linked(l))
    BY <2>1 DEF Often, Told, Peopled, Live, Linked
  <2> QED
    BY <1>1, <2>1, <2>2, GroupFacts
<1>5. ASSUME NEW t \in Threads, Fork(t), NEW l \in Leaders
      PROVE  Within(l)'
  <2>1. /\ registering' = registering /\ exited' = exited /\ tracked' = tracked /\ started' = started
        /\ Peopled(l)' <=> Peopled(l) \/ l = Leader[t]
        /\ thread[t] = "unborn" /\ (t # Leader[t] => Peopled(Leader[t]))
    BY <1>0, <1>5, ForkStep
  <2>2. (Often(l)' = Often(l)) /\ (Linked(l)' <=> Linked(l)) /\ Often(l) > 0
    BY <2>1 DEF Often, Told, Linked
  <2>3. t = l => started[l] # Often(l)
    BY <2>1, <2>2 DEF CourseInv
  <2> QED
    BY <1>1, <2>1, <2>2, <2>3
<1>6. ASSUME NEW t \in Threads, Exit(t), NEW l \in Leaders
      PROVE  Within(l)'
  <2>1. /\ registering' = registering /\ exited' = exited /\ tracked' = tracked /\ started' = started
        /\ \A u \in Threads : Live(u)' => Live(u)
    BY <1>0, <1>6, ExitMoves
  <2>2. (Often(l)' = Often(l)) /\ (Linked(l)' <=> Linked(l)) /\ (Peopled(l)' => Peopled(l))
    BY <2>1, GroupFacts DEF Often, Told, Linked, Peopled
  <2> QED
    BY <1>1, <2>1, <2>2
<1>7. ASSUME NEW t \in Threads, ProcessesExit(t), NEW l \in Leaders
      PROVE  Within(l)'
  <2>1. /\ registering' = registering /\ started' = started /\ thread[t] = "exiting" /\ Live(t)
        /\ \A u \in Threads : Live(u)' => Live(u)
    BY <1>0, <1>7, ExitMoves
  <2>2. Peopled(l)' => Peopled(l)
    BY <2>1, GroupFacts DEF Peopled
  <2>3. CASE tracked' = tracked /\ exited' = exited
    <3>1. (Often(l)' = Often(l)) /\ (Linked(l)' <=> Linked(l))
      BY <2>3 DEF Often, Told, Linked
    <3> QED
      BY <1>1, <2>1, <2>2, <3>1
  <2>4. CASE Pid[t] \in tracked /\ tracked' = tracked \ {Pid[t]} /\ exited'[t] = trackedBy[Pid[t]]
    <3>1. CASE l = t
      <4>1. Often(l) = 1
        BY <2>1, <3>1 DEF Often, CourseInv
      <4>2. Often(l)' = 2
        BY <2>4, <3>1, GroupFacts DEF Often, Told, OriginInv
      <4> QED
        BY <1>1, <2>1, <4>1, <4>2
    <3>2. CASE l # t
      <4>1. Often(l)' = Often(l)
        BY <1>7, <3>2, LinkMoves, GroupFacts DEF Often, Told
      <4>2. Peopled(l) => Pid[l] # Pid[t]
        BY <2>1, <3>2 DEF WorldInv
      <4>3. Peopled(l) => (Linked(l)' <=> Linked(l))
        BY <2>4, <4>2 DEF Linked
      <4> QED
        BY <1>1, <2>1, <2>2, <4>1, <4>3
    <3> QED
      BY <3>1, <3>2
  <2> QED
    BY <1>7, <2>3, <2>4, LinkMoves
<1>8. ASSUME UNCHANGED <<thread, registering, tracked, started, exited>>, NEW l \in Leaders
      PROVE  Within(l)'
  <2>1. (Often(l)' = Often(l)) /\ (Peopled(l)' <=> Peopled(l)) /\ (Linked(l)' <=> Linked(l))
    BY <1>8 DEF Often, Told, Peopled, Live, Linked
  <2> QED
    BY <1>1, <1>8, <2>1
<1>9. \A l \in Leaders : Within(l)'
  BY <1>2, <1>3, <1>4, <1>5, <1>6, <1>7, <1>8, TrackCases
<1> QED
  BY <1>9 DEF StartInv

LEMMA ExitAfterStep ==
  ASSUME TrackTypeOK, WorldInv, CourseInv, OriginInv, ExitAfterStart, TrackNext
  PROVE  ExitAfterStart'
<1>0. ThreadOK /\ RegisterOK /\ TrackedOK /\ ToldOK
  BY TrackTypeParts
<1>1. lost \subseteq lost' /\ \A l \in Leaders : started[l] > 0 => started'[l] > 0
  <2>1. ASSUME NEW t \in Threads, ProcessesStart(t)
        PROVE  lost \subseteq lost' /\ \A l \in Leaders : started[l] > 0 => started'[l] > 0
    BY <1>0, <2>1 DEF ProcessesStart, ToldOK
  <2>2. (\E t \in Threads : ProcessesStart(t)) \/ (started' = started /\ lost \subseteq lost')
    BY TrackCases DEF RegisterCurrent, SetSyscallHandler, ProcessesTryRegister, InitExitHandler,
       Fork, Exit, ProcessesExit
  <2> QED
    BY <2>1, <2>2
<1>2. \A w : Unnoticed(w) => Unnoticed(w)'
  BY <1>1 DEF Unnoticed
<1>3. \A w \in Threads : w = Leader[w] => w \in Leaders
  BY DEF Leaders
<1>4. CASE exited' = exited
  <2>1. ASSUME NEW t \in Threads, Told(t)'
        PROVE  \/ t = Leader[t] /\ (started'[t] > 0 \/ t \in lost')
               \/ Unnoticed(exited[t])'
    <3>1. Told(t)
      BY <1>4, <2>1 DEF Told
    <3>2. CASE t = Leader[t] /\ (started[t] > 0 \/ t \in lost)
      BY <1>1, <1>3, <3>2
    <3>3. CASE Unnoticed(exited[t])
      BY <1>1, <1>4, <3>3 DEF Unnoticed
    <3> QED
      BY <3>1, <3>2, <3>3 DEF ExitAfterStart
  <2> QED
    BY <2>1 DEF ExitAfterStart
<1>5. ASSUME NEW t \in Threads, ProcessesExit(t), Pid[t] \in tracked,
             exited' = [exited EXCEPT ![t] = trackedBy[Pid[t]]]
      PROVE  ExitAfterStart'
  <2> DEFINE w == trackedBy[Pid[t]]
  <2>1. w \in Threads /\ exited'[t] = w /\ Live(t)
    BY <1>0, <1>5, ExitMoves DEF ToldOK, OriginInv
  <2>2. started' = started /\ thread[t] = "exiting"
    BY <1>0, <1>5, ExitMoves
  <2>3. Unnoticed(exited[t])' \/ (t = Leader[t] /\ (started'[t] > 0 \/ t \in lost'))
    <3>1. Unnoticed(w) => Unnoticed(exited[t])'
      BY <1>1, <2>1 DEF Unnoticed
    <3>2. CASE ~Unnoticed(w)
      <4>1. Leader[w] = w /\ Pid[w] = Pid[t] /\ Live(w)
        BY <1>5, <2>1, <3>2 DEF OriginInv, Unnoticed
      <4>2. w = t
        BY <2>1, <4>1 DEF WorldInv
      <4>3. t \in Leaders /\ registering[t] # "start"
        BY <1>3, <2>2, <4>1, <4>2 DEF CourseInv
      <4>4. started[t] > 0 \/ t \in lost
        BY <4>2, <4>3 DEF OriginInv
      <4> QED
        BY <1>1, <4>1, <4>2, <4>3, <4>4
    <3> QED
      BY <3>1, <3>2
  <2>4. ASSUME NEW u \in Threads, Told(u)', u # t
        PROVE  \/ u = Leader[u] /\ (started'[u] > 0 \/ u \in lost')
               \/ Unnoticed(exited[u])'
    <3>1. Told(u) /\ exited'[u] = exited[u]
      BY <1>0, <1>5, <2>4 DEF Told, ToldOK
    <3>2. CASE u = Leader[u] /\ (started[u] > 0 \/ u \in lost)
      BY <1>1, <1>3, <3>2
    <3>3. CASE Unnoticed(exited[u])
      BY <1>1, <3>1, <3>3 DEF Unnoticed
    <3> QED
      BY <3>1, <3>2, <3>3 DEF ExitAfterStart
  <2> QED
    BY <2>3, <2>4 DEF ExitAfterStart
<1>6. \/ exited' = exited
      \/ \E t \in Threads : /\ ProcessesExit(t) /\ Pid[t] \in tracked
                            /\ exited' = [exited EXCEPT ![t] = trackedBy[Pid[t]]]
  BY TrackCases DEF RegisterCurrent, SetSyscallHandler, ProcessesTryRegister, ProcessesStart,
     InitExitHandler, Fork, Exit, ProcessesExit
<1> QED
  BY <1>4, <1>5, <1>6

LEMMA TrackStart == TrackInit => TrackInv
<1> SUFFICES ASSUME TrackInit PROVE TrackInv
  OBVIOUS
<1>1. TrackTypeOK
  BY DEF TrackInit, TrackTypeOK
<1>2. WorldInv /\ CourseInv /\ ExitAfterStart
  BY GroupFacts DEF TrackInit, WorldInv, CourseInv, ExitAfterStart, Peopled, Live, Told
<1>3. LinkInv
  BY GroupFacts DEF TrackInit, LinkInv, Registrant
<1>4. OriginInv
  <2>1. \A l \in Leaders : trackedBy[Pid[l]] = "nobody"
    BY GroupFacts DEF TrackInit
  <2> QED
    BY <2>1, GroupFacts DEF TrackInit, OriginInv, Sought
<1>5. StartInv
  BY GroupFacts DEF TrackInit, StartInv, Often
<1> QED
  BY <1>1, <1>2, <1>3, <1>4, <1>5 DEF TrackInv

LEMMA TrackInvStep == TrackInv /\ (TrackNext \/ UNCHANGED trackVars) => TrackInv'
<1>1. TrackInv /\ TrackNext => TrackInv'
  BY TrackTypeStep, WorldStep, CourseStep, LinkStep, OriginStep, StartStep, ExitAfterStep,
     TrackTypeParts DEF TrackInv
<1>2. ASSUME TrackInv, UNCHANGED trackVars
      PROVE  TrackInv'
  <2>1. TrackTypeOK'
    BY <1>2 DEF TrackInv, trackVars, TrackTypeOK
  <2>2. WorldInv' /\ CourseInv' /\ LinkInv'
    BY <1>2 DEF TrackInv, trackVars, WorldInv, CourseInv, LinkInv, Peopled, Live, Told, Registrant,
       Linked
  <2>3. OriginInv'
    BY <1>2 DEF TrackInv, trackVars, OriginInv, Unnoticed, Live, Registrant, Sought
  <2>4. StartInv' /\ ExitAfterStart'
    BY <1>2 DEF TrackInv, trackVars, StartInv, ExitAfterStart, Often, Told, Peopled, Live, Linked,
       Unnoticed
  <2> QED
    BY <2>1, <2>2, <2>3, <2>4 DEF TrackInv
<1> QED
  BY <1>1, <1>2

LEMMA TrackFollows == TrackInv => TrackingSound
<1> SUFFICES ASSUME TrackInv PROVE TrackingSound
  OBVIOUS
<1>1. StartedOnce
  BY DEF TrackInv, StartInv, StartedOnce, Often
<1>2. ASSUME NEW l \in Leaders, thread[l] = "gone", Linked(l),
             \A m \in Leaders : Pid[m] = Pid[l] /\ m # l => thread[m] = "unborn"
      PROVE  Unnoticed(trackedBy[Pid[l]])
  <2> SUFFICES ASSUME NEW w \in Threads, w = trackedBy[Pid[l]], ~Unnoticed(w)
               PROVE  FALSE
    BY <1>2 DEF TrackInv, OriginInv, Linked
  <2>1. w = Leader[w] /\ Pid[w] = Pid[l] /\ Live(w)
    BY <1>2 DEF TrackInv, OriginInv, Linked, Unnoticed
  <2> QED
    BY <1>2, <2>1 DEF Leaders, Live
<1>3. ASSUME NEW t \in Threads, thread[t] = "alive", registering[t] = "done",
             started[Leader[t]] = 0, Leader[t] \notin lost,
             NEW w \in Threads, w = trackedBy[Pid[Leader[t]]], ~Unnoticed(w)
      PROVE  registering[w] = "start"
  <2>1. w = Leader[t]
    BY <1>3 DEF TrackInv, OriginInv, Sought, Unnoticed
  <2>2. w \in Leaders /\ trackedBy[Pid[w]] = w /\ started[w] = 0 /\ w \notin lost
    <3>1. Leader[t] \in Leaders
      BY <1>3, GroupFacts
    <3>2. trackedBy[Pid[Leader[t]]] = Leader[t]
      BY <1>3, <2>1
    <3> QED
      BY <1>3, <2>1, <3>1, <3>2
  <2>3. registering[w] = "start" \/ started[w] > 0 \/ w \in lost
    BY <2>2 DEF TrackInv, OriginInv
  <2> QED
    BY <2>2, <2>3
<1>4. \A t \in Threads : thread[t] = "alive" /\ registering[t] = "done" =>
        trackedBy[Pid[Leader[t]]] \in Threads
  BY DEF TrackInv, OriginInv, Sought
<1>5. LinksOutlive
  BY <1>2, <1>3, <1>4 DEF LinksOutlive, Linked
<1> QED
  BY <1>1, <1>5 DEF TrackInv, TrackingSound

-----------------------------------------------------------------------------
(* Least and greatest numbers.                                            *)

(* Every set of numbers that is not empty has a least one.                 *)
LEMMA LeastNumber ==
  ASSUME NEW N \in SUBSET Nat, N # {}
  PROVE  \E k \in N : \A j \in N : k <= j
<1>1. PICK k \in N : \A j \in N : ~(<<j, k>> \in OpToRel(<, Nat))
  BY WFMin, NatLessThanWellFounded
<1>2. ASSUME NEW j \in N
      PROVE  k <= j
  <2>1. k \in Nat /\ j \in Nat
    OBVIOUS
  <2>2. ~(j < k)
    BY <1>1, <2>1 DEF OpToRel
  <2> QED
    BY <2>1, <2>2
<1> QED
  BY <1>2

(* And one that is bounded has a greatest.                                 *)
LEMMA GreatestNumber ==
  ASSUME NEW N \in SUBSET Nat, N # {}, NEW b \in Nat, \A k \in N : k <= b
  PROVE  \E k \in N : \A j \in N : j <= k
<1> DEFINE Above == {k \in Nat : \A j \in N : j <= k}
<1>1. b \in Above /\ Above \in SUBSET Nat
  OBVIOUS
<1> HIDE DEF Above
<1>2. PICK m \in Above : \A j \in Above : m <= j
  BY <1>1, LeastNumber
<1> USE DEF Above
<1>3. m \in N
  <2> SUFFICES ASSUME m \notin N PROVE FALSE
    OBVIOUS
  <2>1. \A j \in N : j \in Nat /\ j <= m /\ j # m
    BY <1>2
  <2>2. m \in Nat /\ m # 0
    <3>1. PICK j \in N : TRUE
      OBVIOUS
    <3>2. j \in Nat /\ m \in Nat /\ j <= m /\ j # m
      BY <1>2, <2>1, <3>1
    <3> QED
      BY <3>2
  <2>3. m - 1 \in Nat /\ \A j \in N : j <= m - 1
    BY <2>1, <2>2
  <2>4. m <= m - 1
    BY <1>2, <2>3
  <2> QED
    BY <2>2, <2>4
<1> QED
  BY <1>2, <1>3

-----------------------------------------------------------------------------
(* The length of a table is a fold over its entries, and that a recursive  *)
(* function.  It exists, and is a number everywhere: a least set without   *)
(* one would be one entry longer than a set that has one.                  *)

Pick(set) == CHOOSE i \in set : TRUE

Sums(entries, f) ==
  f = [set \in SUBSET (DOMAIN entries) |->
         IF set = {} THEN 0 ELSE f[set \ {Pick(set)}] + EntrySize(entries[Pick(set)])]

LEMMA SizeIsSum ==
  ASSUME NEW entries
  PROVE  SizeOf(entries) = (CHOOSE f : Sums(entries, f))[DOMAIN entries]
BY DEF SizeOf, FoldSeq, FoldFunction, FoldFunctionOnSet, MapThenFoldSet, Sums, Pick

LEMMA SumsExist ==
  ASSUME NEW entries, IsFiniteSet(DOMAIN entries)
  PROVE  \E f : Sums(entries, f)
<1> DEFINE D == DOMAIN entries
           Upto(k) == {set \in SUBSET D : Cardinality(set) <= k}
           Sum(g, set) ==
             IF set = {} THEN 0 ELSE g[set \ {Pick(set)}] + EntrySize(entries[Pick(set)])
           Partial(k, g) == g = [set \in Upto(k) |-> Sum(g, set)]
           Bad == {k \in Nat : ~\E g : Partial(k, g)}
<1>1. \A set \in SUBSET D : IsFiniteSet(set) /\ Cardinality(set) \in Nat
  BY FS_Subset, FS_CardinalityType
<1>2. \A set \in SUBSET D : set # {} => Pick(set) \in set
  BY DEF Pick
<1>3. \A set \in SUBSET D : set # {} =>
        set \ {Pick(set)} \in SUBSET D /\ Cardinality(set \ {Pick(set)}) = Cardinality(set) - 1
  BY <1>1, <1>2, FS_RemoveElement
<1>4. \A set \in SUBSET D : Cardinality(set) = 0 <=> set = {}
  BY <1>1, FS_EmptySet
<1>5. Bad = {}
  <2> SUFFICES ASSUME Bad # {} PROVE FALSE
    OBVIOUS
  <2>1. PICK k \in Bad : \A j \in Bad : k <= j
    <3> HIDE DEF Bad
    <3>1. Bad \in SUBSET Nat
      BY DEF Bad
    <3> QED
      BY <3>1, LeastNumber
  <2>2. CASE k = 0
    <3>1. Partial(0, [set \in Upto(0) |-> 0])
      <4>1. \A set \in Upto(0) : set = {}
        BY <1>1, <1>4
      <4> QED
        BY <4>1
    <3> QED
      BY <2>1, <2>2, <3>1
  <2>3. CASE k # 0
    <3>1. k \in Nat /\ k - 1 \in Nat /\ k - 1 \notin Bad
      <4>1. k \in Nat
        BY <2>1
      <4>2. k - 1 \in Nat /\ ~(k <= k - 1)
        BY <2>3, <4>1
      <4> HIDE DEF Bad
      <4> QED
        BY <2>1, <4>1, <4>2
    <3>2. PICK g : Partial(k - 1, g)
      BY <3>1
    <3> DEFINE h == [set \in Upto(k) |-> Sum(g, set)]
    <3>3. ASSUME NEW set \in Upto(k - 1)
          PROVE  set \in Upto(k) /\ h[set] = g[set]
      <4>1. set \in Upto(k)
        BY <1>1, <3>1
      <4>2. g[set] = Sum(g, set)
        BY <3>2
      <4> QED
        BY <4>1, <4>2
    <3>4. \A set \in Upto(k) : set # {} => set \ {Pick(set)} \in Upto(k - 1)
      BY <1>1, <1>3, <3>1
    <3>5. \A set \in Upto(k) : Sum(h, set) = Sum(g, set)
      BY <3>3, <3>4
    <3>6. Partial(k, h)
      BY <3>5
    <3> QED
      BY <2>1, <3>6
  <2> QED
    BY <2>2, <2>3
<1>6. Cardinality(D) \in Nat /\ Cardinality(D) \notin Bad
  BY <1>5, FS_CardinalityType
<1>7. PICK f : Partial(Cardinality(D), f)
  BY <1>6
<1>8. Upto(Cardinality(D)) = SUBSET D
  BY FS_Subset
<1> QED
  BY <1>7, <1>8 DEF Sums

LEMMA SumsAreNumbers ==
  ASSUME NEW entries, IsFiniteSet(DOMAIN entries),
         \A i \in DOMAIN entries : EntrySize(entries[i]) \in Nat,
         NEW f, Sums(entries, f)
  PROVE  \A set \in SUBSET (DOMAIN entries) : f[set] \in Nat
<1> DEFINE D == DOMAIN entries
           Bad == {k \in Nat : \E set \in SUBSET D : Cardinality(set) = k /\ f[set] \notin Nat}
<1>1. \A set \in SUBSET D : IsFiniteSet(set) /\ Cardinality(set) \in Nat
  BY FS_Subset, FS_CardinalityType
<1>2. Bad = {}
  <2> SUFFICES ASSUME Bad # {} PROVE FALSE
    OBVIOUS
  <2>1. PICK k \in Bad : \A j \in Bad : k <= j
    <3> HIDE DEF Bad
    <3>1. Bad \in SUBSET Nat
      BY DEF Bad
    <3> QED
      BY <3>1, LeastNumber
  <2>2. PICK set \in SUBSET D : Cardinality(set) = k /\ f[set] \notin Nat
    BY <2>1
  <2>3. set # {}
    BY <2>2 DEF Sums
  <2>4. Pick(set) \in set
    BY <2>3 DEF Pick
  <2> DEFINE rest == set \ {Pick(set)}
  <2>5. rest \in SUBSET D /\ Cardinality(rest) = k - 1 /\ k \in Nat /\ k - 1 \in Nat
    BY <1>1, <2>2, <2>4, FS_RemoveElement
  <2>6. f[rest] \in Nat
    BY <2>1, <2>5
  <2>7. f[set] = f[rest] + EntrySize(entries[Pick(set)])
    BY <2>2, <2>3 DEF Sums
  <2>8. EntrySize(entries[Pick(set)]) \in Nat
    BY <2>2, <2>4
  <2> QED
    BY <2>2, <2>6, <2>7, <2>8
<1> QED
  BY <1>1, <1>2

LEMMA SizeOfType ==
  ASSUME NEW entries \in Seq([fn: Symbols, tail: 0..1])
  PROVE  SizeOf(entries) \in Nat /\ SizeOf(<< >>) = 0
<1>1. ASSUME NEW table \in Seq([fn: Symbols, tail: 0..1])
      PROVE  /\ SizeOf(table) \in Nat
             /\ DOMAIN table = {} => SizeOf(table) = 0
  <2> DEFINE f == CHOOSE f : Sums(table, f)
  <2>1. DOMAIN table = 1..Len(table) /\ Len(table) \in Nat
    OBVIOUS
  <2>2. IsFiniteSet(DOMAIN table)
    BY <2>1, FS_Interval
  <2>3. \A i \in DOMAIN table : EntrySize(table[i]) \in Nat
    <3>1. \A e \in [fn: Symbols, tail: 0..1] : EntrySize(e) \in Nat
      BY SymbolAssumption DEF EntrySize, IdSize
    <3>2. ASSUME NEW i \in DOMAIN table
          PROVE  table[i] \in [fn: Symbols, tail: 0..1]
      <4>1. i \in 1..Len(table)
        BY <2>1
      <4>2. \A E : \A s \in Seq(E) : \A j \in 1..Len(s) : s[j] \in E
        OBVIOUS
      <4> QED
        BY <4>1, <4>2
    <3> QED
      BY <3>1, <3>2
  <2>4. Sums(table, f)
    BY <2>2, SumsExist
  <2>5. SizeOf(table) = f[DOMAIN table]
    BY SizeIsSum
  <2> HIDE DEF f
  <2>6. f[DOMAIN table] \in Nat
    BY <2>2, <2>3, <2>4, SumsAreNumbers
  <2>7. DOMAIN table = {} => f[DOMAIN table] = 0
    BY <2>4 DEF Sums
  <2> QED
    BY <2>5, <2>6, <2>7
<1>2. << >> \in Seq([fn: Symbols, tail: 0..1]) /\ DOMAIN << >> = {}
  OBVIOUS
<1> QED
  BY <1>1, <1>2

(* As many entries as fit are entries of the table.                        *)
LEMMA WholeType ==
  ASSUME delegated_fns \in Seq([fn: Symbols, tail: 0..1]), NEW len \in Nat
  PROVE  Whole(len) \in 0..Len(delegated_fns)
<1> DEFINE Fitting == {n \in 0..Len(delegated_fns) : Fits(n, len)}
<1>1. Len(delegated_fns) \in Nat
  OBVIOUS
<1>2. 0 \in Fitting
  <2>1. FirstOf(0) = << >>
    BY DEF FirstOf
  <2>2. SizeOf(FirstOf(0)) = 0
    BY <2>1, SizeOfType
  <2> QED
    BY <1>1, <2>2 DEF Fits
<1>3. Fitting \in SUBSET Nat /\ \A n \in Fitting : n <= Len(delegated_fns)
  BY <1>1
<1>4. PICK n \in Fitting : \A m \in Fitting : m <= n
  <2> HIDE DEF Fitting
  <2> QED
    BY <1>1, <1>2, <1>3, GreatestNumber
<1>5. \E m \in 0..Len(delegated_fns) :
        Fits(m, len) /\ \A k \in 0..Len(delegated_fns) : Fits(k, len) => k <= m
  BY <1>4
<1> QED
  BY <1>5 DEF Whole

-----------------------------------------------------------------------------
(* Calls.                                                                  *)

TableOK == delegated_fns \in Seq([fn: Symbols, tail: 0..1])
AskedOK == asked \in [Callers -> Int]
PulledOK == pulled \in [Callers -> SUBSET [name: Symbols \cup {"garbled"}, id: Nat]]
JobOK ==
  job \in [Callers -> [at: {"no", "found"}, name: Symbols \cup {"none"}, id: Nat, moved: BOOLEAN]]
CalledOK == called \in [Callers -> {"nobody", "right", "wrong", "moved", "refused"}]

LEMMA CallTypeParts == CallTypeOK <=> TableOK /\ AskedOK /\ PulledOK /\ JobOK /\ CalledOK
BY DEF CallTypeOK, TableOK, AskedOK, PulledOK, JobOK, CalledOK

(* A call that found its entry found the one of its name.                  *)
JobInv ==
  \A t \in Callers : job[t].at = "found" =>
    /\ job[t].id < Len(delegated_fns)
    /\ delegated_fns[job[t].id + 1].fn = job[t].name

CallInv == CallTypeOK /\ PulledStays /\ JobInv /\ CallsReachTheirName

(* The entries of a table that grows stay where they are.                  *)
LEMMA TableGrows ==
  ASSUME TableOK, NEW s \in Symbols, AddKernelSymbol(s)
  PROVE  /\ TableOK'
         /\ \A i \in Nat : i < Len(delegated_fns) =>
              i < Len(delegated_fns') /\ delegated_fns'[i + 1] = delegated_fns[i + 1]
<1>1. PICK tail \in 0..1 : delegated_fns' = Append(delegated_fns, [fn |-> s, tail |-> tail])
  BY DEF AddKernelSymbol
<1>2. [fn |-> s, tail |-> tail] \in [fn: Symbols, tail: 0..1]
  OBVIOUS
<1>3. \A E : \A seq \in Seq(E), e \in E :
        /\ Append(seq, e) \in Seq(E)
        /\ \A i \in Nat : i < Len(seq) =>
             i < Len(Append(seq, e)) /\ Append(seq, e)[i + 1] = seq[i + 1]
  OBVIOUS
<1> QED
  BY <1>1, <1>2, <1>3 DEF TableOK

LEMMA CallInvStep == CallInv /\ (CallNext \/ UNCHANGED callVars) => CallInv'
<1> SUFFICES ASSUME CallInv, CallNext \/ UNCHANGED callVars
             PROVE  CallInv'
  OBVIOUS
<1>0. /\ TableOK /\ AskedOK /\ PulledOK /\ JobOK /\ CalledOK
      /\ PulledStays /\ JobInv /\ CallsReachTheirName
  BY CallTypeParts DEF CallInv
<1>1. ASSUME NEW s \in Symbols, AddKernelSymbol(s)
      PROVE  CallInv'
  <2>1. /\ TableOK'
        /\ \A i \in Nat : i < Len(delegated_fns) =>
             i < Len(delegated_fns') /\ delegated_fns'[i + 1] = delegated_fns[i + 1]
    BY <1>0, <1>1, TableGrows
  <2>2. asked' = asked /\ pulled' = pulled /\ called' = called
    BY <1>1 DEF AddKernelSymbol
  <2>3. JobOK' /\ \A t \in Callers : /\ job'[t].at = job[t].at /\ job'[t].id = job[t].id
                                     /\ job'[t].name = job[t].name
    BY <1>0, <1>1 DEF AddKernelSymbol, JobOK
  <2>4. JobInv'
    <3> SUFFICES ASSUME NEW t \in Callers, job'[t].at = "found"
                 PROVE  /\ job'[t].id < Len(delegated_fns')
                        /\ delegated_fns'[job'[t].id + 1].fn = job'[t].name
      BY DEF JobInv
    <3>1. job[t].id \in Nat
      BY <1>0 DEF JobOK
    <3> QED
      BY <1>0, <2>1, <2>3, <3>1 DEF JobInv
  <2>5. PulledStays'
    <3> SUFFICES ASSUME NEW t \in Callers, NEW e \in pulled[t]
                 PROVE  /\ e.id < Len(delegated_fns')
                        /\ IF e.name = "garbled" THEN delegated_fns'[e.id + 1].tail > 0
                                                 ELSE delegated_fns'[e.id + 1].fn = e.name
      BY <2>2 DEF PulledStays
    <3>1. e.id \in Nat
      BY <1>0 DEF PulledOK
    <3> QED
      BY <1>0, <2>1, <3>1 DEF PulledStays
  <2>6. CallTypeOK' /\ CallsReachTheirName'
    BY <1>0, <2>1, <2>2, <2>3
    DEF CallTypeOK, TableOK, AskedOK, PulledOK, JobOK, CalledOK, CallsReachTheirName
  <2> QED
    BY <2>4, <2>5, <2>6 DEF CallInv
<1>2. ASSUME NEW t \in Callers, HandlePullSize(t)
      PROVE  CallInv'
  <2>1. AskedOK'
    <3>1. SizeOf(delegated_fns) \in Nat
      BY <1>0, SizeOfType DEF TableOK
    <3> QED
      BY <1>0, <1>2, <3>1 DEF HandlePullSize, AskedOK
  <2>2. UNCHANGED <<delegated_fns, pulled, job, called>>
    BY <1>2 DEF HandlePullSize
  <2>3. CallTypeOK'
    BY <1>0, <2>1, <2>2 DEF CallTypeOK, TableOK, AskedOK, PulledOK, JobOK, CalledOK
  <2>4. PulledStays' /\ JobInv' /\ CallsReachTheirName'
    BY <1>0, <2>2 DEF PulledStays, JobInv, CallsReachTheirName
  <2> QED
    BY <2>3, <2>4 DEF CallInv
<1>3. ASSUME NEW t \in Callers, HandlePullComplete(t)
      PROVE  CallInv'
  <2>1. /\ UNCHANGED <<delegated_fns, job, called>>
        /\ asked' = [asked EXCEPT ![t] = -1]
    BY <1>3 DEF HandlePullComplete
  <2>2. pulled' = pulled \/ \E n \in 0..Len(delegated_fns) : pulled' = [pulled EXCEPT ![t] = ReadBack(n)]
    <3>1. asked[t] \in Int /\ asked[t] > 0
      BY <1>0, <1>3 DEF HandlePullComplete, AskedOK
    <3>2. PICK len \in {asked[t] - 1, asked[t]} :
            pulled' = pulled \/ pulled' = [pulled EXCEPT ![t] = ReadBack(Whole(len))]
      BY <1>3 DEF HandlePullComplete
    <3>3. len \in Nat
      BY <3>1
    <3>4. Whole(len) \in 0..Len(delegated_fns)
      BY <1>0, <3>3, WholeType DEF TableOK
    <3> QED
      BY <3>2, <3>4
  <2>3. ASSUME NEW n \in 0..Len(delegated_fns), NEW e \in ReadBack(n)
        PROVE  /\ e \in [name: Symbols \cup {"garbled"}, id: Nat]
               /\ e.id < Len(delegated_fns)
               /\ IF e.name = "garbled" THEN delegated_fns[e.id + 1].tail > 0
                                        ELSE delegated_fns[e.id + 1].fn = e.name
    <3>1. PICK i \in 1..n :
            e = [name |-> IF delegated_fns[i].tail = 0 THEN delegated_fns[i].fn ELSE "garbled",
                 id |-> i - 1]
      BY DEF ReadBack
    <3>2. i \in 1..Len(delegated_fns) /\ i - 1 \in Nat /\ (i - 1) + 1 = i /\ i - 1 < Len(delegated_fns)
      BY <1>0, <3>1 DEF TableOK
    <3>3. delegated_fns[i] \in [fn: Symbols, tail: 0..1]
      <4>1. \A E : \A s \in Seq(E) : \A j \in 1..Len(s) : s[j] \in E
        OBVIOUS
      <4> QED
        BY <1>0, <3>2, <4>1 DEF TableOK
    <3>4. delegated_fns[i].fn \in Symbols /\ delegated_fns[i].tail \in 0..1
      BY <3>3
    <3>5. delegated_fns[i].fn # "garbled"
      BY <3>4, SymbolAssumption
    <3>6. e.id = i - 1 /\ e.name = IF delegated_fns[i].tail = 0 THEN delegated_fns[i].fn ELSE "garbled"
      BY <3>1
    <3>7. e \in [name: Symbols \cup {"garbled"}, id: Nat]
      BY <3>1, <3>2, <3>4
    <3> QED
      BY <3>2, <3>4, <3>5, <3>6, <3>7
  <2>4. PulledOK'
    BY <1>0, <2>2, <2>3 DEF PulledOK
  <2>5. CallTypeOK'
    <3>1. AskedOK'
      BY <1>0, <2>1 DEF AskedOK
    <3> QED
      BY <1>0, <2>1, <2>4, <3>1 DEF CallTypeOK, TableOK, AskedOK, PulledOK, JobOK, CalledOK
  <2>6. PulledStays'
    <3> SUFFICES ASSUME NEW u \in Callers, NEW e \in pulled'[u]
                 PROVE  /\ e.id < Len(delegated_fns)
                        /\ IF e.name = "garbled" THEN delegated_fns[e.id + 1].tail > 0
                                                 ELSE delegated_fns[e.id + 1].fn = e.name
      BY <2>1 DEF PulledStays
    <3>1. e \in pulled[u] \/ \E n \in 0..Len(delegated_fns) : e \in ReadBack(n)
      BY <1>0, <2>2 DEF PulledOK
    <3> QED
      BY <1>0, <2>3, <3>1 DEF PulledStays
  <2>7. JobInv' /\ CallsReachTheirName'
    BY <1>0, <2>1 DEF JobInv, CallsReachTheirName
  <2> QED
    BY <2>5, <2>6, <2>7 DEF CallInv
<1>4. ASSUME NEW t \in Callers, NEW e \in pulled[t], HandleCall(t, e)
      PROVE  CallInv'
  <2>1. /\ e \in [name: Symbols \cup {"garbled"}, id: Nat] /\ e.name # "garbled"
        /\ e.id < Len(delegated_fns) /\ delegated_fns[e.id + 1].fn = e.name
    BY <1>0, <1>4 DEF PulledOK, PulledStays, HandleCall
  <2>2. /\ UNCHANGED <<delegated_fns, asked, pulled, called>>
        /\ job' = [job EXCEPT ![t] = [at |-> "found", name |-> e.name, id |-> e.id, moved |-> FALSE]]
    BY <1>4, <2>1 DEF HandleCall
  <2>3. JobOK'
    BY <1>0, <2>1, <2>2 DEF JobOK
  <2>4. CallTypeOK'
    BY <1>0, <2>2, <2>3 DEF CallTypeOK, TableOK, AskedOK, PulledOK, JobOK, CalledOK
  <2>5. JobInv'
    BY <1>0, <2>1, <2>2 DEF JobInv, JobOK
  <2>6. PulledStays' /\ CallsReachTheirName'
    BY <1>0, <2>2 DEF PulledStays, CallsReachTheirName
  <2> QED
    BY <2>4, <2>5, <2>6 DEF CallInv
<1>5. ASSUME NEW t \in Callers, RunCall(t)
      PROVE  CallInv'
  <2>1. /\ UNCHANGED <<delegated_fns, asked, pulled>> /\ job' = [job EXCEPT ![t] = NoJob]
        /\ job[t].at = "found"
    BY <1>5 DEF RunCall
  <2>2. delegated_fns[job[t].id + 1].fn = job[t].name
    BY <1>0, <2>1 DEF JobInv
  <2>3. \E how \in {"right", "moved"} : called' = [called EXCEPT ![t] = how]
    BY <1>5, <2>2 DEF RunCall
  <2>4. JobOK' /\ JobInv'
    BY <1>0, <2>1 DEF JobOK, JobInv, NoJob
  <2>5. CallsReachTheirName' /\ CalledOK'
    BY <1>0, <2>3 DEF CallsReachTheirName, CalledOK
  <2>6. CallTypeOK' /\ PulledStays'
    BY <1>0, <2>1, <2>4, <2>5
    DEF CallTypeOK, TableOK, AskedOK, PulledOK, JobOK, CalledOK, PulledStays
  <2> QED
    BY <2>4, <2>5, <2>6 DEF CallInv
<1>6. CASE UNCHANGED callVars
  BY <1>0, <1>6 DEF CallInv, CallTypeOK, TableOK, AskedOK, PulledOK, JobOK, CalledOK, PulledStays,
     JobInv, CallsReachTheirName, callVars
<1> QED
  BY <1>1, <1>2, <1>3, <1>4, <1>5, <1>6 DEF CallNext, CallStep

LEMMA CallStart == CallInit => CallInv
<1> SUFFICES ASSUME CallInit PROVE CallInv
  OBVIOUS
<1>1. TableOK /\ AskedOK /\ PulledOK /\ CalledOK
  BY DEF CallInit, TableOK, AskedOK, PulledOK, CalledOK
<1>2. JobOK /\ \A t \in Callers : job[t].at = "no"
  BY DEF CallInit, JobOK, NoJob
<1>3. PulledStays /\ CallsReachTheirName
  BY DEF CallInit, PulledStays, CallsReachTheirName
<1> QED
  BY <1>1, <1>2, <1>3, CallTypeParts DEF CallInv, JobInv

-----------------------------------------------------------------------------
(* The parts together.                                                     *)

(* A thread that has the registration file open, and is not at it, has     *)
(* registered; its process had the handler before that.                    *)
OpenInv ==
  /\ callbacks[RegistrationFile] \subseteq {"open"}
  /\ \A t \in Threads :
       /\ registering[t] \in {"register", "start", "callback", "done"} => Leader[t] \in handler
       /\ opened[t] = RegistrationFile /\ running[t] \notin {"open", "callback"} /\ t \notin early
            => registering[t] = "done"

(* Registering changes no thread but its own, and once begun has planted   *)
(* the handler.                                                            *)
LEMMA HandlerStep ==
  ASSUME TrackTypeOK, TrackNext \/ UNCHANGED trackVars,
         \A t \in Threads :
           registering[t] \in {"register", "start", "callback", "done"} => Leader[t] \in handler
  PROVE  \A t \in Threads :
           registering'[t] \in {"register", "start", "callback", "done"} => Leader[t] \in handler'
<1>0. RegisterOK
  BY TrackTypeParts
<1>1. ASSUME NEW u \in Threads,
             RegisterCurrent(u) \/ ProcessesTryRegister(u) \/ ProcessesStart(u) \/ InitExitHandler(u)
      PROVE  /\ handler' = handler
             /\ \A t \in Threads : registering'[t] \in {"register", "start", "callback", "done"}
                  => registering[t] \in {"register", "start", "callback", "done"}
  BY <1>0, <1>1 DEF RegisterCurrent, ProcessesTryRegister, ProcessesStart, InitExitHandler, RegisterOK
<1>2. ASSUME NEW u \in Threads, SetSyscallHandler(u)
      PROVE  /\ handler' = handler \cup {Leader[u]}
             /\ \A t \in Threads \ {u} : registering'[t] = registering[t]
  BY <1>0, <1>2 DEF SetSyscallHandler, RegisterOK
<1>3. ASSUME NEW u \in Threads, Fork(u) \/ Exit(u) \/ ProcessesExit(u)
      PROVE  handler' = handler /\ registering' = registering
  BY <1>3 DEF Fork, Exit, ProcessesExit
<1>4. UNCHANGED trackVars => handler' = handler /\ registering' = registering
  BY DEF trackVars
<1> QED
  BY <1>1, <1>2, <1>3, <1>4, TrackCases

LEMMA OpenStep ==
  ASSUME FileTypeOK, TrackTypeOK, OpenInv, [Next]_vars
  PROVE  OpenInv'
<1>0. /\ TaskOK /\ RegisterOK /\ callbacks \in [Files -> SUBSET {"open", "call"}]
      /\ RegistrationFile \in Files /\ NoFile # RegistrationFile /\ Tasks = Threads
  BY FileTypeParts, TrackTypeParts, FileFacts, SpaceAssumption DEF DeviceOK
<1>1. \A t \in Threads :
        registering'[t] \in {"register", "start", "callback", "done"} => Leader[t] \in handler'
  BY StepParts, HandlerStep DEF OpenInv
<1> DEFINE Registered(t) ==
             opened[t] = RegistrationFile /\ running[t] \notin {"open", "callback"} /\ t \notin early
               => registering[t] = "done"
<1>2. ASSUME FileStep
      PROVE  OpenInv'
  <2>1. opened' = opened /\ running' = running
    BY <1>2 DEF FileStep, OwnerStep, Lock, GetNextFileId, AllocateLink, Unlock, AllocateStubs,
       RegisterChrdev, DeviceCreate, Delete, FreeCharDev, FreeStubs, FreeFileHandle, SetCallbacks,
       userVars
  <2>2. registering' = registering /\ early' = early
    BY <1>2 DEF FileStep, trackVars
  <2>3. \/ callbacks' = callbacks
        \/ callbacks' = [callbacks EXCEPT ![RegistrationFile] = {"open"}]
        \/ \E f \in Files \ {RegistrationFile} : callbacks' = [callbacks EXCEPT ![f] = {"open", "call"}]
    BY <1>2 DEF FileStep, OwnerStep, Lock, GetNextFileId, AllocateLink, Unlock, AllocateStubs,
       RegisterChrdev, DeviceCreate, Delete, FreeCharDev, FreeStubs, FreeFileHandle, SetCallbacks
  <2>4. callbacks'[RegistrationFile] \subseteq {"open"}
    BY <1>0, <2>3 DEF OpenInv
  <2> QED
    BY <1>1, <2>1, <2>2, <2>4 DEF OpenInv
<1>3. ASSUME callbacks' = callbacks, \A t \in Threads : Registered(t)'
      PROVE  OpenInv'
  BY <1>1, <1>3 DEF OpenInv
<1>4. \A t \in Threads : Registered(t)
  BY DEF OpenInv
<1>5. ASSUME UNCHANGED <<opened, running, registering, early, callbacks>>
      PROVE  OpenInv'
  BY <1>3, <1>4, <1>5
<1>6. ModuleStep => UNCHANGED <<opened, running, registering, early, callbacks>>
  BY DEF ModuleStep, HookStep, AddStartHook, RemoveStartHook, AddExitHook, RemoveExitHook, fileVars,
     trackVars
<1>7. ASSUME NEW t \in Threads, SysCallHandler(t) \/ ThreadStep(t)
      PROVE  UNCHANGED <<opened, running, registering, early, callbacks>>
  BY <1>7 DEF SysCallHandler, ThreadStep, Fork, Exit, ProcessesExit, fileVars, trackVars
<1>8. UNCHANGED vars => UNCHANGED <<opened, running, registering, early, callbacks>>
  BY DEF vars, fileVars, trackVars
<1>9. ASSUME NEW t \in Threads, OpenFile(t)
      PROVE  OpenInv'
  <2>1. /\ callbacks' = callbacks /\ registering' = registering /\ early' = early
        /\ running'[t] = "open"
        /\ \A u \in Threads \ {t} : opened'[u] = opened[u] /\ running'[u] = running[u]
    BY <1>0, <1>9 DEF OpenFile, Open, TaskOK, trackVars
  <2> QED
    BY <1>3, <1>4, <2>1
<1>10. ASSUME NEW t \in Threads, EnterOpen(t)
       PROVE  OpenInv'
  <2>1. /\ callbacks' = callbacks /\ opened' = opened /\ running[t] = "open"
        /\ running'[t] \in {"open", "callback", Idle}
        /\ \A u \in Threads \ {t} : running'[u] = running[u]
    BY <1>0, <1>10 DEF EnterOpen, EntersStub, NoUserChange, TaskOK
  <2>2. \A u \in Threads \ {t} : registering'[u] = registering[u]
    BY <1>0, <1>10 DEF EnterOpen, RegisterCurrent, RegisterOK, trackVars
  <2>3. early' = IF opened[t] = RegistrationFile /\ running'[t] = Idle THEN early \cup {t} ELSE early
    BY <1>10 DEF EnterOpen
  <2>4. Registered(t)'
    BY <2>1, <2>3
  <2>5. ASSUME NEW u \in Threads \ {t}
        PROVE  Registered(u)'
    <3>1. u \in early => u \in early'
      BY <2>3
    <3> QED
      BY <1>4, <2>1, <2>2, <3>1
  <2> QED
    BY <1>3, <2>1, <2>4, <2>5
<1>11. ASSUME NEW t \in Threads, Registers(t)
       PROVE  OpenInv'
  <2>1. UNCHANGED <<opened, running, early, callbacks>>
    BY <1>11 DEF Registers, fileVars
  <2>2. registering[t] # "done" /\ \A u \in Threads \ {t} : registering'[u] = registering[u]
    BY <1>0, <1>11 DEF Registers, RegisterStep, SetSyscallHandler, ProcessesTryRegister, ProcessesStart,
       InitExitHandler, RegisterOK
  <2> QED
    BY <1>3, <1>4, <2>1, <2>2
<1>12. ASSUME NEW t \in Threads, CallFile(t)
       PROVE  OpenInv'
  <2>1. callbacks' = callbacks /\ registering' = registering /\ early' = early
    BY <1>12 DEF CallFile, fop_call, EntersStub, fop_release, NoUserChange, trackVars
  <2>2. \A u \in Threads \ {t} : opened'[u] = opened[u] /\ running'[u] = running[u]
    BY <1>0, <1>12 DEF CallFile, fop_call, EntersStub, fop_release, NoUserChange, TaskOK
  <2>3. ASSUME opened'[t] = RegistrationFile
        PROVE  opened[t] = RegistrationFile /\ running[t] \notin {"open", "callback"}
    <3>1. running[t] \in {Idle, "call"}
      BY <1>12 DEF CallFile, fop_call, EntersStub, fop_release
    <3>2. opened'[t] \in {opened[t], NoFile}
      BY <1>0, <1>12 DEF CallFile, fop_call, EntersStub, fop_release, TaskOK
    <3> QED
      BY <1>0, <2>3, <3>1, <3>2 DEF Idle
  <2> QED
    BY <1>3, <1>4, <2>1, <2>2, <2>3
<1>13. ASSUME NEW t \in Threads, ReturnFromFile(t)
       PROVE  OpenInv'
  <2>1. callbacks' = callbacks /\ registering' = registering /\ early' = early
    BY <1>13 DEF ReturnFromFile, Returns, NoUserChange, trackVars
  <2>2. \A u \in Threads \ {t} : opened'[u] = opened[u] /\ running'[u] = running[u]
    BY <1>0, <1>13 DEF ReturnFromFile, Returns, TaskOK
  <2>3. opened'[t] = RegistrationFile => registering[t] = "done"
    BY <1>0, <1>13 DEF ReturnFromFile, Returns, TaskOK
  <2> QED
    BY <1>3, <1>4, <2>1, <2>2, <2>3
<1> QED
  BY <1>2, <1>5, <1>6, <1>7, <1>8, <1>9, <1>10, <1>11, <1>12, <1>13 DEF Next

-----------------------------------------------------------------------------
(* The whole.                                                              *)

SpaceInv == FileInv /\ TrackInv /\ CallInv /\ OpenInv /\ early \subseteq Threads

LEMMA SpaceStart == Init => SpaceInv
<1> SUFFICES ASSUME Init PROVE SpaceInv
  OBVIOUS
<1>1. FileInv /\ TrackInv /\ CallInv /\ early = {}
  BY FileStart, TrackStart, CallStart DEF Init
<1>2. OpenInv
  <2>1. RegistrationFile \in Files /\ NoFile # RegistrationFile /\ Tasks = Threads
    BY <1>1, FileFacts, SpaceAssumption DEF FileInv
  <2> QED
    BY <2>1 DEF Init, FileInit, TrackInit, OpenInv
<1> QED
  BY <1>1, <1>2 DEF SpaceInv

LEMMA SpaceStep == SpaceInv /\ [Next]_vars => SpaceInv'
<1> SUFFICES ASSUME SpaceInv, [Next]_vars PROVE SpaceInv'
  OBVIOUS
<1>1. FileInv' /\ TrackInv' /\ CallInv'
  BY StepParts, FileInvStep, TrackInvStep, CallInvStep DEF SpaceInv
<1>2. OpenInv'
  BY OpenStep DEF SpaceInv, FileInv, TrackInv
<1>3. early' \subseteq Threads
  BY DEF SpaceInv, Next, FileStep, ModuleStep, OpenFile, EnterOpen, Registers, CallFile,
     ReturnFromFile, SysCallHandler, ThreadStep, vars
<1> QED
  BY <1>1, <1>2, <1>3 DEF SpaceInv

LEMMA SpaceInvariant == Spec => []SpaceInv
BY SpaceStart, SpaceStep, PTL DEF Spec

(* The variables of user space stay in their sets; the lengths processes   *)
(* are told are numbers, which is a fact about the fold over the table.    *)
THEOREM UserSpaceTypesCorrect == Spec => []TypeOK
<1>1. SpaceInv => TypeOK
  BY DEF SpaceInv, FileInv, TrackInv, CallInv, TypeOK
<1> QED
  BY <1>1, SpaceInvariant, PTL

(* However many files are made and deleted: two that are numbered have     *)
(* different ids unless a file object could not be allocated, stubs are    *)
(* met freed only by who had the file open before, and the registration    *)
(* file has the id zero (OPseudoFile.cpp).                                 *)
THEOREM PseudoFilesSound == Spec => []FilesSound
<1>1. SpaceInv => FilesSound
  BY FilesFollow DEF SpaceInv
<1> QED
  BY <1>1, SpaceInvariant, PTL

(* However many processes, threads and pids there are: start hooks run     *)
(* once, again only after the leader's exit was told; a link outlives its  *)
(* process only if another thread put it or a notice was lost; and exits   *)
(* are told after starts (OProcessTracking.cpp).                           *)
THEOREM ProcessTrackingSound == Spec => []TrackingSound
<1>1. SpaceInv => TrackingSound
  BY TrackFollows DEF SpaceInv
<1> QED
  BY <1>1, SpaceInvariant, PTL

(* A thread with the registration file open, that opened it after the      *)
(* callback was there, may call, and its process is registered as long as  *)
(* the leader lives (ORegistration.cpp).                                   *)
THEOREM OpeningRegisters == Spec => []OpenRegisters
<1>1. SpaceInv => OpenRegisters
  <2> SUFFICES ASSUME SpaceInv, NEW t \in Threads, opened[t] = RegistrationFile,
                      running[t] = Idle, t \notin early
               PROVE  /\ Leader[t] \in handler
                      /\ thread[Leader[t]] = "alive" => Pid[Leader[t]] \in tracked
    BY DEF OpenRegisters
  <2>1. registering[t] = "done"
    BY DEF SpaceInv, OpenInv, Idle
  <2> QED
    BY <2>1 DEF SpaceInv, OpenInv, TrackInv, LinkInv, Linked
<1> QED
  BY <1>1, SpaceInvariant, PTL

(* A call by an id pulled under a name reaches the function of that name,  *)
(* and what was pulled stays true, however the table grows                 *)
(* (ODelegtedCalls.cpp).                                                   *)
THEOREM DelegatedCallsSound == Spec => []CallsSound
<1>1. SpaceInv => CallsSound
  BY DEF SpaceInv, CallInv, CallsSound
<1> QED
  BY <1>1, SpaceInvariant, PTL
=============================================================================
