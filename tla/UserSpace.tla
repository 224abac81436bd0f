-------------------------------- MODULE UserSpace --------------------------------
(***************************************************************************)
(* How a process meets the library: it opens the registration file, whose  *)
(* callback registers it, and makes delegated calls.  Other pseudo files   *)
(* come and go beside it.                                                  *)
(*                                                                         *)
(* The registration file is the first one made, and must get the id zero;  *)
(* everything else is made after it has its callback.  Its device is there *)
(* before that: a process that is quick enough opens a file that registers *)
(* nobody.                                                                 *)
(***************************************************************************)
EXTENDS PseudoFiles, ProcessTracking, DelegatedCalls

CONSTANT RegistrationFile

ASSUME SpaceAssumption ==
  RegistrationFile \in Files /\ Tasks = Threads /\ Callers = Threads

VARIABLE early      \* threads that opened the registration file without a callback (history)

vars == <<fileVars, trackVars, callVars, early>>

TypeOK == FileTypeOK /\ TrackTypeOK /\ CallTypeOK /\ early \subseteq Threads

Init == FileInit /\ TrackInit /\ CallInit /\ early = {}

Booted == callbacks[RegistrationFile] # {}

(* OnOpen of the registration file is part of InitRegistration; the owner  *)
(* of another file sets its callbacks when it likes.                       *)
FileStep ==
  /\ \/ \E f \in Files : (f = RegistrationFile \/ Booted) /\ OwnerStep(f)
     \/ SetCallbacks(RegistrationFile, {"open"})
     \/ \E f \in Files \ {RegistrationFile} : SetCallbacks(f, {"open", "call"})
  /\ at'[RegistrationFile] # "closing"
  /\ UNCHANGED <<trackVars, callVars, early>>

Free(t) == thread[t] = "alive" /\ running[t] = Idle /\ job[t] = NoJob

OpenFile(t) ==
  /\ Free(t)
  /\ \E f \in Files : Open(t, f)
  /\ UNCHANGED <<trackVars, callVars, early>>

(* fop_open of the registration file calls RegisterCurrent.                *)
EnterOpen(t) ==
  /\ EntersStub(t, "open")
  /\ IF opened[t] = RegistrationFile /\ running'[t] = "callback"
       THEN RegisterCurrent(t)
       ELSE UNCHANGED trackVars
  /\ early' = IF opened[t] = RegistrationFile /\ running'[t] = Idle THEN early \cup {t} ELSE early
  /\ UNCHANGED callVars

Registers(t) == RegisterStep(t) /\ UNCHANGED <<fileVars, callVars, early>>

CallFile(t) ==
  /\ \/ Free(t) /\ fop_call(t)
     \/ EntersStub(t, "call")
     \/ Free(t) /\ fop_release(t)
  /\ UNCHANGED <<trackVars, callVars, early>>

ReturnFromFile(t) ==
  /\ \/ opened[t] = RegistrationFile /\ registering[t] = "done" /\ Returns(t, FALSE)
     \/ opened[t] # RegistrationFile /\ \E refused \in BOOLEAN : Returns(t, refused)
  /\ UNCHANGED <<trackVars, callVars, early>>

(* DelegatedCallsSysCallHandler, for a process that has the handler.       *)
SysCallHandler(t) ==
  /\ thread[t] = "alive" /\ running[t] = Idle /\ Leader[t] \in handler
  /\ CallStep(t)
  /\ UNCHANGED <<fileVars, trackVars, early>>

ModuleStep ==
  /\ Booted
  /\ \/ HookStep /\ UNCHANGED callVars
     \/ (\E s \in Symbols : AddKernelSymbol(s)) /\ UNCHANGED trackVars
  /\ UNCHANGED <<fileVars, early>>

ThreadStep(t) ==
  /\ \/ Fork(t)
     \/ Free(t) /\ opened[t] = NoFile /\ Exit(t)
     \/ ProcessesExit(t)
  /\ UNCHANGED <<fileVars, callVars, early>>

Next ==
  /\ fault = "no"
  /\ \/ FileStep
     \/ ModuleStep
     \/ \E t \in Threads :
          \/ OpenFile(t) \/ EnterOpen(t) \/ Registers(t) \/ CallFile(t) \/ ReturnFromFile(t)
          \/ SysCallHandler(t) \/ ThreadStep(t)

Spec == Init /\ [][Next]_vars

-----------------------------------------------------------------------------
(* A thread that has the registration file open, and is not in the middle  *)
(* of opening it, may call, and its process is registered, unless it came  *)
(* before the callback did or an exit ended the registration               *)
(* (ORegistration.cpp:37).                                                 *)
OpenRegisters ==
  \A t \in Threads :
    opened[t] = RegistrationFile /\ running[t] = Idle /\ fault = "no" /\ t \notin early =>
      /\ Leader[t] \in handler
      /\ thread[Leader[t]] = "alive" => Pid[Leader[t]] \in tracked

(* The registration file has the id the library promises.                  *)
RegistrationIsZero == Numbered(RegistrationFile) => id[RegistrationFile] = 0

TrackingSound == StartedOnce /\ LinksOutlive /\ ExitAfterStart

FilesSound == IdsKept /\ StubsGoAfterDevice /\ RegistrationIsZero

CallsSound == CallsReachTheirName /\ PulledStays
=============================================================================
