------------------------------ MODULE LibraryServices ------------------------------
(***************************************************************************)
(* The services of the library that share no state: the pointers objects   *)
(* are handed out by, files and directories, processes and threads, arrays *)
(* of pages, the log, the clock, and computations.                         *)
(*                                                                         *)
(* A behaviour is about one of them, chosen at the start; what it does     *)
(* cannot be told from what it does beside the others.                     *)
(***************************************************************************)
EXTENDS ObjectPointers, FileObjects, ProcessObjects, PhysicalPages, Logging, Clock, Numbers

VARIABLE service

vars == <<service, pointerVars, fsVars, procVars, pageVars, logVars, clockVars, numVars>>

Services == {"pointers", "files", "processes", "pages", "log", "clock", "numbers"}

TypeOK ==
  /\ service \in Services
  /\ PointerTypeOK /\ FsTypeOK /\ ProcTypeOK /\ PageTypeOK /\ LogTypeOK /\ ClockTypeOK /\ NumTypeOK

(* Each service begins where the others' beginnings do not matter to it.   *)
Init ==
  /\ service \in Services
  /\ PointerInit /\ FsInit /\ ProcInit /\ PageInit /\ NumInit
  /\ LogInit /\ (service # "log" => oldLogs = 0)
  /\ ClockInit /\ (service # "clock" => day = 0 /\ rest = 0)

Next ==
  /\ wrong = "no" /\ crash = "no"
  /\ \/ service = "pointers" /\ PointerStep
        /\ UNCHANGED <<service, fsVars, procVars, pageVars, logVars, clockVars, numVars>>
     \/ service = "files" /\ FsStep
        /\ UNCHANGED <<service, pointerVars, procVars, pageVars, logVars, clockVars, numVars>>
     \/ service = "processes" /\ ProcStep
        /\ UNCHANGED <<service, pointerVars, fsVars, pageVars, logVars, clockVars, numVars>>
     \/ service = "pages" /\ PageStep
        /\ UNCHANGED <<service, pointerVars, fsVars, procVars, logVars, clockVars, numVars>>
     \/ service = "log" /\ LogStep
        /\ UNCHANGED <<service, pointerVars, fsVars, procVars, pageVars, clockVars, numVars>>
     \/ service = "clock" /\ ClockStep
        /\ UNCHANGED <<service, pointerVars, fsVars, procVars, pageVars, logVars, numVars>>
     \/ service = "numbers" /\ NumStep
        /\ UNCHANGED <<service, pointerVars, fsVars, procVars, pageVars, logVars, clockVars>>

Spec == Init /\ [][Next]_vars

-----------------------------------------------------------------------------
(* What is taken of the kernel is given back once, whichever calls fail    *)
(* and whoever exits meanwhile: references of entries, mounts, files,      *)
(* tasks and address spaces, and pages (OPath.cpp:20;                      *)
(* OProcessHelpers.cpp:41; OLinuxMemoryPages.cpp:101).                     *)
ReferencesBalanced == FsBalanced /\ TasksBalanced /\ PagesBalanced
=============================================================================
