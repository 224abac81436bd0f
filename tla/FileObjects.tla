------------------------------- MODULE FileObjects -------------------------------
(***************************************************************************)
(* Files, directories and paths as objects: what each holds of the file    *)
(* system (references of directory entries and of the mount, an open file, *)
(* a callback stub), from the call that makes it to the one that destroys  *)
(* it.  Calls on one object do not overlap, and a call is one step; what   *)
(* may fail inside fails at its place.                                     *)
(*                                                                         *)
(* The file system is external: entries with their parents, and how often  *)
(* each is referenced by the library.  Every object is on one mount.       *)
(***************************************************************************)
EXTENDS Integers, FiniteSets

CONSTANTS
  Handles,        \* objects of the library
  Entries,        \* directory entries
  Root,           \* the highest; its own parent
  Parent          \* Parent[e]

ASSUME EntryAssumption ==
  /\ IsFiniteSet(Handles)
  /\ Root \in Entries /\ Parent \in [Entries -> Entries] /\ Parent[Root] = Root

Nothing == [kind |-> "none", entry |-> Root, filp |-> "null", fili |-> "null", dead |-> FALSE]

VARIABLES
  handle,         \* the objects; a freed one is Nothing again
  entryRefs,      \* references of entries
  mountRefs,      \* references of the mount
  openFiles,      \* files open in the kernel on behalf of the library
  stubs,          \* stubs of Iterate that exist
  failedIterates, \* calls of Iterate that could not open the directory (history)
  crash

fsVars == <<handle, entryRefs, mountRefs, openFiles, stubs, failedIterates, crash>>

Kinds == {"none", "file", "directory", "path"}

FsTypeOK ==
  /\ handle \in [Handles -> [kind: Kinds, entry: Entries, filp: {"null", "open"},
                             fili: {"null", "open", "closed"}, dead: BOOLEAN]]
  /\ entryRefs \in [Entries -> Nat] /\ mountRefs \in Nat /\ openFiles \in Nat
  /\ stubs \in Nat /\ failedIterates \in Nat
  /\ crash \in {"no", "no file", "closed file", "no path", "no directory"}

FsInit ==
  /\ handle = [h \in Handles |-> Nothing]
  /\ entryRefs = [e \in Entries |-> 0]
  /\ mountRefs = 0
  /\ openFiles = 0
  /\ stubs = 0
  /\ failedIterates = 0
  /\ crash = "no"

-----------------------------------------------------------------------------
(* References, as a path object takes them and gives them back.            *)

Refs == [entry |-> entryRefs, mount |-> mountRefs]

dget(r, e) == [r EXCEPT !.entry[e] = @ + 1]
dput(r, e) == [r EXCEPT !.entry[e] = @ - 1]

OpenPath(r, e) == [dget(r, e) EXCEPT !.mount = @ + 1]         \* OLinuxPathImpl
ClosePath(r, e) == [dput(r, e) EXCEPT !.mount = @ - 1]        \* its InvalidateImp

GetParent(r, e, noMemory) ==
  LET found == dget(r, Parent[e]) IN
  dput(IF noMemory THEN found ELSE OpenPath(found, Parent[e]), Parent[e])

SetRefs(r) == entryRefs' = r.entry /\ mountRefs' = r.mount

Free(h) == handle[h] = Nothing

Becomes(h, object) == handle' = [handle EXCEPT ![h] = object]

Is(h, kind) == handle[h].kind = kind

(* A call that ends in an error, or in no new object.                      *)
Refused == UNCHANGED fsVars

Crashes(how) ==
  /\ crash' = how
  /\ UNCHANGED <<handle, entryRefs, mountRefs, openFiles, stubs, failedIterates>>

-----------------------------------------------------------------------------
(* Files.  A file that could not be opened is an object nevertheless.      *)

OpenFile(h, e) ==
  /\ Free(h)
  /\ \/ /\ Becomes(h, [Nothing EXCEPT !.kind = "file", !.entry = e, !.filp = "open", !.fili = "open"])
        /\ openFiles' = openFiles + 1
     \/ /\ Becomes(h, [Nothing EXCEPT !.kind = "file", !.entry = e])
        /\ UNCHANGED openFiles
  /\ UNCHANGED <<entryRefs, mountRefs, stubs, failedIterates, crash>>

HasError(h) == handle[h].filp = "null"

(* Read, Write, GetPath and GoUp look at the error first.                  *)
ReadOrWrite(h) ==
  /\ Is(h, "file")
  /\ IF HasError(h) THEN Refused
     ELSE IF handle[h].fili = "open" THEN Refused ELSE Crashes("closed file")

FileGetPath(h, new) ==
  /\ Is(h, "file") /\ ~HasError(h) /\ Free(new)
  /\ Becomes(new, [Nothing EXCEPT !.kind = "path", !.entry = handle[h].entry])
  /\ SetRefs(OpenPath(Refs, handle[h].entry))
  /\ UNCHANGED <<openFiles, stubs, failedIterates, crash>>

(* Stat does not; it asks the file it was opened with.                     *)
FileStat(h) ==
  /\ Is(h, "file")
  /\ CASE handle[h].fili = "open"   -> Refused
       [] handle[h].fili = "null"   -> Crashes("no file")
       [] handle[h].fili = "closed" -> Crashes("closed file")

CloseFile(object) ==
  [object EXCEPT !.filp = "null", !.fili = IF @ = "open" THEN "closed" ELSE @]

OpenAfter(object) == IF object.filp = "open" THEN openFiles - 1 ELSE openFiles

(* Delete: two paths, either of which may find no memory; whether the file *)
(* could be unlinked is not looked at; the object is closed, not dead.     *)
DeleteFile(h) ==
  LET e == handle[h].entry IN
  /\ Is(h, "file")
  /\ \/ HasError(h) /\ Refused
     \/ /\ ~HasError(h)
        /\ \E noMemory \in BOOLEAN :
             LET r == GetParent(OpenPath(Refs, e), e, noMemory)
                 s == IF noMemory THEN r ELSE ClosePath(r, Parent[e]) IN
             /\ SetRefs(ClosePath(s, e))
             /\ IF noMemory THEN UNCHANGED <<handle, openFiles>>
                ELSE /\ Becomes(h, CloseFile(handle[h]))
                     /\ openFiles' = OpenAfter(handle[h])
        /\ UNCHANGED <<stubs, failedIterates, crash>>

-----------------------------------------------------------------------------
(* Directories.                                                            *)

Directory(e) == [Nothing EXCEPT !.kind = "directory", !.entry = e]

(* OpenDirectory by name: the file it opens is closed again.  Without      *)
(* memory for the path, the constructor goes through it all the same.      *)
OpenDirectory(h, e) ==
  /\ Free(h)
  /\ \/ /\ Becomes(h, Directory(e))
        /\ SetRefs(OpenPath(Refs, e))
        /\ UNCHANGED <<openFiles, stubs, failedIterates, crash>>
     \/ Crashes("no path")

(* kern_path_create may fail; its answer is used as an entry.              *)
CreateDirectory(h, e) ==
  \/ OpenDirectory(h, e)
  \/ Free(h) /\ Crashes("no directory")

GoUp(h, new) ==
  /\ Is(h, "file") /\ ~HasError(h)
  /\ OpenDirectory(new, Parent[handle[h].entry])

UpDir(h, new) ==
  LET e == handle[h].entry IN
  /\ Is(h, "directory") /\ ~handle[h].dead /\ Free(new)
  /\ \/ /\ \E noMemory \in BOOLEAN :
             LET r == GetParent(Refs, e, FALSE) IN
             /\ SetRefs(ClosePath(IF noMemory THEN r ELSE OpenPath(r, Parent[e]), Parent[e]))
             /\ IF noMemory THEN UNCHANGED handle ELSE Becomes(new, Directory(Parent[e]))
        /\ UNCHANGED <<openFiles, stubs, failedIterates, crash>>
     \/ Crashes("no path")

DeleteDirectory(h) ==
  LET e == handle[h].entry IN
  /\ Is(h, "directory") /\ ~handle[h].dead
  /\ \E removed \in BOOLEAN :
       LET r == ClosePath(GetParent(Refs, e, FALSE), Parent[e]) IN
       IF removed THEN /\ SetRefs(ClosePath(r, e))
                       /\ Becomes(h, [handle[h] EXCEPT !.dead = TRUE])
                  ELSE SetRefs(r) /\ UNCHANGED handle
  /\ UNCHANGED <<openFiles, stubs, failedIterates, crash>>

(* Iterate: a stub, the directory opened by its name, then both given      *)
(* back; a directory that cannot be opened leaves the stub behind.         *)
Iterate(h) ==
  /\ Is(h, "directory") /\ ~handle[h].dead
  /\ \/ Refused
     \/ /\ stubs' = stubs + 1
        /\ failedIterates' = failedIterates + 1
        /\ UNCHANGED <<handle, entryRefs, mountRefs, openFiles, crash>>

-----------------------------------------------------------------------------
(* Destroy: Invalidate does nothing to an object that is dead.             *)
DestroyHandle(h) ==
  LET o == handle[h] IN
  /\ o # Nothing
  /\ Becomes(h, Nothing)
  /\ IF o.kind = "file" THEN openFiles' = OpenAfter(o) /\ UNCHANGED <<entryRefs, mountRefs>>
     ELSE /\ SetRefs(IF o.dead THEN Refs ELSE ClosePath(Refs, o.entry))
          /\ UNCHANGED openFiles
  /\ UNCHANGED <<stubs, failedIterates, crash>>

FsStep ==
  \/ \E h \in Handles, e \in Entries : OpenFile(h, e) \/ OpenDirectory(h, e) \/ CreateDirectory(h, e)
  \/ \E h \in Handles : ReadOrWrite(h) \/ FileStat(h) \/ DeleteFile(h) \/ DeleteDirectory(h)
                          \/ Iterate(h) \/ DestroyHandle(h)
  \/ \E h, new \in Handles : FileGetPath(h, new) \/ GoUp(h, new) \/ UpDir(h, new)

-----------------------------------------------------------------------------
(* The library holds an entry once for every path and directory object     *)
(* that is not dead, the mount once for each of them, and a file open for  *)
(* every file object that has not been deleted, whatever failed on the way;*)
(* only a failed Iterate leaves its stub (ODirectory.cpp:126;              *)
(* OPath.cpp:96).  A file without an error is one still open, so nobody    *)
(* reaches a closed file but through Stat (OFile.cpp:59, 172).             *)
Holding(h) == Is(h, "path") \/ (Is(h, "directory") /\ ~handle[h].dead)

FsBalanced ==
  /\ \A e \in Entries : entryRefs[e] = Cardinality({h \in Handles : Holding(h) /\ handle[h].entry = e})
  /\ mountRefs = Cardinality({h \in Handles : Holding(h)})
  /\ openFiles = Cardinality({h \in Handles : handle[h].filp = "open"})
  /\ \A h \in Handles : Is(h, "file") /\ ~HasError(h) => handle[h].fili = "open"
  /\ stubs = failedIterates
=============================================================================
