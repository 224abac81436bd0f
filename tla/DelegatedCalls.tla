------------------------------ MODULE DelegatedCalls ------------------------------
(***************************************************************************)
(* Delegated calls: modules of the kernel add functions under names; a     *)
(* process pulls the table of names and ids, asking first how long it is,  *)
(* and calls by id, short (the id is in a register) or extended (it is in  *)
(* a buffer).  The table is a list that only grows.                        *)
(*                                                                         *)
(* A name is a symbol; the bytes behind it are not cleared, so what a      *)
(* process reads may go on after the name, and an entry be longer than it  *)
(* should.  The list (dyn_list) is external and may move as it grows.      *)
(***************************************************************************)
EXTENDS Integers, Sequences, SequencesExt

CONSTANTS
  Symbols,        \* names with a function each
  Callers,        \* threads of processes
  NameSize,       \* NameSize[s]: bytes of the name, with its end
  MaxPull,        \* the longest buffer taken (1 MiB)
  MaxAdded        \* bound on the entries of the table

ASSUME SymbolAssumption ==
  /\ NameSize \in [Symbols -> Nat \ {0}] /\ MaxPull \in Nat /\ MaxAdded \in Nat
  /\ {"garbled", "none"} \cap Symbols = {}

IdSize == 4

VARIABLES
  delegated_fns,  \* the table: a sequence of [fn, tail]
  asked,          \* asked[t]: the length t was told; -1 before
  pulled,         \* pulled[t]: the names and ids t has read
  job,            \* the call of t under way
  called          \* whom t has called, by name and by function (history)

callVars == <<delegated_fns, asked, pulled, job, called>>

NoJob == [at |-> "no", name |-> "none", id |-> 0, moved |-> FALSE]

CallTypeOK ==
  /\ delegated_fns \in Seq([fn: Symbols, tail: 0..1])
  /\ asked \in [Callers -> Int]
  /\ pulled \in [Callers -> SUBSET [name: Symbols \cup {"garbled"}, id: Nat]]
  /\ job \in [Callers -> [at: {"no", "found"}, name: Symbols \cup {"none"}, id: Nat,
                         moved: BOOLEAN]]
  /\ called \in [Callers -> {"nobody", "right", "wrong", "moved", "refused"}]

CallInit ==
  /\ delegated_fns = << >>
  /\ asked = [t \in Callers |-> -1]
  /\ pulled = [t \in Callers |-> {}]
  /\ job = [t \in Callers |-> NoJob]
  /\ called = [t \in Callers |-> "nobody"]

EntrySize(e) == NameSize[e.fn] + e.tail + IdSize

-----------------------------------------------------------------------------
(* AddKernelSymbol.  A name may be added again, and has two ids then.      *)
(* Whoever has looked an entry up holds a pointer into the list as it was. *)
PrependKernelSymbol(s) ==         \* mutant: a new symbol comes first
  /\ Len(delegated_fns) < MaxAdded
  /\ delegated_fns' = <<[fn |-> s, tail |-> 0]>> \o delegated_fns
  /\ UNCHANGED <<job, asked, pulled, called>>

AddKernelSymbol(s) ==
  /\ Len(delegated_fns) < MaxAdded
  /\ \E tail \in 0..1 : delegated_fns' = Append(delegated_fns, [fn |-> s, tail |-> tail])
  /\ job' = [t \in Callers |-> IF job[t].at = "found" THEN [job[t] EXCEPT !.moved = TRUE] ELSE job[t]]
  /\ UNCHANGED <<asked, pulled, called>>

-----------------------------------------------------------------------------
(* DelegatedCallsGetBuffer: whole entries from the first on, as many as    *)
(* fit; without a buffer the length of all.                                *)

SizeOf(entries) == FoldSeq(LAMBDA e, n : n + EntrySize(e), 0, entries)

FirstOf(n) == SubSeq(delegated_fns, 1, n)

Fits(n, len) == SizeOf(FirstOf(n)) <= len

Whole(len) ==
  CHOOSE n \in 0..Len(delegated_fns) :
    Fits(n, len) /\ \A m \in 0..Len(delegated_fns) : Fits(m, len) => m <= n

HandlePullSize(t) ==
  /\ job[t] = NoJob
  /\ asked' = [asked EXCEPT ![t] = SizeOf(delegated_fns)]
  /\ UNCHANGED <<delegated_fns, pulled, job, called>>

(* A name with bytes behind it is read as another one.                     *)
ReadBack(n) ==
  {[name |-> IF delegated_fns[i].tail = 0 THEN delegated_fns[i].fn ELSE "garbled",
    id |-> i - 1] : i \in 1..n}

HandlePullComplete(t) ==
  /\ job[t] = NoJob /\ asked[t] > 0
  /\ asked' = [asked EXCEPT ![t] = -1]
  /\ \E len \in {asked[t] - 1, asked[t]} :       \* the process may give less than it was told
       IF len > MaxPull THEN UNCHANGED pulled      \* refused: nothing is copied
       ELSE pulled' = [pulled EXCEPT ![t] = ReadBack(Whole(len))]
  /\ UNCHANGED <<delegated_fns, job, called>>

-----------------------------------------------------------------------------
(* DelegatedCallsHandleCall.  The lookup is under the mutex; the function  *)
(* is read from the entry after it.                                        *)

HandleCall(t, entry) ==
  /\ job[t] = NoJob /\ entry \in pulled[t] /\ entry.name # "garbled"
  /\ IF entry.id < Len(delegated_fns)
       THEN /\ job' = [job EXCEPT ![t] = [at |-> "found", name |-> entry.name, id |-> entry.id,
                                          moved |-> FALSE]]
            /\ UNCHANGED called
       ELSE called' = [called EXCEPT ![t] = "refused"] /\ UNCHANGED job
  /\ UNCHANGED <<delegated_fns, asked, pulled>>

RunCall(t) ==
  /\ job[t].at = "found"
  /\ \/ called' = [called EXCEPT ![t] =
                     IF delegated_fns[job[t].id + 1].fn = job[t].name THEN "right" ELSE "wrong"]
     \/ job[t].moved /\ called' = [called EXCEPT ![t] = "moved"]
  /\ job' = [job EXCEPT ![t] = NoJob]
  /\ UNCHANGED <<delegated_fns, asked, pulled>>

CallStep(t) ==
  \/ HandlePullSize(t)
  \/ HandlePullComplete(t)
  \/ \E e \in pulled[t] : HandleCall(t, e)
  \/ RunCall(t)

-----------------------------------------------------------------------------
(* A call by an id that was pulled under a name reaches the function added *)
(* under that name, whatever was added since: never another one, and never *)
(* is it refused.  Only if the list grows between the lookup and the call  *)
(* is the entry read where it used to be (ODelegtedCalls.cpp:155, 192).    *)
CallsReachTheirName ==
  \A t \in Callers : called[t] \in {"nobody", "right", "moved"}

(* What a process pulled stays true: each entry is still where it was, its *)
(* name still its function's, and a name is unreadable only if bytes of an *)
(* earlier use of the memory follow it (ODelegtedCalls.cpp:45, 46, 88).    *)
PulledStays ==
  \A t \in Callers : \A e \in pulled[t] :
    /\ e.id < Len(delegated_fns)
    /\ IF e.name = "garbled" THEN delegated_fns[e.id + 1].tail > 0
                             ELSE delegated_fns[e.id + 1].fn = e.name
=============================================================================
