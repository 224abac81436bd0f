------------------------------- MODULE PhysicalPages -------------------------------
(***************************************************************************)
(* Arrays of physical pages.  A contiguous array is one block of a power   *)
(* of two of pages, any other is allocated page by page, and may meet the  *)
(* end of memory on the way; freeing reads what to free from the array's   *)
(* hidden first entry, which holds the length in a fixed number of bits.   *)
(*                                                                         *)
(* External is the kernel's allocator: it hands out blocks of free pages,  *)
(* aligned to their size, or nothing.  A page is named by its frame number,*)
(* so that an array by page and one by number have the same elements.      *)
(***************************************************************************)
EXTENDS Integers, FiniteSets, Sequences

CONSTANTS
  Frames,         \* bound: pages are 0..Frames-1
  Arrays,         \* arrays of callers
  Counts,         \* page counts asked for
  LengthLimit     \* 2^24 in the code: lengths are kept below it

(* Callers ask for fewer pages than the hidden length can count.           *)
ASSUME PageAssumption ==
  /\ Frames \in Nat /\ LengthLimit \in Nat /\ LengthLimit <= 2^24
  /\ Counts \subseteq 1..(LengthLimit - 1)

NoArray == [state |-> "none", cnt |-> 0, contig |-> FALSE, byPfn |-> FALSE, elems |-> << >>]

VARIABLES
  array,
  blocks,         \* what the kernel has handed out: <<first page, order>>
  wrongFree       \* a block was given back that is not out

pageVars == <<array, blocks, wrongFree>>

PagesOf(block) == block[1]..(block[1] + 2^block[2] - 1)
Used == UNION {PagesOf(b) : b \in blocks}

PageTypeOK ==
  /\ \A a \in Arrays :
       /\ array[a].state \in {"none", "filling", "unwinding", "live"}
       /\ array[a].cnt \in Counts \cup {0}
       /\ array[a].contig \in BOOLEAN /\ array[a].byPfn \in BOOLEAN
       /\ \A i \in 1..Len(array[a].elems) : array[a].elems[i] \in 0..(Frames - 1)
  /\ \A b \in blocks : PagesOf(b) \subseteq 0..(Frames - 1)
  /\ wrongFree \in BOOLEAN

PageInit ==
  /\ array = [a \in Arrays |-> NoArray]
  /\ blocks = {}
  /\ wrongFree = FALSE

-----------------------------------------------------------------------------
(* PagesToOrder: the first power of two that is larger, but one for one.   *)
PagesToOrder(count) ==
  IF count = 1 THEN 0 ELSE CHOOSE i \in 0..30 : 2^i > count /\ \A j \in 0..(i - 1) : 2^j <= count

(* alloc_pages_current and __free_pages.                                   *)
alloc_pages(order) ==
  {b \in {<<first, order>> : first \in {f \in 0..(Frames - 1) : f % 2^order = 0}} :
     PagesOf(b) \subseteq 0..(Frames - 1) /\ PagesOf(b) \cap Used = {}}

free_pages(b) ==
  /\ blocks' = blocks \ {b}
  /\ wrongFree' = (wrongFree \/ b \notin blocks)

-----------------------------------------------------------------------------
(* AllocateLinuxPages.  By number, all elements of a contiguous array are  *)
(* the first page.                                                         *)
AllocateContigArray(a, cnt, byPfn) ==
  /\ array[a] = NoArray
  /\ \E b \in alloc_pages(PagesToOrder(cnt)) :
       /\ blocks' = blocks \cup {b}
       /\ array' = [array EXCEPT ![a] =
            [state |-> "live", cnt |-> cnt, contig |-> TRUE, byPfn |-> byPfn,
             elems |-> [i \in 1..cnt |-> IF byPfn THEN b[1] ELSE b[1] + i - 1]]]
  /\ UNCHANGED wrongFree

AllocateBegins(a, cnt, byPfn) ==
  /\ array[a] = NoArray
  /\ array' = [array EXCEPT ![a] = [NoArray EXCEPT !.state = "filling", !.cnt = cnt, !.byPfn = byPfn]]
  /\ UNCHANGED <<blocks, wrongFree>>

AllocatePage(a) ==
  /\ array[a].state = "filling"
  /\ Len(array[a].elems) < array[a].cnt
  /\ \/ \E b \in alloc_pages(0) :
          /\ blocks' = blocks \cup {b}
          /\ array' = [array EXCEPT ![a].elems = Append(@, b[1])]
     \/ array' = [array EXCEPT ![a].state = "unwinding"] /\ UNCHANGED blocks
  /\ UNCHANGED wrongFree

AllocateReturns(a) ==
  /\ array[a].state = "filling" /\ Len(array[a].elems) = array[a].cnt
  /\ array' = [array EXCEPT ![a].state = "live"]
  /\ UNCHANGED <<blocks, wrongFree>>

(* The error path frees every element that is there, and the array.        *)
Unwind(a) ==
  /\ array[a].state = "unwinding"
  /\ IF array[a].elems = << >>
       THEN array' = [array EXCEPT ![a] = NoArray] /\ UNCHANGED <<blocks, wrongFree>>
       ELSE free_pages(<<Head(array[a].elems), 0>>) /\ array' = [array EXCEPT ![a].elems = Tail(@)]

-----------------------------------------------------------------------------
(* FreeLinuxPages.                                                         *)
HiddenLength(a) == array[a].cnt % LengthLimit

FreedElems(a) == 1..HiddenLength(a)

FreeContig(a) ==
  /\ array[a].state = "live" /\ array[a].contig
  /\ free_pages(<<array[a].elems[1], PagesToOrder(HiddenLength(a))>>)
  /\ array' = [array EXCEPT ![a] = NoArray]

FreeEach(a) ==
  /\ array[a].state = "live" /\ ~array[a].contig
  /\ LET freed == {<<array[a].elems[i], 0>> : i \in FreedElems(a)} IN
     /\ blocks' = blocks \ freed
     /\ wrongFree' = (wrongFree \/ ~(freed \subseteq blocks))
  /\ array' = [array EXCEPT ![a] = NoArray]

PageStep ==
  \E a \in Arrays :
    \/ \E cnt \in Counts, byPfn \in BOOLEAN :
         AllocateContigArray(a, cnt, byPfn) \/ AllocateBegins(a, cnt, byPfn)
    \/ AllocatePage(a) \/ AllocateReturns(a) \/ Unwind(a) \/ FreeContig(a) \/ FreeEach(a)

-----------------------------------------------------------------------------
(* Every page that is out belongs to exactly one array, at every moment of *)
(* an allocation, a failed one included; nothing is freed twice, and an    *)
(* array by page has as many different pages as were asked for, in a row   *)
(* if it is contiguous (OLinuxMemoryPages.cpp:21, 101, 217).               *)
BlocksOf(a) ==
  IF array[a].contig THEN {<<array[a].elems[1], PagesToOrder(array[a].cnt)>>}
  ELSE {<<array[a].elems[i], 0>> : i \in 1..Len(array[a].elems)}

PagesBalanced ==
  /\ ~wrongFree
  /\ blocks = UNION {BlocksOf(a) : a \in Arrays}
  /\ \A a, b \in Arrays : a # b => BlocksOf(a) \cap BlocksOf(b) = {}
  /\ \A a \in Arrays : array[a].state = "live" =>
       LET e == array[a].elems IN
       IF array[a].contig /\ array[a].byPfn THEN \A i \in 1..Len(e) : e[i] = e[1]
       ELSE /\ Cardinality({e[i] : i \in 1..Len(e)}) = array[a].cnt
            /\ array[a].contig => \A i \in 2..Len(e) : e[i] = e[i - 1] + 1
=============================================================================
