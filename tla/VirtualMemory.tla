----------------------------- MODULE VirtualMemory -----------------------------
(***************************************************************************)
(* The kernel's side of an address space, as far as the library uses it:   *)
(* areas (vm_area_struct) over pages, and the operations that look them    *)
(* up, cut them and change their protection.  All of it is external.       *)
(*                                                                         *)
(* A page is named by its number, address >> OS_PAGE_SHIFT.  The last page *)
(* of the address space is the one every error code (-1, -ENOMEM, ...)     *)
(* falls into when it is taken for an address; nothing is ever mapped      *)
(* there, and adding a page to it wraps around to page 0.                  *)
(***************************************************************************)
EXTENDS Integers, FiniteSets

CONSTANT Top            \* the highest page that can be mapped

ASSUME TopAssumption == Top \in Nat \ {0}

Last == Top + 1
Pages == 0..Last
WrapPage(p) == p % (Last + 1)

VM_READ  == "r"
VM_WRITE == "w"
VM_EXEC  == "x"

Area(owners) ==
  [lo: 1..Top, hi: 1..Top, owner: owners,
   prot: SUBSET {VM_READ, VM_WRITE, VM_EXEC}, may: SUBSET {VM_READ, VM_WRITE, VM_EXEC}]

NoArea == [lo |-> 0, hi |-> 0, owner |-> "none", prot |-> {}, may |-> {}]

(* find_vma: the lowest area that ends above the address.  The address may *)
(* lie below it, in a hole.                                                *)
find_vma(areas, page) ==
  LET above == {v \in areas : v.hi >= page} IN
  IF above = {} THEN NoArea ELSE CHOOSE v \in above : \A w \in above : v.lo <= w.lo

Covers(v, page) == v.lo <= page /\ page <= v.hi

Mapped(areas, page) == \E v \in areas : Covers(v, page)

FreeRange(areas, lo, pages) ==
  /\ lo + pages - 1 <= Top
  /\ \A p \in lo..(lo + pages - 1) : ~Mapped(areas, p)

(* munmap: what is left of the areas outside lo..hi.                       *)
Unmapped(areas, lo, hi) ==
  {[v EXCEPT !.hi = IF v.hi < lo THEN v.hi ELSE lo - 1] : v \in {w \in areas : w.lo < lo}}
    \cup
  {[v EXCEPT !.lo = IF v.lo > hi THEN v.lo ELSE hi + 1] : v \in {w \in areas : w.hi > hi}}

(* mprotect of one page: refused outside every area and beyond what the    *)
(* area may be given; an area that has the protection already is not split,*)
(* and the areas of the library are special mappings, never merged again.  *)
MayProtect(areas, page, prot) ==
  Mapped(areas, page) /\ prot \subseteq find_vma(areas, page).may

Protected(areas, page, prot) ==
  LET v == find_vma(areas, page) IN
  IF v.prot = prot THEN areas
  ELSE Unmapped(areas, page, page) \cup {[v EXCEPT !.lo = page, !.hi = page, !.prot = prot]}
=============================================================================
