--------------------------- MODULE MemoryDescriptors ---------------------------
(***************************************************************************)
(* Memory descriptors (OLMemoryAllocation): a table of pages, inserted one *)
(* by one into a zone of the kernel's address space or of a process.  The  *)
(* process runs meanwhile, maps, unmaps and protects areas of its own, and *)
(* may exit.                                                               *)
(*                                                                         *)
(* One process; its mm lives while somebody counts on it.  The owner of a  *)
(* descriptor makes one call on it at a time (there is no lock in it), so  *)
(* the call in progress is part of the descriptor: work[d].                *)
(*                                                                         *)
(* InsertAt of a user zone is three steps, for it drops the lock of the mm *)
(* between them.  The chain of entries is external; a link just allocated  *)
(* holds nothing.                                                          *)
(***************************************************************************)
EXTENDS VirtualMemory

CONSTANTS
  UserDescs,      \* descriptors in the process
  KernDescs,      \* descriptors in the kernel
  SizeInPages,    \* pages of each
  UserEntries,    \* page entries their owners insert
  KernEntries,
  Starts,         \* starts asked for; 0 asks for any
  AppProts,       \* protections the process gives to pages
  AppCalls,       \* bound on the system calls of the process
  Inserts         \* bound on the calls of PageInsert

PageSize == 4096

(* A zone that starts where something can be mapped does not reach around  *)
(* the end of the address space (no zone is as long as what lies between), *)
(* what is inserted as an address is the address of a page, and the words  *)
(* for somebody else and for nothing name no descriptor.                   *)
ASSUME DescriptorAssumption ==
  /\ SizeInPages \in Nat \ {0}
  /\ Starts \subseteq 0..Top /\ \A s \in Starts : s + SizeInPages <= Last + 1
  /\ AppCalls \in Nat /\ Inserts \in Nat
  /\ IsFiniteSet(UserDescs) /\ UserDescs \cap KernDescs = {}
  /\ {"app", "mm", "none", "empty", "dummy page"} \cap UserDescs = {}
  /\ UserEntries \cup KernEntries \subseteq
       [type: {"page", "address", "pfn", "dummy"}, value: Nat,
        access: SUBSET {VM_READ, VM_WRITE, VM_EXEC}]
  /\ \A e \in UserEntries \cup KernEntries : e.type = "address" => e.value % PageSize = 0

Descs == UserDescs \cup KernDescs
Entries == UserEntries \cup KernEntries
Indices == 0..(SizeInPages - 1)
Absent == [type |-> "absent", value |-> 0, access |-> {}]
Dummy == [type |-> "dummy", value |-> 0, access |-> {}]
Empty == "empty"
DummyPage == "dummy page"
NoFrame == -1           \* nothing, and the dummy page, in a kernel zone
DummyFrame == -2
Idle == [at |-> "idle", index |-> 0, put |-> Absent, want |-> Absent, why |-> "none"]

VARIABLES
  desc,       \* desc[d]: none, mapping, alive, closing, unmapped or dead
  entries,    \* _entries of d: a function of the indices
  lingering,  \* _lingering
  address,    \* address of the zone, a page number
  hasMm,      \* context->mm is set
  stub,       \* special_map and the stub of special_map_fault are allocated
  kept,       \* descriptors whose areas munmap refused to take away (history)
  stray,      \* who put a page where no area is, and whether the area had
              \* changed under the insertion (history)
  work,       \* the insertion in progress in the zone of a user descriptor
  kpte,       \* what is mapped at each page of a kernel zone
  areas,      \* areas of the process
  pte,        \* who put what is mapped at each page of the process
  mmUsers,    \* mm_users
  appAlive,   \* the process itself still counts on its mm
  appCalls,
  inserts,
  missed,     \* insertions that found no area at all (history)
  touched,    \* the area under d's insertion changed meanwhile (history)
  halted      \* panic, a failed assertion, a fault of the kernel

zoneVars == <<lingering, address, hasMm, stub, kept, stray>>
appVars  == <<appAlive, appCalls>>
mmVars   == <<areas, pte, mmUsers>>
vars == <<desc, entries, work, kpte, zoneVars, appVars, mmVars, inserts, missed, touched, halted>>

TypeOK ==
  /\ desc \in [Descs -> {"none", "mapping", "alive", "closing", "unmapped", "dead"}]
  /\ entries \in [Descs -> [Indices -> Entries \cup {Absent}]]
  /\ lingering \in [Descs -> BOOLEAN]
  /\ address \in [Descs -> Pages]
  /\ hasMm \in [UserDescs -> BOOLEAN] /\ stub \in [UserDescs -> BOOLEAN]
  /\ kept \subseteq UserDescs /\ stray \subseteq UserDescs \X BOOLEAN
  /\ work \in [UserDescs -> [at: {"idle", "allowance", "protect", "page"}, index: Indices,
                             put: Entries \cup {Absent, Dummy}, want: Entries \cup {Absent},
                             why: {"none", "insert", "remove", "unwind", "close"}]]
  /\ kpte \in [KernDescs -> [Indices -> Int]]
  /\ areas \subseteq Area(UserDescs \cup {"app"})
  /\ \A v, w \in areas : v = w \/ v.hi < w.lo \/ w.hi < v.lo
  /\ pte \in [1..Top -> UserDescs \cup {Empty, DummyPage}]
  /\ mmUsers \in Nat /\ missed \in Nat
  /\ appAlive \in BOOLEAN /\ appCalls \in 0..AppCalls /\ inserts \in 0..Inserts
  /\ touched \in [UserDescs -> BOOLEAN]
  /\ halted \in {"no", "panic", "assert", "uninitialised entry", "no mm", "freed mm",
                 "page in use", "stale handler"}

(* The process starts with its stack, the highest area it has.             *)
Init ==
  /\ desc = [d \in Descs |-> "none"]
  /\ entries = [d \in Descs |-> [i \in Indices |-> Absent]]
  /\ lingering = [d \in Descs |-> FALSE]
  /\ address = [d \in Descs |-> 0]
  /\ hasMm = [d \in UserDescs |-> FALSE]
  /\ stub = [d \in UserDescs |-> FALSE]
  /\ kept = {}
  /\ stray = {}
  /\ work = [d \in UserDescs |-> Idle]
  /\ kpte = [d \in KernDescs |-> [i \in Indices |-> NoFrame]]
  /\ areas = {[lo |-> Top, hi |-> Top, owner |-> "app", prot |-> {VM_READ, VM_WRITE},
               may |-> {VM_READ, VM_WRITE, VM_EXEC}]}
  /\ pte = [p \in 1..Top |-> Empty]
  /\ mmUsers = 1
  /\ appAlive = TRUE
  /\ appCalls = 0
  /\ inserts = 0
  /\ missed = 0
  /\ touched = [d \in UserDescs |-> FALSE]
  /\ halted = "no"

-----------------------------------------------------------------------------
(* Conversions.                                                            *)

StructPage == 64
VmemMap == 1048576      \* where the array of struct page begins (external)

pfn_to_phys(pfn) == pfn * PageSize
phys_to_pfn(phys) == phys \div PageSize
page_to_pfn(page) == (page - VmemMap) \div StructPage

PfnOf(entry) ==
  CASE entry.type = "page"    -> page_to_pfn(entry.value)
    [] entry.type = "address" -> phys_to_pfn(entry.value)
    [] entry.type = "pfn"     -> entry.value

(* PagePhysAddr of an entry that is present; a dummy has none.             *)
PagePhysAddr(entry) ==
  CASE entry.type = "dummy"   -> 0
    [] entry.type = "address" -> entry.value
    [] entry.type \in {"page", "pfn"} -> pfn_to_phys(PfnOf(entry))

GetMProtectProt(entry) ==
  IF entry.type = "dummy" THEN {}
  ELSE {VM_READ : a \in entry.access} \cup (entry.access \cap {VM_WRITE, VM_EXEC})

-----------------------------------------------------------------------------
(* The mm.  What was mapped in an area that goes is unmapped with it; what *)
(* lies in no area nobody looks for.  Whoever changes the area another     *)
(* insertion has found leaves a mark on it.                                *)

ZoneAddress(d, i) == WrapPage(address[d] + i)

ChangeAreas(mover, new) ==
  /\ areas' = new
  /\ pte' = [p \in 1..Top |-> IF Mapped(areas, p) /\ ~Mapped(new, p) THEN Empty ELSE pte[p]]
  /\ touched' = [d \in UserDescs |->
       touched[d] \/ /\ d # mover /\ work[d].at = "page"
                     /\ LET a == ZoneAddress(d, work[d].index) IN
                        find_vma(new, a) # find_vma(areas, a)]

(* mmput: the last one takes every area with it.                           *)
MmUsers(n) ==
  /\ mmUsers' = n
  /\ IF n = 0 THEN ChangeAreas("mm", {}) ELSE UNCHANGED <<areas, pte, touched>>

Halt(why) ==
  /\ halted' = why
  /\ UNCHANGED <<desc, entries, work, kpte, zoneVars, appVars, mmVars, missed, touched>>

(* What the kernel does to a caller that comes with an mm that is not      *)
(* there, or not there any more.                                           *)
MmUsable(d) == hasMm[d] /\ mmUsers > 0

MmFault(d) == ~MmUsable(d) /\ Halt(IF hasMm[d] THEN "freed mm" ELSE "no mm")

-----------------------------------------------------------------------------
(* GetNewMemAllocation in the process.  AllocateZone takes its reference   *)
(* of the mm; then MappingTryInsert finds a place under the lock, with a   *)
(* reference of its own, which it gives back.  Its error is not looked at. *)

AllocateZoneKeepsBoth(d, start) ==   \* mutant: the second reference is not given back
  /\ desc[d] = "none" /\ (appAlive => mmUsers > 0)
  /\ desc' = [desc EXCEPT ![d] = "mapping"]
  /\ address' = [address EXCEPT ![d] = start]
  /\ stub' = [stub EXCEPT ![d] = TRUE]
  /\ hasMm' = [hasMm EXCEPT ![d] = appAlive]
  /\ mmUsers' = IF appAlive THEN mmUsers + 2 ELSE mmUsers
  /\ UNCHANGED <<entries, work, kpte, lingering, kept, stray, appVars, areas, pte, missed, touched,
                 halted>>

AllocateZone(d, start) ==
  /\ desc[d] = "none" /\ (appAlive => mmUsers > 0)
  /\ desc' = [desc EXCEPT ![d] = "mapping"]
  /\ address' = [address EXCEPT ![d] = start]
  /\ stub' = [stub EXCEPT ![d] = TRUE]
  /\ hasMm' = [hasMm EXCEPT ![d] = appAlive]
  /\ mmUsers' = IF appAlive THEN mmUsers + 1 ELSE mmUsers
  /\ UNCHANGED <<entries, work, kpte, lingering, kept, stray, appVars, areas, pte, missed, touched,
                 halted>>

(* CheckArea goes up from the start without an end, page by page and round *)
(* the address space, until find_vma finds an area: any area will do, and  *)
(* where there is none it never returns.                                   *)
CheckArea(start) == start # 0 /\ areas # {}

RequestAnyArea == 1..(Top - SizeInPages)   \* mutant: does not look what is mapped

RequestUnmappedArea == {p \in 1..Top : FreeRange(areas, p, SizeInPages)} \cup {Last}

InstallSpecialMapping(d, page) ==
  ChangeAreas(d, areas \cup {[lo |-> page, hi |-> page + SizeInPages - 1, owner |-> d,
                              prot |-> {}, may |-> {}]})

MappingTryInsert(d) ==
  /\ desc[d] = "mapping"
  /\ desc' = [desc EXCEPT ![d] = "alive"]
  /\ \/ /\ ~appAlive \/ CheckArea(address[d])
        /\ UNCHANGED <<address, areas, pte, touched>>
     \/ /\ appAlive /\ address[d] = 0
        /\ \E p \in RequestUnmappedArea :
             /\ address' = [address EXCEPT ![d] = p]
             /\ \/ p # Last /\ InstallSpecialMapping(d, p)
                \/ UNCHANGED <<areas, pte, touched>>
  /\ UNCHANGED <<entries, work, kpte, lingering, stub, hasMm, kept, stray, appVars, mmUsers,
                 missed, halted>>

-----------------------------------------------------------------------------
(* PageInsert, and what becomes of an insertion.                           *)

InsertAt(d, i, put, want, why) ==
  work' = [work EXCEPT ![d] = [at |-> "allowance", index |-> i, put |-> put,
                               want |-> want, why |-> why]]

PageInsert(d, i, entry) ==
  /\ desc[d] = "alive" /\ work[d] = Idle
  /\ IF entries[d][i] = Absent
       THEN InsertAt(d, i, entry, entry, "insert")
       ELSE InsertAt(d, i, Dummy, entry, "remove")
  /\ touched' = [touched EXCEPT ![d] = FALSE]
  /\ UNCHANGED <<desc, entries, kpte, zoneVars, appVars, mmVars, missed, halted>>

SetEntry(d, entry) == entries' = [entries EXCEPT ![d][work[d].index] = entry]

Done(d) == work' = [work EXCEPT ![d] = Idle]

(* The insertion came to its end.                                          *)
Inserted(d) ==
  LET w == work[d] IN
  \/ /\ w.why = "insert"
     /\ SetEntry(d, w.want) /\ Done(d)
  \/ /\ w.why = "remove"
     /\ InsertAt(d, w.index, w.want, w.want, "insert")
     /\ UNCHANGED entries
  \/ /\ w.why \in {"unwind", "close"}
     /\ SetEntry(d, Absent) /\ Done(d)

(* It failed: the link is freed, and CleanUpPageEntry takes the page out   *)
(* once more, unless the descriptor lingers.  A link without an entry has  *)
(* no requester to ask.                                                    *)
Failed(d) ==
  LET w == work[d] IN
  \/ /\ w.why = "insert" /\ entries[d][w.index] = Absent
     /\ halted' = "uninitialised entry"
     /\ UNCHANGED <<entries, work>>
  \/ /\ w.why = "remove" \/ (w.why = "insert" /\ entries[d][w.index] # Absent)
     /\ IF lingering[d]
          THEN SetEntry(d, Absent) /\ Done(d)
          ELSE InsertAt(d, w.index, Dummy, Absent, "unwind") /\ UNCHANGED entries
     /\ UNCHANGED halted
  \/ /\ w.why \in {"unwind", "close"}
     /\ halted' = "assert"
     /\ UNCHANGED <<entries, work>>

At(d, where) == work[d].at = where

GoToPage(d, where) == work' = [work EXCEPT ![d].at = "page"] /\ UNCHANGED entries  \* mutant: no mprotect

GoTo(d, where) == work' = [work EXCEPT ![d].at = where] /\ UNCHANGED entries

(* What the area may be protected to.  Where there is no area, not only    *)
(* the lock is given back but a reference of the mm as well.               *)
UpdateMProtectAllowance(d) ==
  /\ At(d, "allowance")
  /\ \/ MmFault(d)
     \/ /\ MmUsable(d)
        /\ LET cur == find_vma(areas, ZoneAddress(d, work[d].index)) IN
           IF cur = NoArea
             THEN /\ MmUsers(mmUsers - 1)
                  /\ missed' = missed + 1
                  /\ Failed(d)
             ELSE /\ ChangeAreas(d, (areas \ {cur}) \cup
                                      {[cur EXCEPT !.may = GetMProtectProt(work[d].put)]})
                  /\ GoTo(d, "protect")
                  /\ UNCHANGED <<mmUsers, missed, halted>>
        /\ UNCHANGED <<desc, kpte, zoneVars, appVars>>

(* do_mprotect_pkey_ex.  An address made of an error code is no page's.    *)
MProtect(d) ==
  /\ At(d, "protect")
  /\ \/ MmFault(d)
     \/ /\ MmUsable(d)
        /\ LET a == ZoneAddress(d, work[d].index)
               prot == GetMProtectProt(work[d].put) IN
           \/ /\ address[d] # Last /\ MayProtect(areas, a, prot)
              /\ ChangeAreas(d, Protected(areas, a, prot))
              /\ GoTo(d, "page")
              /\ UNCHANGED halted
           \/ /\ address[d] = Last \/ ~MayProtect(areas, a, prot) \/ find_vma(areas, a).prot # prot
              /\ Failed(d)
              /\ UNCHANGED <<areas, pte, touched>>
        /\ UNCHANGED <<desc, kpte, zoneVars, appVars, mmUsers, missed>>

(* InjectPage; that the kernel refused the page is not looked at.          *)
(* vm_insert_page asks whether the area it is given has the page.          *)
InjectPage(d, page) ==
  \/ /\ Mapped(areas, page)
     /\ pte' = [pte EXCEPT ![page] = IF work[d].put = Dummy THEN DummyPage ELSE d]
  \/ UNCHANGED pte

(* remap_pfn_range does not, and the area may lie above the page; it stops *)
(* the machine where something is mapped at the page.                      *)
ByPfn(entry) == entry.type \in {"address", "pfn"}

InjectPfn(d, page) ==
  \/ /\ page \in 1..Top /\ pte[page] = Empty
     /\ pte' = [pte EXCEPT ![page] = d]
     /\ stray' = IF Mapped(areas, page) THEN stray ELSE stray \cup {<<d, touched[d]>>}
  \/ UNCHANGED <<pte, stray>>

UpdatePageEntry(d) ==
  /\ At(d, "page")
  /\ \/ MmFault(d)
     \/ /\ MmUsable(d)
        /\ LET a == ZoneAddress(d, work[d].index)
               cur == find_vma(areas, a) IN
           \/ /\ cur = NoArea
              /\ Failed(d)
              /\ UNCHANGED <<desc, kpte, zoneVars, appVars, mmVars, missed, touched>>
           \/ /\ cur # NoArea /\ cur.prot # GetMProtectProt(work[d].put)
              /\ Halt("panic")
           \/ /\ cur # NoArea /\ cur.prot = GetMProtectProt(work[d].put)
              /\ ByPfn(work[d].put) /\ a \in 1..Top /\ pte[a] # Empty
              /\ Halt("page in use")
           \/ /\ cur # NoArea /\ cur.prot = GetMProtectProt(work[d].put)
              /\ \/ ~ByPfn(work[d].put) /\ InjectPage(d, a) /\ UNCHANGED stray
                 \/ ByPfn(work[d].put) /\ InjectPfn(d, a)
              /\ Inserted(d)
              /\ touched' = [touched EXCEPT ![d] = FALSE]
              /\ UNCHANGED <<desc, kpte, lingering, address, hasMm, stub, kept, appVars, areas,
                             mmUsers, missed, halted>>

-----------------------------------------------------------------------------
(* ForceLinger and the destruction of a descriptor: every entry is cleaned *)
(* up, then the mapping is freed, then what belongs to the zone.  One that *)
(* lingers keeps its pages, its area and its reference of the mm.          *)

ForceLinger(d) ==
  /\ desc[d] = "alive" /\ ~lingering[d]
  /\ d \in UserDescs => work[d] = Idle
  /\ lingering' = [lingering EXCEPT ![d] = TRUE]
  /\ UNCHANGED <<desc, entries, work, kpte, address, hasMm, stub, kept, stray, appVars, mmVars,
                 missed, touched, halted>>

InvalidateImp(d) ==
  /\ desc[d] = "alive" /\ work[d] = Idle
  /\ desc' = [desc EXCEPT ![d] = "closing"]
  /\ entries' = IF lingering[d] THEN [entries EXCEPT ![d] = [i \in Indices |-> Absent]]
                                ELSE entries
  /\ UNCHANGED <<work, kpte, zoneVars, appVars, mmVars, missed, touched, halted>>

CleanUpPageEntry(d, i) ==
  /\ desc[d] = "closing" /\ work[d] = Idle /\ entries[d][i] # Absent
  /\ InsertAt(d, i, Dummy, Absent, "close")
  /\ touched' = [touched EXCEPT ![d] = FALSE]
  /\ UNCHANGED <<desc, entries, kpte, zoneVars, appVars, mmVars, missed, halted>>

Closable(d) ==
  desc[d] = "closing" /\ work[d] = Idle /\ \A i \in Indices : entries[d][i] = Absent

(* UnmapSpecial: munmap refuses an address that is no page's, and may find *)
(* no memory.  Its answer is not looked at.                                *)
UnmapOneMore(d) ==       \* mutants: one page too many, one too few
  IF address[d] = Last THEN areas
  ELSE Unmapped(areas, address[d], address[d] + SizeInPages)

UnmapOneLess(d) ==
  IF address[d] = Last THEN areas
  ELSE Unmapped(areas, address[d], address[d] + SizeInPages - 2)

UnmapSpecial(d) ==
  IF address[d] = Last THEN areas
  ELSE Unmapped(areas, address[d], address[d] + SizeInPages - 1)

FreeZoneMapping(d) ==
  /\ Closable(d)
  /\ \/ ~lingering[d] /\ MmFault(d)
     \/ /\ ~lingering[d] => MmUsable(d)
        /\ desc' = [desc EXCEPT ![d] = "unmapped"]
        /\ \/ lingering[d] /\ UNCHANGED <<mmVars, touched, kept>>
           \/ /\ ~lingering[d]
              /\ mmUsers' = mmUsers - 1
              /\ ChangeAreas(d, IF mmUsers = 1 THEN {} ELSE UnmapSpecial(d))
              /\ UNCHANGED kept
           \/ /\ ~lingering[d] /\ UnmapSpecial(d) # areas
              /\ MmUsers(mmUsers - 1)
              /\ kept' = kept \cup {d}
        /\ UNCHANGED <<entries, work, kpte, lingering, address, hasMm, stub, stray, appVars,
                       missed, halted>>

FreeZoneContext(d) ==
  /\ desc[d] = "unmapped"
  /\ desc' = [desc EXCEPT ![d] = "dead"]
  /\ stub' = [stub EXCEPT ![d] = FALSE]
  /\ UNCHANGED <<entries, work, kpte, lingering, address, hasMm, kept, stray, appVars, mmVars,
                 missed, touched, halted>>

-----------------------------------------------------------------------------
(* Descriptors of the kernel.  Nobody else changes their zone, so each     *)
(* call is one step.                                                       *)

KernelZone(d) ==
  /\ desc[d] = "none"
  /\ desc' = [desc EXCEPT ![d] = "alive"]
  /\ UNCHANGED <<entries, work, kpte, zoneVars, appVars, mmVars, missed, touched, halted>>

KernelMaps(entry) ==
  IF entry.type = "dummy" THEN DummyFrame ELSE pfn_to_phys(PfnOf(entry))

KernelRemoveAt(zone, i) == [zone EXCEPT ![i] = NoFrame]
KernelInsertAt(zone, i, entry) == [zone EXCEPT ![i] = KernelMaps(entry)]

KernelPageInsert(d, i, entry) ==
  /\ desc[d] = "alive"
  /\ LET zone == IF entries[d][i] = Absent THEN kpte[d] ELSE KernelRemoveAt(kpte[d], i) IN
     \/ /\ kpte' = [kpte EXCEPT ![d] = KernelInsertAt(zone, i, entry)]
        /\ entries' = [entries EXCEPT ![d][i] = entry]
        /\ UNCHANGED halted
     \/ /\ entries[d][i] # Absent
        /\ kpte' = [kpte EXCEPT ![d] = zone]
        /\ entries' = [entries EXCEPT ![d][i] = Absent]
        /\ UNCHANGED halted
     \/ /\ entries[d][i] = Absent
        /\ halted' = "uninitialised entry"
        /\ UNCHANGED <<entries, kpte>>
  /\ UNCHANGED <<desc, work, zoneVars, appVars, mmVars, missed, touched>>

KernelInvalidateImp(d) ==
  /\ desc[d] = "alive"
  /\ desc' = [desc EXCEPT ![d] = "dead"]
  /\ entries' = [entries EXCEPT ![d] = [i \in Indices |-> Absent]]
  /\ kpte' = IF lingering[d] THEN kpte
             ELSE [kpte EXCEPT ![d] = [i \in Indices |-> NoFrame]]
  /\ UNCHANGED <<work, zoneVars, appVars, mmVars, missed, touched, halted>>

-----------------------------------------------------------------------------
(* The process.                                                            *)

AppCalled ==
  /\ appAlive /\ appCalls < AppCalls
  /\ appCalls' = appCalls + 1
  /\ UNCHANGED <<desc, entries, work, kpte, zoneVars, appAlive, mmUsers, missed, halted>>

AppMaps(page) ==
  /\ FreeRange(areas, page, 1)
  /\ ChangeAreas("app", areas \cup {[lo |-> page, hi |-> page, owner |-> "app",
                                     prot |-> {VM_READ}, may |-> {VM_READ, VM_WRITE}]})
  /\ AppCalled

AppUnmaps(page) ==
  /\ Mapped(areas, page)
  /\ ChangeAreas("app", Unmapped(areas, page, page))
  /\ AppCalled

AppProtects(page, prot) ==
  /\ MayProtect(areas, page, prot)
  /\ find_vma(areas, page).prot # prot
  /\ ChangeAreas("app", Protected(areas, page, prot))
  /\ AppCalled

(* A page of a zone that nothing is mapped at is asked for:                *)
(* special_map_fault answers through the zone.                             *)
AppFaults(page) ==
  /\ appAlive
  /\ LET v == find_vma(areas, page) IN
     /\ Covers(v, page) /\ v.owner \in UserDescs
     /\ pte[page] = Empty /\ v.prot # {} /\ ~stub[v.owner]
  /\ Halt("stale handler")

AppExits ==
  /\ appAlive /\ mmUsers > 0
  /\ appAlive' = FALSE
  /\ MmUsers(mmUsers - 1)
  /\ UNCHANGED <<desc, entries, work, kpte, zoneVars, appCalls, missed, halted>>

-----------------------------------------------------------------------------
InsertStep(i) ==
  /\ inserts < Inserts
  /\ inserts' = inserts + 1
  /\ \/ \E d \in UserDescs, e \in UserEntries : PageInsert(d, i, e)
     \/ \E d \in KernDescs, e \in KernEntries : KernelPageInsert(d, i, e)

UserStep(d) ==
  \/ \E s \in Starts : AllocateZone(d, s)
  \/ MappingTryInsert(d)
  \/ UpdateMProtectAllowance(d)
  \/ MProtect(d)
  \/ UpdatePageEntry(d)
  \/ InvalidateImp(d)
  \/ \E i \in Indices : CleanUpPageEntry(d, i)
  \/ FreeZoneMapping(d)
  \/ FreeZoneContext(d)

KernelStep(d) ==
  \/ KernelZone(d)
  \/ KernelInvalidateImp(d)

AppStep ==
  \/ \E p \in 1..Top : AppMaps(p)
  \/ \E p \in 1..Top : AppUnmaps(p)
  \/ \E p \in 1..Top, prot \in AppProts : AppProtects(p, prot)
  \/ \E p \in 1..Top : AppFaults(p)
  \/ AppExits

Next ==
  /\ halted = "no"
  /\ \/ \E i \in Indices : InsertStep(i)
     \/ /\ \/ \E d \in UserDescs : UserStep(d)
           \/ \E d \in KernDescs : KernelStep(d)
           \/ \E d \in Descs : ForceLinger(d)
           \/ AppStep
        /\ UNCHANGED inserts

Spec == Init /\ [][Next]_vars

-----------------------------------------------------------------------------
(* Properties.                                                             *)

(* The users of the mm are the process and the zones that have not given   *)
(* their reference back, those that linger for ever; only an insertion     *)
(* that found no area has taken one away from somebody else                *)
(* (UserVMManager.cpp:110, 246, 332).                                      *)
HoldsMm(d) ==
  hasMm[d] /\ (desc[d] \in {"mapping", "alive", "closing"} \/ lingering[d])

MmCounted ==
  /\ halted = "no" =>
       mmUsers + missed = Cardinality({d \in UserDescs : HoldsMm(d)}) + (IF appAlive THEN 1 ELSE 0)
  /\ halted = "freed mm" => missed > 0

(* InjectPage panics about the protection of an area, and puts a page      *)
(* where no area is, only if somebody else changed the area between the    *)
(* steps of the insertion (UserVMManager.cpp:273, 289, 381): the allowance,*)
(* the split and the look-up agree otherwise.                              *)
PanicNeedsMeddling ==
  /\ halted = "panic" => \E d \in UserDescs : At(d, "page") /\ touched[d]
  /\ \A d \in UserDescs : <<d, FALSE>> \notin stray

(* Whatever became of the descriptor and of the process's own calls, once  *)
(* a descriptor that does not linger is destroyed none of its areas is     *)
(* left, unless munmap refused to take them away, and none of its pages,   *)
(* unless one was put where no area was; an area finds its fault handler   *)
(* unless its descriptor lingered or munmap refused (UserVMManager.cpp:252,*)
(* 289, VMAllocation.cpp:205).                                             *)
NothingLeftBehind ==
  /\ \A d \in UserDescs : desc[d] \in {"unmapped", "dead"} /\ ~lingering[d] /\ d \notin kept =>
       /\ \A v \in areas : v.owner # d
       /\ <<d, TRUE>> \in stray \/ \A p \in 1..Top : pte[p] # d
  /\ \A d \in KernDescs : desc[d] = "dead" /\ ~lingering[d] =>
       \A i \in Indices : kpte[d][i] = NoFrame
  /\ halted = "stale handler" =>
       \E d \in UserDescs : desc[d] = "dead" /\ (lingering[d] \/ d \in kept)

(* A zone of the kernel maps what PagePhysAddr and PageIsPresent of its    *)
(* descriptor say, after every insertion, replacement and failure.         *)
KernelMatches ==
  \A d \in KernDescs, i \in Indices : desc[d] = "alive" /\ halted = "no" =>
    LET e == entries[d][i] IN
    kpte[d][i] = IF e = Absent THEN NoFrame
                 ELSE IF e.type = "dummy" THEN DummyFrame ELSE PagePhysAddr(e)

(* The page tables hold what the descriptors that are alive put there, and *)
(* nothing of those that were destroyed.                                   *)
TablesSound == NothingLeftBehind /\ KernelMatches

(* A descriptor whose zone is its own, or that has none yet, never changes *)
(* an area of the process: not its place, its protection, nor what it may  *)
(* be protected to (UserVMManager.cpp:221, 252, 336, 388).                 *)
Intact(d) ==
  \A i \in Indices : LET a == ZoneAddress(d, i)  v == find_vma(areas, a) IN
                     Covers(v, a) /\ v.owner = d

AppAreas == {v \in areas : v.owner = "app"}

AppAreasKept ==
  [][\A d \in UserDescs :
       /\ work'[d] # work[d] \/ desc'[d] # desc[d]
       /\ desc[d] \in {"none", "mapping"} \/ Intact(d)
       /\ mmUsers' > 0
       => AppAreas' = AppAreas]_vars
=============================================================================
