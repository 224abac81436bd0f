-------------------------- MODULE MCMemoryDescriptors --------------------------
(***************************************************************************)
(* The instance TLC checks: the process is given a page it may write, and  *)
(* one named by its frame; the kernel one of each kind.                    *)
(***************************************************************************)
EXTENDS MemoryDescriptors, TLC

MCUserEntries ==
  {[type |-> "page", value |-> VmemMap + 3 * StructPage, access |-> {VM_READ, VM_WRITE}],
   [type |-> "pfn", value |-> 5, access |-> {VM_WRITE}]}

MCKernEntries == MCUserEntries \cup
  {[type |-> "address", value |-> 7 * PageSize, access |-> {VM_READ}],
   Dummy}

MCAppProts == {{VM_READ}}

(* Descriptors of the kernel share no state with the process and those in  *)
(* it: one behaviour has the one kind or the other.                        *)
MCOneKind ==
  \/ \A d \in KernDescs : desc[d] = "none"
  \/ appCalls = 0 /\ appAlive /\ \A d \in UserDescs : desc[d] = "none"

(* One of the descriptors at most lingers or keeps its areas against its   *)
(* will, and one at most lies at an address its owner asked for, which is  *)
(* another: it may ask for a place where the one that is gone still is.    *)
(* One at most is given a frame, and then none is any of this.             *)
Stays(d) == lingering[d] \/ d \in kept

Asked(d) == d \in UserDescs /\ desc[d] # "none" /\ address[d] \in Starts \ {0}

ByFrame(d) ==
  /\ d \in UserDescs
  /\ \/ \E m \in BOOLEAN : <<d, m>> \in stray
     \/ work[d].want.type = "pfn"
     \/ \E i \in Indices : entries[d][i].type = "pfn"

MCOneOdd ==
  /\ \A d \in Descs : ~(Asked(d) /\ Stays(d)) /\ ~(ByFrame(d) /\ (Asked(d) \/ Stays(d)))
  /\ \A c, d \in Descs : c # d =>
       /\ Stays(c) => ~Stays(d)
       /\ Asked(c) => ~Asked(d)
       /\ ByFrame(c) => ~Stays(d) /\ ~Asked(d) /\ ~ByFrame(d)

MCSymmetry == Permutations(UserDescs)
=============================================================================
