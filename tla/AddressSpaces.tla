--------------------------- MODULE AddressSpaces ---------------------------
(***************************************************************************)
(* The page tables of labs/16-vm-page-table/code/pt-vm.c over the cp15     *)
(* sequences of labs/15-vm-coherence/code (your-mmu-asm.S, mmu.c).  Every  *)
(* routine is the sequence of its cp15 instructions; between two of them   *)
(* the hardware may do what the architecture lets it do: let a written     *)
(* register take effect, walk a table into the TLB (prefetching, too, so   *)
(* for any section at any time), evict an entry, or let a store reach the  *)
(* memory that the walker reads.                                           *)
(***************************************************************************)
EXTENDS Naturals, Sequences, FiniteSets

CONSTANTS
  Tables, Kern,     \* the page tables, and the one vm_map_kernel allocates
  Null,             \* ttbr0 before it is set
  KSecs, USecs,     \* sections of the kernel, and of the address spaces
  Frames,           \* physical sections that user sections are mapped to
  AsidOf,           \* the client gives every table its address space id
  BootTlb,          \* what the TLB holds at reset: anything
  TlbSize           \* bound: unlocked entries of the TLB

Secs == KSecs \cup USecs
kern_asid == 1
Asids == 1..63

(* fld_t as vm_map_sec fills it: tag, domain and permissions are the same   *)
(* in all entries, what remains is the section and the not-global bit.      *)
fld(pa, G) == [pa |-> pa, nG |-> ~G]
Empty == [pa |-> "none", nG |-> FALSE]
Identity(s) == fld(s, TRUE)
Flds == [pa : Secs \cup Frames \cup {"none"}, nG : BOOLEAN]
TlbEntries == [sec : Secs, asid : {0} \cup Asids, pte : Flds]

ASSUME SectionAssumption == KSecs \cap USecs = {} /\ "none" \notin Secs \cup Frames
ASSUME TableAssumption == Kern \in Tables /\ Null \notin Tables
ASSUME AsidAssumption ==
  /\ AsidOf \in [Tables -> Asids] /\ AsidOf[Kern] = kern_asid
  /\ \A t, u \in Tables : AsidOf[t] = AsidOf[u] => t = u
ASSUME BootAssumption == BootTlb \subseteq TlbEntries

VARIABLES
  live,     \* the allocated tables
  tab,      \* their entries as the program reads them
  mem,      \* ... and as the walker does: stores get there later
  regs,     \* the cp15 registers as written: mmu, asid, ttbr, dacr
  eff,      \* ... and as the hardware uses them
  tlb, doomed, \* the TLB, and its entries that are being invalidated
  call, k,  \* the routine that runs, the index of its next instruction
  dirty     \* history: entries changed under the hardware since the last
            \* mmu_sync_pte_mods
vars == <<live, tab, mem, regs, eff, tlb, doomed, call, k, dirty>>

-----------------------------------------------------------------------------
(* The routines as instructions.  Cache maintenance is left out, as it      *)
(* never changes a translation; nor does a flush of the branch targets, but *)
(* it takes its place among the instructions.                               *)
DSB == [op |-> "dsb"]
PF == [op |-> "pf"]
BTB == [op |-> "btb"]
TLBI == [op |-> "tlbi"]
MCR(r, v) == [op |-> "mcr", reg |-> r, val |-> v]
MapKernel == [op |-> "map"]
Registers == {"mmu", "asid", "ttbr", "dacr"}

mmu_reset == <<TLBI, PF, DSB>>
domain_access_ctrl_set == <<MCR("dacr", 1), PF>>
(* Mutants: the stores to the table are not waited for; the old asid stays  *)
(* in use while the table changes; the last flush is missing, as it is in   *)
(* pin_mmu_switch (pinned-vm.c).                                            *)
cp15_set_procid_ttbr0_NoDsb(pt, asid) ==
  <<PF, MCR("asid", 0), BTB, PF, MCR("ttbr", pt), BTB, PF, MCR("asid", asid), BTB, PF>>
cp15_set_procid_ttbr0_NoAsid0(pt, asid) ==
  <<DSB, MCR("ttbr", pt), BTB, PF, MCR("asid", asid), BTB, PF>>
cp15_set_procid_ttbr0_NoLastPf(pt, asid) ==
  <<DSB, MCR("asid", 0), BTB, PF, MCR("ttbr", pt), BTB, PF, MCR("asid", asid), BTB>>

(* TTBR1 and TTBCR are written with 0 and flushes after the TTBR0.          *)
cp15_set_procid_ttbr0(pt, asid) ==
  <<DSB, MCR("asid", 0), BTB, PF, MCR("ttbr", pt), BTB, PF, MCR("asid", asid), BTB, PF>>
mmu_enable_set_asm == <<MCR("mmu", 1), DSB, PF, BTB>>
mmu_disable_set_asm == <<MCR("mmu", 0), DSB, PF, BTB>>
mmu_sync_pte_mods == <<DSB, TLBI, BTB, DSB, PF>>

Code(c) ==
  CASE c.fn = "mmu_reset" -> mmu_reset
    [] c.fn = "domain" -> domain_access_ctrl_set
    [] c.fn = "map" -> <<MapKernel>>
    [] c.fn = "switch" -> cp15_set_procid_ttbr0(c.pt, c.asid)
    [] c.fn = "enable" -> mmu_enable_set_asm
    [] c.fn = "disable" -> mmu_disable_set_asm
    [] c.fn = "sync" -> mmu_sync_pte_mods
    [] OTHER -> << >>

(* The C code that calls them: what follows a routine in vm_map_kernel,     *)
(* which stops after mapping unless its enable_p is set.                    *)
Call(fn, pt, asid, more) == [fn |-> fn, pt |-> pt, asid |-> asid, more |-> more]
Idle == Call("idle", Kern, kern_asid, FALSE)
Then(c) ==
  CASE c.fn = "mmu_reset" -> [c EXCEPT !.fn = "domain"]
    [] c.fn = "domain" -> [c EXCEPT !.fn = "map"]
    [] c.fn = "map" /\ c.more -> [c EXCEPT !.fn = "switch"]
    [] c.fn = "switch" /\ c.more -> Call("enable", Kern, kern_asid, FALSE)
    [] OTHER -> Idle

Running == call.fn # "idle"
Start(c) ==
  /\ ~Running /\ call' = c /\ k' = 1
  /\ UNCHANGED <<live, tab, mem, regs, eff, tlb, doomed, dirty>>

-----------------------------------------------------------------------------
Init ==
  /\ live = {}
  /\ tab = [t \in Tables |-> [s \in Secs |-> Empty]] /\ mem = tab
  /\ regs = [r \in Registers |-> IF r = "ttbr" THEN Null ELSE 0]
  /\ eff = regs
  /\ tlb = BootTlb /\ doomed = {}
  /\ call = Idle /\ k = 1
  /\ dirty = {}

(* Stores go through the write buffer once the MMU is on; without it data   *)
(* accesses are strongly ordered.                                           *)
Store(t) ==
  /\ tab' = t
  /\ mem' = IF regs["mmu"] = 1 THEN mem ELSE t

(* The instruction at k.                                                    *)
Execute ==
  LET i == Code(call)[k] IN
  /\ Running /\ k <= Len(Code(call)) /\ k' = k + 1
  /\ \/ /\ i.op = "dsb"
        /\ mem' = tab /\ tlb' = tlb \ doomed /\ doomed' = {}
        /\ UNCHANGED <<live, tab, regs, eff>>
     \/ i.op = "pf" /\ eff' = regs /\ UNCHANGED <<live, tab, mem, regs, tlb, doomed>>
     \/ i.op = "btb" /\ UNCHANGED <<live, tab, mem, regs, eff, tlb, doomed>>
     \/ /\ i.op = "tlbi" /\ doomed' = tlb
        /\ UNCHANGED <<live, tab, mem, regs, eff, tlb>>
     \/ /\ i.op = "mcr" /\ regs' = [regs EXCEPT ![i.reg] = i.val]
        /\ UNCHANGED <<live, tab, mem, eff, tlb, doomed>>
     \/ /\ i.op = "map" /\ live' = {Kern}
        /\ Store([tab EXCEPT ![Kern] =
                    [s \in Secs |-> IF s \in KSecs THEN Identity(s) ELSE Empty]])
        /\ UNCHANGED <<regs, eff, tlb, doomed>>
  /\ UNCHANGED <<call, dirty>>

Return ==
  /\ Running /\ k > Len(Code(call))
  /\ call' = Then(call) /\ k' = 1
  /\ dirty' = IF call.fn = "sync" THEN {} ELSE dirty
  /\ UNCHANGED <<live, tab, mem, regs, eff, tlb, doomed>>

(* The client calls: their asserts are guards.  The kernel is mapped once,  *)
(* and mmu_init asserts that the MMU is off.  That a table is installed is  *)
(* not checked when the MMU is enabled.                                     *)
vm_map_kernel(enable_p) ==
  /\ live = {} /\ regs["mmu"] = 0
  /\ Start(Call("mmu_reset", Kern, kern_asid, enable_p))
vm_mmu_switch_NoAssert(pt, asid) ==
  asid # 0 /\ Start(Call("switch", pt, asid, FALSE))
vm_mmu_switch(pt, asid) ==
  pt \in live /\ asid # 0 /\ Start(Call("switch", pt, asid, FALSE))
vm_mmu_enable ==
  regs["mmu"] = 0 /\ Start(Call("enable", Kern, kern_asid, FALSE))
vm_mmu_disable ==
  regs["mmu"] = 1 /\ Start(Call("disable", Kern, kern_asid, FALSE))
Sync == live # {} /\ Start(Call("sync", Kern, kern_asid, FALSE))

vm_dup(pt1, pt2) ==
  /\ ~Running /\ pt1 \in live /\ pt2 \notin live
  /\ live' = live \cup {pt2}
  /\ Store([tab EXCEPT ![pt2] = tab[pt1]])
  /\ UNCHANGED <<regs, eff, tlb, doomed, call, k, dirty>>

(* The hardware may hold or fetch the old entry.                            *)
Exposed(pt, va) ==
  \/ regs["mmu"] = 1 /\ regs["ttbr"] = pt
  \/ \E e \in tlb : e.sec = va /\ e.asid = AsidOf[pt]

vm_map_sec(pt, va, pa) ==
  /\ ~Running /\ pt \in live
  /\ Store([tab EXCEPT ![pt][va] = fld(pa, FALSE)])
  /\ dirty' = IF Exposed(pt, va) THEN dirty \cup {<<pt, va>>} ELSE dirty
  /\ UNCHANGED <<live, regs, eff, tlb, doomed, call, k>>

-----------------------------------------------------------------------------
(* The hardware.                                                            *)
Settle(r) ==
  /\ eff[r] # regs[r] /\ eff' = [eff EXCEPT ![r] = regs[r]]
  /\ UNCHANGED <<live, tab, mem, regs, tlb, doomed, call, k, dirty>>

Drain(t, s) ==
  /\ mem[t][s] # tab[t][s] /\ mem' = [mem EXCEPT ![t][s] = tab[t][s]]
  /\ UNCHANGED <<live, tab, regs, eff, tlb, doomed, call, k, dirty>>

(* The descriptor of s in the table that ttbr0 names; before ttbr0 is set   *)
(* there is none.                                                           *)
Descriptor(s) == IF eff["ttbr"] \in live THEN mem[eff["ttbr"]][s] ELSE Empty

Walk(s) ==
  /\ eff["mmu"] = 1 /\ Descriptor(s) # Empty
  /\ Cardinality(tlb) < TlbSize
  /\ tlb' = tlb \cup {[sec |-> s, asid |-> eff["asid"], pte |-> Descriptor(s)]}
  /\ UNCHANGED <<live, tab, mem, regs, eff, doomed, call, k, dirty>>

Evict(e) ==
  /\ tlb' = tlb \ {e} /\ doomed' = doomed \ {e}
  /\ UNCHANGED <<live, tab, mem, regs, eff, call, k, dirty>>

Next ==
  \/ Execute
  \/ Return
  \/ \E enable_p \in BOOLEAN : vm_map_kernel(enable_p)
  \/ \E pt \in Tables : \E asid \in {0, AsidOf[pt]} : vm_mmu_switch(pt, asid)
  \/ vm_mmu_enable
  \/ vm_mmu_disable
  \/ Sync
  \/ \E pt1, pt2 \in Tables : vm_dup(pt1, pt2)
  \/ \E pt \in Tables, va \in USecs, pa \in Frames : vm_map_sec(pt, va, pa)
  \/ \E r \in Registers : Settle(r)
  \/ \E t \in Tables, s \in Secs : Drain(t, s)
  \/ \E s \in Secs : Walk(s)
  \/ \E e \in tlb : Evict(e)

Spec == Init /\ [][Next]_vars

-----------------------------------------------------------------------------
TypeOK ==
  /\ live \in SUBSET Tables
  /\ tab \in [Tables -> [Secs -> Flds]] /\ mem \in [Tables -> [Secs -> Flds]]
  /\ \A r \in {regs, eff} :
       /\ r \in [Registers -> {0, 1} \cup Asids \cup Tables \cup {Null}]
       /\ r["mmu"] \in {0, 1} /\ r["asid"] \in {0} \cup Asids
       /\ r["ttbr"] \in live \cup {Null} /\ r["dacr"] \in {0, 1}
  /\ tlb \in SUBSET TlbEntries /\ doomed \in SUBSET tlb
  /\ call \in [fn : {"idle", "mmu_reset", "domain", "map", "switch", "enable", "disable", "sync"},
               pt : Tables, asid : Asids, more : BOOLEAN]
  /\ k \in 1..11
  /\ dirty \in SUBSET (live \X USecs)

(* What an access to section s may be translated with.                      *)
Translations(s) ==
  IF eff["mmu"] = 0 THEN {Identity(s)}
  ELSE {Descriptor(s)} \cup
       {e.pte : e \in {x \in tlb : x.sec = s /\ (x.pte.nG => x.asid = eff["asid"])}}

(* vm_map_kernel "shouldn't matter since kernel is global": whenever the    *)
(* hardware translates with a table of the program, in the middle of a      *)
(* switch, an enable or a sync as well, every section of the kernel is      *)
(* mapped to itself and its domain is permitted, so the code and stack that *)
(* do the switching are never lost.  "with a table" is a condition on the   *)
(* caller: vm_mmu_enable does not check it ("probably should", its comment  *)
(* says), and then translates with what ttbr0 holds before its first write. *)
(* That names no descriptor here; the program goes on regardless, and       *)
(* nothing is claimed until a switch has taken effect.                      *)
Installed == eff["mmu"] = 1 /\ eff["ttbr"] # Null
KernelReachable ==
  Installed =>
    eff["dacr"] = 1 /\ \A s \in KSecs : Translations(s) = {Identity(s)}

(* A load goes where vm_xlate says, unless the client changed that entry    *)
(* where the hardware could see it and has not called mmu_sync_pte_mods     *)
(* since: no stale entry of another address space, no half-written table.   *)
LoadsFollowTable ==
  ~Running /\ Installed =>
    \A s \in Secs : <<eff["ttbr"], s>> \notin dirty =>
      Translations(s) = {tab[eff["ttbr"]][s]}

(* DEUX-MEM-ORDER.md: "cp14/cp14;PF required so instructions after use any  *)
(* changes": when a routine has returned, no register it wrote is still on  *)
(* its way.                                                                 *)
CallsTakeEffect == ~Running => eff = regs
=============================================================================
