------------------------ MODULE AddressSpacesProofs ------------------------
(***************************************************************************)
(* AddressSpaces keeps its four invariants for every set of tables,        *)
(* sections and frames.  IInv says which tables the hardware may reach,    *)
(* with which address space id, and how far each routine has come.         *)
(***************************************************************************)
EXTENDS AddressSpaces, TLAPS

Shape(p, s) == p = Empty \/ (IF s \in KSecs THEN p = Identity(s) ELSE p.nG = TRUE)
Shapes == \A t \in Tables, s \in Secs : Shape(tab[t][s], s) /\ Shape(mem[t][s], s)
KernelMapped == \A t \in live, s \in KSecs : tab[t][s] = Identity(s)

(* A table that ttbr0 names, or is about to, is in memory.                  *)
Published(t) ==
  /\ \A s \in KSecs : mem[t][s] = Identity(s)
  /\ \A s \in USecs : mem[t][s] = tab[t][s] \/ <<t, s>> \in dirty
InstalledPublished ==
  /\ eff["ttbr"] # Null => Published(eff["ttbr"])
  /\ regs["ttbr"] # Null => Published(regs["ttbr"])

(* A TLB entry of a user section comes from the table of its asid.          *)
Fresh(e) ==
  \/ e.asid = 0
  \/ \E t \in live : AsidOf[t] = e.asid /\ e.pte = tab[t][e.sec]
Stale(e) == \E t \in live : AsidOf[t] = e.asid /\ <<t, e.sec>> \in dirty
TlbCoherent ==
  live # {} => \A e \in tlb :
    /\ e.sec \in KSecs => e.pte = Identity(e.sec)
    /\ e.sec \in USecs => e.pte.nG = TRUE /\ (Fresh(e) \/ Stale(e))

(* Never an asid other than 0 with a table of another one.                  *)
Pair(a, t) == a = 0 \/ (t \in live /\ AsidOf[t] = a)
Pairs ==
  /\ Pair(eff["asid"], eff["ttbr"]) /\ Pair(eff["asid"], regs["ttbr"])
  /\ Pair(regs["asid"], eff["ttbr"]) /\ Pair(regs["asid"], regs["ttbr"])

MmuSafe ==
  /\ eff["ttbr"] # Null => regs["ttbr"] # Null
  /\ live # {} => eff["dacr"] = 1 /\ regs["dacr"] = 1

At(fn) == call.fn = fn
(* How far each routine has come when its next instruction is k.            *)
FlowBoot ==
  /\ At("mmu_reset") \/ At("domain") \/ At("map") =>
       /\ regs["ttbr"] = Null /\ regs["mmu"] = 0 /\ eff["mmu"] = 0
       /\ call.pt = Kern /\ call.asid = kern_asid
       /\ (At("map") /\ k = 2) \/ live = {}
  /\ At("mmu_reset") =>
       eff = regs /\ (k >= 2 => tlb \subseteq doomed) /\ (k >= 4 => tlb = {})
  /\ At("domain") =>
       tlb = {} /\ (k >= 2 => regs["dacr"] = 1) /\ (k >= 3 => eff = regs)
  /\ At("map") =>
       eff = regs /\ tlb = {} /\ regs["dacr"] = 1 /\ (k = 2 => Kern \in live)
FlowSwitch ==
  At("switch") =>
    /\ call.pt \in live /\ call.asid = AsidOf[call.pt]
    /\ call.more => call.pt = Kern
    /\ k \in {1, 2, 5, 8, 11} => eff = regs
    /\ k >= 2 => mem = tab
    /\ k \in 3..8 => regs["asid"] = 0
    /\ k \in 5..8 => eff["asid"] = 0
    /\ k >= 6 => regs["ttbr"] = call.pt
    /\ k >= 8 => eff["ttbr"] = call.pt
    /\ k >= 9 => regs["asid"] # 0
FlowMmu ==
  At("enable") \/ At("disable") => (k \in {1, 4, 5} => eff = regs)
FlowSync ==
  At("sync") =>
    /\ live # {} /\ eff = regs
    /\ k >= 2 => mem = tab
    /\ k >= 3 => \A e \in tlb \ doomed : e.sec \in USecs => Fresh(e)
    /\ k >= 5 => doomed = {}
FlowIdle ==
  /\ ~Running => eff = regs
  /\ ~At("mmu_reset") /\ ~At("sync") => doomed = {}
  /\ ~At("switch") /\ regs["ttbr"] # Null => regs["asid"] # 0
  /\ k <= Len(Code(call)) + 1
Flow == FlowBoot /\ FlowSwitch /\ FlowMmu /\ FlowSync /\ FlowIdle

IInv ==
  TypeOK /\ Shapes /\ KernelMapped /\ InstalledPublished /\ TlbCoherent /\ Pairs
    /\ MmuSafe /\ Flow

-----------------------------------------------------------------------------
LEMMA CodeOf ==
  ASSUME NEW c
  PROVE  /\ c.fn = "mmu_reset" => Code(c) = mmu_reset
         /\ c.fn = "domain" => Code(c) = domain_access_ctrl_set
         /\ c.fn = "map" => Code(c) = <<MapKernel>>
         /\ c.fn = "switch" => Code(c) = cp15_set_procid_ttbr0(c.pt, c.asid)
         /\ c.fn = "enable" => Code(c) = mmu_enable_set_asm
         /\ c.fn = "disable" => Code(c) = mmu_disable_set_asm
         /\ c.fn = "sync" => Code(c) = mmu_sync_pte_mods
         /\ c.fn = "idle" => Code(c) = << >>
  BY DEF Code

LEMMA Lengths ==
  ASSUME NEW c
  PROVE  /\ c.fn = "mmu_reset" => Len(Code(c)) = 3
         /\ c.fn = "domain" => Len(Code(c)) = 2
         /\ c.fn = "map" => Len(Code(c)) = 1
         /\ c.fn = "switch" => Len(Code(c)) = 10
         /\ c.fn \in {"enable", "disable"} => Len(Code(c)) = 4
         /\ c.fn = "sync" => Len(Code(c)) = 5
         /\ c.fn = "idle" => Len(Code(c)) = 0
<1>1. c.fn = "mmu_reset" => Len(Code(c)) = 3
  BY CodeOf DEF mmu_reset
<1>2. c.fn = "domain" => Len(Code(c)) = 2
  BY CodeOf DEF domain_access_ctrl_set
<1>3. c.fn = "map" => Len(Code(c)) = 1
  BY CodeOf
<1>4. c.fn = "switch" => Len(Code(c)) = 10
  BY CodeOf DEF cp15_set_procid_ttbr0
<1>5. c.fn \in {"enable", "disable"} => Len(Code(c)) = 4
  BY CodeOf DEF mmu_enable_set_asm, mmu_disable_set_asm
<1>6. c.fn = "sync" => Len(Code(c)) = 5
  BY CodeOf DEF mmu_sync_pte_mods
<1>7. c.fn = "idle" => Len(Code(c)) = 0
  BY CodeOf
<1>. QED
  BY <1>1, <1>2, <1>3, <1>4, <1>5, <1>6, <1>7

(* Which routine is where when the next instruction has a given operation.  *)
OpPlaces(i) ==
  LET Is(fn, n) == call.fn = fn /\ k \in n IN
  /\ i.op = "dsb" =>
       \/ Is("mmu_reset", {3}) \/ Is("switch", {1}) \/ Is("sync", {1, 4})
       \/ Is("enable", {2}) \/ Is("disable", {2})
  /\ i.op = "pf" =>
       \/ Is("mmu_reset", {2}) \/ Is("domain", {2}) \/ Is("switch", {4, 7, 10})
       \/ Is("enable", {3}) \/ Is("disable", {3}) \/ Is("sync", {5})
  /\ i.op = "btb" =>
       \/ Is("switch", {3, 6, 9}) \/ Is("sync", {3})
       \/ Is("enable", {4}) \/ Is("disable", {4})
  /\ i.op = "tlbi" => Is("mmu_reset", {1}) \/ Is("sync", {2})
  /\ i.op = "map" => Is("map", {1})
  /\ i.op = "mcr" =>
       \/ Is("domain", {1}) /\ i = MCR("dacr", 1)
       \/ Is("switch", {2}) /\ i = MCR("asid", 0)
       \/ Is("switch", {5}) /\ i = MCR("ttbr", call.pt)
       \/ Is("switch", {8}) /\ i = MCR("asid", call.asid)
       \/ Is("enable", {1}) /\ i = MCR("mmu", 1)
       \/ Is("disable", {1}) /\ i = MCR("mmu", 0)

LEMMA OpCases ==
  ASSUME call.fn \in {"mmu_reset", "domain", "map", "switch", "enable", "disable", "sync"},
         k \in 1..11, k <= Len(Code(call))
  PROVE  OpPlaces(Code(call)[k])
<1>. USE DEF OpPlaces, DSB, PF, BTB, TLBI, MCR, MapKernel
<1>1. CASE call.fn = "mmu_reset"
  BY <1>1, CodeOf, Lengths DEF mmu_reset
<1>2. CASE call.fn = "domain"
  BY <1>2, CodeOf, Lengths DEF domain_access_ctrl_set
<1>3. CASE call.fn = "map"
  BY <1>3, CodeOf, Lengths
<1>4. CASE call.fn = "switch"
  <2>1. Code(call) = cp15_set_procid_ttbr0(call.pt, call.asid)
    BY <1>4, CodeOf, Zenon
  <2>2. Len(Code(call)) = 10
    BY <1>4, Lengths, Zenon
  <2>3. k \in 1..10
    BY <2>2
  <2>4. CASE k = 1
    BY <1>4, <2>1, <2>4 DEF cp15_set_procid_ttbr0
  <2>5. CASE k \in {4, 7, 10}
    BY <1>4, <2>1, <2>5 DEF cp15_set_procid_ttbr0
  <2>6. CASE k \in {3, 6, 9}
    BY <1>4, <2>1, <2>6 DEF cp15_set_procid_ttbr0
  <2>7. CASE k = 2
    BY <1>4, <2>1, <2>7 DEF cp15_set_procid_ttbr0
  <2>8. CASE k = 5
    BY <1>4, <2>1, <2>8 DEF cp15_set_procid_ttbr0
  <2>9. CASE k = 8
    BY <1>4, <2>1, <2>9 DEF cp15_set_procid_ttbr0
  <2>. QED
    BY <2>3, <2>4, <2>5, <2>6, <2>7, <2>8, <2>9
<1>5. CASE call.fn = "enable"
  BY <1>5, CodeOf, Lengths DEF mmu_enable_set_asm
<1>6. CASE call.fn = "disable"
  BY <1>6, CodeOf, Lengths DEF mmu_disable_set_asm
<1>7. CASE call.fn = "sync"
  BY <1>7, CodeOf, Lengths DEF mmu_sync_pte_mods
<1>. QED
  BY <1>1, <1>2, <1>3, <1>4, <1>5, <1>6, <1>7

-----------------------------------------------------------------------------
LEMMA InitIInv == Init => IInv
<1>. SUFFICES ASSUME Init PROVE IInv
  OBVIOUS
<1>. USE DEF Init
<1>1. TypeOK
  <2>1. Empty \in Flds
    BY DEF Empty, Flds
  <2>2. tab \in [Tables -> [Secs -> Flds]] /\ mem = tab
    BY <2>1
  <2>3. regs["mmu"] = 0 /\ regs["asid"] = 0 /\ regs["ttbr"] = Null /\ regs["dacr"] = 0
    BY DEF Registers
  <2>4. regs \in [Registers -> {0, 1} \cup Asids \cup Tables \cup {Null}]
    OBVIOUS
  <2>5. call \in [fn : {"idle", "mmu_reset", "domain", "map", "switch", "enable", "disable", "sync"},
                  pt : Tables, asid : Asids, more : BOOLEAN]
    BY TableAssumption DEF Idle, Call, kern_asid, Asids
  <2>6. tlb \in SUBSET TlbEntries /\ doomed \in SUBSET tlb
    BY BootAssumption
  <2>. QED
    BY <2>2, <2>3, <2>4, <2>5, <2>6 DEF TypeOK
<1>2. regs["mmu"] = 0 /\ regs["asid"] = 0 /\ regs["ttbr"] = Null
  BY DEF Registers
<1>3. Shapes /\ KernelMapped
  BY DEF Shapes, Shape, KernelMapped
<1>4. InstalledPublished /\ TlbCoherent /\ Pairs /\ MmuSafe
  BY <1>2 DEF InstalledPublished, TlbCoherent, Pairs, Pair, MmuSafe
<1>5. Flow
  <2>1. call.fn = "idle"
    BY DEF Idle, Call
  <2>2. Len(Code(call)) = 0
    BY <2>1, Lengths, Zenon
  <2>. QED
    BY <1>2, <2>1, <2>2 DEF Flow, FlowBoot, FlowSwitch, FlowMmu, FlowSync, FlowIdle, Running, At
<1>. QED
  BY <1>1, <1>3, <1>4, <1>5 DEF IInv

(* What a step leaves alone: the conjuncts that depend only on some of the  *)
(* variables.                                                               *)
LEMMA NullNotLive == TypeOK => Null \notin live
  BY TableAssumption DEF TypeOK

LEMMA SettleIInv ==
  ASSUME IInv, NEW r \in Registers, Settle(r)
  PROVE  IInv'
<1>. USE DEF IInv, Settle
<1>0. eff' = [eff EXCEPT ![r] = regs[r]] /\ eff \in [Registers -> {0, 1} \cup Asids \cup Tables \cup {Null}]
  BY DEF TypeOK
<1>1. /\ eff'["mmu"] \in {eff["mmu"], regs["mmu"]}
      /\ eff'["asid"] \in {eff["asid"], regs["asid"]}
      /\ eff'["ttbr"] \in {eff["ttbr"], regs["ttbr"]}
      /\ eff'["dacr"] \in {eff["dacr"], regs["dacr"]}
  BY <1>0 DEF Registers
<1>2. eff' \in [Registers -> {0, 1} \cup Asids \cup Tables \cup {Null}]
  BY <1>0 DEF TypeOK
<1>3. TypeOK'
  BY <1>1, <1>2 DEF TypeOK
<1>4. Shapes' /\ KernelMapped' /\ TlbCoherent'
  BY DEF Shapes, Shape, KernelMapped, TlbCoherent, Fresh, Stale
<1>5. InstalledPublished'
  BY <1>1 DEF InstalledPublished, Published
<1>6. Pairs'
  BY <1>1 DEF Pairs, Pair
<1>7. MmuSafe'
  <2>1. eff["ttbr"] # Null => eff'["ttbr"] # Null
    BY <1>1 DEF MmuSafe
  <2>. QED
    BY <1>1, <2>1 DEF MmuSafe
<1>8. eff # regs
  OBVIOUS
<1>9. FlowBoot' /\ FlowMmu' /\ FlowIdle'
  BY <1>1, <1>8 DEF Flow, FlowBoot, FlowMmu, FlowIdle, Running, At, MmuSafe
<1>10. FlowSwitch'
  <2>1. At("switch") => k \notin {1, 2, 5, 8, 11}
    BY <1>8 DEF Flow, FlowSwitch
  <2>2. At("switch") /\ k \in 5..8 => eff'["asid"] = 0
    BY <1>1 DEF Flow, FlowSwitch
  <2>3. At("switch") /\ k >= 8 => eff'["ttbr"] = call.pt
    BY <1>1, k \in 1..11 DEF Flow, FlowSwitch, TypeOK
  <2>. QED
    BY <2>1, <2>2, <2>3 DEF Flow, FlowSwitch, At
<1>11. FlowSync'
  BY <1>1, <1>8 DEF Flow, FlowSync, Fresh, At
<1>. QED
  BY <1>3, <1>4, <1>5, <1>6, <1>7, <1>9, <1>10, <1>11 DEF Flow

LEMMA DrainIInv ==
  ASSUME IInv, NEW t \in Tables, NEW s \in Secs, Drain(t, s)
  PROVE  IInv'
<1>. USE DEF IInv, Drain
<1>1. mem' \in [Tables -> [Secs -> Flds]]
  BY DEF TypeOK
<1>2. \A u \in Tables, v \in Secs : mem'[u][v] = mem[u][v] \/ mem'[u][v] = tab[u][v]
  BY DEF TypeOK
<1>3. TypeOK'
  BY <1>1 DEF TypeOK
<1>4. Shapes'
  BY <1>2 DEF Shapes, Shape
<1>5. KernelMapped' /\ TlbCoherent' /\ Pairs' /\ MmuSafe'
  BY DEF KernelMapped, TlbCoherent, Fresh, Stale, Pairs, Pair, MmuSafe
<1>6. InstalledPublished'
  <2>1. ASSUME NEW u \in live, Published(u) PROVE Published(u)'
    <3>1. u \in Tables /\ KSecs \subseteq Secs /\ USecs \subseteq Secs
      BY DEF TypeOK, Secs
    <3>. QED
      BY <1>2, <2>1, <3>1 DEF Published, KernelMapped
  <2>2. regs["ttbr"] \in live \cup {Null} /\ eff["ttbr"] \in live \cup {Null}
    BY DEF TypeOK
  <2>. QED
    BY <2>1, <2>2 DEF InstalledPublished
<1>7. mem # tab
  BY DEF TypeOK
<1>8. FlowBoot' /\ FlowMmu' /\ FlowIdle'
  BY DEF Flow, FlowBoot, FlowMmu, FlowIdle, Running, At
<1>9. FlowSwitch'
  BY <1>7 DEF Flow, FlowSwitch, At
<1>10. FlowSync'
  BY <1>7, k \in 1..11 DEF Flow, FlowSync, At, TypeOK
<1>. QED
  BY <1>3, <1>4, <1>5, <1>6, <1>8, <1>9, <1>10 DEF Flow

LEMMA EvictIInv ==
  ASSUME IInv, NEW e \in tlb, Evict(e)
  PROVE  IInv'
<1>. USE DEF IInv, Evict
<1>1. TypeOK'
  BY DEF TypeOK
<1>2. Shapes' /\ KernelMapped' /\ InstalledPublished' /\ Pairs' /\ MmuSafe'
  BY DEF Shapes, Shape, KernelMapped, InstalledPublished, Published, Pairs, Pair, MmuSafe
<1>3. TlbCoherent'
  BY DEF TlbCoherent, Fresh, Stale
<1>4. FlowBoot' /\ FlowMmu' /\ FlowIdle'
  BY DEF Flow, FlowBoot, FlowMmu, FlowIdle, Running, At
<1>5. FlowSwitch'
  BY DEF Flow, FlowSwitch, At
<1>6. FlowSync'
  BY DEF Flow, FlowSync, Fresh, At
<1>. QED
  BY <1>1, <1>2, <1>3, <1>4, <1>5, <1>6 DEF Flow

LEMMA WalkIInv ==
  ASSUME IInv, NEW s \in Secs, Walk(s)
  PROVE  IInv'
<1>. DEFINE d == Descriptor(s)
            e == [sec |-> s, asid |-> eff["asid"], pte |-> d]
            t == eff["ttbr"]
<1>1. t \in live /\ d = mem[t][s] /\ d # Empty /\ t \in Tables /\ t # Null
  BY NullNotLive DEF IInv, Walk, Descriptor, TypeOK
<1>2. d \in Flds /\ e \in TlbEntries
  BY <1>1 DEF IInv, TypeOK, TlbEntries
<1>3. /\ e.sec = s /\ e.asid = eff["asid"] /\ e.pte = d
      /\ tlb' = tlb \cup {e}
  BY DEF Walk
<1>4. s \in KSecs => d = Identity(s)
  BY <1>1 DEF IInv, InstalledPublished, Published
<1>5. s \in USecs => /\ d.nG = TRUE
                     /\ d = tab[t][s] \/ <<t, s>> \in dirty
                     /\ eff["asid"] = 0 \/ AsidOf[t] = eff["asid"]
  BY <1>1, SectionAssumption DEF IInv, InstalledPublished, Published, Shapes, Shape, Pairs, Pair
<1>. HIDE DEF e, d
<1>. USE DEF IInv, Walk
<1>6. TypeOK'
  BY <1>2, <1>3 DEF TypeOK
<1>7. Shapes' /\ KernelMapped' /\ InstalledPublished' /\ Pairs' /\ MmuSafe'
  BY DEF Shapes, Shape, KernelMapped, InstalledPublished, Published, Pairs, Pair, MmuSafe
<1>8. s \in USecs => Fresh(e) \/ Stale(e)
  BY <1>1, <1>3, <1>5 DEF Fresh, Stale
<1>9. TlbCoherent'
  BY <1>3, <1>4, <1>5, <1>8 DEF TlbCoherent, Fresh, Stale
<1>10. FlowBoot'
  BY <1>1 DEF Flow, FlowBoot, MmuSafe, At
<1>11. FlowMmu' /\ FlowIdle' /\ FlowSwitch'
  BY DEF Flow, FlowMmu, FlowIdle, FlowSwitch, Running, At
<1>12. FlowSync'
  <2>1. At("sync") /\ k >= 3 /\ s \in USecs => Fresh(e)
    BY <1>1, <1>3, <1>5, k \in 1..11 DEF Flow, FlowSync, Fresh, TypeOK
  <2>. QED
    BY <1>3, <2>1 DEF Flow, FlowSync, Fresh, At
<1>. QED
  BY <1>6, <1>7, <1>9, <1>10, <1>11, <1>12 DEF Flow

(* A routine may start: what its first instruction relies on.               *)
Ready(c) ==
  /\ c \in [fn : {"mmu_reset", "switch", "enable", "disable", "sync"},
            pt : Tables, asid : Asids, more : BOOLEAN]
  /\ c.fn = "mmu_reset" => live = {} /\ regs["mmu"] = 0 /\ c.pt = Kern /\ c.asid = kern_asid
  /\ c.fn = "switch" => c.pt \in live /\ c.asid = AsidOf[c.pt] /\ (c.more => c.pt = Kern)
  /\ c.fn = "sync" => live # {}

LEMMA StartIInv ==
  ASSUME IInv, NEW c, Ready(c), Start(c)
  PROVE  IInv'
<1>. USE DEF IInv, Start, Ready
<1>1. call' = c /\ k' = 1 /\ eff = regs /\ doomed = {}
  BY DEF Flow, FlowIdle, Running, At
<1>2. TypeOK'
  BY <1>1 DEF TypeOK
<1>3. Shapes' /\ KernelMapped' /\ InstalledPublished' /\ TlbCoherent' /\ Pairs' /\ MmuSafe'
  BY DEF Shapes, Shape, KernelMapped, InstalledPublished, Published, TlbCoherent,
         Fresh, Stale, Pairs, Pair, MmuSafe
<1>4. Len(Code(c)) \in Nat
  <2>1. c.fn \in {"mmu_reset", "switch", "enable", "disable", "sync"}
    OBVIOUS
  <2>2. Len(Code(c)) \in {3, 4, 5, 10}
    BY <2>1, Lengths, Zenon
  <2>. QED
    BY <2>2
<1>5. FlowBoot'
  <2>1. live = {} => regs["ttbr"] = Null
    BY NullNotLive DEF TypeOK
  <2>. QED
    BY <1>1, <2>1 DEF FlowBoot, At
<1>6. FlowSwitch' /\ FlowMmu' /\ FlowSync'
  BY <1>1 DEF FlowSwitch, FlowMmu, FlowSync, At
<1>7. FlowIdle'
  BY <1>1, <1>4 DEF Flow, FlowIdle, Running, At
<1>. QED
  BY <1>2, <1>3, <1>5, <1>6, <1>7 DEF Flow

LEMMA CallsIInv ==
  ASSUME IInv,
         \/ \E enable_p \in BOOLEAN : vm_map_kernel(enable_p)
         \/ \E pt \in Tables : \E asid \in {0, AsidOf[pt]} : vm_mmu_switch(pt, asid)
         \/ vm_mmu_enable
         \/ vm_mmu_disable
         \/ Sync
  PROVE  IInv'
<1>. USE TableAssumption, AsidAssumption DEF Call, Ready
<1>0. kern_asid \in Asids
  BY DEF kern_asid, Asids
<1>1. ASSUME NEW enable_p \in BOOLEAN, vm_map_kernel(enable_p) PROVE IInv'
  BY <1>0, <1>1, StartIInv DEF vm_map_kernel
<1>2. ASSUME NEW pt \in Tables, NEW asid \in {0, AsidOf[pt]}, vm_mmu_switch(pt, asid)
      PROVE  IInv'
  <2>1. Ready(Call("switch", pt, asid, FALSE))
    BY <1>2 DEF vm_mmu_switch
  <2>. QED
    BY <1>2, <2>1, StartIInv DEF vm_mmu_switch
<1>3. ASSUME vm_mmu_enable PROVE IInv'
  <2>1. Ready(Call("enable", Kern, kern_asid, FALSE))
    BY <1>0, <1>3 DEF vm_mmu_enable
  <2>. QED
    BY <1>3, <2>1, StartIInv DEF vm_mmu_enable
<1>4. ASSUME vm_mmu_disable PROVE IInv'
  <2>1. Ready(Call("disable", Kern, kern_asid, FALSE))
    BY <1>0
  <2>. QED
    BY <1>4, <2>1, StartIInv DEF vm_mmu_disable
<1>5. ASSUME Sync PROVE IInv'
  <2>1. Ready(Call("sync", Kern, kern_asid, FALSE))
    BY <1>0, <1>5 DEF Sync
  <2>. QED
    BY <1>5, <2>1, StartIInv DEF Sync
<1>. QED
  BY <1>1, <1>2, <1>3, <1>4, <1>5

LEMMA EndOf ==
  ASSUME NEW c, NEW n, n = Len(Code(c)) + 1
  PROVE  /\ c.fn = "mmu_reset" => n = 4
         /\ c.fn \in {"enable", "disable"} => n = 5
         /\ c.fn = "domain" => n = 3
         /\ c.fn = "map" => n = 2
         /\ c.fn = "switch" => n = 11
         /\ c.fn = "sync" => n = 6
<1>1. CASE c.fn = "mmu_reset"
  <2>1. Len(Code(c)) = 3
    BY <1>1, Lengths, Zenon
  <2>. QED
    BY <1>1, <2>1
<1>2. CASE c.fn = "domain"
  <2>1. Len(Code(c)) = 2
    BY <1>2, Lengths, Zenon
  <2>. QED
    BY <1>2, <2>1
<1>3. CASE c.fn = "map"
  <2>1. Len(Code(c)) = 1
    BY <1>3, Lengths, Zenon
  <2>. QED
    BY <1>3, <2>1
<1>4. CASE c.fn = "switch"
  <2>1. Len(Code(c)) = 10
    BY <1>4, Lengths, Zenon
  <2>. QED
    BY <1>4, <2>1
<1>5. CASE c.fn = "sync"
  <2>1. Len(Code(c)) = 5
    BY <1>5, Lengths, Zenon
  <2>. QED
    BY <1>5, <2>1
<1>6. CASE c.fn \in {"enable", "disable"}
  <2>1. Len(Code(c)) = 4
    BY <1>6, Lengths, Zenon
  <2>. QED
    BY <1>6, <2>1
<1>. QED
  BY <1>1, <1>2, <1>3, <1>4, <1>5, <1>6

LEMMA ReturnIInv ==
  ASSUME IInv, Return
  PROVE  IInv'
<1>. DEFINE c == Then(call)
<1>. USE DEF IInv, Return
<1>1. /\ call' = c /\ k' = 1
      /\ call.fn \in {"mmu_reset", "domain", "map", "switch", "enable", "disable", "sync"}
      /\ call.pt \in Tables /\ call.asid \in Asids /\ call.more \in BOOLEAN
  BY DEF Running, TypeOK
<1>2. k = Len(Code(call)) + 1
  <2>1. Len(Code(call)) \in {1, 2, 3, 4, 5, 10}
    BY <1>1, Lengths, Zenon
  <2>. QED
    BY <2>1 DEF Flow, FlowIdle, TypeOK
<1>3. /\ call.fn = "mmu_reset" => k = 4
      /\ call.fn \in {"enable", "disable"} => k = 5
      /\ call.fn = "domain" => k = 3
      /\ call.fn = "map" => k = 2
      /\ call.fn = "switch" => k = 11
      /\ call.fn = "sync" => k = 6
  BY <1>2, EndOf, Zenon
<1>4. /\ call.fn = "mmu_reset" => c = [fn |-> "domain", pt |-> call.pt, asid |-> call.asid, more |-> call.more]
      /\ call.fn = "domain" => c = [fn |-> "map", pt |-> call.pt, asid |-> call.asid, more |-> call.more]
      /\ call.fn = "map" /\ call.more => c = [fn |-> "switch", pt |-> call.pt, asid |-> call.asid, more |-> call.more]
      /\ call.fn = "switch" /\ call.more => c = [fn |-> "enable", pt |-> Kern, asid |-> kern_asid, more |-> FALSE]
      /\ call.fn \in {"enable", "disable", "sync"} \/ (call.fn \in {"map", "switch"} /\ ~call.more)
           => c = [fn |-> "idle", pt |-> Kern, asid |-> kern_asid, more |-> FALSE]
  BY <1>1 DEF Then, Call, Idle, TypeOK
<1>5. eff = regs /\ doomed = {}
  BY <1>1, <1>3 DEF Flow, FlowBoot, FlowSwitch, FlowMmu, FlowSync, FlowIdle, At, TypeOK
<1>6. c \in [fn : {"idle", "domain", "map", "switch", "enable"}, pt : Tables, asid : Asids, more : BOOLEAN]
  <2>1. kern_asid \in Asids /\ FALSE \in BOOLEAN /\ Kern \in Tables
    BY TableAssumption DEF kern_asid, Asids
  <2>2. CASE call.fn = "mmu_reset"
    <3>1. c = [fn |-> "domain", pt |-> call.pt, asid |-> call.asid, more |-> call.more]
      BY <1>4, <2>2
    <3>. QED
      BY <1>1, <3>1
  <2>6. CASE call.fn = "domain"
    <3>1. c = [fn |-> "map", pt |-> call.pt, asid |-> call.asid, more |-> call.more]
      BY <1>4, <2>6
    <3>. QED
      BY <1>1, <3>1
  <2>3. CASE call.fn = "map" /\ call.more
    <3>1. c = [fn |-> "switch", pt |-> call.pt, asid |-> call.asid, more |-> call.more]
      BY <1>4, <2>3
    <3>. QED
      BY <1>1, <3>1
  <2>4. CASE call.fn = "switch" /\ call.more
    <3>1. c = [fn |-> "enable", pt |-> Kern, asid |-> kern_asid, more |-> FALSE]
      BY <1>4, <2>4
    <3>. QED
      BY <2>1, <3>1
  <2>5. CASE call.fn \in {"enable", "disable", "sync"} \/ (call.fn \in {"map", "switch"} /\ ~call.more)
    <3>1. c = [fn |-> "idle", pt |-> Kern, asid |-> kern_asid, more |-> FALSE]
      BY <1>4, <2>5
    <3>. QED
      BY <2>1, <3>1
  <2>. QED
    BY <1>1, <2>2, <2>3, <2>4, <2>5, <2>6
<1>. HIDE DEF c
<1>7. TypeOK'
  BY <1>1, <1>6 DEF TypeOK
<1>8. Shapes' /\ KernelMapped' /\ Pairs' /\ MmuSafe'
  BY DEF Shapes, Shape, KernelMapped, Pairs, Pair, MmuSafe
<1>9. call.fn = "sync" =>
        mem = tab /\ live # {} /\ \A e \in tlb : e.sec \in USecs => Fresh(e)
  BY <1>3, <1>5 DEF Flow, FlowSync, At
<1>10. InstalledPublished'
  <2>1. CASE call.fn = "sync"
    BY <1>9, <2>1 DEF InstalledPublished, Published
  <2>2. CASE call.fn # "sync"
    BY <2>2 DEF InstalledPublished, Published
  <2>. QED
    BY <2>1, <2>2
<1>11. TlbCoherent'
  <2>1. CASE call.fn = "sync"
    BY <1>9, <2>1 DEF TlbCoherent, Fresh
  <2>2. CASE call.fn # "sync"
    BY <2>2 DEF TlbCoherent, Fresh, Stale
  <2>. QED
    BY <2>1, <2>2
<1>12. /\ call.fn = "mmu_reset" => c.fn = "domain" /\ c.pt = call.pt /\ c.asid = call.asid
       /\ call.fn = "domain" => c.fn = "map" /\ c.pt = call.pt /\ c.asid = call.asid
       /\ call.fn = "map" => \/ c.fn = "switch" /\ c.pt = call.pt /\ c.asid = call.asid
                             \/ c.fn = "idle"
       /\ call.fn = "switch" => c.fn \in {"enable", "idle"}
       /\ call.fn \in {"enable", "disable", "sync"} => c.fn = "idle"
  BY <1>1, <1>4
<1>13. FlowBoot'
  BY <1>1, <1>3, <1>5, <1>12 DEF Flow, FlowBoot, At
<1>14. FlowSwitch'
  <2>1. c.fn = "switch" => call.fn = "map" /\ Kern \in live /\ c.pt = Kern /\ c.asid = kern_asid
    BY <1>1, <1>3, <1>12 DEF Flow, FlowBoot, At
  <2>. QED
    BY <1>1, <1>5, <2>1, AsidAssumption DEF FlowSwitch, At
<1>15. FlowMmu'
  BY <1>1, <1>5 DEF FlowMmu, At
<1>16. FlowSync'
  BY <1>1, <1>12 DEF FlowSync, At
<1>17. FlowIdle'
  <2>1. c.fn \in {"idle", "domain", "map", "switch", "enable"}
    BY <1>6
  <2>2. Len(Code(c)) \in {0, 1, 2, 4, 10}
    BY <2>1, Lengths, Zenon
  <2>3. regs["ttbr"] # Null => regs["asid"] # 0
    BY <1>3 DEF Flow, FlowIdle, FlowSwitch, At
  <2>. QED
    BY <1>1, <1>5, <2>2, <2>3 DEF FlowIdle, Running, At
<1>. QED
  BY <1>7, <1>8, <1>10, <1>11, <1>13, <1>14, <1>15, <1>16, <1>17 DEF Flow

LEMMA IdleNow ==
  ASSUME IInv, ~Running
  PROVE  /\ eff = regs /\ doomed = {} /\ call.fn = "idle"
         /\ regs["ttbr"] \in live \cup {Null} /\ regs["mmu"] \in {0, 1}
BY DEF IInv, Flow, FlowIdle, Running, At, TypeOK

LEMMA DupIInv ==
  ASSUME IInv, NEW pt1 \in Tables, NEW pt2 \in Tables, vm_dup(pt1, pt2)
  PROVE  IInv'
<1>. USE DEF IInv, vm_dup, Store
<1>0. /\ eff = regs /\ doomed = {} /\ call.fn = "idle"
      /\ regs["ttbr"] \in live \cup {Null}
  BY IdleNow
<1>1. /\ tab' \in [Tables -> [Secs -> Flds]] /\ mem' \in [Tables -> [Secs -> Flds]]
      /\ tab' = [tab EXCEPT ![pt2] = tab[pt1]] /\ (mem' = mem \/ mem' = tab')
  BY DEF TypeOK
<1>2. \A t \in Tables : t # pt2 => tab'[t] = tab[t]
  BY DEF TypeOK
<1>3. tab'[pt2] = tab[pt1]
  BY DEF TypeOK
<1>4. live' = live \cup {pt2} /\ pt1 \in live /\ pt2 \notin live /\ live \subseteq Tables /\ pt2 # Null
  BY TableAssumption DEF TypeOK
<1>5. TypeOK'
  BY <1>0, <1>1, <1>4 DEF TypeOK
<1>6. Shapes'
  BY <1>1, <1>2, <1>3 DEF Shapes, Shape
<1>7. KernelMapped'
  BY <1>2, <1>3, <1>4 DEF KernelMapped
<1>8. KSecs \subseteq Secs /\ USecs \subseteq Secs
  BY DEF Secs
<1>9. ASSUME NEW t \in live, Published(t) PROVE Published(t)'
  <2>1. tab'[t] = tab[t] /\ \A s \in KSecs : tab'[t][s] = Identity(s)
    BY <1>2, <1>4 DEF KernelMapped
  <2>. QED
    BY <1>1, <1>9, <2>1 DEF Published
<1>10. InstalledPublished'
  BY <1>0, <1>9 DEF InstalledPublished
<1>11. TlbCoherent'
  <2>. SUFFICES ASSUME NEW e \in tlb, e.sec \in USecs, Fresh(e) \/ Stale(e)
                PROVE  Fresh(e)' \/ Stale(e)'
    BY <1>4 DEF TlbCoherent
  <2>. QED
    BY <1>2, <1>4 DEF Fresh, Stale
<1>12. Pairs' /\ MmuSafe'
  BY <1>0, <1>4 DEF Pairs, Pair, MmuSafe
<1>13. FlowBoot' /\ FlowSwitch' /\ FlowMmu' /\ FlowSync'
  BY <1>0 DEF FlowBoot, FlowSwitch, FlowMmu, FlowSync, At
<1>14. FlowIdle'
  BY DEF Flow, FlowIdle, Running, At
<1>. QED
  BY <1>5, <1>6, <1>7, <1>10, <1>11, <1>12, <1>13, <1>14 DEF Flow

LEMMA PutEntry ==
  ASSUME NEW f \in [Tables -> [Secs -> Flds]], NEW t \in Tables, NEW s \in Secs,
         NEW p \in Flds, NEW g, g = [f EXCEPT ![t][s] = p]
  PROVE  /\ \A u \in Tables, v \in Secs : u # t \/ v # s => g[u][v] = f[u][v]
         /\ g[t][s] = p
  OBVIOUS

LEMMA MapSecIInv ==
  ASSUME IInv, NEW pt \in Tables, NEW va \in USecs, NEW pa \in Frames, vm_map_sec(pt, va, pa)
  PROVE  IInv'
<1>. USE DEF IInv, vm_map_sec, Store
<1>. DEFINE p == fld(pa, FALSE)
<1>0. /\ eff = regs /\ doomed = {} /\ call.fn = "idle" /\ regs["mmu"] \in {0, 1}
      /\ regs["ttbr"] \in live \cup {Null}
  BY IdleNow
<1>1. p \in Flds /\ p.nG = TRUE /\ va \in Secs /\ va \notin KSecs
  BY SectionAssumption DEF fld, Flds, Secs
<1>. HIDE DEF p
<1>2. /\ tab' = [tab EXCEPT ![pt][va] = p] /\ (mem' = mem \/ mem' = tab')
      /\ tab' \in [Tables -> [Secs -> Flds]] /\ mem' \in [Tables -> [Secs -> Flds]]
  BY <1>1 DEF TypeOK, p
<1>3. /\ \A t \in Tables, s \in Secs : t # pt \/ s # va => tab'[t][s] = tab[t][s]
      /\ tab'[pt][va] = p
  <2>1. tab \in [Tables -> [Secs -> Flds]]
    BY DEF TypeOK
  <2>. HIDE DEF IInv, vm_map_sec, Store
  <2>2. tab' = [tab EXCEPT ![pt][va] = p] /\ p \in Flds /\ va \in Secs
    BY <1>1, <1>2
  <2>. QED
    BY <2>1, <2>2, PutEntry, Zenon
<1>4. pt \in live /\ live' = live /\ live \subseteq Tables /\ KSecs \subseteq Secs /\ USecs \subseteq Secs
  BY DEF TypeOK, Secs
<1>5. dirty \subseteq dirty' /\ (Exposed(pt, va) => <<pt, va>> \in dirty')
      /\ dirty' \in SUBSET (live \X USecs)
  BY <1>4 DEF TypeOK
<1>6. TypeOK'
  BY <1>0, <1>2, <1>5 DEF TypeOK
<1>7. Shapes'
  <2>1. \A t \in Tables, s \in Secs : Shape(tab'[t][s], s)
    BY <1>1, <1>3 DEF Shapes, Shape
  <2>. QED
    BY <1>2, <2>1, ZenonT(30) DEF Shapes, Shape
<1>8. KernelMapped'
  BY <1>1, <1>3, <1>4, ZenonT(30) DEF KernelMapped
<1>9. ASSUME NEW t, t = regs["ttbr"], t # Null, Published(t) PROVE Published(t)'
  <2>1. t \in live /\ t \in Tables
    BY <1>0, <1>4, <1>9
  <2>2. CASE regs["mmu"] = 1
    <3>1. mem' = mem /\ (t = pt => <<pt, va>> \in dirty')
      BY <1>5, <1>9, <2>2 DEF Exposed
    <3>. QED
      BY <1>3, <1>4, <1>5, <1>9, <2>1, <3>1 DEF Published
  <2>3. CASE regs["mmu"] # 1
    <3>1. mem' = tab' /\ \A s \in KSecs : tab'[t][s] = Identity(s)
      BY <1>1, <1>3, <1>4, <2>1, <2>3, ZenonT(30) DEF KernelMapped
    <3>. QED
      BY <3>1 DEF Published
  <2>. QED
    BY <2>2, <2>3
<1>10. InstalledPublished'
  BY <1>0, <1>9 DEF InstalledPublished
<1>11. TlbCoherent'
  <2>. SUFFICES ASSUME NEW e \in tlb, e.sec \in USecs, Fresh(e) \/ Stale(e)
                PROVE  Fresh(e)' \/ Stale(e)'
    BY <1>4 DEF TlbCoherent
  <2>1. CASE e.asid = 0 \/ Stale(e)
    BY <1>4, <1>5, <2>1 DEF Fresh, Stale
  <2>2. ASSUME NEW t \in live, AsidOf[t] = e.asid, e.pte = tab[t][e.sec]
        PROVE  Fresh(e)' \/ Stale(e)'
    <3>1. CASE t = pt /\ e.sec = va
      <4>1. Exposed(pt, va)
        BY <2>2, <3>1 DEF Exposed
      <4>. QED
        BY <1>4, <1>5, <2>2, <3>1, <4>1 DEF Stale
    <3>2. CASE ~(t = pt /\ e.sec = va)
      <4>1. tab'[t][e.sec] = tab[t][e.sec]
        BY <1>3, <1>4, <3>2
      <4>. QED
        BY <1>4, <2>2, <4>1 DEF Fresh
    <3>. QED
      BY <3>1, <3>2
  <2>. QED
    BY <2>1, <2>2 DEF Fresh
<1>12. Pairs' /\ MmuSafe'
  BY DEF Pairs, Pair, MmuSafe
<1>13. FlowBoot' /\ FlowSwitch' /\ FlowMmu' /\ FlowSync'
  BY <1>0 DEF FlowBoot, FlowSwitch, FlowMmu, FlowSync, At
<1>14. FlowIdle'
  BY DEF Flow, FlowIdle, Running, At
<1>. QED
  BY <1>6, <1>7, <1>8, <1>10, <1>11, <1>12, <1>13, <1>14 DEF Flow

(* One lemma for each kind of instruction.                                  *)
Executes(op) ==
  /\ Execute /\ Code(call)[k].op = op
  /\ k \in 1..10 /\ k <= Len(Code(call))
  /\ OpPlaces(Code(call)[k]) /\ call' = call /\ k' = k + 1 /\ dirty' = dirty

LEMMA ExecutePlaces ==
  ASSUME IInv, Execute
  PROVE  \E op \in {"dsb", "pf", "btb", "tlbi", "mcr", "map"} : Executes(op)
<1>1. call.fn \in {"mmu_reset", "domain", "map", "switch", "enable", "disable", "sync"}
      /\ k \in 1..11 /\ k <= Len(Code(call))
  BY DEF IInv, TypeOK, Execute, Running
<1>2. Len(Code(call)) \in {1, 2, 3, 4, 5, 10}
  BY <1>1, Lengths, Zenon
<1>3. k \in 1..10
  <2>1. PICK n \in {1, 2, 3, 4, 5, 10} : n = Len(Code(call))
    BY <1>2
  <2>2. k \in 1..11 /\ k <= n
    BY <1>1, <2>1, Zenon
  <2>. QED
    BY <2>2
<1>4. OpPlaces(Code(call)[k])
  BY <1>1, OpCases
<1>5. /\ Code(call)[k].op \in {"dsb", "pf", "btb", "tlbi", "mcr", "map"}
      /\ call' = call /\ k' = k + 1 /\ dirty' = dirty
  BY DEF Execute
<1>. QED
  BY <1>1, <1>3, <1>4, <1>5 DEF Executes

LEMMA LengthKept ==
  ASSUME IInv, NEW op, Executes(op)
  PROVE  k' <= Len(Code(call')) + 1
<1>1. Len(Code(call)) \in {0, 1, 2, 3, 4, 5, 10}
  <2>1. call.fn \in {"idle", "mmu_reset", "domain", "map", "switch", "enable", "disable", "sync"}
    BY DEF IInv, TypeOK
  <2>. QED
    BY <2>1, Lengths, Zenon
<1>2. call' = call /\ k' = k + 1 /\ k \in 1..10 /\ k <= Len(Code(call))
  BY DEF Executes
<1>3. Len(Code(call')) = Len(Code(call))
  BY <1>2
<1>. QED
  BY <1>1, <1>2, <1>3

LEMMA DsbIInv ==
  ASSUME IInv, Executes("dsb")
  PROVE  IInv'
<1>1. /\ mem' = tab /\ tlb' = tlb \ doomed /\ doomed' = {}
      /\ UNCHANGED <<live, tab, regs, eff, call, dirty>> /\ k' = k + 1 /\ k \in 1..10
  BY DEF Executes, Execute
<1>2. \/ (call.fn = "mmu_reset" /\ k = 3) \/ (call.fn = "switch" /\ k = 1)
      \/ (call.fn \in {"enable", "disable"} /\ k = 2) \/ (call.fn = "sync" /\ k \in {1, 4})
  BY DEF Executes, OpPlaces
<1>. USE DEF IInv
<1>3. TypeOK'
  BY <1>1 DEF TypeOK
<1>4. Shapes' /\ KernelMapped' /\ Pairs' /\ MmuSafe'
  BY <1>1 DEF Shapes, Shape, KernelMapped, Pairs, Pair, MmuSafe
<1>5. InstalledPublished'
  BY <1>1 DEF InstalledPublished, Published, KernelMapped, TypeOK
<1>6. TlbCoherent'
  BY <1>1 DEF TlbCoherent, Fresh, Stale
<1>7. FlowBoot'
  BY <1>1, <1>2 DEF Flow, FlowBoot, At
<1>8. FlowSwitch'
  BY <1>1, <1>2 DEF Flow, FlowSwitch, At
<1>9. FlowMmu'
  BY <1>1, <1>2 DEF Flow, FlowMmu, At
<1>10. FlowSync'
  BY <1>1, <1>2 DEF Flow, FlowSync, Fresh, At
<1>11. FlowIdle'
  BY <1>1, <1>2, LengthKept DEF Flow, FlowIdle, Running, At
<1>. QED
  BY <1>3, <1>4, <1>5, <1>6, <1>7, <1>8, <1>9, <1>10, <1>11 DEF Flow

LEMMA PfIInv ==
  ASSUME IInv, Executes("pf")
  PROVE  IInv'
<1>1. /\ eff' = regs /\ UNCHANGED <<live, tab, mem, regs, tlb, doomed, call, dirty>>
      /\ k' = k + 1 /\ k \in 1..10
  BY DEF Executes, Execute
<1>2. \/ (call.fn \in {"mmu_reset", "domain"} /\ k = 2) \/ (call.fn = "switch" /\ k \in {4, 7, 10})
      \/ (call.fn \in {"enable", "disable"} /\ k = 3) \/ (call.fn = "sync" /\ k = 5)
  BY DEF Executes, OpPlaces
<1>. USE DEF IInv
<1>3. TypeOK'
  BY <1>1 DEF TypeOK
<1>4. Shapes' /\ KernelMapped' /\ InstalledPublished'
  BY <1>1 DEF Shapes, Shape, KernelMapped, InstalledPublished, Published
<1>5. TlbCoherent' /\ Pairs' /\ MmuSafe'
  BY <1>1 DEF TlbCoherent, Fresh, Stale, Pairs, Pair, MmuSafe
<1>6. FlowBoot'
  BY <1>1, <1>2 DEF Flow, FlowBoot, At
<1>7. FlowSwitch'
  BY <1>1, <1>2 DEF Flow, FlowSwitch, At
<1>8. FlowMmu'
  BY <1>1, <1>2 DEF Flow, FlowMmu, MmuSafe, At
<1>9. FlowSync'
  BY <1>1, <1>2 DEF Flow, FlowSync, Fresh, At
<1>10. FlowIdle'
  BY <1>1, <1>2, LengthKept DEF Flow, FlowIdle, Running, At
<1>. QED
  BY <1>3, <1>4, <1>5, <1>6, <1>7, <1>8, <1>9, <1>10 DEF Flow

LEMMA BtbIInv ==
  ASSUME IInv, Executes("btb")
  PROVE  IInv'
<1>1. /\ UNCHANGED <<live, tab, mem, regs, eff, tlb, doomed, call, dirty>>
      /\ k' = k + 1 /\ k \in 1..10
  BY DEF Executes, Execute
<1>2. \/ (call.fn = "switch" /\ k \in {3, 6, 9}) \/ (call.fn = "sync" /\ k = 3)
      \/ (call.fn \in {"enable", "disable"} /\ k = 4)
  BY DEF Executes, OpPlaces
<1>. USE DEF IInv
<1>3. TypeOK'
  BY <1>1 DEF TypeOK
<1>4. Shapes' /\ KernelMapped' /\ InstalledPublished'
  BY <1>1 DEF Shapes, Shape, KernelMapped, InstalledPublished, Published
<1>5. TlbCoherent' /\ Pairs' /\ MmuSafe'
  BY <1>1 DEF TlbCoherent, Fresh, Stale, Pairs, Pair, MmuSafe
<1>6. FlowBoot' /\ FlowMmu' /\ FlowSync'
  BY <1>1, <1>2 DEF Flow, FlowBoot, FlowMmu, FlowSync, Fresh, At
<1>7. FlowSwitch'
  BY <1>1, <1>2 DEF Flow, FlowSwitch, At
<1>8. FlowIdle'
  BY <1>1, <1>2, LengthKept DEF Flow, FlowIdle, Running, At
<1>. QED
  BY <1>3, <1>4, <1>5, <1>6, <1>7, <1>8 DEF Flow

LEMMA TlbiIInv ==
  ASSUME IInv, Executes("tlbi")
  PROVE  IInv'
<1>1. /\ doomed' = tlb /\ UNCHANGED <<live, tab, mem, regs, eff, tlb, call, dirty>>
      /\ k' = k + 1 /\ k \in 1..10
  BY DEF Executes, Execute
<1>2. (call.fn = "mmu_reset" /\ k = 1) \/ (call.fn = "sync" /\ k = 2)
  BY DEF Executes, OpPlaces
<1>. USE DEF IInv
<1>3. TypeOK'
  BY <1>1 DEF TypeOK
<1>4. Shapes' /\ KernelMapped' /\ InstalledPublished'
  BY <1>1 DEF Shapes, Shape, KernelMapped, InstalledPublished, Published
<1>5. TlbCoherent' /\ Pairs' /\ MmuSafe'
  BY <1>1 DEF TlbCoherent, Fresh, Stale, Pairs, Pair, MmuSafe
<1>6. FlowBoot' /\ FlowSwitch' /\ FlowMmu' /\ FlowSync'
  BY <1>1, <1>2 DEF Flow, FlowBoot, FlowSwitch, FlowMmu, FlowSync, Fresh, At
<1>7. FlowIdle'
  BY <1>1, <1>2, LengthKept DEF Flow, FlowIdle, Running, At
<1>. QED
  BY <1>3, <1>4, <1>5, <1>6, <1>7 DEF Flow

(* A write to one register, by what the routine that does it relies on.     *)
LEMMA McrPlaces ==
  ASSUME IInv, Executes("mcr")
  PROVE  /\ UNCHANGED <<live, tab, mem, eff, tlb, doomed, call, dirty>>
         /\ k' = k + 1 /\ k \in 1..10
         /\ \/ call.fn = "domain" /\ k = 1 /\ regs' = [regs EXCEPT !["dacr"] = 1]
            \/ call.fn = "switch" /\ k = 2 /\ regs' = [regs EXCEPT !["asid"] = 0]
            \/ call.fn = "switch" /\ k = 5 /\ regs' = [regs EXCEPT !["ttbr"] = call.pt]
            \/ call.fn = "switch" /\ k = 8 /\ regs' = [regs EXCEPT !["asid"] = call.asid]
            \/ call.fn = "enable" /\ k = 1 /\ regs' = [regs EXCEPT !["mmu"] = 1]
            \/ call.fn = "disable" /\ k = 1 /\ regs' = [regs EXCEPT !["mmu"] = 0]
<1>. DEFINE i == Code(call)[k]
<1>1. /\ regs' = [regs EXCEPT ![i.reg] = i.val]
      /\ UNCHANGED <<live, tab, mem, eff, tlb, doomed, call, dirty>>
      /\ k' = k + 1 /\ k \in 1..10
  BY DEF Executes, Execute
<1>2. \/ call.fn = "domain" /\ k = 1 /\ i = MCR("dacr", 1)
      \/ call.fn = "switch" /\ k = 2 /\ i = MCR("asid", 0)
      \/ call.fn = "switch" /\ k = 5 /\ i = MCR("ttbr", call.pt)
      \/ call.fn = "switch" /\ k = 8 /\ i = MCR("asid", call.asid)
      \/ call.fn = "enable" /\ k = 1 /\ i = MCR("mmu", 1)
      \/ call.fn = "disable" /\ k = 1 /\ i = MCR("mmu", 0)
  BY DEF Executes, OpPlaces
<1>. HIDE DEF i
<1>3. ASSUME NEW r, NEW v, i = MCR(r, v) PROVE regs' = [regs EXCEPT ![r] = v]
  <2>1. i.reg = r /\ i.val = v
    BY <1>3 DEF MCR
  <2>. QED
    BY <1>1, <2>1
<1>4. /\ i = MCR("dacr", 1) => regs' = [regs EXCEPT !["dacr"] = 1]
      /\ i = MCR("asid", 0) => regs' = [regs EXCEPT !["asid"] = 0]
      /\ i = MCR("ttbr", call.pt) => regs' = [regs EXCEPT !["ttbr"] = call.pt]
      /\ i = MCR("asid", call.asid) => regs' = [regs EXCEPT !["asid"] = call.asid]
      /\ i = MCR("mmu", 1) => regs' = [regs EXCEPT !["mmu"] = 1]
      /\ i = MCR("mmu", 0) => regs' = [regs EXCEPT !["mmu"] = 0]
  BY <1>3, Zenon
<1>. QED
  BY <1>1, <1>2, <1>4, Zenon

LEMMA McrIInv ==
  ASSUME IInv, Executes("mcr")
  PROVE  IInv'
<1>. DEFINE Vals == {0, 1} \cup Asids \cup Tables \cup {Null}
            Same == UNCHANGED <<live, tab, mem, eff, tlb, doomed, call, dirty>>
            Kept(r) == regs'[r] = regs[r]
<1>1. Same /\ k' = k + 1 /\ k \in 1..10
  BY McrPlaces
<1>2. regs \in [Registers -> Vals]
  BY DEF IInv, TypeOK
<1>3. \/ /\ call.fn = "domain" /\ k = 1
         /\ Kept("mmu") /\ Kept("asid") /\ Kept("ttbr") /\ regs'["dacr"] = 1
      \/ /\ call.fn = "switch" /\ k = 2
         /\ Kept("mmu") /\ regs'["asid"] = 0 /\ Kept("ttbr") /\ Kept("dacr")
      \/ /\ call.fn = "switch" /\ k = 5
         /\ Kept("mmu") /\ Kept("asid") /\ regs'["ttbr"] = call.pt /\ Kept("dacr")
      \/ /\ call.fn = "switch" /\ k = 8
         /\ Kept("mmu") /\ regs'["asid"] = call.asid /\ Kept("ttbr") /\ Kept("dacr")
      \/ /\ call.fn = "enable" /\ k = 1
         /\ regs'["mmu"] = 1 /\ Kept("asid") /\ Kept("ttbr") /\ Kept("dacr")
      \/ /\ call.fn = "disable" /\ k = 1
         /\ regs'["mmu"] = 0 /\ Kept("asid") /\ Kept("ttbr") /\ Kept("dacr")
  BY <1>2, McrPlaces DEF Registers
<1>4. regs' \in [Registers -> Vals]
  <2>1. call.asid \in Vals /\ call.pt \in Vals /\ 0 \in Vals /\ 1 \in Vals
    BY DEF IInv, TypeOK
  <2>. HIDE DEF Vals
  <2>. QED
    BY <1>2, <2>1, McrPlaces
<1>5. call.fn = "switch" =>
        /\ call.pt \in live /\ call.pt # Null /\ call.asid = AsidOf[call.pt]
        /\ call.asid \in Asids /\ call.asid # 0
  BY NullNotLive, AsidAssumption DEF IInv, TypeOK, Flow, FlowSwitch, At, Asids
<1>. USE DEF IInv
<1>6. TypeOK'
  <2>1. /\ regs'["mmu"] \in {0, 1} /\ regs'["asid"] \in {0} \cup Asids
        /\ regs'["ttbr"] \in live \cup {Null} /\ regs'["dacr"] \in {0, 1}
    BY <1>3, <1>5 DEF TypeOK
  <2>. QED
    BY <1>1, <1>4, <2>1 DEF TypeOK
<1>7. Shapes' /\ KernelMapped' /\ TlbCoherent'
  BY <1>1 DEF Shapes, Shape, KernelMapped, TlbCoherent, Fresh, Stale
<1>8. InstalledPublished'
  <2>1. CASE call.fn = "switch" /\ k = 5
    <3>1. Published(call.pt)
      BY <1>5, <2>1 DEF Flow, FlowSwitch, At, Published, KernelMapped
    <3>. QED
      BY <1>1, <1>3, <2>1, <3>1 DEF InstalledPublished, Published
  <2>2. CASE ~(call.fn = "switch" /\ k = 5)
    BY <1>1, <1>3, <2>2 DEF InstalledPublished, Published
  <2>. QED
    BY <2>1, <2>2
<1>9. Pairs'
  <2>1. CASE call.fn = "switch" /\ k \in {2, 5, 8}
    BY <1>1, <1>3, <1>5, <2>1 DEF Flow, FlowSwitch, At, Pairs, Pair
  <2>2. CASE Kept("asid") /\ Kept("ttbr")
    BY <1>1, <2>2 DEF Pairs, Pair
  <2>. QED
    BY <1>3, <2>1, <2>2
<1>10. MmuSafe'
  BY <1>1, <1>3, <1>5 DEF Flow, FlowMmu, FlowBoot, At, MmuSafe
<1>11. FlowBoot'
  BY <1>1, <1>3 DEF Flow, FlowBoot, At
<1>12. FlowSwitch'
  BY <1>1, <1>3, <1>5 DEF Flow, FlowSwitch, At
<1>13. FlowMmu' /\ FlowSync'
  BY <1>1, <1>3 DEF Flow, FlowMmu, FlowSync, At
<1>14. FlowIdle'
  BY <1>1, <1>3, LengthKept DEF Flow, FlowIdle, Running, At
<1>. QED
  BY <1>6, <1>7, <1>8, <1>9, <1>10, <1>11, <1>12, <1>13, <1>14 DEF Flow

LEMMA MapIInv ==
  ASSUME IInv, Executes("map")
  PROVE  IInv'
<1>. DEFINE new == [s \in Secs |-> IF s \in KSecs THEN Identity(s) ELSE Empty]
<1>1. /\ call.fn = "map" /\ k = 1 /\ k' = 2 /\ live' = {Kern}
      /\ UNCHANGED <<regs, eff, tlb, doomed, call, dirty>>
      /\ tab' = [tab EXCEPT ![Kern] = new]
      /\ mem' = IF regs["mmu"] = 1 THEN mem ELSE tab'
  BY DEF Executes, Execute, OpPlaces, Store
<1>2. /\ regs["mmu"] = 0 /\ regs["ttbr"] = Null /\ live = {} /\ eff = regs
      /\ tlb = {} /\ regs["dacr"] = 1 /\ regs["asid"] = 0
  BY <1>1, NullNotLive DEF IInv, Flow, FlowBoot, Pairs, Pair, At
<1>3. mem' = tab'
  BY <1>1, <1>2
<1>4. Empty \in Flds /\ \A s \in Secs : Identity(s) \in Flds
  BY DEF Empty, Flds, Identity, fld
<1>5. new \in [Secs -> Flds] /\ \A s \in Secs : Shape(new[s], s)
  BY <1>4 DEF Shape
<1>6. \A s \in KSecs : new[s] = Identity(s)
  BY DEF Secs
<1>. HIDE DEF new
<1>7. tab' \in [Tables -> [Secs -> Flds]] /\ tab'[Kern] = new
      /\ \A t \in Tables : t # Kern => tab'[t] = tab[t]
  BY <1>1, <1>5, TableAssumption DEF IInv, TypeOK
<1>. USE DEF IInv
<1>8. TypeOK'
  BY <1>1, <1>2, <1>3, <1>7, TableAssumption DEF TypeOK
<1>9. Shapes' /\ KernelMapped'
  BY <1>1, <1>3, <1>5, <1>6, <1>7 DEF Shapes, KernelMapped, Shape
<1>10. InstalledPublished' /\ TlbCoherent' /\ Pairs' /\ MmuSafe'
  BY <1>1, <1>2 DEF InstalledPublished, TlbCoherent, Pairs, Pair, MmuSafe
<1>11. FlowBoot'
  BY <1>1, <1>2 DEF Flow, FlowBoot, At
<1>12. FlowSwitch' /\ FlowMmu' /\ FlowSync'
  BY <1>1 DEF FlowSwitch, FlowMmu, FlowSync, At
<1>13. FlowIdle'
  BY <1>1, <1>2, LengthKept DEF Flow, FlowIdle, Running, At
<1>. QED
  BY <1>8, <1>9, <1>10, <1>11, <1>12, <1>13 DEF Flow

LEMMA NextIInv == IInv /\ [Next]_vars => IInv'
<1>. SUFFICES ASSUME IInv, [Next]_vars PROVE IInv'
  OBVIOUS
<1>1. CASE Execute
  <2>1. PICK op \in {"dsb", "pf", "btb", "tlbi", "mcr", "map"} : Executes(op)
    BY <1>1, ExecutePlaces
  <2>. QED
    BY <2>1, DsbIInv, PfIInv, BtbIInv, TlbiIInv, McrIInv, MapIInv
<1>2. CASE Return
  BY <1>2, ReturnIInv
<1>3. CASE \/ \E enable_p \in BOOLEAN : vm_map_kernel(enable_p)
           \/ \E pt \in Tables : \E asid \in {0, AsidOf[pt]} : vm_mmu_switch(pt, asid)
           \/ vm_mmu_enable \/ vm_mmu_disable \/ Sync
  BY <1>3, CallsIInv
<1>4. CASE \E pt1, pt2 \in Tables : vm_dup(pt1, pt2)
  BY <1>4, DupIInv
<1>5. CASE \E pt \in Tables, va \in USecs, pa \in Frames : vm_map_sec(pt, va, pa)
  BY <1>5, MapSecIInv
<1>6. CASE \E r \in Registers : Settle(r)
  BY <1>6, SettleIInv
<1>7. CASE \E t \in Tables, s \in Secs : Drain(t, s)
  BY <1>7, DrainIInv
<1>8. CASE \E s \in Secs : Walk(s)
  BY <1>8, WalkIInv
<1>9. CASE \E e \in tlb : Evict(e)
  BY <1>9, EvictIInv
<1>10. CASE UNCHANGED vars
  <2>. USE <1>10 DEF vars, IInv
  <2>1. TypeOK' /\ Shapes' /\ KernelMapped'
    BY DEF TypeOK, Shapes, Shape, KernelMapped
  <2>2. InstalledPublished' /\ TlbCoherent'
    BY DEF InstalledPublished, Published, TlbCoherent, Fresh, Stale
  <2>3. Pairs' /\ MmuSafe'
    BY DEF Pairs, Pair, MmuSafe
  <2>4. FlowBoot' /\ FlowSwitch' /\ FlowMmu'
    BY DEF Flow, FlowBoot, FlowSwitch, FlowMmu, At
  <2>5. FlowSync' /\ FlowIdle'
    BY DEF Flow, FlowSync, FlowIdle, Fresh, Running, At
  <2>. QED
    BY <2>1, <2>2, <2>3, <2>4, <2>5 DEF Flow
<1>. QED
  BY <1>1, <1>2, <1>3, <1>4, <1>5, <1>6, <1>7, <1>8, <1>9, <1>10 DEF Next

(* Every reachable state satisfies the inductive invariant.                 *)
THEOREM InvariantHolds == Spec => []IInv
<1>. QED
  BY InitIInv, NextIInv, PTL DEF Spec

(* The registers, tables and TLB keep their types.                          *)
THEOREM TypeHolds == Spec => []TypeOK
<1>1. IInv => TypeOK
  BY DEF IInv
<1>. QED
  BY InvariantHolds, <1>1, PTL

(* No instruction of a switch, an enable, a disable or a sync, and nothing  *)
(* the hardware does in between, takes the kernel's mapping away.           *)
THEOREM KernelReachableHolds == Spec => []KernelReachable
<1>1. IInv => KernelReachable
  <2>. SUFFICES ASSUME IInv, eff["mmu"] = 1, eff["ttbr"] # Null
                PROVE  eff["dacr"] = 1 /\ \A s \in KSecs : Translations(s) = {Identity(s)}
    BY DEF KernelReachable, Installed
  <2>1. eff["ttbr"] \in live /\ eff["ttbr"] # Null /\ live # {}
    BY DEF IInv, TypeOK
  <2>2. eff["dacr"] = 1
    BY <2>1 DEF IInv, MmuSafe
  <2>3. ASSUME NEW s \in KSecs PROVE Translations(s) = {Identity(s)}
    <3>1. Descriptor(s) = Identity(s)
      BY <2>1 DEF IInv, InstalledPublished, Published, Descriptor
    <3>2. \A e \in tlb : e.sec = s => e.pte = Identity(s)
      BY <2>1 DEF IInv, TlbCoherent
    <3>. QED
      BY <3>1, <3>2 DEF Translations
  <2>. QED
    BY <2>2, <2>3
<1>. QED
  BY InvariantHolds, <1>1, PTL

(* Between calls a load is translated as the current table says, except     *)
(* where an entry was changed in use and not synchronised.                  *)
THEOREM LoadsFollowTableHolds == Spec => []LoadsFollowTable
<1>1. IInv => LoadsFollowTable
  <2>. SUFFICES ASSUME IInv, ~Running, eff["mmu"] = 1, eff["ttbr"] # Null, NEW s \in Secs,
                       <<eff["ttbr"], s>> \notin dirty
                PROVE  Translations(s) = {tab[eff["ttbr"]][s]}
    BY DEF LoadsFollowTable, Installed
  <2>. DEFINE t == eff["ttbr"]
  <2>1. t \in live /\ t # Null /\ t \in Tables /\ eff = regs
    BY DEF IInv, TypeOK, Flow, FlowIdle
  <2>2. eff["asid"] = AsidOf[t] /\ eff["asid"] # 0
    BY <2>1 DEF IInv, Pairs, Pair, Flow, FlowIdle, Running, At
  <2>3. Descriptor(s) = tab[t][s]
    BY <2>1 DEF IInv, InstalledPublished, Published, KernelMapped, Descriptor, Secs
  <2>4. ASSUME NEW e \in tlb, e.sec = s, e.pte.nG => e.asid = eff["asid"]
        PROVE  e.pte = tab[t][s]
    <3>1. CASE s \in KSecs
      BY <2>1, <2>4, <3>1 DEF IInv, TlbCoherent, KernelMapped
    <3>2. CASE s \in USecs
      <4>1. e.pte.nG = TRUE /\ (Fresh(e) \/ Stale(e))
        BY <2>1, <2>4, <3>2 DEF IInv, TlbCoherent
      <4>2. e.asid = AsidOf[t] /\ e.asid # 0
        BY <2>2, <2>4, <4>1
      <4>3. \A u \in live : AsidOf[u] = e.asid => u = t
        BY <2>1, <4>2, AsidAssumption DEF IInv, TypeOK
      <4>4. ~Stale(e)
        BY <2>4, <4>3 DEF Stale
      <4>. QED
        BY <2>4, <4>1, <4>2, <4>3, <4>4 DEF Fresh
    <3>. QED
      BY <3>1, <3>2 DEF Secs
  <2>. QED
    BY <2>3, <2>4 DEF Translations
<1>. QED
  BY InvariantHolds, <1>1, PTL

(* Every routine ends with its registers in effect.                         *)
THEOREM CallsTakeEffectHolds == Spec => []CallsTakeEffect
<1>1. IInv => CallsTakeEffect
  BY DEF IInv, Flow, FlowIdle, CallsTakeEffect
<1>. QED
  BY InvariantHolds, <1>1, PTL
=============================================================================
