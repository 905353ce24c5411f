---------------------------------- MODULE Mmu ----------------------------------
(***************************************************************************)
(* src/mmu.c: mmu_init builds the translation tables, points the CPU at    *)
(* them and turns translation on, from whatever state the firmware left;   *)
(* kernel_main goes on only if it succeeds.                                *)
(*                                                                         *)
(* The instructions of its two asm statements are executed one by one.     *)
(* What the table walker sees is a matter of its own: stores to a table    *)
(* after a DSB, system registers after an ISB, and the TLB may hold        *)
(* anything until TLBI and a DSB.  Addresses are in MiB.                   *)
(***************************************************************************)
EXTENDS Integers, Sequences

TABLE_ENTRY_COUNT == 512
L2_BLOCK_SIZE == 2
QEMU_GIC_BASE == 128
QEMU_UART_BASE == 144
QEMU_RAM_BASE == 1024
QEMU_RAM_END == 1152

VARIABLES
    tables,            \* level1_table and the two level 2 tables, as stored ...
    visible,           \* ... and as the walker sees them
    reg,               \* MAIR_EL1, TCR_EL1, TTBR0_EL1, SCTLR_EL1.M as written ...
    effective,         \* ... and as translation uses them
    cache,             \* SCTLR_EL1.C and .I
    parange,           \* ID_AA64MMFR0_EL1.PARange
    tlb,               \* "stale", "invalidating" or "clean"
    installed,
    at, step, result,  \* where mmu_init is, and what it returned last
    kernel,            \* "boot", "running" or "parked"
    found              \* history: reg as the firmware left it

tableVars == <<tables, visible>>
regVars == <<reg, effective, tlb>>
machineVars == <<cache, parange, found>>
mmuVars == <<tableVars, regVars, machineVars, installed, at, step, result, kernel>>

Index == 0 .. TABLE_ENTRY_COUNT - 1
Invalid == [valid |-> FALSE]
NoTable == "none"

Empty ==
    [level1 |-> [i \in Index |-> NoTable],
     device |-> [i \in Index |-> Invalid],
     ram |-> [i \in Index |-> Invalid]]

(* What the firmware left: translation and caches on or off, and registers  *)
(* that mean nothing here.  The tables are cleared with the BSS.            *)
MmuInit ==
    /\ tables = Empty /\ visible = Empty
    /\ \E m \in BOOLEAN :
           reg = [mair |-> <<"unknown", "unknown">>, tcr |-> [t0sz |-> 0, ips |-> 0],
                  ttbr0 |-> "unknown", m |-> m]
    /\ effective = reg /\ found = reg
    /\ cache \in [c : BOOLEAN, i : BOOLEAN] /\ parange \in 0 .. 15
    /\ tlb = "stale" /\ installed = FALSE
    /\ at = "check" /\ step = 0 /\ result = FALSE /\ kernel = "boot"

-----------------------------------------------------------------------------
(* block_descriptor with the attributes of a device and of RAM.             *)
DeviceBlock(a) ==
    [valid |-> TRUE, output |-> a, attr |-> 0, shared |-> "outer", pxn |-> TRUE, uxn |-> TRUE]
RamBlock(a) ==
    [valid |-> TRUE, output |-> a, attr |-> 1, shared |-> "inner", pxn |-> FALSE, uxn |-> TRUE]

L2Index(a) == (a \div L2_BLOCK_SIZE) % TABLE_ENTRY_COUNT

(* Faulty variant: the loop over the RAM blocks runs once more. *)
RamBlocks_past_end ==
    {a \in QEMU_RAM_BASE .. QEMU_RAM_END : a % L2_BLOCK_SIZE = 0}

RamBlocks == {a \in QEMU_RAM_BASE .. QEMU_RAM_END - 1 : a % L2_BLOCK_SIZE = 0}

(* A cleared table with these descriptors in the entries of their addresses. *)
Level2(blocks) ==
    [i \in Index |-> IF \E d \in blocks : L2Index(d.output) = i
                     THEN CHOOSE d \in blocks : L2Index(d.output) = i
                     ELSE Invalid]

build_translation_tables ==
    [level1 |-> [i \in Index |-> CASE i = 0 -> "device" [] i = 1 -> "ram" [] OTHER -> NoTable],
     device |-> Level2({DeviceBlock(a) : a \in {QEMU_GIC_BASE, QEMU_UART_BASE}}),
     ram |-> Level2({RamBlock(a) : a \in RamBlocks})]

-----------------------------------------------------------------------------
(* mmu_init *)

Return(r) ==
    /\ at' = "returned" /\ result' = r
    /\ kernel' = IF kernel = "boot" THEN IF r THEN "running" ELSE "parked" ELSE kernel

(* Faulty variants: translation that is on is taken for our own; only one   *)
(* of the cache bits is tested.                                             *)
AlreadyOurs_any == TRUE
CacheOn_data == cache.c

AlreadyOurs == installed /\ reg.ttbr0 = "level1"

CacheOn == cache.c \/ cache.i

Check ==
    /\ at = "check"
    /\ CASE reg.m -> Return(AlreadyOurs)
         [] ~reg.m /\ CacheOn -> Return(FALSE)
         [] OTHER -> at' = "build" /\ UNCHANGED <<result, kernel>>
    /\ UNCHANGED <<tableVars, regVars, machineVars, installed, step>>

Build ==
    /\ at = "build" /\ at' = "range"
    /\ tables' = build_translation_tables
    /\ UNCHANGED <<visible, regVars, machineVars, installed, step, result, kernel>>

(* A reserved PARange is refused. *)
Range ==
    /\ at = "range"
    /\ IF parange > 6 THEN Return(FALSE) /\ UNCHANGED step
                      ELSE at' = "install" /\ step' = 1 /\ UNCHANGED <<result, kernel>>
    /\ UNCHANGED <<tableVars, regVars, machineVars, installed>>

NewTcr == [t0sz |-> 32, ips |-> IF parange = 6 THEN 5 ELSE parange]
NewMair == <<"device nGnRnE", "normal WBWA">>

(* Faulty variant: no ISB between the registers and SCTLR.M. *)
Instructions_unsynchronized ==
    <<"dsb", "mair", "tcr", "ttbr0", "tlbi", "dsb", "sctlr.m", "isb">>

(* The two asm statements (TTBR1 is written too, but EPD1 disables it).      *)
Instructions ==
    <<"dsb", "mair", "tcr", "ttbr0", "isb", "tlbi", "dsb", "isb", "sctlr.m", "isb">>

Execute ==
    /\ at = "install" /\ step <= Len(Instructions)
    /\ LET i == Instructions[step]
       IN  /\ reg' = CASE i = "mair" -> [reg EXCEPT !.mair = NewMair]
                       [] i = "tcr" -> [reg EXCEPT !.tcr = NewTcr]
                       [] i = "ttbr0" -> [reg EXCEPT !.ttbr0 = "level1"]
                       [] i = "sctlr.m" -> [reg EXCEPT !.m = TRUE]
                       [] OTHER -> reg
           /\ effective' = IF i = "isb" THEN reg ELSE effective
           /\ visible' = IF i = "dsb" THEN tables ELSE visible
           /\ tlb' = CASE i = "tlbi" -> "invalidating"
                       [] i = "dsb" /\ tlb = "invalidating" -> "clean"
                       [] OTHER -> tlb
    /\ step' = step + 1
    /\ UNCHANGED <<tables, machineVars, installed, at, result, kernel>>

(* installed = mmu_enabled() *)
Installed ==
    /\ at = "install" /\ step > Len(Instructions)
    /\ installed' = reg.m
    /\ Return(reg.m)
    /\ UNCHANGED <<tableVars, regVars, machineVars, step>>

mmu_init == Check \/ Build \/ Range \/ Execute \/ Installed

(* A running kernel may call mmu_init again.                                *)
CallAgain ==
    /\ at = "returned" /\ kernel = "running"
    /\ at' = "check"
    /\ UNCHANGED <<tableVars, regVars, machineVars, installed, step, result, kernel>>

MmuNext == mmu_init \/ CallAgain

MmuSpec == MmuInit /\ [][MmuNext]_mmuVars

-----------------------------------------------------------------------------
(* The walk of an address below 4 GiB: T0SZ = 32 starts it at level 1.      *)
Entry(a) ==
    LET t == visible.level1[a \div (L2_BLOCK_SIZE * TABLE_ENTRY_COUNT)]
    IN  CASE t = "device" -> visible.device[L2Index(a)]
          [] t = "ram" -> visible.ram[L2Index(a)]
          [] OTHER -> Invalid

Translate(a) ==
    CASE tlb # "clean" \/ effective.ttbr0 # "level1" \/ effective.tcr.t0sz # 32 ->
             <<"unpredictable">>
      [] OTHER ->
             LET e == Entry(a)
             IN  IF e.valid
                 THEN <<e.output + (a % L2_BLOCK_SIZE), effective.mair[e.attr + 1],
                        IF e.pxn THEN "data" ELSE "code">>
                 ELSE <<"fault">>

Addresses == 0 .. 4095
RamAddresses == 1024 .. 1151
DeviceAddresses == {128, 129, 144, 145}

(* From the first instruction it is on, translation is the identity: the    *)
(* RAM of the machine is normal memory, the GIC and the UART are device     *)
(* memory nothing is executed from, every other address faults              *)
(* (mmu.c:177).                                                             *)
TranslationExact ==
    (reg.m /\ at = "install") \/ kernel = "running" =>
        /\ reg.m
        /\ \A a \in RamAddresses : Translate(a) = <<a, "normal WBWA", "code">>
        /\ \A a \in DeviceAddresses : Translate(a) = <<a, "device nGnRnE", "data">>
        /\ \A a \in Addresses \ (RamAddresses \cup DeviceAddresses) :
               Translate(a) = <<"fault">>

(* A machine mmu_init does not understand is left as it was found: with     *)
(* translation or a cache on, or with an unknown address range, no register *)
(* is written and the kernel stops.  On any other mmu_init succeeds, when   *)
(* it is called again too (mmu.c:142).                                      *)
Unknown == found.m \/ cache.c \/ cache.i \/ parange > 6

RefusedUntouched ==
    /\ Unknown => reg = found /\ kernel # "running"
    /\ at = "returned" => result = ~Unknown
=============================================================================
