------------------------------- MODULE Interrupts ------------------------------
(***************************************************************************)
(* Interrupts from the boot on: kernel_main opens the GIC and its devices  *)
(* and then unmasks IRQs, irq_handle acknowledges, dispatches and ends     *)
(* each interrupt (src/irq.c, src/gic.c), and the shell waits in WFE for a *)
(* byte or for a tick, woken by the one event register both handlers set.  *)
(*                                                                         *)
(* The handlers are those of UartRx and Timer, reduced to the work they    *)
(* find, what they do to their interrupt line, and SEV.  A byte raises the *)
(* UART's line at any time after uart_init.  A byte between uart_init's    *)
(* drain of the FIFO and its write of ICR, the UART's error interrupts and *)
(* the handler's write of ICR, which clears only those, are left to        *)
(* UartRx.  The GIC latches the rising edges of its lines, and uses the    *)
(* latch or the line itself as the interrupt is configured.  A line that a *)
(* handler lets fall is seen falling later, at the next DSB at the latest. *)
(* All interrupts have one priority: none is signalled while one is        *)
(* active.                                                                 *)
(***************************************************************************)
EXTENDS Integers, Sequences, FiniteSets

CONSTANTS
    MaxTicks,          \* bound: deadlines of the timer that pass
    MaxBytes,          \* bound: bytes the UART receives
    MaxOthers          \* bound: pulses of a device without a driver

Timer == 30
Uart == 33
Other == 40
Spurious == 1023
Ids == {Timer, Uart, Other}

ASSUME InterruptsAssumption == {MaxTicks, MaxBytes, MaxOthers} \subseteq Nat

VARIABLES
    gic,               \* per interrupt, what the GIC holds
    gic_open,          \* GICD_CTLR and GICC_CTLR are 1
    raised,            \* the lines that are up, as the GIC sees them
    lowering,          \* those of them whose device has let them fall
    passed,            \* the timer's deadlines that have passed
    compared,          \* those below its compare register
    fifo,              \* bytes in the UART
    arrived, others,   \* bytes received and pulses given so far
    boot,              \* the next step of kernel_main
    irq,               \* where irq_handle is
    acknowledge_value,
    now, received,     \* locals of the two device handlers
    tick_count, ring,  \* what they deliver: ticks, and bytes for uart_getc
    event,             \* the CPU's event register
    shell,             \* "off", "parked", or where the shell is in its wait ...
    wants, target      \* ... for a "byte", or for tick number "target"

gicVars == <<gic, gic_open>>
lineVars == <<raised, lowering>>
deviceVars == <<passed, compared, fifo, arrived, others>>
irqVars == <<irq, acknowledge_value, now, received>>
shellVars == <<shell, wants, target>>
vars == <<gicVars, lineVars, deviceVars, boot, irqVars, tick_count, ring, event, shellVars>>

(* The firmware may leave any interrupt enabled, latched, edge-triggered or *)
(* without a target.                                                        *)
Init ==
    /\ \E e, l, p, t \in BOOLEAN :
           gic = [id \in Ids |-> [enabled |-> e, level |-> l, latched |-> p,
                                  targeted |-> t, active |-> FALSE]]
    /\ gic_open = FALSE /\ raised = {} /\ lowering = {}
    /\ passed = 0 /\ compared = 0 /\ fifo = 0 /\ arrived = 0 /\ others = 0
    /\ boot = 1
    /\ irq = "none" /\ acknowledge_value = Spurious /\ now = 0 /\ received = FALSE
    /\ tick_count = 0 /\ ring = 0 /\ event = FALSE
    /\ shell = "off" /\ wants = "byte" /\ target = 0

-----------------------------------------------------------------------------
(* kernel_main *)

(* Faulty variant: IRQs are unmasked before the timer is set up. *)
Boot_early ==
    <<"exception_init", "mmu_init", "page_alloc_init", "task_init", "gic_init", "uart_init",
      "irq_enable", "timer_init", "shell_run">>

Boot ==
    <<"exception_init", "mmu_init", "page_alloc_init", "task_init", "gic_init", "uart_init",
      "timer_init", "irq_enable", "shell_run">>

Done(s) == \E i \in 1 .. boot - 1 : Boot[i] = s

(* Faulty variants of gic_enable_interrupt: no target, the trigger mode left *)
(* as it was.                                                                *)
NeedsTarget_never(id) == FALSE
Level_as_found(id) == gic[id].level

NeedsTarget(id) == id >= 32        \* an SPI

Level(id) == TRUE

gic_enable_interrupt(id) ==
    gic' = [gic EXCEPT ![id].latched = FALSE, ![id].level = Level(id),
                       ![id].targeted = @ \/ NeedsTarget(id), ![id].enabled = TRUE]

(* mmu_init may fail, and then the CPU is parked with IRQs masked.           *)
kernel_main ==
    /\ boot <= Len(Boot) /\ irq = "none" /\ shell = "off"
    /\ boot' = boot + 1
    /\ CASE Boot[boot] = "gic_init" -> gic_open' = TRUE /\ UNCHANGED gic
         [] Boot[boot] = "uart_init" -> gic_enable_interrupt(Uart) /\ UNCHANGED gic_open
         [] Boot[boot] = "timer_init" -> gic_enable_interrupt(Timer) /\ UNCHANGED gic_open
         [] OTHER -> UNCHANGED gicVars
    /\ shell' \in CASE Boot[boot] = "shell_run" -> {"idle"}
                     [] Boot[boot] = "mmu_init" -> {"off", "parked"}
                     [] OTHER -> {"off"}
    /\ UNCHANGED <<lineVars, deviceVars, irqVars, tick_count, ring, event, wants, target>>

-----------------------------------------------------------------------------
(* The devices and their lines *)

Raise(id) ==
    /\ raised' = raised \cup {id}
    /\ lowering' = lowering \ {id}
    /\ gic' = [gic EXCEPT ![id].latched = @ \/ id \notin raised]

Lower(id) == lowering' = lowering \cup (raised \cap {id}) /\ UNCHANGED raised

DeadlinePasses ==
    /\ Done("timer_init") /\ passed < MaxTicks
    /\ passed' = passed + 1
    /\ Raise(Timer)
    /\ UNCHANGED <<gic_open, compared, fifo, arrived, others, boot, irqVars,
                   tick_count, ring, event, shellVars>>

ByteArrives ==
    /\ Done("uart_init") /\ arrived < MaxBytes
    /\ arrived' = arrived + 1 /\ fifo' = fifo + 1
    /\ Raise(Uart)
    /\ UNCHANGED <<gic_open, passed, compared, others, boot, irqVars,
                   tick_count, ring, event, shellVars>>

(* A device no driver knows: its line goes up and falls on its own.         *)
OtherRises ==
    /\ others < MaxOthers
    /\ others' = others + 1
    /\ Raise(Other)
    /\ UNCHANGED <<gic_open, passed, compared, fifo, arrived, boot, irqVars,
                   tick_count, ring, event, shellVars>>

OtherFalls ==
    /\ Other \in raised
    /\ raised' = raised \ {Other} /\ lowering' = lowering \ {Other}
    /\ UNCHANGED <<gicVars, deviceVars, boot, irqVars, tick_count, ring, event, shellVars>>

LineFalls ==
    /\ \E id \in lowering : raised' = raised \ {id} /\ lowering' = lowering \ {id}
    /\ UNCHANGED <<gicVars, deviceVars, boot, irqVars, tick_count, ring, event, shellVars>>

Pending(id) ==
    /\ gic[id].enabled /\ ~gic[id].active
    /\ gic[id].targeted \/ id < 32
    /\ IF gic[id].level THEN id \in raised ELSE gic[id].latched

Signalled ==
    IF gic_open /\ \A id \in Ids : ~gic[id].active
    THEN {id \in Ids : Pending(id)} ELSE {}

-----------------------------------------------------------------------------
(* irq_entry_common and irq_handle *)

IrqTaken ==
    /\ Done("irq_enable") /\ irq = "none" /\ Signalled # {}
    /\ irq' = "acknowledge"
    /\ UNCHANGED <<gicVars, lineVars, deviceVars, boot, acknowledge_value, now, received,
                   tick_count, ring, event, shellVars>>

(* IAR: the interrupt may have gone since.                                  *)
Acknowledge ==
    /\ irq = "acknowledge"
    /\ IF Signalled = {}
       THEN acknowledge_value' = Spurious /\ irq' = "none" /\ UNCHANGED gic
       ELSE \E id \in Signalled :
                /\ acknowledge_value' = id
                /\ irq' = CASE id = Timer -> "timer" [] id = Uart -> "uart"
                            [] OTHER -> "unexpected"
                /\ gic' = [gic EXCEPT ![id].active = TRUE, ![id].latched = FALSE]
    /\ UNCHANGED <<gic_open, lineVars, deviceVars, boot, now, received,
                   tick_count, ring, event, shellVars>>

(* timer_handle_interrupt reads the counter ...                             *)
TimerReads ==
    /\ irq = "timer" /\ irq' = "timer set"
    /\ now' = passed
    /\ UNCHANGED <<gicVars, lineVars, deviceVars, boot, acknowledge_value, received,
                   tick_count, ring, event, shellVars>>

(* ... and counts and moves the compare value: the line falls unless        *)
(* another deadline has passed meanwhile.                                   *)
TimerSets ==
    /\ irq = "timer set" /\ irq' = "end"
    /\ tick_count' = now /\ compared' = now /\ now' = 0
    /\ IF now = passed THEN Lower(Timer) ELSE UNCHANGED lineVars
    /\ event' = TRUE
    /\ UNCHANGED <<gicVars, passed, fifo, arrived, others, boot, acknowledge_value,
                   received, ring, shellVars>>

(* One byte of drain_rx_fifo; an empty FIFO lets the line fall.             *)
UartDrains ==
    /\ irq = "uart" /\ fifo > 0
    /\ fifo' = fifo - 1 /\ ring' = ring + 1 /\ received' = TRUE
    /\ IF fifo = 1 THEN Lower(Uart) ELSE UNCHANGED lineVars
    /\ UNCHANGED <<gicVars, passed, compared, arrived, others, boot, irq, acknowledge_value,
                   now, tick_count, event, shellVars>>

UartDrained ==
    /\ irq = "uart" /\ fifo = 0 /\ irq' = "end"
    /\ event' = (event \/ received) /\ received' = FALSE
    /\ UNCHANGED <<gicVars, lineVars, deviceVars, boot, acknowledge_value, now,
                   tick_count, ring, shellVars>>

(* Faulty variant: an interrupt without a handler is not ended. *)
Unexpected_returns == "none"

Unexpected == "end"

UnexpectedCounted ==
    /\ irq = "unexpected" /\ irq' = Unexpected
    /\ UNCHANGED <<gicVars, lineVars, deviceVars, boot, acknowledge_value, now, received,
                   tick_count, ring, event, shellVars>>

(* Faulty variant: no DSB before EOIR. *)
Synchronized_no_dsb == TRUE

Synchronized == lowering = {}

(* gic_end_interrupt, and the return from the exception.                    *)
gic_end_interrupt ==
    /\ irq = "end" /\ Synchronized
    /\ irq' = "none"
    /\ gic' = [id \in Ids |->
                   [gic[id] EXCEPT !.active = @ /\ id # acknowledge_value]]
    /\ acknowledge_value' = Spurious
    /\ UNCHANGED <<gic_open, lineVars, deviceVars, boot, now, received,
                   tick_count, ring, event, shellVars>>

irq_handle ==
    \/ IrqTaken \/ Acknowledge
    \/ TimerReads \/ TimerSets \/ UartDrains \/ UartDrained \/ UnexpectedCounted
    \/ gic_end_interrupt

-----------------------------------------------------------------------------
(* uart_getc and timer_sleep_ticks, in the shell's one thread of control *)

Ready == IF wants = "byte" THEN ring > 0 ELSE tick_count >= target

(* uart_getc starts with SEVL, timer_sleep_ticks does not.                  *)
ShellWaits ==
    /\ irq = "none" /\ shell = "idle" /\ shell' = "check"
    /\ \/ wants' = "byte" /\ event' = TRUE /\ UNCHANGED target
       \/ wants' = "tick" /\ target' = tick_count + 1 /\ UNCHANGED event
    /\ UNCHANGED <<gicVars, lineVars, deviceVars, boot, irqVars, tick_count, ring>>

ShellChecks ==
    /\ irq = "none" /\ shell = "check"
    /\ shell' = IF Ready THEN "idle" ELSE "wfe"
    /\ ring' = IF Ready /\ wants = "byte" THEN ring - 1 ELSE ring
    /\ UNCHANGED <<gicVars, lineVars, deviceVars, boot, irqVars, tick_count, event,
                   wants, target>>

ShellSleeps ==
    /\ irq = "none" /\ shell = "wfe"
    /\ shell' = IF event THEN "check" ELSE "asleep"
    /\ event' = FALSE
    /\ UNCHANGED <<gicVars, lineVars, deviceVars, boot, irqVars, tick_count, ring,
                   wants, target>>

ShellWakes ==
    /\ irq = "none" /\ shell = "asleep" /\ event
    /\ shell' = "check" /\ event' = FALSE
    /\ UNCHANGED <<gicVars, lineVars, deviceVars, boot, irqVars, tick_count, ring,
                   wants, target>>

shell_run == ShellChecks \/ ShellSleeps \/ ShellWakes

Next ==
    \/ kernel_main
    \/ DeadlinePasses \/ ByteArrives \/ OtherRises \/ OtherFalls \/ LineFalls
    \/ irq_handle
    \/ ShellWaits
    \/ shell_run

(* The CPU runs on, a line that is let fall is seen falling, and a pulse    *)
(* ends: irq_handle leaves an unknown interrupt enabled, so one that stayed *)
(* up would be taken for ever.  Nothing makes deadlines pass or bytes or    *)
(* pulses come.                                                             *)
Fairness ==
    /\ WF_vars(kernel_main) /\ WF_vars(irq_handle) /\ WF_vars(shell_run)
    /\ WF_vars(LineFalls) /\ WF_vars(OtherFalls)

Spec == Init /\ [][Next]_vars /\ Fairness

-----------------------------------------------------------------------------
(* No interrupt is handled before what its handler uses is set up, whatever *)
(* the firmware left enabled or pending (kernel.c:19-23).                   *)
HandlersReady ==
    /\ irq # "none" => Done("exception_init")
    /\ irq \in {"timer", "timer set"} => Done("timer_init")
    /\ irq = "uart" => Done("uart_init")

(* The GIC holds an interrupt active exactly while its handler runs: none   *)
(* is left active, which would mask all others (irq.c:21-34).               *)
ActiveWhileHandled ==
    \A id \in Ids : gic[id].active <=> (id = acknowledge_value /\ irq # "none")

(* A device's handler is entered only while the device has work for it: the *)
(* handler's own clear is not mistaken for a new interrupt (gic.c:92).      *)
HandlerHasWork ==
    [][/\ irq = "acknowledge" /\ irq' = "timer" => passed > compared
       /\ irq = "acknowledge" /\ irq' = "uart" => fifo > 0]_vars

(* A wait of the shell ends once its byte is in the UART or its tick is     *)
(* due, whichever handler wakes it in between: no byte or tick stays behind *)
(* an interrupt line that never rises again, and no wake-up is taken by the *)
(* other wait (gic.c:61, uart.c:212, timer.c:64).                           *)
Waiting(w) == shell \notin {"off", "parked", "idle"} /\ wants = w

WaitsEnd ==
    /\ (Waiting("byte") /\ (fifo > 0 \/ ring > 0)) ~> shell = "idle"
    /\ (Waiting("tick") /\ passed >= target) ~> shell = "idle"
=============================================================================
