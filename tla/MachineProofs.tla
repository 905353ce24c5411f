------------------------------ MODULE MachineProofs -----------------------------
(***************************************************************************)
(* No interrupt is taken before its handler is set up, none is left        *)
(* active, and none is taken twice for the same work, for any number of    *)
(* deadlines, bytes and pulses: the module Interrupts.                     *)
(*                                                                         *)
(* mmu_init turns translation on with the map of the machine in force, or  *)
(* leaves a machine it does not understand alone: the module Mmu, in the   *)
(* second half.  The two share no variable.                                *)
(***************************************************************************)
EXTENDS Interrupts, Mmu, TLAPS

-----------------------------------------------------------------------------
(* The state is well typed. *)
Interrupt == [enabled : BOOLEAN, level : BOOLEAN, latched : BOOLEAN,
              targeted : BOOLEAN, active : BOOLEAN]

TypeOK ==
    /\ gic \in [Ids -> Interrupt] /\ gic_open \in BOOLEAN
    /\ raised \subseteq Ids /\ lowering \subseteq Ids
    /\ {passed, compared, fifo, now, arrived, others, tick_count, ring, target} \subseteq Nat
    /\ boot \in 1 .. 10
    /\ irq \in {"none", "acknowledge", "timer", "timer set", "uart", "unexpected", "end"}
    /\ acknowledge_value \in Ids \cup {Spurious}
    /\ received \in BOOLEAN /\ event \in BOOLEAN
    /\ shell \in {"off", "parked", "idle", "check", "wfe", "asleep"}
    /\ wants \in {"byte", "tick"}

(* Interrupts are unmasked after the last of the set-up steps, which leave  *)
(* the two device interrupts level-triggered.                               *)
Prepared ==
    /\ irq # "none" => boot > 8
    /\ boot > 6 => gic[Uart].level
    /\ boot > 7 => gic[Timer].level

(* The interrupt that is active is the one acknowledged and not yet ended.  *)
OneActive ==
    /\ irq \in {"none", "acknowledge"} <=> acknowledge_value = Spurious
    /\ \A id \in Ids : gic[id].active <=> id = acknowledge_value

(* A line is up, unless it is already falling, while its device has work;   *)
(* no line is falling when the next interrupt may be taken.                 *)
LineMeansWork ==
    /\ compared <= passed
    /\ now <= passed
    /\ Timer \in raised \ lowering => passed > compared
    /\ Uart \in raised \ lowering => fifo > 0
    /\ irq \in {"none", "acknowledge"} => lowering = {}

IInv == TypeOK /\ Prepared /\ OneActive /\ LineMeansWork
-----------------------------------------------------------------------------
(* The order of kernel_main's steps *)
LEMMA BootOrder ==
  /\ Len(Boot) = 9
  /\ \A b \in 1 .. 9 : /\ Boot[b] = "exception_init" <=> b = 1
                       /\ Boot[b] = "uart_init" <=> b = 6
                       /\ Boot[b] = "timer_init" <=> b = 7
                       /\ Boot[b] = "irq_enable" <=> b = 8
BY DEF Boot

LEMMA DoneInOrder ==
  ASSUME boot \in 1 .. 10
  PROVE  /\ Done("exception_init") <=> boot > 1
         /\ Done("uart_init") <=> boot > 6
         /\ Done("timer_init") <=> boot > 7
         /\ Done("irq_enable") <=> boot > 8
<1>1. boot - 1 \in 0 .. 9 /\ 1 .. boot - 1 \subseteq 1 .. 9
  OBVIOUS
<1>2. \A k \in 1 .. 9 : k \in 1 .. boot - 1 <=> boot > k
  OBVIOUS
<1> QED
  BY <1>1, <1>2, BootOrder DEF Done

LEMMA InitHolds == Init => IInv
<1> SUFFICES ASSUME Init PROVE IInv
  OBVIOUS
<1>1. gic \in [Ids -> Interrupt] /\ \A id \in Ids : gic[id].active = FALSE
  BY DEF Init, Interrupt
<1>2. Spurious \notin Ids
  BY DEF Spurious, Ids, Timer, Uart, Other
<1>3. TypeOK
  <2>1. /\ boot = 1 /\ passed = 0 /\ compared = 0 /\ fifo = 0 /\ arrived = 0 /\ others = 0
        /\ now = 0 /\ tick_count = 0 /\ ring = 0 /\ target = 0
    BY DEF Init
  <2>2. {passed, compared, fifo, now, arrived, others, tick_count, ring, target} \subseteq Nat
        /\ boot \in 1 .. 10
    BY <2>1
  <2> QED
    BY <1>1, <2>2 DEF Init, TypeOK
<1>4. Prepared /\ LineMeansWork
  BY DEF Init, Prepared, LineMeansWork
<1>5. OneActive
  BY <1>1, <1>2 DEF Init, OneActive
<1> QED
  BY <1>3, <1>4, <1>5 DEF IInv

(* What gic_enable_interrupt leaves of an interrupt's entry.                *)
LEMMA EnabledEntry ==
  ASSUME NEW g \in Interrupt, NEW t \in BOOLEAN, NEW h,
         h = [g EXCEPT !.latched = FALSE, !.level = TRUE, !.targeted = @ \/ t,
                       !.enabled = TRUE]
  PROVE  h \in Interrupt /\ h.level /\ h.active = g.active
<1>1. h.level = TRUE
  BY DEF Interrupt
<1> QED
  BY <1>1 DEF Interrupt

(* A step of kernel_main opens the GIC or sets up one interrupt, as it does *)
(* for the timer and the UART.                                              *)
LEMMA BootKeeps ==
  ASSUME IInv, kernel_main
  PROVE  IInv'
<1> USE DEF lineVars, deviceVars, irqVars
<1>1. /\ boot \in 1 .. 9 /\ boot' = boot + 1 /\ irq = "none"
      /\ UNCHANGED <<raised, lowering, passed, compared, fifo, arrived, others, irq,
                     acknowledge_value, now, received, tick_count, ring, event, wants, target>>
  BY BootOrder DEF kernel_main, IInv, TypeOK
<1>2. /\ gic' \in [Ids -> Interrupt]
      /\ \A id \in Ids : gic'[id].active = gic[id].active
      /\ \A id \in Ids : gic[id].level => gic'[id].level
      /\ Boot[boot] = "uart_init" => gic'[Uart].level
      /\ Boot[boot] = "timer_init" => gic'[Timer].level
      /\ gic_open' \in BOOLEAN
  <2>1. gic \in [Ids -> Interrupt] /\ gic_open \in BOOLEAN
    BY DEF IInv, TypeOK
  <2>2. ASSUME NEW id \in Ids, gic_enable_interrupt(id)
        PROVE  /\ gic' \in [Ids -> Interrupt] /\ gic'[id].level
               /\ \A i \in Ids : gic'[i].active = gic[i].active
               /\ \A i \in Ids : gic[i].level => gic'[i].level
    <3>1. gic' = [gic EXCEPT ![id].latched = FALSE, ![id].level = TRUE,
                             ![id].targeted = @ \/ NeedsTarget(id), ![id].enabled = TRUE]
      BY <2>2 DEF gic_enable_interrupt, Level
    <3>2. /\ DOMAIN gic' = Ids
          /\ \A i \in Ids \ {id} : gic'[i] = gic[i]
      BY <2>1, <3>1
    <3>3. gic'[id] = [gic[id] EXCEPT !.latched = FALSE, !.level = TRUE,
                                     !.targeted = @ \/ NeedsTarget(id), !.enabled = TRUE]
      BY <2>1, <3>1
    <3>4. NeedsTarget(id) \in BOOLEAN
      BY DEF NeedsTarget
    <3>5. gic'[id] \in Interrupt /\ gic'[id].level /\ gic'[id].active = gic[id].active
      BY <2>1, <3>3, <3>4, EnabledEntry
    <3> QED
      BY <2>1, <3>1, <3>2, <3>5
  <2>3. Uart \in Ids /\ Timer \in Ids
    BY DEF Ids
  <2>4. CASE Boot[boot] = "uart_init"
    BY <2>1, <2>2, <2>3, <2>4 DEF kernel_main
  <2>5. CASE Boot[boot] = "timer_init"
    BY <2>1, <2>2, <2>3, <2>5 DEF kernel_main
  <2>6. CASE Boot[boot] = "gic_init"
    BY <2>1, <2>6 DEF kernel_main
  <2>7. CASE Boot[boot] \notin {"uart_init", "timer_init", "gic_init"}
    BY <2>1, <2>7 DEF kernel_main, gicVars
  <2> QED
    BY <2>4, <2>5, <2>6, <2>7
<1>3. shell' \in {"off", "parked", "idle"}
  <2>1. CASE Boot[boot] = "shell_run"
    BY <2>1 DEF kernel_main
  <2>2. CASE Boot[boot] = "mmu_init"
    BY <2>2 DEF kernel_main
  <2>3. CASE Boot[boot] \notin {"shell_run", "mmu_init"}
    BY <2>3 DEF kernel_main
  <2> QED
    BY <2>1, <2>2, <2>3
<1>4. TypeOK'
  <2>1. boot' \in 1 .. 10
    BY <1>1
  <2> QED
    BY <1>1, <1>2, <1>3, <2>1 DEF IInv, TypeOK
<1>5. Prepared'
  <2>1. boot' > 6 => boot > 6 \/ Boot[boot] = "uart_init"
    BY <1>1, BootOrder
  <2>2. boot' > 7 => boot > 7 \/ Boot[boot] = "timer_init"
    BY <1>1, BootOrder
  <2>3. Uart \in Ids /\ Timer \in Ids
    BY DEF Ids
  <2> QED
    BY <1>1, <1>2, <2>1, <2>2, <2>3 DEF IInv, Prepared
<1>6. OneActive' /\ LineMeansWork'
  BY <1>1, <1>2 DEF IInv, OneActive, LineMeansWork
<1> QED
  BY <1>4, <1>5, <1>6 DEF IInv
(* The GIC's entries after the latch of one of them was set.                *)
LEMMA RaiseKeeps ==
  ASSUME TypeOK, NEW id \in Ids, Raise(id)
  PROVE  /\ gic' \in [Ids -> Interrupt]
         /\ \A i \in Ids : gic'[i].active = gic[i].active /\ gic'[i].level = gic[i].level
         /\ raised' = raised \cup {id} /\ lowering' = lowering \ {id}
<1> DEFINE up == id \notin raised
<1>1. gic \in [Ids -> Interrupt] /\ up \in BOOLEAN
  BY DEF TypeOK
<1>2. gic' = [gic EXCEPT ![id].latched = @ \/ up]
  BY DEF Raise
<1> HIDE DEF up
<1>3. \A i \in Ids \ {id} : gic'[i] = gic[i]
  BY <1>1, <1>2
<1>4. gic'[id] = [gic[id] EXCEPT !.latched = @ \/ up]
  BY <1>1, <1>2
<1>5. /\ gic'[id] \in Interrupt
      /\ gic'[id].active = gic[id].active /\ gic'[id].level = gic[id].level
  BY <1>1, <1>4 DEF Interrupt
<1> QED
  BY <1>1, <1>2, <1>3, <1>5 DEF Raise

LEMMA DevicesKeep ==
  ASSUME IInv, \/ DeadlinePasses \/ ByteArrives \/ OtherRises \/ OtherFalls \/ LineFalls
  PROVE  IInv'
<1> USE DEF gicVars, lineVars, deviceVars, irqVars, shellVars
<1>1. Ids = {Timer, Uart, Other} /\ Timer # Uart /\ Timer # Other /\ Uart # Other
  BY DEF Ids, Timer, Uart, Other
<1>2. /\ passed \in Nat /\ compared \in Nat /\ fifo \in Nat /\ arrived \in Nat /\ others \in Nat
      /\ now \in Nat /\ raised \subseteq Ids /\ lowering \subseteq Ids
  BY DEF IInv, TypeOK
<1>3. CASE DeadlinePasses
  <2> USE <1>3 DEF DeadlinePasses
  <2>1. /\ gic' \in [Ids -> Interrupt]
        /\ \A i \in Ids : gic'[i].active = gic[i].active /\ gic'[i].level = gic[i].level
        /\ raised' = raised \cup {Timer} /\ lowering' = lowering \ {Timer}
    BY <1>1, RaiseKeeps DEF IInv
  <2>2. passed' \in Nat /\ compared < passed' /\ now <= passed'
    BY <1>2 DEF IInv, LineMeansWork
  <2>3. TypeOK'
    BY <1>1, <1>2, <2>1, <2>2 DEF IInv, TypeOK
  <2>4. Prepared'
    BY <1>1, <2>1 DEF IInv, Prepared
  <2>5. OneActive'
    BY <2>1 DEF IInv, OneActive
  <2>6. LineMeansWork'
    BY <1>1, <1>2, <2>1, <2>2 DEF IInv, LineMeansWork
  <2> QED
    BY <2>3, <2>4, <2>5, <2>6 DEF IInv
<1>4. CASE ByteArrives
  <2> USE <1>4 DEF ByteArrives
  <2>1. /\ gic' \in [Ids -> Interrupt]
        /\ \A i \in Ids : gic'[i].active = gic[i].active /\ gic'[i].level = gic[i].level
        /\ raised' = raised \cup {Uart} /\ lowering' = lowering \ {Uart}
    BY <1>1, RaiseKeeps DEF IInv
  <2>2. arrived' \in Nat /\ fifo' \in Nat /\ fifo' > 0
    BY <1>2
  <2>3. TypeOK'
    BY <1>1, <1>2, <2>1, <2>2 DEF IInv, TypeOK
  <2>4. Prepared'
    BY <1>1, <2>1 DEF IInv, Prepared
  <2>5. OneActive'
    BY <2>1 DEF IInv, OneActive
  <2>6. LineMeansWork'
    BY <1>1, <1>2, <2>1, <2>2 DEF IInv, LineMeansWork
  <2> QED
    BY <2>3, <2>4, <2>5, <2>6 DEF IInv
<1>5. CASE OtherRises
  <2> USE <1>5 DEF OtherRises
  <2>1. /\ gic' \in [Ids -> Interrupt]
        /\ \A i \in Ids : gic'[i].active = gic[i].active /\ gic'[i].level = gic[i].level
        /\ raised' = raised \cup {Other} /\ lowering' = lowering \ {Other}
    BY <1>1, RaiseKeeps DEF IInv
  <2>2. others' \in Nat
    BY <1>2
  <2>3. TypeOK'
    BY <1>1, <1>2, <2>1, <2>2 DEF IInv, TypeOK
  <2>4. Prepared'
    BY <1>1, <2>1 DEF IInv, Prepared
  <2>5. OneActive'
    BY <2>1 DEF IInv, OneActive
  <2>6. LineMeansWork'
    BY <1>1, <2>1 DEF IInv, LineMeansWork
  <2> QED
    BY <2>3, <2>4, <2>5, <2>6 DEF IInv
<1>6. CASE OtherFalls \/ LineFalls
  <2>1. /\ UNCHANGED <<gicVars, deviceVars, boot, irqVars, tick_count, ring, event, shellVars>>
        /\ \E id \in Ids : raised' = raised \ {id} /\ lowering' = lowering \ {id}
    BY <1>1, <1>2, <1>6 DEF OtherFalls, LineFalls
  <2>2. PICK id \in Ids : raised' = raised \ {id} /\ lowering' = lowering \ {id}
    BY <2>1
  <2>3. TypeOK'
    BY <1>2, <2>1, <2>2 DEF IInv, TypeOK
  <2>4. Prepared' /\ OneActive'
    BY <2>1 DEF IInv, Prepared, OneActive
  <2>5. LineMeansWork'
    BY <2>1, <2>2 DEF IInv, LineMeansWork
  <2> QED
    BY <2>3, <2>4, <2>5 DEF IInv
<1> QED
  BY <1>3, <1>4, <1>5, <1>6

LEMMA ShellKeeps ==
  ASSUME IInv, ShellWaits \/ shell_run
  PROVE  IInv'
<1> USE DEF gicVars, lineVars, deviceVars, irqVars
<1>1. UNCHANGED <<gicVars, lineVars, deviceVars, boot, irqVars, tick_count>>
  BY DEF ShellWaits, shell_run, ShellChecks, ShellSleeps, ShellWakes
<1>2. /\ ring' \in Nat /\ target' \in Nat /\ event' \in BOOLEAN
      /\ shell' \in {"idle", "check", "wfe", "asleep"} /\ wants' \in {"byte", "tick"}
  <2>1. /\ ring \in Nat /\ target \in Nat /\ tick_count \in Nat /\ event \in BOOLEAN
        /\ wants \in {"byte", "tick"}
    BY DEF IInv, TypeOK
  <2>2. CASE ShellWaits
    <3>1. tick_count + 1 \in Nat
      BY <2>1
    <3> QED
      BY <2>1, <2>2, <3>1 DEF ShellWaits
  <2>3. CASE ShellChecks
    BY <2>1, <2>3 DEF ShellChecks, Ready
  <2>4. CASE ShellSleeps \/ ShellWakes
    BY <2>1, <2>4 DEF ShellSleeps, ShellWakes
  <2> QED
    BY <2>2, <2>3, <2>4 DEF shell_run
<1>3. TypeOK'
  BY <1>1, <1>2 DEF IInv, TypeOK
<1> QED
  BY <1>1, <1>3 DEF IInv, Prepared, OneActive, LineMeansWork
(* Acknowledging marks one signalled interrupt active.                      *)
LEMMA AcknowledgeKeeps ==
  ASSUME IInv, Acknowledge
  PROVE  IInv'
<1> USE DEF lineVars, deviceVars
<1>1. /\ irq = "acknowledge"
      /\ UNCHANGED <<gic_open, raised, lowering, passed, compared, fifo, arrived, others,
                     boot, now, received, tick_count, ring, event, shell, wants, target>>
  BY DEF Acknowledge, shellVars
<1>2. Spurious \notin Ids
  BY DEF Spurious, Ids, Timer, Uart, Other
<1>3. CASE Signalled = {}
  <2>1. acknowledge_value' = Spurious /\ irq' = "none" /\ gic' = gic
    BY <1>3 DEF Acknowledge
  <2>2. TypeOK' /\ Prepared'
    BY <1>1, <2>1 DEF IInv, TypeOK, Prepared
  <2> QED
    BY <1>1, <2>1, <2>2 DEF IInv, OneActive, LineMeansWork
<1>4. CASE Signalled # {}
  <2>1. PICK id \in Signalled :
           /\ acknowledge_value' = id
           /\ irq' = CASE id = Timer -> "timer" [] id = Uart -> "uart" [] OTHER -> "unexpected"
           /\ gic' = [gic EXCEPT ![id].active = TRUE, ![id].latched = FALSE]
    BY <1>4 DEF Acknowledge
  <2>2. id \in Ids /\ \A i \in Ids : ~gic[i].active
    BY DEF Signalled
  <2>3. irq' \in {"timer", "uart", "unexpected"}
    BY <2>1
  <2>4. /\ gic' \in [Ids -> Interrupt]
        /\ \A i \in Ids : gic'[i].active <=> i = id
        /\ \A i \in Ids : gic'[i].level = gic[i].level
    <3>1. gic \in [Ids -> Interrupt]
      BY DEF IInv, TypeOK
    <3>2. \A i \in Ids \ {id} : gic'[i] = gic[i]
      BY <2>1, <2>2, <3>1
    <3>3. gic'[id] = [gic[id] EXCEPT !.active = TRUE, !.latched = FALSE]
      BY <2>1, <2>2, <3>1
    <3>4. gic'[id] \in Interrupt /\ gic'[id].active /\ gic'[id].level = gic[id].level
      BY <2>2, <3>1, <3>3 DEF Interrupt
    <3> QED
      BY <2>1, <2>2, <3>1, <3>2, <3>4
  <2>5. TypeOK'
    BY <1>1, <2>1, <2>2, <2>3, <2>4 DEF IInv, TypeOK
  <2>6. Prepared'
    BY <1>1, <2>4 DEF IInv, Prepared, Ids
  <2>7. OneActive'
    BY <1>2, <2>1, <2>2, <2>3, <2>4 DEF OneActive
  <2>8. LineMeansWork'
    BY <1>1, <2>3 DEF IInv, LineMeansWork
  <2> QED
    BY <2>5, <2>6, <2>7, <2>8 DEF IInv
<1> QED
  BY <1>3, <1>4

(* EOIR ends the acknowledged interrupt, once its line has fallen.          *)
LEMMA EndKeeps ==
  ASSUME IInv, gic_end_interrupt
  PROVE  IInv'
<1> USE DEF lineVars, deviceVars
<1>1. /\ irq = "end" /\ irq' = "none" /\ lowering = {} /\ acknowledge_value' = Spurious
      /\ UNCHANGED <<gic_open, raised, lowering, passed, compared, fifo, arrived, others,
                     boot, now, received, tick_count, ring, event, shell, wants, target>>
  BY DEF gic_end_interrupt, Synchronized, shellVars
<1>2. Spurious \notin Ids
  BY DEF Spurious, Ids, Timer, Uart, Other
<1>3. gic \in [Ids -> Interrupt]
  BY DEF IInv, TypeOK
<1>4. ASSUME NEW id \in Ids
      PROVE  gic'[id] \in Interrupt /\ ~gic'[id].active /\ gic'[id].level = gic[id].level
  <2> DEFINE other == id # acknowledge_value
  <2>1. gic'[id] = [gic[id] EXCEPT !.active = @ /\ other]
    BY DEF gic_end_interrupt
  <2>2. ~(gic[id].active /\ other) /\ gic[id] \in Interrupt /\ other \in BOOLEAN
    BY <1>3 DEF IInv, OneActive
  <2> HIDE DEF other
  <2> QED
    BY <2>1, <2>2 DEF Interrupt
<1>5. gic' \in [Ids -> Interrupt]
  BY <1>4 DEF gic_end_interrupt
<1>6. TypeOK'
  BY <1>1, <1>5 DEF IInv, TypeOK
<1>7. Prepared'
  BY <1>1, <1>4 DEF IInv, Prepared, Ids
<1>8. OneActive'
  BY <1>1, <1>2, <1>4 DEF OneActive
<1>9. LineMeansWork'
  BY <1>1 DEF IInv, LineMeansWork
<1> QED
  BY <1>6, <1>7, <1>8, <1>9 DEF IInv

LEMMA HandlerKeeps ==
  ASSUME IInv, IrqTaken \/ TimerReads \/ TimerSets \/ UartDrains \/ UartDrained
               \/ UnexpectedCounted
  PROVE  IInv'
<1> USE DEF IInv, gicVars, lineVars, deviceVars, shellVars
<1>1. /\ passed \in Nat /\ compared \in Nat /\ fifo \in Nat /\ ring \in Nat /\ now \in Nat
      /\ boot \in 1 .. 10 /\ received \in BOOLEAN /\ event \in BOOLEAN
      /\ raised \subseteq Ids /\ lowering \subseteq Ids
  BY DEF TypeOK
<1>2. CASE IrqTaken
  <2> USE <1>2 DEF IrqTaken
  <2>1. boot > 8
    BY <1>1, DoneInOrder
  <2>2. TypeOK'
    BY DEF TypeOK
  <2> QED
    BY <2>1, <2>2 DEF Prepared, OneActive, LineMeansWork
<1>3. CASE TimerReads
  <2> USE <1>3 DEF TimerReads
  <2>1. now' \in Nat /\ now' <= passed
    <3>1. now' = passed
      OBVIOUS
    <3> QED
      BY ONLY <1>1, <3>1
  <2>2. TypeOK'
    BY <2>1 DEF TypeOK
  <2> QED
    BY <2>1, <2>2 DEF Prepared, OneActive, LineMeansWork
<1>4. CASE TimerSets
  <2> USE <1>4 DEF TimerSets
  <2>1. /\ raised' \subseteq Ids /\ lowering' \subseteq Ids
        /\ raised' \ lowering' \subseteq raised \ lowering
        /\ now = passed => Timer \notin raised' \ lowering'
    BY <1>1 DEF Lower
  <2>2. tick_count' = now /\ compared' = now /\ now' = 0 /\ passed' = passed /\ fifo' = fifo
        /\ irq' = "end" /\ now <= passed
    BY DEF LineMeansWork
  <2>3. {passed', compared', fifo', now', arrived', others', tick_count', ring', target'}
            \subseteq Nat
    <3>1. {passed, compared, fifo, arrived, others, ring, target} \subseteq Nat
      BY DEF TypeOK
    <3>2. arrived' = arrived /\ others' = others /\ ring' = ring /\ target' = target
      OBVIOUS
    <3> QED
      BY ONLY <1>1, <2>2, <3>1, <3>2
  <2>4. TypeOK'
    BY <2>1, <2>2, <2>3 DEF TypeOK
  <2>5. Prepared' /\ OneActive'
    BY DEF Prepared, OneActive
  <2>6. LineMeansWork'
    <3>1. compared' <= passed' /\ now' <= passed'
      BY ONLY <1>1, <2>2
    <3>2. Timer \in raised' \ lowering' => passed' > compared'
      BY ONLY <1>1, <2>1, <2>2
    <3>3. Uart \in raised' \ lowering' => fifo' > 0
      BY <2>1, <2>2 DEF LineMeansWork
    <3> QED
      BY <2>2, <3>1, <3>2, <3>3 DEF LineMeansWork
  <2> QED
    BY <2>4, <2>5, <2>6
<1>5. CASE UartDrains
  <2> USE <1>5 DEF UartDrains
  <2>1. /\ raised' \subseteq Ids /\ lowering' \subseteq Ids
        /\ raised' \ lowering' \subseteq raised \ lowering
        /\ fifo = 1 => Uart \notin raised' \ lowering'
    BY <1>1 DEF Lower
  <2>2. fifo' \in Nat /\ ring' \in Nat /\ (fifo # 1 => fifo' > 0)
    BY <1>1
  <2>3. TypeOK'
    BY <2>1, <2>2 DEF TypeOK
  <2>4. Prepared' /\ OneActive'
    BY DEF Prepared, OneActive
  <2>5. LineMeansWork'
    BY <2>1, <2>2 DEF LineMeansWork
  <2> QED
    BY <2>3, <2>4, <2>5
<1>6. CASE UartDrained
  <2> USE <1>6 DEF UartDrained
  <2>1. event' \in BOOLEAN
    BY <1>1
  <2>2. TypeOK'
    BY <2>1 DEF TypeOK
  <2> QED
    BY <2>2 DEF Prepared, OneActive, LineMeansWork
<1>7. CASE UnexpectedCounted
  <2> USE <1>7 DEF UnexpectedCounted, Unexpected
  <2>1. TypeOK'
    BY DEF TypeOK
  <2> QED
    BY <2>1 DEF Prepared, OneActive, LineMeansWork
<1> QED
  BY <1>2, <1>3, <1>4, <1>5, <1>6, <1>7

(* IInv is inductive. *)
THEOREM InvariantHolds == Spec => []IInv
<1>1. IInv /\ [Next]_vars => IInv'
  <2> SUFFICES ASSUME IInv, [Next]_vars PROVE IInv'
    OBVIOUS
  <2>1. CASE UNCHANGED vars
    <3> USE <2>1 DEF vars, gicVars, lineVars, deviceVars, irqVars, shellVars, IInv
    <3>1. TypeOK'
      BY DEF TypeOK
    <3> QED
      BY <3>1 DEF Prepared, OneActive, LineMeansWork
  <2> QED
    BY <2>1, BootKeeps, DevicesKeep, ShellKeeps, AcknowledgeKeeps, EndKeeps, HandlerKeeps
       DEF Next, irq_handle
<1> QED
  BY InitHolds, <1>1, PTL DEF Spec

(* The GIC's entries, the lines and the kernel's variables are well typed.  *)
THEOREM TypeCorrect == Spec => []TypeOK
BY InvariantHolds, PTL DEF IInv

(* No interrupt is handled before what its handler uses is set up,          *)
(* whatever the firmware left behind (kernel.c:19-23).                      *)
THEOREM HandlersAreReady == Spec => []HandlersReady
<1>1. IInv => HandlersReady
  <2> SUFFICES ASSUME IInv, irq # "none"
               PROVE  Done("exception_init") /\ Done("timer_init") /\ Done("uart_init")
    BY DEF HandlersReady
  <2>1. boot \in 1 .. 10 /\ boot > 8
    BY DEF IInv, TypeOK, Prepared
  <2> QED
    BY <2>1, DoneInOrder
<1> QED
  BY InvariantHolds, <1>1, PTL

(* An interrupt is active exactly while its handler runs (irq.c:21-34).     *)
THEOREM NoneLeftActive == Spec => []ActiveWhileHandled
<1>1. IInv => ActiveWhileHandled
  <2> SUFFICES ASSUME IInv, NEW id \in Ids
               PROVE  gic[id].active <=> (id = acknowledge_value /\ irq # "none")
    BY DEF ActiveWhileHandled
  <2>1. id # Spurious
    BY DEF Spurious, Ids, Timer, Uart, Other
  <2> QED
    BY <2>1 DEF IInv, OneActive
<1> QED
  BY InvariantHolds, <1>1, PTL

(* A device's handler is entered only while the device has work for it: no  *)
(* interrupt is taken a second time for what the last one did (gic.c:92).   *)
THEOREM HandlersHaveWork == Spec => HandlerHasWork
<1>1. IInv /\ [Next]_vars
        => [/\ irq = "acknowledge" /\ irq' = "timer" => passed > compared
            /\ irq = "acknowledge" /\ irq' = "uart" => fifo > 0]_vars
  <2> SUFFICES ASSUME IInv, Next, irq = "acknowledge", irq' \in {"timer", "uart"}
               PROVE  /\ irq' = "timer" => passed > compared
                      /\ irq' = "uart" => fifo > 0
    BY DEF vars, irqVars
  <2>1. Acknowledge
    BY DEF Next, kernel_main, DeadlinePasses, ByteArrives, OtherRises, OtherFalls, LineFalls,
           irq_handle, IrqTaken, TimerReads, TimerSets, UartDrains, UartDrained,
           UnexpectedCounted, gic_end_interrupt, ShellWaits, shell_run, ShellChecks,
           ShellSleeps, ShellWakes, irqVars
  <2>2. PICK id \in Signalled :
           irq' = CASE id = Timer -> "timer" [] id = Uart -> "uart" [] OTHER -> "unexpected"
    BY <2>1 DEF Acknowledge
  <2>3. /\ irq' = "timer" => id = Timer
        /\ irq' = "uart" => id = Uart
    BY <2>2
  <2>4. Pending(id)
    BY DEF Signalled
  <2>5. gic[Uart].level /\ gic[Timer].level /\ lowering = {}
    BY DEF IInv, TypeOK, Prepared, LineMeansWork
  <2>6. id \in {Timer, Uart} => id \in raised
    BY <2>4, <2>5 DEF Pending
  <2> QED
    BY <2>3, <2>5, <2>6 DEF IInv, LineMeansWork
<1> QED
  BY InvariantHolds, <1>1, PTL DEF Spec, HandlerHasWork

-----------------------------------------------------------------------------
(* mmu_init                                                                 *)

(* Either what the firmware left or what mmu_init writes. *)
Registers ==
    [mair : {<<"unknown", "unknown">>, NewMair}, tcr : {[t0sz |-> 0, ips |-> 0], NewTcr},
     ttbr0 : {"unknown", "level1"}, m : BOOLEAN]

MmuTypeOK ==
    /\ {reg, effective, found} \subseteq Registers
    /\ cache \in [c : BOOLEAN, i : BOOLEAN] /\ parange \in 0 .. 15
    /\ {installed, result} \subseteq BOOLEAN
    /\ step \in 0 .. 11
    /\ at \in {"check", "build", "range", "install", "returned"}
    /\ kernel \in {"boot", "running", "parked"}

(* What each instruction was waited for before translation is turned on. *)
Progress ==
    /\ step # 0
    /\ step > 1 => visible = build_translation_tables
    /\ step > 2 => reg.mair = NewMair
    /\ step > 3 => reg.tcr = NewTcr
    /\ step > 4 => reg.ttbr0 = "level1"
    /\ step > 5 => effective.mair = NewMair /\ effective.tcr = NewTcr
                   /\ effective.ttbr0 = "level1"
    /\ step = 7 => tlb = "invalidating"
    /\ step > 7 => tlb = "clean"
    /\ reg.m <=> step > 9

(* Everything a translation uses is the kernel's own. *)
Translating ==
    /\ visible = build_translation_tables /\ tlb = "clean"
    /\ effective.mair = NewMair /\ effective.tcr = NewTcr /\ effective.ttbr0 = "level1"
    /\ reg.ttbr0 = "level1" /\ reg.m

Booting ==
    /\ ~installed /\ at # "returned"
    /\ at # "install" => reg = found
    /\ at \in {"build", "range"} => ~found.m /\ ~CacheOn
    /\ at = "range" => tables = build_translation_tables
    /\ at = "install" => ~Unknown /\ tables = build_translation_tables /\ Progress

Running ==
    /\ at \in {"check", "returned"} /\ ~Unknown /\ installed /\ Translating
    /\ at = "returned" => result

Parked == at = "returned" /\ Unknown /\ reg = found /\ ~result

MmuInv ==
    /\ MmuTypeOK
    /\ kernel = "boot" => Booting
    /\ kernel = "running" => Running
    /\ kernel = "parked" => Parked

LEMMA RegistersAre ==
  ASSUME MmuTypeOK
  PROVE  /\ reg \in Registers /\ effective \in Registers /\ found \in Registers
         /\ reg.m \in BOOLEAN /\ found.m \in BOOLEAN
         /\ cache.c \in BOOLEAN /\ cache.i \in BOOLEAN /\ parange \in 0 .. 15
         /\ installed \in BOOLEAN /\ result \in BOOLEAN /\ step \in 0 .. 11
         /\ at \in {"check", "build", "range", "install", "returned"}
         /\ kernel \in {"boot", "running", "parked"}
BY DEF MmuTypeOK, Registers

LEMMA WrittenRegisters ==
  ASSUME NEW r \in Registers
  PROVE  /\ [r EXCEPT !.mair = NewMair] \in Registers
         /\ [r EXCEPT !.tcr = NewTcr] \in Registers
         /\ [r EXCEPT !.ttbr0 = "level1"] \in Registers
         /\ [r EXCEPT !.m = TRUE] \in Registers
         /\ [r EXCEPT !.mair = NewMair].mair = NewMair
         /\ [r EXCEPT !.mair = NewMair].m = r.m
         /\ [r EXCEPT !.tcr = NewTcr].tcr = NewTcr
         /\ [r EXCEPT !.tcr = NewTcr].mair = r.mair
         /\ [r EXCEPT !.tcr = NewTcr].m = r.m
         /\ [r EXCEPT !.ttbr0 = "level1"].ttbr0 = "level1"
         /\ [r EXCEPT !.ttbr0 = "level1"].mair = r.mair
         /\ [r EXCEPT !.ttbr0 = "level1"].tcr = r.tcr
         /\ [r EXCEPT !.ttbr0 = "level1"].m = r.m
         /\ [r EXCEPT !.m = TRUE].m = TRUE
         /\ [r EXCEPT !.m = TRUE].mair = r.mair
         /\ [r EXCEPT !.m = TRUE].tcr = r.tcr
         /\ [r EXCEPT !.m = TRUE].ttbr0 = r.ttbr0
BY DEF Registers

LEMMA MmuInvInit == MmuInit => MmuInv
<1> SUFFICES ASSUME MmuInit
             PROVE  MmuInv
  OBVIOUS
<1>1. /\ reg = found /\ effective = found /\ at = "check" /\ step = 0
      /\ result = FALSE /\ installed = FALSE /\ kernel = "boot"
      /\ cache \in [c : BOOLEAN, i : BOOLEAN] /\ parange \in 0 .. 15
  BY DEF MmuInit
<1>2. found \in Registers
  <2>1. PICK on \in BOOLEAN :
            found = [mair |-> <<"unknown", "unknown">>, tcr |-> [t0sz |-> 0, ips |-> 0],
                     ttbr0 |-> "unknown", m |-> on]
    BY DEF MmuInit
  <2> QED
    BY <2>1 DEF Registers
<1>3. MmuTypeOK
  <2>1. {reg, effective, found} \subseteq Registers
    BY <1>1, <1>2
  <2>2. {installed, result} \subseteq BOOLEAN
    <3>1. installed = FALSE /\ result = FALSE
      BY <1>1
    <3> QED
      BY <3>1
  <2> QED
    BY <1>1, <2>1, <2>2 DEF MmuTypeOK
<1>4. Booting
  BY <1>1 DEF Booting
<1> QED
  BY <1>1, <1>3, <1>4 DEF MmuInv

LEMMA CheckKeeps ==
  ASSUME MmuInv, Check
  PROVE  MmuInv'
<1>1. /\ at = "check"
      /\ UNCHANGED <<tables, visible, reg, effective, tlb, cache, parange, found,
                     installed, step>>
  BY DEF Check, tableVars, regVars, machineVars
<1>2. /\ MmuTypeOK /\ kernel \in {"boot", "running"} /\ reg.m \in BOOLEAN
      /\ CacheOn \in BOOLEAN /\ Unknown \in BOOLEAN /\ AlreadyOurs \in BOOLEAN
  BY <1>1, RegistersAre DEF MmuInv, Parked, CacheOn, Unknown, AlreadyOurs
<1>3. \/ reg.m /\ Return(AlreadyOurs)
      \/ ~reg.m /\ CacheOn /\ Return(FALSE)
      \/ ~reg.m /\ ~CacheOn /\ at' = "build" /\ UNCHANGED <<result, kernel>>
  BY <1>1, <1>2 DEF Check
<1>4. MmuTypeOK'
  <2>1. /\ at' \in {"check", "build", "range", "install", "returned"}
        /\ kernel' \in {"boot", "running", "parked"} /\ result' \in BOOLEAN
    BY <1>2, <1>3, RegistersAre DEF Return
  <2> QED
    BY <1>1, <1>2, <2>1 DEF MmuTypeOK, Registers, NewTcr
<1>5. Unknown' = Unknown /\ CacheOn' = CacheOn
  BY <1>1 DEF Unknown, CacheOn
<1>6. CASE kernel = "boot"
  <2>1. ~installed /\ reg = found
    BY <1>1, <1>6 DEF MmuInv, Booting
  <2>2. AlreadyOurs = FALSE
    BY <2>1, <1>2 DEF AlreadyOurs
  <2>3. CASE reg.m \/ CacheOn
    <3>1. Return(FALSE)
      BY <1>3, <2>2, <2>3
    <3>2. at' = "returned" /\ result' = FALSE /\ kernel' = "parked" /\ Unknown
      BY <1>6, <2>1, <2>3, <3>1 DEF Return, Unknown, CacheOn
    <3> QED
      BY <1>1, <1>4, <1>5, <2>1, <3>2 DEF MmuInv, Parked
  <2>4. CASE ~(reg.m \/ CacheOn)
    <3>1. at' = "build" /\ kernel' = "boot"
      BY <1>3, <1>6, <2>4
    <3>2. ~found.m /\ ~CacheOn
      BY <2>1, <2>4
    <3> QED
      BY <1>1, <1>4, <1>5, <2>1, <3>1, <3>2 DEF MmuInv, Booting
  <2> QED
    BY <2>3, <2>4
<1>7. CASE kernel = "running"
  <2>1. Running
    BY <1>7 DEF MmuInv
  <2>2. reg.m /\ AlreadyOurs = TRUE
    BY <1>2, <2>1 DEF Running, Translating, AlreadyOurs
  <2>3. at' = "returned" /\ result' = TRUE /\ kernel' = "running"
    BY <1>3, <1>7, <2>2 DEF Return
  <2>4. Running'
    BY <1>1, <1>5, <2>1, <2>3 DEF Running, Translating, NewTcr
  <2> QED
    BY <1>4, <2>3, <2>4 DEF MmuInv
<1> QED
  BY <1>2, <1>6, <1>7

LEMMA BuildKeeps ==
  ASSUME MmuInv, Build
  PROVE  MmuInv'
<1>1. /\ at = "build" /\ at' = "range" /\ tables' = build_translation_tables
      /\ UNCHANGED <<visible, reg, effective, tlb, cache, parange, found,
                     installed, step, result, kernel>>
  BY DEF Build, regVars, machineVars
<1>2. MmuTypeOK /\ kernel = "boot" /\ Booting
  BY <1>1, RegistersAre DEF MmuInv, Parked, Running
<1>3. MmuTypeOK'
  BY <1>1, <1>2 DEF MmuTypeOK, Registers, NewTcr
<1>4. Booting'
  BY <1>1, <1>2 DEF Booting, CacheOn
<1> QED
  BY <1>1, <1>2, <1>3, <1>4 DEF MmuInv

LEMMA RangeKeeps ==
  ASSUME MmuInv, Range
  PROVE  MmuInv'
<1>1. /\ at = "range"
      /\ UNCHANGED <<tables, visible, reg, effective, tlb, cache, parange, found, installed>>
  BY DEF Range, tableVars, regVars, machineVars
<1>2. MmuTypeOK /\ kernel = "boot" /\ Booting /\ parange \in 0 .. 15
  BY <1>1, RegistersAre DEF MmuInv, Parked, Running
<1>3. /\ ~installed /\ reg = found /\ ~found.m /\ ~CacheOn
      /\ tables = build_translation_tables
  BY <1>1, <1>2 DEF Booting
<1>4. Unknown' = Unknown /\ (Unknown <=> parange > 6)
  BY <1>1, <1>3 DEF Unknown, CacheOn
<1>5. CASE parange > 6
  <2>1. at' = "returned" /\ result' = FALSE /\ kernel' = "parked" /\ step' = step
    BY <1>2, <1>5 DEF Range, Return
  <2>2. MmuTypeOK'
    BY <1>1, <1>2, <2>1 DEF MmuTypeOK, Registers, NewTcr
  <2> QED
    BY <1>1, <1>3, <1>4, <1>5, <2>1, <2>2 DEF MmuInv, Parked
<1>6. CASE ~(parange > 6)
  <2>1. at' = "install" /\ step' = 1 /\ result' = result /\ kernel' = "boot"
    BY <1>2, <1>6 DEF Range
  <2>2. MmuTypeOK'
    BY <1>1, <1>2, <2>1 DEF MmuTypeOK, Registers, NewTcr
  <2>3. Progress'
    BY <1>1, <1>3, <2>1 DEF Progress
  <2>4. Booting'
    BY <1>1, <1>3, <1>4, <1>6, <2>1, <2>3 DEF Booting
  <2> QED
    BY <2>1, <2>2, <2>4 DEF MmuInv
<1> QED
  BY <1>5, <1>6

LEMMA InstructionsAre ==
  /\ Len(Instructions) = 10
  /\ Instructions[1] = "dsb" /\ Instructions[2] = "mair" /\ Instructions[3] = "tcr"
  /\ Instructions[4] = "ttbr0" /\ Instructions[5] = "isb" /\ Instructions[6] = "tlbi"
  /\ Instructions[7] = "dsb" /\ Instructions[8] = "isb" /\ Instructions[9] = "sctlr.m"
  /\ Instructions[10] = "isb"
BY DEF Instructions

(* What each instruction does.                                              *)
LEMMA ExecuteIs ==
  ASSUME Execute
  PROVE  LET i == Instructions[step]
         IN  /\ i = "mair" => reg' = [reg EXCEPT !.mair = NewMair]
             /\ i = "tcr" => reg' = [reg EXCEPT !.tcr = NewTcr]
             /\ i = "ttbr0" => reg' = [reg EXCEPT !.ttbr0 = "level1"]
             /\ i = "sctlr.m" => reg' = [reg EXCEPT !.m = TRUE]
             /\ i \in {"dsb", "isb", "tlbi"} => reg' = reg
             /\ i = "isb" => effective' = reg
             /\ i # "isb" => effective' = effective
             /\ i = "dsb" => visible' = tables
             /\ i # "dsb" => visible' = visible
             /\ i = "tlbi" => tlb' = "invalidating"
             /\ i = "dsb" /\ tlb = "invalidating" => tlb' = "clean"
             /\ i \notin {"dsb", "tlbi"} => tlb' = tlb
<1>1. reg' = CASE Instructions[step] = "mair" -> [reg EXCEPT !.mair = NewMair]
               [] Instructions[step] = "tcr" -> [reg EXCEPT !.tcr = NewTcr]
               [] Instructions[step] = "ttbr0" -> [reg EXCEPT !.ttbr0 = "level1"]
               [] Instructions[step] = "sctlr.m" -> [reg EXCEPT !.m = TRUE]
               [] OTHER -> reg
  BY DEF Execute
<1>2. /\ effective' = IF Instructions[step] = "isb" THEN reg ELSE effective
      /\ visible' = IF Instructions[step] = "dsb" THEN tables ELSE visible
  BY DEF Execute
<1>3. tlb' = CASE Instructions[step] = "tlbi" -> "invalidating"
               [] Instructions[step] = "dsb" /\ tlb = "invalidating" -> "clean"
               [] OTHER -> tlb
  BY DEF Execute
<1> DEFINE i == Instructions[step]
<1>4. /\ i = "mair" => reg' = [reg EXCEPT !.mair = NewMair]
      /\ i = "tcr" => reg' = [reg EXCEPT !.tcr = NewTcr]
      /\ i = "ttbr0" => reg' = [reg EXCEPT !.ttbr0 = "level1"]
      /\ i = "sctlr.m" => reg' = [reg EXCEPT !.m = TRUE]
      /\ i \in {"dsb", "isb", "tlbi"} => reg' = reg
  BY <1>1
<1>5. /\ i = "tlbi" => tlb' = "invalidating"
      /\ i = "dsb" /\ tlb = "invalidating" => tlb' = "clean"
      /\ i \notin {"dsb", "tlbi"} => tlb' = tlb
  BY <1>3
<1> QED
  BY <1>2, <1>4, <1>5

LEMMA ExecuteKeeps ==
  ASSUME MmuInv, Execute
  PROVE  MmuInv'
<1>1. /\ at = "install" /\ step <= 10 /\ step' = step + 1
      /\ UNCHANGED <<tables, cache, parange, found, installed, at, result, kernel>>
  BY InstructionsAre DEF Execute, machineVars
<1>2. MmuTypeOK /\ kernel = "boot" /\ Booting
  BY <1>1, RegistersAre DEF MmuInv, Parked, Running
<1>3. Progress /\ ~Unknown /\ tables = build_translation_tables /\ ~installed
  BY <1>1, <1>2 DEF Booting
<1>4. step \in 1 .. 10 /\ reg \in Registers /\ effective \in Registers
  BY <1>1, <1>2, <1>3, RegistersAre DEF Progress
<1>5. NewTcr' = NewTcr /\ Registers' = Registers
  BY <1>1 DEF NewTcr, Registers
<1>6. reg' \in Registers /\ effective' \in Registers
  <2>1. Instructions[step] \in {"dsb", "mair", "tcr", "ttbr0", "isb", "tlbi", "sctlr.m"}
    BY <1>4, InstructionsAre
  <2> QED
    BY <1>4, <2>1, ExecuteIs, WrittenRegisters
<1>7. MmuTypeOK'
  BY <1>1, <1>2, <1>4, <1>5, <1>6 DEF MmuTypeOK
<1>8. Progress'
  <2>1. CASE step = 1
    <3>1. visible' = tables /\ reg' = reg
      BY <2>1, ExecuteIs, InstructionsAre
    <3> QED
      BY <1>1, <1>3, <2>1, <3>1 DEF Progress
  <2>2. CASE step = 2
    <3>1. visible' = visible /\ reg' = [reg EXCEPT !.mair = NewMair]
      BY <2>2, ExecuteIs, InstructionsAre
    <3>2. reg'.mair = NewMair /\ reg'.m = reg.m
      BY <1>4, <3>1, WrittenRegisters
    <3> QED
      BY <1>1, <1>3, <2>2, <3>1, <3>2 DEF Progress
  <2>3. CASE step = 3
    <3>1. visible' = visible /\ reg' = [reg EXCEPT !.tcr = NewTcr]
      BY <2>3, ExecuteIs, InstructionsAre
    <3>2. reg'.mair = reg.mair /\ reg'.tcr = NewTcr /\ reg'.m = reg.m
      BY <1>4, <3>1, WrittenRegisters
    <3> QED
      BY <1>1, <1>3, <1>5, <2>3, <3>1, <3>2 DEF Progress
  <2>4. CASE step = 4
    <3>1. visible' = visible /\ reg' = [reg EXCEPT !.ttbr0 = "level1"]
      BY <2>4, ExecuteIs, InstructionsAre
    <3>2. reg'.mair = reg.mair /\ reg'.tcr = reg.tcr /\ reg'.ttbr0 = "level1" /\ reg'.m = reg.m
      BY <1>4, <3>1, WrittenRegisters
    <3> QED
      BY <1>1, <1>3, <1>5, <2>4, <3>1, <3>2 DEF Progress
  <2>5. CASE step = 5
    <3>1. visible' = visible /\ reg' = reg /\ effective' = reg
      BY <2>5, ExecuteIs, InstructionsAre
    <3> QED
      BY <1>1, <1>3, <1>5, <2>5, <3>1 DEF Progress
  <2>6. CASE step = 6
    <3>1. visible' = visible /\ reg' = reg /\ effective' = effective /\ tlb' = "invalidating"
      BY <2>6, ExecuteIs, InstructionsAre
    <3> QED
      BY <1>1, <1>3, <1>5, <2>6, <3>1 DEF Progress
  <2>7. CASE step = 7
    <3>1. tlb = "invalidating"
      BY <1>3, <2>7 DEF Progress
    <3>2. visible' = tables /\ reg' = reg /\ effective' = effective /\ tlb' = "clean"
      BY <2>7, <3>1, ExecuteIs, InstructionsAre
    <3> QED
      BY <1>1, <1>3, <1>5, <2>7, <3>2 DEF Progress
  <2>8. CASE step = 8 \/ step = 10
    <3>1. visible' = visible /\ reg' = reg /\ effective' = reg /\ tlb' = tlb
      BY <2>8, ExecuteIs, InstructionsAre
    <3> QED
      BY <1>1, <1>3, <1>5, <2>8, <3>1 DEF Progress
  <2>9. CASE step = 9
    <3>1. visible' = visible /\ reg' = [reg EXCEPT !.m = TRUE] /\ effective' = effective
          /\ tlb' = tlb
      BY <2>9, ExecuteIs, InstructionsAre
    <3>2. reg'.mair = reg.mair /\ reg'.tcr = reg.tcr /\ reg'.ttbr0 = reg.ttbr0 /\ reg'.m = TRUE
      BY <1>4, <3>1, WrittenRegisters
    <3> QED
      BY <1>1, <1>3, <1>5, <2>9, <3>1, <3>2 DEF Progress
  <2> QED
    BY <1>4, <2>1, <2>2, <2>3, <2>4, <2>5, <2>6, <2>7, <2>8, <2>9
<1>9. Booting'
  BY <1>1, <1>3, <1>8 DEF Booting, Unknown
<1> QED
  BY <1>1, <1>2, <1>7, <1>9 DEF MmuInv

LEMMA InstalledKeeps ==
  ASSUME MmuInv, Installed
  PROVE  MmuInv'
<1>1. /\ at = "install" /\ step > 10 /\ installed' = reg.m /\ Return(reg.m)
      /\ UNCHANGED <<tables, visible, reg, effective, tlb, cache, parange, found, step>>
  BY InstructionsAre DEF Installed, tableVars, regVars, machineVars
<1>2. MmuTypeOK /\ kernel = "boot" /\ Booting /\ step \in 0 .. 11
  BY <1>1, RegistersAre DEF MmuInv, Parked, Running
<1>3. Progress /\ ~Unknown /\ step = 11
  BY <1>1, <1>2 DEF Booting
<1>4. Translating /\ reg.m = TRUE
  BY <1>2, <1>3, RegistersAre DEF Progress, Translating
<1>5. at' = "returned" /\ result' = TRUE /\ kernel' = "running" /\ installed' = TRUE
  BY <1>1, <1>2, <1>4 DEF Return
<1>6. MmuTypeOK'
  BY <1>1, <1>2, <1>5 DEF MmuTypeOK, Registers, NewTcr
<1>7. Running'
  BY <1>1, <1>3, <1>4, <1>5 DEF Running, Translating, NewTcr, Unknown
<1> QED
  BY <1>5, <1>6, <1>7 DEF MmuInv

LEMMA MmuInvStep == MmuInv /\ [MmuNext]_mmuVars => MmuInv'
<1> SUFFICES ASSUME MmuInv, [MmuNext]_mmuVars
             PROVE  MmuInv'
  OBVIOUS
<1>1. CASE CallAgain
  <2>1. /\ at = "returned" /\ kernel = "running" /\ at' = "check"
        /\ UNCHANGED <<tables, visible, reg, effective, tlb, cache, parange, found,
                       installed, step, result, kernel>>
    BY <1>1 DEF CallAgain, tableVars, regVars, machineVars
  <2>2. MmuTypeOK'
    BY <2>1 DEF MmuInv, MmuTypeOK, Registers, NewTcr
  <2>3. Running'
    BY <2>1 DEF MmuInv, Running, Translating, NewTcr, Unknown
  <2> QED
    BY <2>1, <2>2, <2>3 DEF MmuInv
<1>2. CASE UNCHANGED mmuVars
  <2>1. UNCHANGED <<tables, visible, reg, effective, tlb, cache, parange, found,
                    installed, step, result, kernel, at>>
    BY <1>2 DEF mmuVars, tableVars, regVars, machineVars
  <2>2. MmuTypeOK'
    BY <2>1 DEF MmuInv, MmuTypeOK, Registers, NewTcr
  <2>3. kernel = "running" => Running'
    BY <2>1 DEF MmuInv, Running, Translating, NewTcr, Unknown
  <2>4. kernel = "parked" => Parked'
    BY <2>1 DEF MmuInv, Parked, Unknown
  <2>5. Progress => Progress'
    BY <2>1 DEF Progress, NewTcr
  <2>6. kernel = "boot" => Booting'
    BY <2>1, <2>5 DEF MmuInv, Booting, CacheOn, Unknown
  <2> QED
    BY <2>1, <2>2, <2>3, <2>4, <2>6 DEF MmuInv
<1> QED
  BY <1>1, <1>2, CheckKeeps, BuildKeeps, RangeKeeps, ExecuteKeeps, InstalledKeeps
  DEF MmuNext, mmu_init

(* MmuInv is inductive: what mmu_init has written, and what of that is in   *)
(* force, follows from where it is.                                         *)
THEOREM MmuInvHolds == MmuSpec => []MmuInv
<1> QED
  BY MmuInvInit, MmuInvStep, PTL DEF MmuSpec

(* Where mmu_init gives up, with translation or a cache on or an unknown    *)
(* address range, it has written no register and the kernel stops; on every *)
(* other machine it succeeds, each time it is called (mmu.c:142).           *)
THEOREM RefusesUntouched == MmuSpec => []RefusedUntouched
<1>1. ASSUME MmuInv
      PROVE  RefusedUntouched
  <2>1. /\ Unknown \in BOOLEAN /\ result \in BOOLEAN
        /\ kernel \in {"boot", "running", "parked"}
    BY <1>1, RegistersAre DEF MmuInv, Unknown
  <2>2. CASE kernel = "boot"
    <3>1. Booting
      BY <1>1, <2>2 DEF MmuInv
    <3> QED
      BY <2>1, <2>2, <3>1 DEF Booting, RefusedUntouched
  <2>3. CASE kernel = "running"
    <3>1. Running
      BY <1>1, <2>3 DEF MmuInv
    <3> QED
      BY <2>1, <3>1 DEF Running, RefusedUntouched
  <2>4. CASE kernel = "parked"
    <3>1. Parked
      BY <1>1, <2>4 DEF MmuInv
    <3> QED
      BY <2>1, <2>4, <3>1 DEF Parked, RefusedUntouched
  <2> QED
    BY <2>1, <2>2, <2>3, <2>4
<1> QED
  BY <1>1, MmuInvHolds, PTL

-----------------------------------------------------------------------------
(* The tables mmu_init builds                                               *)

(* The entry of a descriptor that no other displaces.                       *)
LEMMA Level2Is ==
  ASSUME NEW blocks, NEW i \in Index
  PROVE  /\ (\A d \in blocks : L2Index(d.output) # i) => Level2(blocks)[i] = Invalid
         /\ \A d \in blocks :
                /\ L2Index(d.output) = i
                /\ \A e \in blocks : L2Index(e.output) = i => e = d
                => Level2(blocks)[i] = d
<1>1. Level2(blocks)[i] = IF \E d \in blocks : L2Index(d.output) = i
                          THEN CHOOSE d \in blocks : L2Index(d.output) = i
                          ELSE Invalid
  BY DEF Level2
<1> QED
  BY <1>1

LEMMA IndexIs ==
  ASSUME NEW a \in Nat
  PROVE  /\ L2Index(a) \in Index
         /\ a < 1024 => L2Index(a) = a \div 2
         /\ 1024 <= a /\ a < 2048 => L2Index(a) = a \div 2 - 512
BY DEF L2Index, Index, L2_BLOCK_SIZE, TABLE_ENTRY_COUNT

LEMMA DeviceBlockIs ==
  ASSUME NEW a \in Nat
  PROVE  /\ DeviceBlock(a).output = a /\ DeviceBlock(a).valid = TRUE
         /\ DeviceBlock(a).attr = 0 /\ DeviceBlock(a).pxn = TRUE
BY DEF DeviceBlock

DeviceBlocks == {DeviceBlock(a) : a \in {QEMU_GIC_BASE, QEMU_UART_BASE}}
MappedRam == {RamBlock(a) : a \in RamBlocks}

LEMMA TablesAre ==
  ASSUME visible = build_translation_tables
  PROVE  /\ visible.device = Level2(DeviceBlocks) /\ visible.ram = Level2(MappedRam)
         /\ visible.level1[0] = "device" /\ visible.level1[1] = "ram"
         /\ visible.level1[2] = NoTable /\ visible.level1[3] = NoTable
<1>1. visible.level1 =
          [i \in Index |-> CASE i = 0 -> "device" [] i = 1 -> "ram" [] OTHER -> NoTable]
  BY DEF build_translation_tables
<1>2. 0 \in Index /\ 1 \in Index /\ 2 \in Index /\ 3 \in Index
  BY DEF Index, TABLE_ENTRY_COUNT
<1>3. /\ visible.level1[0] = "device" /\ visible.level1[1] = "ram"
      /\ visible.level1[2] = NoTable /\ visible.level1[3] = NoTable
  BY <1>1, <1>2
<1>4. visible.device = Level2(DeviceBlocks) /\ visible.ram = Level2(MappedRam)
  BY DEF build_translation_tables, DeviceBlocks, MappedRam
<1> QED
  BY <1>3, <1>4

(* The descriptor of an address that has one: level 1 leads to the table of *)
(* its GiB, and the index in that table is its own.                         *)
LEMMA DeviceEntry ==
  ASSUME visible = build_translation_tables, NEW b \in {128, 144},
         NEW a \in Nat, b <= a, a < b + 2
  PROVE  Entry(a) = DeviceBlock(b)
<1>1. DeviceBlocks = {DeviceBlock(128), DeviceBlock(144)}
  BY DEF DeviceBlocks, QEMU_GIC_BASE, QEMU_UART_BASE
<1>2. L2Index(128) = 64 /\ L2Index(144) = 72
  BY DEF L2Index, L2_BLOCK_SIZE, TABLE_ENTRY_COUNT
<1>3. L2Index(a) \in Index /\ L2Index(a) = L2Index(b)
  BY IndexIs
<1>4. DeviceBlock(128).output = 128 /\ DeviceBlock(144).output = 144
  BY DeviceBlockIs
<1>5. DeviceBlock(b) \in DeviceBlocks /\ L2Index(DeviceBlock(b).output) = L2Index(a)
  BY <1>1, <1>3, <1>4
<1>6. \A e \in DeviceBlocks : L2Index(e.output) = L2Index(a) => e = DeviceBlock(b)
  BY <1>1, <1>2, <1>3, <1>4
<1>7. Level2(DeviceBlocks)[L2Index(a)] = DeviceBlock(b)
  BY <1>3, <1>5, <1>6, Level2Is
<1>8. a \div (L2_BLOCK_SIZE * TABLE_ENTRY_COUNT) = 0
  BY DEF L2_BLOCK_SIZE, TABLE_ENTRY_COUNT
<1>9. Entry(a) = visible.device[L2Index(a)]
  BY <1>8, TablesAre DEF Entry
<1> QED
  BY <1>7, <1>9, TablesAre

LEMMA RamBlocksAre ==
  /\ \A b : b \in RamBlocks <=> b \in Nat /\ 1024 <= b /\ b < 1152 /\ b % 2 = 0
  /\ \A e \in MappedRam : \E b \in RamBlocks : e = RamBlock(b) /\ e.output = b
<1>1. \A b : b \in RamBlocks <=> b \in Nat /\ 1024 <= b /\ b < 1152 /\ b % 2 = 0
  BY DEF RamBlocks, QEMU_RAM_BASE, QEMU_RAM_END, L2_BLOCK_SIZE
<1>2. ASSUME NEW e \in MappedRam
      PROVE  \E b \in RamBlocks : e = RamBlock(b) /\ e.output = b
  <2>1. PICK b \in RamBlocks : e = RamBlock(b)
    BY DEF MappedRam
  <2>2. RamBlock(b).output = b
    BY DEF RamBlock
  <2> QED
    BY <2>1, <2>2
<1> QED
  BY <1>1, <1>2

LEMMA RamEntry ==
  ASSUME visible = build_translation_tables, NEW a \in Nat, 1024 <= a, a < 1152
  PROVE  Entry(a) = RamBlock(2 * (a \div 2))
<1> DEFINE b == 2 * (a \div 2)
<1>1. b \in Nat /\ 1024 <= b /\ b < 1152 /\ b % 2 = 0 /\ b \div 2 = a \div 2
  OBVIOUS
<1> HIDE DEF b
<1>2. L2Index(a) \in Index /\ L2Index(a) = a \div 2 - 512
  BY IndexIs
<1>3. \A x \in RamBlocks : L2Index(x) = L2Index(a) => x = b
  <2> SUFFICES ASSUME NEW x \in RamBlocks, L2Index(x) = L2Index(a)
               PROVE  x = b
    OBVIOUS
  <2>1. x \in Nat /\ 1024 <= x /\ x < 1152 /\ x % 2 = 0
    BY RamBlocksAre
  <2>2. L2Index(x) = x \div 2 - 512
    BY <2>1, IndexIs
  <2>3. x \div 2 = b \div 2
    BY <1>1, <1>2, <2>1, <2>2
  <2> QED
    BY <1>1, <2>1, <2>3
<1>4. RamBlock(b) \in MappedRam
  BY <1>1, RamBlocksAre DEF MappedRam
<1>5. L2Index(RamBlock(b).output) = L2Index(a)
  <2>1. RamBlock(b).output = b
    BY DEF RamBlock
  <2>2. L2Index(b) = b \div 2 - 512
    BY <1>1, IndexIs
  <2> QED
    BY <1>1, <1>2, <2>1, <2>2
<1>6. \A e \in MappedRam : L2Index(e.output) = L2Index(a) => e = RamBlock(b)
  BY <1>3, RamBlocksAre
<1>7. Level2(MappedRam)[L2Index(a)] = RamBlock(b)
  BY <1>2, <1>4, <1>5, <1>6, Level2Is
<1>8. a \div (L2_BLOCK_SIZE * TABLE_ENTRY_COUNT) = 1
  BY DEF L2_BLOCK_SIZE, TABLE_ENTRY_COUNT
<1>9. Entry(a) = visible.ram[L2Index(a)]
  BY <1>8, TablesAre DEF Entry
<1> QED
  BY <1>7, <1>9, TablesAre DEF b

(* No other address below 4 GiB has one.                                    *)
LEMMA NoEntry ==
  ASSUME visible = build_translation_tables, NEW a \in Nat, a \div 1024 < 4,
         a < 1024 \/ 1152 <= a,
         a # 128, a # 129, a # 144, a # 145
  PROVE  Entry(a) = Invalid
<1>1. CASE a < 1024
  <2>1. L2Index(a) \in Index /\ L2Index(a) = a \div 2
    BY <1>1, IndexIs
  <2>2. L2Index(a) # 64 /\ L2Index(a) # 72
    BY <2>1
  <2>3. L2Index(128) = 64 /\ L2Index(144) = 72
    BY DEF L2Index, L2_BLOCK_SIZE, TABLE_ENTRY_COUNT
  <2>4. DeviceBlocks = {DeviceBlock(128), DeviceBlock(144)}
    BY DEF DeviceBlocks, QEMU_GIC_BASE, QEMU_UART_BASE
  <2>5. DeviceBlock(128).output = 128 /\ DeviceBlock(144).output = 144
    BY DEF DeviceBlock
  <2>6. \A e \in DeviceBlocks : L2Index(e.output) # L2Index(a)
    BY <2>2, <2>3, <2>4, <2>5
  <2>7. Level2(DeviceBlocks)[L2Index(a)] = Invalid
    BY <2>1, <2>6, Level2Is
  <2>8. a \div (L2_BLOCK_SIZE * TABLE_ENTRY_COUNT) = 0
    BY <1>1 DEF L2_BLOCK_SIZE, TABLE_ENTRY_COUNT
  <2>9. Entry(a) = visible.device[L2Index(a)]
    BY <2>8, TablesAre DEF Entry
  <2> QED
    BY <2>7, <2>9, TablesAre
<1>2. CASE 1152 <= a /\ a < 2048
  <2>1. L2Index(a) \in Index /\ L2Index(a) = a \div 2 - 512
    <3>1. 1024 <= a /\ a < 2048
      BY <1>2
    <3> QED
      BY <3>1, IndexIs
  <2>2. \A x \in RamBlocks : L2Index(x) # L2Index(a)
    <3> SUFFICES ASSUME NEW x \in RamBlocks
                 PROVE  L2Index(x) # L2Index(a)
      OBVIOUS
    <3>1. x \in Nat /\ 1024 <= x /\ x < 1152
      BY RamBlocksAre
    <3>2. L2Index(x) = x \div 2 - 512
      BY <3>1, IndexIs
    <3>3. x \div 2 < a \div 2
      BY <1>2, <3>1
    <3> QED
      BY <2>1, <3>1, <3>2, <3>3
  <2>3. \A e \in MappedRam : L2Index(e.output) # L2Index(a)
    BY <2>2, RamBlocksAre
  <2>4. Level2(MappedRam)[L2Index(a)] = Invalid
    BY <2>1, <2>3, Level2Is
  <2>5. a \div (L2_BLOCK_SIZE * TABLE_ENTRY_COUNT) = 1
    BY <1>2 DEF L2_BLOCK_SIZE, TABLE_ENTRY_COUNT
  <2>6. Entry(a) = visible.ram[L2Index(a)]
    BY <2>5, TablesAre DEF Entry
  <2> QED
    BY <2>4, <2>6, TablesAre
<1>3. CASE 2048 <= a
  <2>1. LET i == a \div (L2_BLOCK_SIZE * TABLE_ENTRY_COUNT) IN i = 2 \/ i = 3
    BY <1>3 DEF L2_BLOCK_SIZE, TABLE_ENTRY_COUNT
  <2>2. visible.level1[a \div (L2_BLOCK_SIZE * TABLE_ENTRY_COUNT)] = NoTable
    BY <2>1, TablesAre
  <2> QED
    BY <2>2 DEF Entry, NoTable
<1>4. a < 1024 \/ (1152 <= a /\ a < 2048) \/ 2048 <= a
  OBVIOUS
<1> QED
  BY <1>1, <1>2, <1>3, <1>4

(* What the walker makes of a descriptor, once translation is on and no     *)
(* older state is left in its way.                                          *)
LEMMA TranslateIs ==
  ASSUME Translating, NEW a \in Nat
  PROVE  Translate(a) =
             LET e == Entry(a)
             IN  IF e.valid
                 THEN <<e.output + (a % 2), effective.mair[e.attr + 1],
                        IF e.pxn THEN "data" ELSE "code">>
                 ELSE <<"fault">>
<1>1. tlb = "clean" /\ effective.ttbr0 = "level1" /\ effective.tcr.t0sz = 32
  BY DEF Translating, NewTcr
<1> QED
  BY <1>1, Zenon DEF Translate, L2_BLOCK_SIZE

LEMMA BlockTranslates ==
  ASSUME Translating, NEW a \in Nat, Entry(a).valid,
         NEW output, Entry(a).output = output,
         NEW memory, effective.mair[Entry(a).attr + 1] = memory
  PROVE  /\ Entry(a).pxn => Translate(a) = <<output + (a % 2), memory, "data">>
         /\ ~Entry(a).pxn => Translate(a) = <<output + (a % 2), memory, "code">>
BY TranslateIs

LEMMA TranslatingIs ==
  ASSUME Translating
  PROVE  /\ visible = build_translation_tables /\ reg.m
         /\ effective.mair[1] = "device nGnRnE" /\ effective.mair[2] = "normal WBWA"
<1>1. visible = build_translation_tables /\ reg.m /\ effective.mair = NewMair
  BY DEF Translating
<1>2. NewMair[1] = "device nGnRnE" /\ NewMair[2] = "normal WBWA"
  BY DEF NewMair
<1> QED
  BY <1>1, <1>2

(* The walk of each kind of address.                                        *)
LEMMA RamTranslates ==
  ASSUME Translating, NEW a \in Nat, 1024 <= a, a < 1152
  PROVE  Translate(a) = <<a, "normal WBWA", "code">>
<1> DEFINE b == 2 * (a \div 2)
<1>1. b + (a % 2) = a /\ b \in Nat
  OBVIOUS
<1>2. Entry(a) = RamBlock(b)
  BY TranslatingIs, RamEntry
<1> HIDE DEF b
<1>3. /\ Entry(a).valid /\ Entry(a).output = b
      /\ effective.mair[Entry(a).attr + 1] = effective.mair[2] /\ ~Entry(a).pxn
  BY <1>2 DEF RamBlock
<1>4. Translate(a) = <<b + (a % 2), effective.mair[2], "code">>
  BY <1>3, BlockTranslates, Zenon
<1> QED
  BY <1>1, <1>4, TranslatingIs, Zenon

LEMMA DeviceTranslates ==
  ASSUME Translating, NEW b \in {128, 144}, NEW a \in Nat, b <= a, a < b + 2
  PROVE  Translate(a) = <<a, "device nGnRnE", "data">>
<1>1. b + (a % 2) = a
  OBVIOUS
<1>2. visible = build_translation_tables
  BY TranslatingIs
<1>3. Entry(a) = DeviceBlock(b)
  BY <1>2, DeviceEntry
<1>4. /\ Entry(a).valid /\ Entry(a).output = b /\ Entry(a).pxn
      /\ effective.mair[Entry(a).attr + 1] = effective.mair[1]
  BY <1>3 DEF DeviceBlock
<1>5. Translate(a) = <<b + (a % 2), effective.mair[1], "data">>
  BY <1>4, BlockTranslates, Zenon
<1> QED
  BY <1>1, <1>5, TranslatingIs, Zenon

LEMMA OthersFault ==
  ASSUME Translating, NEW a \in Nat, a \div 1024 < 4, a < 1024 \/ 1152 <= a,
         a # 128, a # 129, a # 144, a # 145
  PROVE  Translate(a) = <<"fault">>
<1>1. visible = build_translation_tables
  BY TranslatingIs
<1>2. Entry(a) = Invalid
  BY <1>1, NoEntry
<1>3. ~Entry(a).valid
  BY <1>2 DEF Invalid
<1> QED
  BY <1>3, TranslateIs, Zenon

(* From the first instruction it is on, translation maps RAM as normal      *)
(* memory and the GIC and the UART as device memory, each address to        *)
(* itself, and faults for every other below 4 GiB; nothing it relies on is  *)
(* stale (mmu.c:177).                                                       *)
THEOREM TranslatesExactly == MmuSpec => []TranslationExact
<1>1. ASSUME MmuInv, (reg.m /\ at = "install") \/ kernel = "running"
      PROVE  Translating
  <2>1. CASE kernel = "running"
    BY <1>1, <2>1 DEF MmuInv, Running
  <2>2. CASE kernel # "running" /\ reg.m /\ at = "install"
    <3>1. kernel = "boot" /\ Booting /\ step \in 0 .. 11
      BY <1>1, <2>2, RegistersAre DEF MmuInv, Parked
    <3>2. Progress /\ step > 9
      BY <2>2, <3>1 DEF Booting, Progress
    <3> QED
      BY <2>2, <3>1, <3>2 DEF Progress, Translating
  <2> QED
    BY <1>1, <2>1, <2>2
<1>2. ASSUME MmuInv
      PROVE  TranslationExact
  <2> SUFFICES ASSUME (reg.m /\ at = "install") \/ kernel = "running"
               PROVE  /\ reg.m
                      /\ \A a \in RamAddresses : Translate(a) = <<a, "normal WBWA", "code">>
                      /\ \A a \in DeviceAddresses :
                             Translate(a) = <<a, "device nGnRnE", "data">>
                      /\ \A a \in Addresses \ (RamAddresses \cup DeviceAddresses) :
                             Translate(a) = <<"fault">>
    BY DEF TranslationExact
  <2>1. Translating
    BY <1>1, <1>2
  <2>2. reg.m
    BY <2>1, TranslatingIs
  <2>3. ASSUME NEW a \in RamAddresses
        PROVE  Translate(a) = <<a, "normal WBWA", "code">>
    <3>1. a \in Nat /\ 1024 <= a /\ a < 1152
      BY DEF RamAddresses
    <3> QED
      BY <2>1, <3>1, RamTranslates
  <2>4. ASSUME NEW a \in DeviceAddresses
        PROVE  Translate(a) = <<a, "device nGnRnE", "data">>
    <3>1. PICK b \in {128, 144} : a \in Nat /\ b <= a /\ a < b + 2
      BY DEF DeviceAddresses
    <3> QED
      BY <2>1, <3>1, DeviceTranslates
  <2>5. \A a \in Addresses \ (RamAddresses \cup DeviceAddresses) : Translate(a) = <<"fault">>
    <3>1. \A a \in Nat : /\ a \div 1024 < 4 /\ (a < 1024 \/ 1152 <= a)
                        /\ a # 128 /\ a # 129 /\ a # 144 /\ a # 145
                        => Translate(a) = <<"fault">>
      BY <2>1, OthersFault
    <3>2. \A a \in Addresses \ (RamAddresses \cup DeviceAddresses) :
              /\ a \in Nat /\ a \div 1024 < 4 /\ (a < 1024 \/ 1152 <= a)
              /\ a # 128 /\ a # 129 /\ a # 144 /\ a # 145
      BY DEF Addresses, RamAddresses, DeviceAddresses
    <3> QED
      BY <3>1, <3>2
  <2> QED
    BY <2>2, <2>3, <2>4, <2>5
<1> QED
  BY <1>2, MmuInvHolds, PTL
=============================================================================
