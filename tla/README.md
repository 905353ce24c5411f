# Verification of the ARM64 QEMU Mini OS kernel

TLA+ models of the kernel in `src/src`, the TLC configurations that check them
on small instances, and TLAPS proofs of the theorems that hold for every value
of the constants.  Line numbers refer to `src/src/*.c` unless another file is
named.

Run, in this directory:

    tlc -workers 2 -config MCTaskSched.cfg MCTaskSched    # a model-checking run
    tlapm TaskProofs.tla                                  # a proof module

## 1. The system

The kernel runs on one CPU (`QEMU virt`, GICv2, PL011 UART, generic timer).
Nothing is preemptive except interrupts: `irq_entry_common`
(`exception_vectors.S:68`) saves the registers on the stack of whatever runs,
calls `irq_handle` with IRQs masked, and returns to the interrupted
instruction.  Tasks switch only in `task_yield` and `task_exit`.  Nothing is
persisted: a reboot starts over.

### Inventory

| component | source | state | operations | what is hard | what makes it correct |
|---|---|---|---|---|---|
| physical page allocator | `page_alloc.c` | `managed_start`, `bump_next`, `free_list`, two counters; the links are kept *in* the released pages | `page_alloc_init`, `page_alloc`, `page_free`, three readers | a link lives in memory that is about to be cleared or reused; a double release must be found by walking the list; the edges of RAM | no page lost or owned twice, no cycle, pages come cleared, pages held are not touched |
| cooperative scheduler | `task.c`, `task.h`, `task_switch.S` | a table of slots (state, saved context, stack page, canary flag), `current_task`, statistics | `task_init`, `task_create`, `task_bootstrap`, `task_yield`, `task_exit`, `task_reap`, `task_reap_finished` | contexts that name stacks which may be released; an overflow at any instruction, also between the canary check and the switch; slots and pages reused in any order | every task on its own stack, a switch always possible, no stack lost or shared, nobody starves, a damaged stack never reused |
| shell commands over the two | `shell.c:256`–`447` | locals of `command_taskdemo` in the shell's frame, read by the workers | `memtest`, `taskdemo` with its error paths | tasks hold pointers into a frame; too few pages or slots half way; a worker ended by an overflow | the frame outlives the workers, everything is given back, the command returns |
| UART receive path | `uart.c:47`–`158`, `209`–`246` | ring buffer with free-running 32-bit indices, five counters, the hardware FIFO | `uart_handle_interrupt`, `uart_getc`, `uart_init` | the handler runs between any two instructions of `uart_getc`; check-then-WFE; full buffers | a bounded FIFO queue; the shell never sleeps over a byte |
| timer and sleep | `timer.c`, `command_sleep` | `tick_count`, `next_deadline`, `tick_interval`, the compare register | `timer_init`, `timer_handle_interrupt`, `timer_sleep_ticks` | handlers that come late by several intervals; time passes inside the handler; check-then-WFE on an event register others use too | ticks do not drift and are counted once; a sleep ends on its tick and does end |
| interrupt dispatch, GIC | `irq.c`, `gic.c` | GIC registers, `unexpected_count` | `gic_init`, `gic_enable_interrupt`, `irq_handle` | spurious acknowledges, matching ends, level-triggered lines, order of enabling | a handler runs only when its device is set up and has work; each interrupt is ended once with the value read; none is lost, no wait sleeps for ever |
| exceptions | `exception.c`, `exception_vectors.S` | none | report and halt | a fault inside the report | halts without returning |
| console line editor | `console.c` | line, length, ring of 8 history lines, draft, escape-sequence state | `console_readline` | arrow keys, edits and Enter in any order over a wrapping ring | the line returned is the one shown; the draft comes back |
| UART output | `uart.c:160`–`207` | none | `uart_putc`, `uart_puts`, `uart_put_hex64`, `uart_put_uint64`, `uart_flush` | a digit buffer that the largest number must fit | the number printed is the number |
| command line parser | `shell.c:26`–`178` | the line, rewritten in place | `parse_arguments`, `parse_uint64` | the write position chases the read position; 2^64 | same words as a parser that copies; no overflow |
| MMU | `mmu.c` | three tables, control registers | `mmu_init`, `build_translation_tables` | order of the writes, unknown boot states | the identity map, with the right attributes, from the first instruction on; a machine it does not understand is not touched |
| boot, kernel entry | `boot.S`, `kernel.c` | `.bss` | `_start`, `kernel_main` | the order of initialisation | every subsystem ready before interrupts are unmasked |
| power control | `platform.c` | none | two PSCI calls | – | – |

### How the components interact

* `kernel_main` (`kernel.c:11`) calls `mmu_init`, `page_alloc_init`,
  `task_init`, `gic_init`, `uart_init`, `timer_init`, then unmasks IRQs and
  enters the shell, which is task 0 on the boot stack.
* `task_create` takes a stack page from the page allocator and `task_reap`
  returns it.  `memtest` uses the allocator directly.
* The handlers communicate with the shell through the ring buffer and
  `tick_count`, and wake it through the CPU's event register (`SEV`/`WFE`),
  which UART and timer share.
* An interrupt uses the stack of the current task, so it can overflow it.

`PROJECT.json` lists the hazards at their lines, with the properties that cover
each of them.

## 2. The modules

    PagePool            what the allocator promises
      ^ refines
    PageHeap            page_alloc.c as operators on one heap record
      |  \
      |   PageAlloc     the allocator with an arbitrary caller     <- MCPageAlloc
      |     \
      |      PageAllocProofs   (PageHeapProofs: lemmas on the operators)
      |
    TaskSched           task.c over PageHeap, with arbitrary tasks <- MCTaskSched
      |
    TaskDemo            memtest and taskdemo over TaskSched        <- MCTaskDemo
      |
      TaskProofs               (of both; uses PageHeapProofs)

    RxQueue             what the receive path promises
      ^ refines
    UartRx              uart.c, handler against uart_getc          <- MCUartRx
      |
      UartRxProofs

    Timer               timer.c, handler against sleep             <- MCTimer
      |
      TimerProofs

    Interrupts          kernel_main, gic.c and irq.c, composing
      |                 both handlers with both waits of the shell <- MCInterrupts
      | Mmu             mmu.c and the table walk                   <- MCMmu
      | /
      MachineProofs            (of both)

    LineEditor          what the line editor promises
      ^ refines
    Console             console.c                                  <- MCConsole
      |
      ConsoleProofs

    ShellParse          parse_arguments                            <- MCShellParse
      | Numbers         parse_uint64, its callers, uart_put_uint64 <- MCNumbers
      | /
      ShellProofs              (of both)

### PageHeap, PageAlloc, PagePool

The static variables of `page_alloc.c` and the RAM are one record, `heap`, and
`page_alloc_init`, `page_alloc` and `page_free` are operators from a heap to a
heap and a result, so that `PageAlloc`, `TaskSched` and `TaskDemo` use the same
code.  RAM is an array of page frames.  Of a page's contents the model keeps
the first word, where the C code keeps the link, and whether anything else in
it is not zero.  A pointer is a pair of a page and an offset, because
`page_free` also looks at misaligned ones.  `page_free`'s walk for a double
release is membership in the set of pages reached from `free_list`
(`FreeList`, the least set closed under the links); the invariant `HeapInv`
shows that the walk ends.

`PageAlloc` adds a caller who may do anything the interface allows: call in any
order, also before `page_alloc_init`, pass any pointer, and write any value
into the pages it holds, values that look like links included.  `PagePool` is
the promise: a set of pages that are out, an allocation that fails only if all
are, and a release that succeeds for exactly those.

### TaskSched

`tasks`, `current_task`, the statistics and the heap are the variables of
`task.c`.  `cpu` is the running context: the stack in use (`sp`) and the point
reached in the C code (`pc`).  `task_context_switch` is modelled by what it
does to those two: it saves the one, loads the other, and execution goes on
where that context was saved.  The other callee-saved registers move with them
and are not told apart.

`task_yield` and `task_exit` are split at the call of the switch (and
`task_exit` once more after its canary check), since an interrupt can overflow
the stack in between.  `StackOverflow` is enabled at every point and overwrites
the lowest word, where the canary is.  An overflow that reaches the page below
is not modelled: the kernel has nothing that would notice it.  `spinning` says
that task 0 called `task_exit`, which loops in l.186 instead of ending the
shell; `bypassed` is a history variable that counts how often each ready task
was passed over.  Tasks run
arbitrary code: any call allowed at `pc = "body"`.

### TaskDemo

The commands as programs over the actions of `TaskSched`.  `shell_pc` is the
place in `shell.c`; each loop turn of `memtest` that calls the allocator and
each call of `taskdemo` is an action.  The two loops of `memtest` that write and read
the patterns (l.274–291) are one action: nobody else runs or holds these pages
meanwhile.  The failure result of `task_finished_state` (l.412, 426) is left out: it
needs an id `task_create` never returns, or a call before `task_init`
(`task.c:265`).  `workers_rounds` is `workers[]` in the frame of `command_taskdemo`; it
becomes `Garbage` when the command returns, so a worker that outlived the frame
would be seen to read it.  The pages `memtest` holds are the `client_pages` of
`TaskSched`, so that its calls of the allocator are the scheduler's `ClientAlloc`
and `ClientFree`.

### UartRx, RxQueue

The model starts in `uart_init`, when the receiver has been turned on
(`uart.c:128`) and bytes may arrive while it drains the FIFO, clears ICR and
unmasks.  `isr` and `getc` are the places in `uart_init` or
`uart_handle_interrupt`, and in `uart_getc`.  The handler is taken between any two steps of `uart_getc`, which is cut at each
access to shared state, and `uart_getc` runs only while no handler does.  The
hardware (bytes, errors, the receive timeout, a full FIFO) interleaves with
both.  `RxQueue` is a bounded queue with a drop counter; the mapping reads the
ring from `rx_tail` to `rx_head`.

The PL011 raises RX when a byte brings the FIFO to the trigger level, not while
it stays above it; `Timeout` says whether there is a receive timeout, which the
device has and QEMU's model of it has not.  `silenced` is a history variable: it
is set when the write of all ones to ICR (l.132) took the interrupt of bytes
that are in the FIFO and no timeout is to come.

### Timer

`counter` is the generic timer's counter; it may advance between any two steps,
so the handler can be late by any number of intervals and time also passes
inside it.  `line` is what the GIC sees of the timer's condition; it follows
with a delay, so an interrupt may be taken whose cause has gone, which is what
the test in l.55 is for.  `booted` and `called` are history variables.

### Interrupts

The composition: `kernel_main`'s list of calls, a GIC that holds for each
interrupt whether it is enabled, latched, level-triggered, targeted and active,
the two devices with one line each and a third device no driver knows,
`irq_handle`, and the shell in `uart_getc` or in `timer_sleep_ticks`.  The device
handlers are those of `UartRx` and `Timer` reduced to what matters here: the
work they find, when their line falls, and SEV.  A line that a handler lets fall
stays up for the GIC until the next DSB at the latest; `gic_end_interrupt` has
one before it writes EOIR.

A byte raises the UART's line at any time after `uart_init`.  The gap in `uart_init`
between draining the FIFO and clearing ICR (`uart.c:129`–`132`) is the subject of
`UartRx`, and `WaitsEnd` says nothing of it.  Nor are the UART's error interrupts
here, and with them the handler's write of ICR, which clears only those.

The two detailed models assume part of what is shown here.  `UartRx` enters its
handler only while an unmasked condition holds, which is `HandlerHasWork`, and
both assume that a handler runs to its end alone (`ActiveWhileHandled`) and that
their interrupt stays deliverable (`WaitsEnd`).  `Timer` does not use
`HandlerHasWork`: its code tests for an interrupt whose cause has gone.

The firmware may leave all interrupts enabled, latched, edge-triggered or
without a target.  None is active when the kernel starts: nothing in `gic.c`
would end one.

### Console, LineEditor

One action is the handling of one key by one turn of the loop in
`console_readline`, with what it writes to the terminal.  A buffer is the
sequence of characters before its NUL; `screen` is the terminal's row up to the
cursor.  The terminal is one unwrapped row, wide enough for the prompt and a full
line: on a narrower one `\b \b` does not go back over the wrap, and the models say
nothing of that.  `Up` and `Down` are the characters `A` and `B`, which are also ordinary
input, so a sequence that is broken off is seen to fall back to typing.  The
mapping to `LineEditor` reads the ring backwards from `history_next`.

### ShellParse, Numbers

`ShellParse` has one action per branch of `parse_arguments`, over one buffer with
a read and a write cursor; `Reference` is a parser that copies: a state machine
(`Take`) run over the characters of the line by a recursive function (`After`).
The number a digit string stands for is the recursive function `Value`.
`Numbers` follows a command's argument through
`require_argument_count`, `parse_uint64` and the range checks of `command_sleep`
and `command_taskdemo`, with arithmetic modulo `UintMax + 1`, and a counter
through `uart_put_uint64`.

### Mmu

`mmu_init` with each instruction of its two asm statements a step.  `tables` and
`reg` are what the code wrote; `visible` and `effective` what the table walker and
translation use, which follow at a DSB and an ISB.  This is the weakest reading
of the architecture: a store or a register write may be seen earlier.
`Translate` is the walk; the property compares it with the identity for every
MiB of the 4 GiB T0SZ leaves.

### Conventions

Two hardware assumptions make the models weaker than the machine, so the
results do not rest on them: only the event register ends a WFE (really an
interrupt does too), and the return from an exception does not set it (really
it does).  Definitions with the comment "Faulty variant" are not part of any
specification.  They are the plausible bugs used to confirm that each property
can fail: `PROJECT.json` names, for each property, the variant that breaks it.
`DemoTypeOK`, `ConsoleTypeOK` and `UartRx`'s `TypeOK` document the variables;
no run lists them, since the properties beside them leave them nothing to find;
they are proved (section 4), as part of the inductive invariants.

## 3. What is checked

| run | instance | distinct states | what it shows |
|---|---|---|---|
| `page_alloc` | 4 pages of RAM, 3 managed, kernel end inside a page, two contents of a word, one of them a valid link | 43 k | no page lost, shared or miscounted; a walk of the list meets exactly the released pages; pages come cleared; held pages are untouched; refines `PagePool` |
| `task_sched` | 4 slots (the code has 4), 3 pages, 4 creations, 4 yields | 1.5 M | every switch lands on the right stack; stacks are owned by one slot; the counters agree with the slots; bounded bypass; overflowed stacks are kept, overflowed tasks end |
| `task_demo` | 4 slots, 4 pages, 3 commands, `taskdemo` of 1 to 3 rounds, overflows anywhere; slots run out before pages do, as on the real machine (the theorem `NothingLeftBehind` covers the other order) | 83 k | the frame outlives the workers; only damaged stacks are missing at the prompt; strict turns and the number of switches the boot test expects; `memtest` takes nothing and passes iff three pages are free; each command returns |
| `uart_rx` | ring of 2, indices modulo 4, FIFO of 2 with trigger 2 and timeout, 5 bytes | 337 k | refines `RxQueue`; no byte unaccounted; no lost wake-up; a waiting `uart_getc` returns |
| `uart_rx_boot` | FIFO of 2 with trigger 1 and no timeout (QEMU), 3 bytes | – | expected violation, see Findings |
| `timer` | intervals of 1 and 3 counts, 9 counts, sleeps of 0 and 1 s (2 ticks) | 148 k | ticks follow time without drift and catch up; a sleep ends on its tick, not before it, and does end |
| `timer_sleep_time` | intervals of 3 counts only | – | expected violation, see Findings |
| `interrupts` | 2 deadlines, 2 bytes, 1 pulse of an unknown device, any firmware state | 355 k | handlers run only once set up and with work to do; every interrupt is ended; both waits of the shell end |
| `console` | lines of 2 characters, 2 history lines, four printable characters | 2.5 M | the screen shows the line; refines `LineEditor` |
| `shell_parse` | all lines of up to 6 characters, at most 2 arguments | 156 k | text still to be read is never overwritten; results and arguments are those of the copying parser |
| `numbers` | 8-bit numbers, arguments of up to 4 characters | 128 k | a command works with exactly the number written or refuses it; a number printed is the number |
| `mmu` | the real map, every state of the firmware | 372 | the identity map holds from the instruction that turns it on; a machine that is refused is untouched |

**Why the bounds are enough.**  Three managed pages allow a free list of every
length and order relative to the bump pointer, with a middle element, which is
what the link operations can get wrong.  Four slots are the size of the code's
table; three pages are fewer than the slots need if one is held by other code,
so both limits are met; four creations reuse a slot and a page after a reap, and
four yields bring each of three tasks back once.  `MaxCreates` and
`MaxYields` bound the counters only and are lifted by the proofs.  Five bytes
with a ring and a FIFO of two fill and overflow both and wrap the indices.  `console`
fills a line and wraps the ring with both lines different, and recalls a full
line and edits it on; "O" is not among its characters, so the branch for SS3,
which differs from CSI in nothing but its name, is not reached.  Six characters
hold two arguments and the start of a third, a quoted space, an escaped quote
and every unterminated form.  Four digits exceed 8 bits by more than a factor of
ten, so a test that wraps twice would be seen; `SleepMax` and `MaxRounds` lie
below the limit as the code's do; the proofs hold for lines, arguments and
integers of any size.  `interrupts` gives each device one event
while the other is being handled and one after.  Nine
counts contain a sleep of two ticks of three counts begun in the middle of
one, and a handler two intervals late.

**Fairness.**  `TaskDemo` assumes weak fairness of `CpuStep`: one CPU executes
instructions, so a step of the current task that stays possible is taken.
Nothing makes the user enter a command or a stack overflow, and nothing chooses
between tasks: that the shell gets the CPU back is the scheduler's merit.
`UartRx` and `Timer` assume it of the device (it raises its interrupt while the
condition stays), of the handler (a pending unmasked interrupt is taken, its
code runs on), and of the interrupted code.  `Interrupts` assumes it of the
steps of `kernel_main`, `irq_handle` and the shell's waits, since the CPU runs
on; of `LineFalls`, since a line that its device released is seen falling some
time; and of `OtherFalls`.  The last is a real assumption about the machine:
`irq_handle` counts an unknown interrupt and leaves it enabled, so a line
without a driver that stayed up would be taken for ever and the shell would
stand still.  Bytes, deadlines, other events and the passing of time are not
fair.

**Findings.**

* `sleep <seconds>` is documented to return after that time (`README.md:136` of
  the source; `timer.c:85` says it does not end early).  The code counts from
  the last tick before the call, so the time slept is up to one interval (10 ms)
  shorter.  `SleepLastsItsTime` states the documented promise, for sleeps called
  when no tick was waiting to be counted, and is violated; `SleepEndsOnTick`
  states what the code does keep.
* A byte that arrives while `uart_init` is between turning the receiver on
  (`uart.c:128`) and clearing ICR with all ones (`uart.c:132`), after the drain
  between the two has passed, stays in the FIFO without an interrupt.  With
  QEMU's PL011, which has no receive timeout and raises RX only when the FIFO
  reaches the trigger level, the next byte raises none either, so the shell waits
  over a FIFO that fills up; only an overrun would raise an interrupt again.
  `ReceivedByteReturned` states that a waiting `uart_getc`
  returns when a byte was received and is violated by `uart_rx_boot`;
  `WaitingGetcReturns`, which excepts the silenced bytes, holds.  Clearing ICR
  before the drain would close the gap.

Deadlock checking is off in the runs whose system may stop: a shell nobody types
to, an exhausted counter bound, a command that was parsed.  In `console` a key
can always come, and it is on.

## 4. What is proved

Proofs hold for every value of the constants that satisfies the assumptions in
the modules: any page size, RAM and kernel end, any number of slots, any
values written into pages, any number of calls.

**PageHeapProofs** has the lemmas about the operators: from a heap that
satisfies `HeapType` and `HeapInv(h, held)`, where `held` are the pages that are
out, `page_alloc` (`PopInv`, `BumpInv`, `AllocInv`), `page_free` (`FreeInv`) and a
write into a held page (`WriteInv`) lead to one that does, with the results the
code promises.  `HeapInv` says: the bounds and counters fit
(`BoundsOK`); the head and every link stay among the released pages
(`LinksInside`), so a page that is held is never popped; no page is linked
twice (`LinksOnce`), so nothing links to a page after it was popped; every
released page is on the list (`NoneLost`) and the list has no cycle
(`LinksEnd`).  The last two speak of all sets of released pages instead of paths
through the list, so that one pop or push can be followed without induction
along the list.

**PageAllocProofs** concludes `TypeCorrect`, `HeapSafe`, `FreeListIsExact`,
`AllocationIsFresh`, `HeldPagesUntouched` and the refinement
`AllocatorRefinesPool` (initial states map to initial states, each step to a
step of `PagePool` or to a stutter).

**TaskProofs**, for `TaskSched`, proves `TypeCorrect`, `ExitSwitches`, `EveryTaskOnItsStack`,
`StacksAreOwned`, `SchedulerIsFair`, `OverflowIsKept`, `CorruptionEnds` and
`CountersCorrect`.  The inductive invariant `IInv` is

* `TypeOK`, `OnOwnStack`, `StacksOwned`: wanted themselves;
* `BeforeInit`: before `task_init` the tables are as `boot.S` cleared them;
* `Running`: which slot is RUNNING at each point inside `task_yield` and
  `task_exit`, and that the shell is always ready or running.  This is why
  `find_next_ready` in `task_exit` cannot fail, hence `ExitAlwaysSwitches`;
* `Corrupted`: a slot marked corrupted is finished or about to finish, so the
  scheduler cannot pick it;
* `Waiting`: `bypassed[t]` plus the distance from the current slot to `t` is at
  most `TaskMax - 1`.  Every switch shortens the distance of the slots it
  passes by at least one, so `BoundedBypass` follows.  That the search returns
  the nearest ready slot uses the least-number principle (`LeastNumber`).

There is one lemma per action, and the page-allocator lemmas are cited where an
action calls the allocator.  The counters rest on a second invariant over
`IInv`, `Counts`: each counter is the cardinality of a set of slots, which a step
changes by one slot at most, and `SwitchAhead`: between its count and its switch
a call of `task_yield` or `task_exit` is one the switches are behind, without
which `context_switches` could overtake the two.

**TaskProofs** then takes the shell's commands on top.  Every step of `TaskDemo` is
a step of `TaskSched`, or `WritePatterns`, which writes into pages the client
holds (`NextIsSched`), so `IInv` and `Counts` hold under the commands
(`SchedKept`).  The invariant `DemoInv` adds

* `Control`: where the shell is says whether it runs: outside the two waiting
  loops of `taskdemo` it is the current task;
* `WorkerSlots`: at each place of `command_taskdemo`, which slots can hold a task
  that will run again.  All others are `Settled`, free or kept for good, and no
  step of another task unsettles one.  `FrameOutlives` follows: a task that can
  run is `first` or `second` of a command that has not returned;
* `MemtestInv`: at each place of `command_memtest`, which pages its `pages[]`
  names, that `page_free_pages()` is short of `free_before` by exactly those, and
  that the test passes so far if and only if three pages were free.  It needs
  to know which page heads the free list after the releases (`FirstFreed`,
  `OldPageFirst`), since the last part of the test asks for one of the three
  pages back.  `MemtestIsNeutral` follows.

`NothingLeftBehind` joins the two: with no client page and all slots settled, the
pages in use are the stacks of the slots marked corrupted, counted by
`stack_errors`.

`WorkersAlternate` and `CostIsExact` rest on a further invariant over `DemoInv`,
`TurnsInv`.  As long as no overflow was noticed since the command was entered,
`BothWork` says whose turn it is, how many lines each worker has printed
(`Lines`, which reads the loop variable only of a task that was dispatched), that
a worker is ready until its last line and finished after it (`Progress`), and what
`context_switches`, `yield_calls` and `exited_tasks` are as a function of those
lines (`TurnOfShell`, `TurnOfA`, `TurnOfB`).  It needs `first < second`, which
`OneCreated` provides from the search of `task_create`: only then does the cyclic
search of `find_next_ready` go from the shell to A, from A to B and from B to
the shell (`TurnGoesTo`).

**UartRxProofs** begins with arithmetic modulo the size of the ring and of the
indices, one of which divides the other.  Its invariant `IInv` joins
`BytesInOrder` (the ring holds bytes that arrived before those in the FIFO),
`Counted` (`rx_head` and the counters agree with the bytes that took each path),
`ByteInHand` (what `uart_getc` knows between its check and the end of the pop) and
`WakeUpComes` (a byte in the ring has left an event or its handler is still to
execute SEV).  From it follow `TypeCorrect`, `BytesAccounted`, `WakeupNotLost` and
the refinement of `RxQueue`, `ImplementsQueue`: the handler's store is `Receive`
or a counted drop, the reader's advance of `rx_tail` is `Return`, every other step
is a stutter.

**TimerProofs** proves `TypeCorrect`, `TicksOnGrid` and `SleepEndsInTime`.  The
invariant `OnGrid` says that `next_deadline` is the time of the tick after
`tick_count`, and what the handler has counted when it leaves; that a division of
the time missed counts exactly the deadlines passed is `CountIsExact`.

**MachineProofs**, for `Interrupts`, proves `TypeCorrect`, `HandlersAreReady`, `NoneLeftActive` and
`HandlersHaveWork`.  The invariant joins `Prepared` (interrupts are unmasked after
the set-up steps), `OneActive` (the interrupt active in the GIC is the one whose
acknowledge value the handler holds) and `LineMeansWork` (a line that is up and
not yet falling has work behind it; none is falling when the next interrupt is
taken, because of the DSB in `gic_end_interrupt`).

For `Mmu` it proves `RefusesUntouched` and `TranslatesExactly`.  The invariant
`MmuInv` says what holds before the kernel runs (`Booting`), when it runs
(`Running`) and when it was stopped (`Parked`).  Between the first instruction and
the last, `Progress` relates the instruction reached to the registers written, to
those in force and to the state of the TLB, so that `Translating` follows where
`SCTLR_EL1.M` is set: the tables built are the tables seen, and nothing older is.
The map is then computed for an arbitrary address (`DeviceEntry`, `RamEntry`,
`NoEntry`): two blocks never share an entry of a table, so the descriptor found is
the one `map_device_block` or the loop over RAM wrote for that address.

**ConsoleProofs** proves `TypeCorrect`, `ScreenIsLine` and the refinement of
`LineEditor`, `ImplementsEditor`, for every length of a line, depth of the history
and alphabet.  The invariant is `ConsoleTypeOK` and `ScreenShowsLine`; the
refinement rests on lemmas about the ring of history lines read backwards
(`AddsToFront`, `KeyUpIsOlder`, `KeyDownIsNewer`).

**ShellProofs**, for `ShellParse`, proves `ParseStaysInBounds`, `UnreadStaysIntact`
and `ParsesInPlace`, for lines of any length.  The invariant `ParseInv` says that
the buffer and its cursors mirror the state of the copying parser after the
characters read (`Mirrors`): the same words, stored one behind the other and each
followed by its NUL, the same open word up to `write_cursor`, the same quote.  The
write cursor stays behind the read cursor because an argument starts at or before
its first character and each step reads at least as much as it writes.  When the
parser returns, `Returned` compares it with `Reference`; an early return for too
many arguments needs that the number of words never shrinks (`BegunMonotone`).

For `Numbers` it proves `NumbersAreExact`.  The invariant `NumbersInv` says that
`result` is the value of the digits read (`ReadingInv`), that `digits` are the last
digits of the counter and `value` is what is left of it (`PrintingInv`), and that
an outcome is the one the number written calls for (`OutcomeExact`).  That
a rejected digit string stands for a number above `UintMax` follows since a
number only grows with further digits (`ValueMonotone`); that the digits fit their
buffer, from the powers of ten (`TenToTheMonotone`).

`After`, `Value` and `TenToThe` are recursive functions, and the library's
induction theorem, which takes a predicate, is of no use to the provers.  So
induction is stated for sets of numbers (`Induction`, from `LeastNumber`, which
the library's theorem on minimal elements gives), and with it
`RecursionExists` shows that the function a recursive definition describes does
exist, which is what unfolding the definition takes (`AfterDef`, `ValueDef`,
`TenToTheDef`).  The assumptions on the constants are those of the code: the limits
of the commands fit a `uint64_t`, also in ticks, and `digits[]` has a place for
each digit of `UINT64_MAX`.

The inductive invariants were checked by TLC on the instances of section 3
before they were proved.

**Only model-checked.**  Liveness (`DemoReturns`, `WaitingGetcReturns`,
`TicksCatchUp`, `SleepReturns`, `WaitsEnd`), since it needs fairness and `ENABLED`,
which the provers do not handle.  Every other property of
the passing runs is a theorem.

## 5. What is not modelled

| part | why |
|---|---|
| `uart_putc`, `uart_puts`, `uart_put_hex64`, `uart_flush` | poll the hardware and keep no state; the transmitter is always ready in the end |
| `uart_init` before the receiver is on | nothing can arrive; its register writes start from no state that matters |
| `execute_command` and the commands that only print (`help`, `info`, `mem`, `mmu`, `tasks`, `echo`, ...) | choose by name and read; nothing changes state that another part depends on |
| fatal exceptions (`exception.c`, the fatal vectors) | IRQs are masked, the registers are printed and the CPU is parked for good: no state follows.  `StackOverflow` of `TaskSched` covers the one way the IRQ entry damages what it interrupts |
| saving and restoring registers in `irq_entry_common` and `task_context_switch` | only `sp` and the place in the code are told apart |
| secondary CPUs | `boot.S` parks them |
| `platform.c` | two PSCI calls that do not return |
| interrupt priorities | the kernel gives all the same |
| interrupts left active by the firmware | the kernel has nothing that would end them |
| the cache | `mmu_init` refuses to run with it on and never turns it on |
| 64-bit wrap of counters | unreachable in practice (centuries); the 32-bit ring indices do wrap in the model |
| `Makefile`, `tests/qemu_smoke.py` | not part of the program |

## 6. Plan

The modules of the plan are written and checked, and every safety property is
proved.  What is left:

1. The refinement of `PagePool` by `TaskSched`'s use of the allocator, so that the
   scheduler's proofs could cite the abstract pool instead of `HeapInv`.
