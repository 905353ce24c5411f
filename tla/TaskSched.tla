------------------------------ MODULE TaskSched -------------------------------
(***************************************************************************)
(* The cooperative scheduler of src/task.c and src/task_switch.S on top of *)
(* the page allocator: task slots, stack pages with a canary in their      *)
(* lowest word, and the one CPU that moves between the stacks.             *)
(*                                                                         *)
(* Every task, the shell (task 0, on the boot stack) included, is          *)
(* arbitrary code that calls the scheduler's functions in any order the    *)
(* comment at task.h:76 allows, that is never from an interrupt handler.   *)
(* Interrupts do not touch the scheduler's state, but they push their      *)
(* frame on the stack of the task they interrupt, inside task_yield and    *)
(* task_exit too.  The two functions are therefore cut after the canary    *)
(* check, so that a stack can overflow on either side of the cut.          *)
(***************************************************************************)
EXTENDS PageHeap

CONSTANTS
    TaskMax,       \* TASK_MAX_COUNT
    Entry,         \* the functions, with their argument, tasks are created with
    NoEntry,       \* a null task_entry_t
    Spill,         \* what an overflowing stack may leave in its lowest word
    MaxCreates,    \* bound: successful calls of task_create
    MaxYields      \* bound: counted calls of task_yield

ASSUME TaskMaxAssumption == TaskMax \in Nat \ {0}
ASSUME EntryAssumption == NoEntry \notin Entry
ASSUME SpillAssumption == Spill \subseteq Nat
ASSUME BoundAssumption == MaxCreates \in Nat /\ MaxYields \in Nat

VARIABLES
    heap,          \* the page allocator and the RAM it manages
    initialized,   \* has task_init run?
    tasks,         \* the task slots
    current_task,
    stats,         \* the six counters of task.c
    cpu,           \* which stack sp points into, and where the CPU is
    reap_cursor,   \* task_id in the loop of task_reap_finished
    client_pages,  \* pages that code outside task.c allocated
    spinning,      \* has task 0 called task_exit, never to return?
    bypassed       \* history: dispatches of others while a task was ready

schedVars == <<heap, initialized, tasks, current_task, stats, cpu,
               reap_cursor, client_pages, spinning, bypassed>>

TaskId == 0 .. TaskMax - 1

(* A stack is named by its page; the boot stack, which is not a page of the *)
(* allocator, by the NULL that tasks[0].stack_page holds.                   *)
BootStack == Null

State == {"UNUSED", "READY", "RUNNING", "FINISHED"}

(* Where the CPU, or a saved context once it is resumed, continues.         *)
(*   body              in the task's own code, between calls                *)
(*   task_bootstrap    first dispatch: x30 is task_bootstrap                *)
(*   task_yield        after the canary check of task_yield                 *)
(*   task_exit         at the entry of task_exit                            *)
(*   task_exit_switch  in task_exit after its slot became FINISHED          *)
(*   task_reap_finished  in the loop of that function                       *)
(*   parked            in the wfe loop at the end of task_exit              *)
Point == {"body", "task_bootstrap", "task_yield", "task_exit",
          "task_exit_switch", "task_reap_finished", "parked"}

Context == [sp : Nat, pc : Point \cup {"none"}]

Slot ==
    [context : Context, entry : Entry \cup {NoEntry}, stack_page : Nat,
     state : State, stack_corrupted : BOOLEAN, schedule_count : Nat]

Stats ==
    [created_tasks : Nat, context_switches : Nat, yield_calls : Nat,
     exited_tasks : Nat, reaped_tasks : Nat, stack_errors : Nat]

clear_context == [sp |-> 0, pc |-> "none"]

clear_slot ==
    [context |-> clear_context, entry |-> NoEntry, stack_page |-> Null,
     state |-> "UNUSED", stack_corrupted |-> FALSE, schedule_count |-> 0]

-----------------------------------------------------------------------------
(* Helpers of task.c *)

(* One value per task; none of them is the address of a page. *)
stack_canary(t) == RamEnd + 1 + t

stack_canary_ok(t) ==
    \/ tasks[t].stack_page = Null
    \/ heap.word[tasks[t].stack_page] = stack_canary(t)

(* record_stack_error marks the slot and counts the error once. *)
NewlyCorrupted(t) == ~tasks[t].stack_corrupted /\ ~stack_canary_ok(t)

(* Faulty variant: an error already recorded is counted again. *)
ErrorsAfter_again(t) ==
    stats.stack_errors + (IF stack_canary_ok(t) THEN 0 ELSE 1)

Marked(t) ==
    [tasks EXCEPT ![t].stack_corrupted = @ \/ ~stack_canary_ok(t)]

ErrorsAfter(t) ==
    stats.stack_errors + (IF NewlyCorrupted(t) THEN 1 ELSE 0)

(* The steps from one slot to another in the order of the slots, cyclically. *)
Distance(from, to) == IF to > from THEN to - from ELSE to + TaskMax - from

Ready == {t \in TaskId : tasks[t].state = "READY"}

(* Faulty variants: the search stops one slot early; it always starts at the *)
(* first slot.                                                               *)
find_next_ready_short ==
    {t \in Ready \ {current_task} :
        /\ Distance(current_task, t) < TaskMax - 1
        /\ \A u \in Ready \ {current_task} :
               Distance(current_task, t) <= Distance(current_task, u)}

find_next_ready_from_zero ==
    {t \in Ready \ {current_task} : \A u \in Ready \ {current_task} : t <= u}

(* find_next_ready: the first ready slot after the current one, if any. *)
find_next_ready ==
    {t \in Ready \ {current_task} :
        \A u \in Ready \ {current_task} :
            Distance(current_task, t) <= Distance(current_task, u)}

(* Faulty variant: sp is saved after it was loaded from the next context. *)
SwitchTo_late_save(next, left, resume) ==
    /\ tasks' = [tasks EXCEPT
                    ![current_task].state = left,
                    ![current_task].context =
                        [sp |-> tasks[next].context.sp, pc |-> resume],
                    ![next].state = "RUNNING",
                    ![next].schedule_count = @ + 1]
    /\ current_task' = next
    /\ cpu' = [sp |-> tasks[next].context.sp, pc |-> tasks[next].context.pc]
    /\ bypassed' = [t \in TaskId |->
                       IF t \in Ready \ {next} THEN bypassed[t] + 1 ELSE 0]

(* What task_yield and task_exit do to dispatch "next": the slots as they   *)
(* become once the current one is left in state "left", to continue at      *)
(* "resume", and task_context_switch has exchanged the contexts.            *)
SwitchTo(next, left, resume) ==
    /\ tasks' = [tasks EXCEPT
                    ![current_task].state = left,
                    ![current_task].context = [sp |-> cpu.sp, pc |-> resume],
                    ![next].state = "RUNNING",
                    ![next].schedule_count = @ + 1]
    /\ current_task' = next
    /\ cpu' = [sp |-> tasks[next].context.sp, pc |-> tasks[next].context.pc]
    /\ bypassed' = [t \in TaskId |->
                       IF t \in Ready \ {next} THEN bypassed[t] + 1 ELSE 0]

-----------------------------------------------------------------------------
(* The machine after kernel_main called page_alloc_init: the CPU runs on    *)
(* the boot stack, and the scheduler's variables are those of .bss.         *)
SchedInit ==
    /\ \E value \in Spill :
           heap = page_alloc_init(BssHeap([p \in Frame |-> value],
                                          [p \in Frame |-> TRUE]))
    /\ initialized = FALSE
    /\ tasks = [t \in TaskId |-> clear_slot]
    /\ current_task = 0
    /\ stats = [created_tasks |-> 0, context_switches |-> 0, yield_calls |-> 0,
                exited_tasks |-> 0, reaped_tasks |-> 0, stack_errors |-> 0]
    /\ cpu = [sp |-> BootStack, pc |-> "body"]
    /\ reap_cursor = 0
    /\ client_pages = {}
    /\ spinning = FALSE
    /\ bypassed = [t \in TaskId |-> 0]

(* A task calls a function of the kernel.  Task 0 calls nothing but          *)
(* task_yield once it is in the endless loop of its own task_exit.           *)
MayCall == cpu.pc = "body" /\ ~(spinning /\ current_task = 0)

task_init ==
    /\ MayCall
    /\ ~initialized
    /\ initialized' = TRUE
    /\ current_task' = 0
    /\ tasks' = [t \in TaskId |->
                    IF t = 0 THEN [clear_slot EXCEPT !.state = "RUNNING",
                                                     !.schedule_count = 1]
                             ELSE clear_slot]
    /\ stats' = [created_tasks |-> 0, context_switches |-> 0, yield_calls |-> 0,
                 exited_tasks |-> 0, reaped_tasks |-> 0, stack_errors |-> 0]
    /\ UNCHANGED <<heap, cpu, reap_cursor, client_pages, spinning, bypassed>>

(* The first unused slot; task_create returns TASK_ID_INVALID without one. *)
FirstUnused ==
    {t \in TaskId \ {0} :
        /\ tasks[t].state = "UNUSED"
        /\ \A u \in 1 .. t - 1 : tasks[u].state # "UNUSED"}

(* The canary overwrites the lowest word of the cleared page. *)
task_create(entry) ==
    /\ MayCall
    /\ initialized
    /\ stats.created_tasks < MaxCreates
    /\ \E t \in FirstUnused :
           LET page == page_alloc(heap).ret
           IN  /\ page # Null
               /\ heap' = WritePage(page_alloc(heap).heap, page,
                                    stack_canary(t), FALSE)
               /\ tasks' = [tasks EXCEPT ![t] =
                      [clear_slot EXCEPT
                          !.entry = entry,
                          !.stack_page = page,
                          !.state = "READY",
                          !.context = [sp |-> page, pc |-> "task_bootstrap"]]]
    /\ stats' = [stats EXCEPT !.created_tasks = @ + 1]
    /\ UNCHANGED <<initialized, current_task, cpu, reap_cursor, client_pages,
                   spinning, bypassed>>

(* The first dispatch of a task: task_bootstrap reads its slot's entry and   *)
(* calls it, and the task's frames go on its stack.                          *)
task_bootstrap ==
    /\ cpu.pc = "task_bootstrap"
    /\ heap' = [heap EXCEPT !.dirty[cpu.sp] = TRUE]
    /\ cpu' = [cpu EXCEPT !.pc = "body"]
    /\ UNCHANGED <<initialized, tasks, current_task, stats, reap_cursor,
                   client_pages, spinning, bypassed>>

(* Faulty variant: the overflow is recorded but the task goes on. *)
task_yield_goes_on ==
    /\ cpu.pc = "body"
    /\ initialized
    /\ stats.yield_calls < MaxYields
    /\ tasks' = Marked(current_task)
    /\ cpu' = [cpu EXCEPT !.pc = "task_yield"]
    /\ stats' = [stats EXCEPT !.stack_errors = ErrorsAfter(current_task),
                              !.yield_calls = @ + 1]
    /\ UNCHANGED <<heap, initialized, current_task, reap_cursor, client_pages,
                   spinning, bypassed>>

(* task_yield down to the count of the call; a task whose stack overflowed   *)
(* is sent to task_exit instead.                                             *)
task_yield ==
    /\ cpu.pc = "body"
    /\ initialized
    /\ tasks' = Marked(current_task)
    /\ IF tasks'[current_task].stack_corrupted /\ current_task # 0
       THEN /\ cpu' = [cpu EXCEPT !.pc = "task_exit"]
            /\ stats' = [stats EXCEPT !.stack_errors = ErrorsAfter(current_task)]
       ELSE /\ stats.yield_calls < MaxYields
            /\ cpu' = [cpu EXCEPT !.pc = "task_yield"]
            /\ stats' = [stats EXCEPT !.stack_errors = ErrorsAfter(current_task),
                                      !.yield_calls = @ + 1]
    /\ UNCHANGED <<heap, initialized, current_task, reap_cursor, client_pages,
                   spinning, bypassed>>

(* The rest of task_yield: it returns when nobody else is ready. *)
task_yield_switch ==
    /\ cpu.pc = "task_yield"
    /\ IF find_next_ready = {}
       THEN /\ cpu' = [cpu EXCEPT !.pc = "body"]
            /\ UNCHANGED <<tasks, current_task, stats, bypassed>>
       ELSE /\ \E next \in find_next_ready : SwitchTo(next, "READY", "body")
            /\ stats' = [stats EXCEPT !.context_switches = @ + 1]
    /\ UNCHANGED <<heap, initialized, reap_cursor, client_pages, spinning>>

(* A task returns from its entry function, or calls task_exit itself. *)
task_exit_call ==
    /\ MayCall
    /\ initialized
    /\ IF current_task = 0
       THEN spinning' = TRUE /\ UNCHANGED cpu
       ELSE cpu' = [cpu EXCEPT !.pc = "task_exit"] /\ UNCHANGED spinning
    /\ UNCHANGED <<heap, initialized, tasks, current_task, stats, reap_cursor,
                   client_pages, bypassed>>

task_exit ==
    /\ cpu.pc = "task_exit"
    /\ tasks' = [Marked(current_task) EXCEPT ![current_task].state = "FINISHED"]
    /\ stats' = [stats EXCEPT !.stack_errors = ErrorsAfter(current_task),
                              !.exited_tasks = @ + 1]
    /\ cpu' = [cpu EXCEPT !.pc = "task_exit_switch"]
    /\ UNCHANGED <<heap, initialized, current_task, reap_cursor, client_pages,
                   spinning, bypassed>>

(* The rest of task_exit: the switch to a ready task.  Without one the CPU   *)
(* would sleep for ever.                                                     *)
task_exit_switch ==
    /\ cpu.pc = "task_exit_switch"
    /\ IF find_next_ready = {}
       THEN /\ cpu' = [cpu EXCEPT !.pc = "parked"]
            /\ UNCHANGED <<tasks, current_task, stats, bypassed>>
       ELSE /\ \E next \in find_next_ready : SwitchTo(next, "FINISHED", "parked")
            /\ stats' = [stats EXCEPT !.context_switches = @ + 1]
    /\ UNCHANGED <<heap, initialized, reap_cursor, client_pages, spinning>>

(* task_reap as a relation on the slots, the heap and the counters. *)
ReapEligible(t) ==
    /\ initialized /\ current_task = 0
    /\ t \in TaskId \ {current_task}
    /\ tasks[t].state = "FINISHED" /\ tasks[t].stack_page # Null

(* Faulty variants: the slot is cleared before its page is freed, so that    *)
(* page_free gets NULL; the canary is not checked again.                     *)
task_reap_clears_first(t) ==
    /\ tasks' = IF ReapEligible(t) THEN [tasks EXCEPT ![t] = clear_slot]
                                   ELSE tasks
    /\ stats' = IF ReapEligible(t) THEN [stats EXCEPT !.reaped_tasks = @ + 1]
                                   ELSE stats
    /\ UNCHANGED heap

task_reap_unchecked(t) ==
    IF ReapEligible(t)
    THEN /\ tasks' = [tasks EXCEPT ![t] = clear_slot]
         /\ heap' = page_free(heap, PageAddr(tasks[t].stack_page)).heap
         /\ stats' = [stats EXCEPT !.reaped_tasks = @ + 1]
    ELSE UNCHANGED <<tasks, heap, stats>>

task_reap(t) ==
    LET freed == page_free(heap, PageAddr(tasks[t].stack_page))
        kept == ~ReapEligible(t) \/ Marked(t)[t].stack_corrupted \/ freed.ret = 0
    IN  /\ tasks' = IF ~ReapEligible(t) THEN tasks
                    ELSE IF kept THEN Marked(t)
                    ELSE [tasks EXCEPT ![t] = clear_slot]
        /\ heap' = IF kept THEN heap ELSE freed.heap
        /\ stats' = IF ~ReapEligible(t) THEN stats
                    ELSE IF kept
                    THEN [stats EXCEPT !.stack_errors = ErrorsAfter(t)]
                    ELSE [stats EXCEPT !.reaped_tasks = @ + 1]

(* Any id is a legal argument, the caller's own and one past the slots too. *)
task_reap_call ==
    /\ MayCall
    /\ \E t \in 0 .. TaskMax : task_reap(t)
    /\ UNCHANGED <<initialized, current_task, cpu, reap_cursor, client_pages,
                   spinning, bypassed>>

(* task_reap_finished calls task_reap for every slot but the first. *)
task_reap_finished ==
    /\ MayCall
    /\ initialized
    /\ cpu' = [cpu EXCEPT !.pc = "task_reap_finished"]
    /\ reap_cursor' = 1
    /\ UNCHANGED <<heap, initialized, tasks, current_task, stats, client_pages,
                   spinning, bypassed>>

(* Faulty variant: the loop runs one slot too far. *)
task_reap_finished_loop_long ==
    /\ cpu.pc = "task_reap_finished"
    /\ IF reap_cursor <= TaskMax
       THEN /\ task_reap(reap_cursor)
            /\ reap_cursor' = reap_cursor + 1
            /\ UNCHANGED cpu
       ELSE /\ cpu' = [cpu EXCEPT !.pc = "body"]
            /\ reap_cursor' = 0
            /\ UNCHANGED <<heap, tasks, stats>>
    /\ UNCHANGED <<initialized, current_task, client_pages, spinning, bypassed>>

task_reap_finished_loop ==
    /\ cpu.pc = "task_reap_finished"
    /\ IF reap_cursor < TaskMax
       THEN /\ task_reap(reap_cursor)
            /\ reap_cursor' = reap_cursor + 1
            /\ UNCHANGED cpu
       ELSE /\ cpu' = [cpu EXCEPT !.pc = "body"]
            /\ reap_cursor' = 0
            /\ UNCHANGED <<heap, tasks, stats>>
    /\ UNCHANGED <<initialized, current_task, client_pages, spinning, bypassed>>

(* The running task, or an interrupt taken on its stack, uses the whole page *)
(* and overwrites its lowest word.  (An overflow that reaches the page below *)
(* is not modelled: nothing in the kernel would notice it.)                  *)
StackOverflow ==
    /\ cpu.sp # BootStack
    /\ \E value \in Spill : heap' = WritePage(heap, cpu.sp, value, TRUE)
    /\ UNCHANGED <<initialized, tasks, current_task, stats, cpu, reap_cursor,
                   client_pages, spinning, bypassed>>

(* Code outside task.c, memtest for one, takes and returns pages. *)
ClientAlloc ==
    /\ MayCall
    /\ page_alloc(heap).ret # Null
    /\ heap' = page_alloc(heap).heap
    /\ client_pages' = client_pages \cup {page_alloc(heap).ret}
    /\ UNCHANGED <<initialized, tasks, current_task, stats, cpu, reap_cursor,
                   spinning, bypassed>>

ClientFree ==
    /\ MayCall
    /\ \E page \in client_pages :
           /\ heap' = page_free(heap, PageAddr(page)).heap
           /\ client_pages' = client_pages \ {page}
    /\ UNCHANGED <<initialized, tasks, current_task, stats, cpu, reap_cursor,
                   spinning, bypassed>>

SchedNext ==
    \/ task_init
    \/ \E entry \in Entry : task_create(entry)
    \/ task_bootstrap
    \/ task_yield
    \/ task_yield_switch
    \/ task_exit_call
    \/ task_exit
    \/ task_exit_switch
    \/ task_reap_call
    \/ task_reap_finished
    \/ task_reap_finished_loop
    \/ StackOverflow
    \/ ClientAlloc
    \/ ClientFree

SchedSpec == SchedInit /\ [][SchedNext]_schedVars

-----------------------------------------------------------------------------
TypeOK ==
    /\ heap \in HeapType
    /\ initialized \in BOOLEAN
    /\ tasks \in [TaskId -> Slot]
    /\ current_task \in TaskId
    /\ stats \in Stats
    /\ cpu \in [sp : Nat, pc : Point]
    /\ reap_cursor \in 0 .. TaskMax
    /\ client_pages \subseteq Frame
    /\ spinning \in BOOLEAN
    /\ bypassed \in [TaskId -> Nat]

(* One task runs, the current one; inside task_exit none does.  The shell   *)
(* is always able to run again, so task_exit always finds a task to switch  *)
(* to and the CPU never ends in its wfe loop (task.c:208).                  *)
ExitAlwaysSwitches ==
    initialized =>
        /\ {t \in TaskId : tasks[t].state = "RUNNING"} =
               IF cpu.pc = "task_exit_switch" THEN {} ELSE {current_task}
        /\ tasks[0].state = IF current_task = 0 THEN "RUNNING" ELSE "READY"
        /\ cpu.pc # "parked"

(* The CPU is on the stack of the task it believes to be current, and every *)
(* task that can be dispatched resumes on its own stack, in task_bootstrap  *)
(* with an entry function when it never ran, after its task_yield when it   *)
(* did; so no task runs on another's stack or on a released one.            *)
OnOwnStack ==
    initialized =>
        /\ cpu.sp = tasks[current_task].stack_page
        /\ \A t \in Ready :
               /\ tasks[t].context.sp = tasks[t].stack_page
               /\ t = 0 <=> tasks[t].stack_page = BootStack
               /\ tasks[t].context.pc = IF tasks[t].schedule_count = 0
                                        THEN "task_bootstrap" ELSE "body"
               /\ t # 0 => tasks[t].entry \in Entry

StackPages == {tasks[t].stack_page : t \in TaskId} \ {Null}

(* The pages that are out are the stacks of the slots in use and the pages  *)
(* of other code: no stack is shared, lost, or on the free list while its   *)
(* slot holds it, and a slot has a stack exactly while it is in use.        *)
StacksOwned ==
    /\ HeapInv(heap, StackPages \cup client_pages)
    /\ StackPages \cap client_pages = {}
    /\ \A t, u \in TaskId :
           tasks[t].stack_page = tasks[u].stack_page /\ t # u
               => tasks[t].stack_page = Null
    /\ \A t \in TaskId \ {0} :
           tasks[t].stack_page = Null <=> tasks[t].state = "UNUSED"

(* The counters the tasks command prints (task.c:277) agree with the slots: *)
(* each created task is active, finished or reaped, each exited one         *)
(* finished or reaped, and each stack error is a slot that is kept.         *)
CountersAgree ==
    LET Among(states) ==
            Cardinality({t \in TaskId \ {0} : tasks[t].state \in states})
    IN  /\ stats.created_tasks = Among({"READY", "RUNNING", "FINISHED"})
                                 + stats.reaped_tasks
        /\ stats.exited_tasks = Among({"FINISHED"}) + stats.reaped_tasks
        /\ stats.stack_errors =
               Cardinality({t \in TaskId : tasks[t].stack_corrupted})
        /\ stats.context_switches <= stats.yield_calls + stats.exited_tasks

(* A ready task waits for at most one turn of each other slot, however      *)
(* tasks are created, exit and are reaped meanwhile: find_next_ready starts *)
(* after the slot that ran last (task.c:79).                                *)
BoundedBypass == \A t \in TaskId : bypassed[t] <= TaskMax - 2 \/ TaskMax = 1

(* A stack whose lowest word was overwritten is never released: its slot    *)
(* keeps it, from the overflow on, whether or not it was noticed yet        *)
(* (task.c:228).                                                            *)
OverflowedStackKept ==
    [][\A t \in TaskId :
           tasks[t].stack_corrupted \/ ~stack_canary_ok(t)
               => tasks'[t].stack_page = tasks[t].stack_page]_schedVars

(* Once noticed, an overflow ends the task: it is not dispatched again and  *)
(* its slot is not reused.                                                  *)
CorruptedTaskEnds ==
    [][\A t \in TaskId :
           tasks[t].stack_corrupted =>
               /\ tasks'[t].stack_corrupted
               /\ current_task' = t => current_task = t
               /\ tasks[t].state = "FINISHED"
                      => tasks'[t].state = "FINISHED"]_schedVars
=============================================================================
