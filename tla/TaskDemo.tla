------------------------------- MODULE TaskDemo -------------------------------
(***************************************************************************)
(* The two shell commands of src/shell.c that use the scheduler and the    *)
(* page allocator, taskdemo and memtest, over TaskSched.  Task 0 is the    *)
(* shell and the other tasks run task_demo_worker; each of their calls is  *)
(* the action of TaskSched of that name.                                   *)
(*                                                                         *)
(* command_taskdemo keeps its workers[] in its own stack frame and hands   *)
(* each task a pointer into it, so the frame must outlive both tasks.      *)
(* workers_rounds is that frame; when the command returns the frame is     *)
(* gone and a worker that still reads it would find Garbage.               *)
(*                                                                         *)
(* The failure result of task_finished_state (shell.c:412 and 426) is not  *)
(* modelled: task_get_info refuses only a null info, an id that is not     *)
(* below TASK_MAX_COUNT and a call before task_init (task.c:265), and the  *)
(* shell asks after task_init for ids that task_create returned.           *)
(***************************************************************************)
EXTENDS TaskSched, Sequences

CONSTANTS
    MaxRounds,     \* TASK_DEMO_MAX_ROUNDS
    Garbage,       \* rounds of a worker whose argument was overwritten
    MaxCommands    \* bound: commands entered at the prompt

ASSUME RoundsAssumption ==
    /\ MaxRounds \in Nat \ {0} /\ Garbage \in Nat /\ Garbage > MaxRounds
    /\ MaxCommands \in Nat
    /\ {"A", "B"} = Entry

VARIABLES
    shell_pc,        \* where task 0 is in shell.c
    workers_rounds,  \* the rounds member of workers[]
    first, second,   \* the ids task_create returned for A and B
    round,           \* each worker's loop variable, on its own stack
    output,          \* the lines the workers of this command printed
    test,            \* the locals of command_memtest
    verdict,         \* what the last command ended with
    before,          \* history: the counters when the command was entered
    commands         \* bound: commands entered so far

demoVars == <<shell_pc, workers_rounds, first, second, round, output, test,
              verdict, before, commands>>
vars == <<schedVars, demoVars>>

TASK_ID_INVALID == TaskMax

InShell == current_task = 0 /\ cpu.pc = "body"
Finished(t) == tasks[t].state = "FINISHED"

(* The locals of command_memtest.  "index" is the variable of its loops.    *)
NoTest ==
    [index |-> 1, pages |-> <<Null, Null, Null>>, original |-> {},
     reused |-> Null, passed |-> TRUE, free_before |-> 0]

DemoInit ==
    /\ SchedInit
    /\ shell_pc = "kernel_main"
    /\ workers_rounds = Garbage
    /\ first = TASK_ID_INVALID /\ second = TASK_ID_INVALID
    /\ round = [t \in TaskId |-> 0]
    /\ output = <<>>
    /\ test = NoTest
    /\ verdict = "none"
    /\ before = stats
    /\ commands = 0

(* kernel_main calls task_init before it enters the shell. *)
Boot ==
    /\ shell_pc = "kernel_main"
    /\ task_init
    /\ shell_pc' = "prompt"
    /\ UNCHANGED <<workers_rounds, first, second, round, output, verdict,
                   before, test, commands>>

-----------------------------------------------------------------------------
(* memtest.  No task runs meanwhile, since it never yields. *)

MEMORY_TEST_PAGE_COUNT == 3

(* The pattern written to the first word of the index-th page; the other two *)
(* words it writes are not zero either.                                      *)
Pattern(index) == RamEnd + 100 + index

schedExceptHeap == <<initialized, tasks, current_task, stats, cpu, reap_cursor,
                     spinning, bypassed>>
memtestFrame == <<schedExceptHeap, workers_rounds, first, second, round, output,
                  before>>

AtMemtest(point) == shell_pc = point /\ InShell

(* The pages memtest holds are those client_pages of TaskSched stands for.  *)
Taken(page) == client_pages' = client_pages \cup ({page} \ {Null})
Returned(page, ret) ==
    client_pages' = IF ret = 1 THEN client_pages \ {page} ELSE client_pages

command_memtest ==
    /\ AtMemtest("prompt")
    /\ commands < MaxCommands
    /\ commands' = commands + 1
    /\ test' = [NoTest EXCEPT !.free_before = page_free_pages(heap)]
    /\ shell_pc' = "memtest take"
    /\ UNCHANGED <<heap, client_pages, verdict, memtestFrame>>

(* One turn of the first loop: a page is taken and must be cleared.         *)
TakePage ==
    /\ AtMemtest("memtest take")
    /\ LET call == page_alloc(heap)
           good == call.ret # Null /\ page_is_zero(call.heap, call.ret)
           last == test.index = MEMORY_TEST_PAGE_COUNT
       IN  /\ heap' = call.heap
           /\ Taken(call.ret)
           /\ test' = [test EXCEPT
                  !.pages[test.index] = call.ret,
                  !.original = @ \cup {call.ret},
                  !.passed = good,
                  !.index = IF good /\ ~last THEN @ + 1 ELSE 1]
           /\ shell_pc' = IF ~good THEN "memtest give back"
                          ELSE IF last THEN "memtest write" ELSE shell_pc
    /\ UNCHANGED <<verdict, commands, memtestFrame>>

(* Each page gets a pattern of its own, and afterwards still has it.  The    *)
(* two loops over the pages are one step: nobody else runs or holds these    *)
(* pages until the shell calls the scheduler again.                          *)
WritePatterns ==
    /\ AtMemtest("memtest write")
    /\ heap' = WritePage(WritePage(WritePage(heap,
                   test.pages[1], Pattern(1), TRUE),
                   test.pages[2], Pattern(2), TRUE),
                   test.pages[3], Pattern(3), TRUE)
    /\ LET hold == \A i \in DOMAIN test.pages :
                       heap'.word[test.pages[i]] = Pattern(i)
       IN  /\ test' = [test EXCEPT !.passed = hold]
           /\ shell_pc' = IF hold THEN "memtest free" ELSE "memtest give back"
    /\ UNCHANGED <<client_pages, verdict, commands, memtestFrame>>

FreeFirst ==
    /\ AtMemtest("memtest free")
    /\ LET call == page_free(heap, PageAddr(test.pages[1]))
       IN  /\ heap' = call.heap
           /\ Returned(test.pages[1], call.ret)
           /\ test' = [test EXCEPT !.passed = (call.ret = 1)]
           /\ shell_pc' = IF call.ret = 1 THEN "memtest free again"
                                          ELSE "memtest give back"
    /\ UNCHANGED <<verdict, commands, memtestFrame>>

(* A second release of the same page must be refused. *)
FreeAgain ==
    /\ AtMemtest("memtest free again")
    /\ LET call == page_free(heap, PageAddr(test.pages[1]))
       IN  /\ heap' = call.heap
           /\ Returned(test.pages[1], call.ret)
           /\ IF call.ret = 1
              THEN /\ shell_pc' = "prompt"
                   /\ verdict' = "memtest: FAIL"
                   /\ test' = NoTest
              ELSE /\ shell_pc' = "memtest give back"
                   /\ test' = [test EXCEPT !.pages[1] = Null]
                   /\ UNCHANGED verdict
    /\ UNCHANGED <<commands, memtestFrame>>

(* Faulty variant: the clean-up stops once the test has failed. *)
Skipped_after_failure(page) == page = Null \/ ~test.passed

Skipped(page) == page = Null

(* One turn of the clean-up loop: a NULL is skipped. *)
GiveBack ==
    /\ AtMemtest("memtest give back")
    /\ LET page == test.pages[test.index]
           call == page_free(heap, PageAddr(page))
           released == ~Skipped(page) /\ call.ret = 1
           last == test.index = MEMORY_TEST_PAGE_COUNT
       IN  /\ heap' = IF Skipped(page) THEN heap ELSE call.heap
           /\ Returned(page, IF Skipped(page) THEN 0 ELSE call.ret)
           /\ test' = [test EXCEPT
                  !.pages[test.index] = IF released THEN Null ELSE page,
                  !.passed = @ /\ (Skipped(page) \/ released),
                  !.index = IF last THEN 1 ELSE @ + 1]
           /\ shell_pc' = IF last THEN "memtest retry" ELSE shell_pc
    /\ UNCHANGED <<verdict, commands, memtestFrame>>

(* Another allocation must return one of the pages just released, cleared.  *)
Retry ==
    /\ AtMemtest("memtest retry")
    /\ IF test.passed /\ page_free_pages(heap) = test.free_before
       THEN LET call == page_alloc(heap)
            IN  /\ heap' = call.heap
                /\ Taken(call.ret)
                /\ test' = [test EXCEPT
                       !.reused = call.ret,
                       !.passed = /\ call.ret # Null
                                  /\ page_is_zero(call.heap, call.ret)
                                  /\ call.ret \in test.original]
       ELSE /\ test' = [test EXCEPT !.passed = FALSE]
            /\ UNCHANGED <<heap, client_pages>>
    /\ shell_pc' = "memtest end"
    /\ UNCHANGED <<verdict, commands, memtestFrame>>

EndMemtest ==
    /\ AtMemtest("memtest end")
    /\ LET call == page_free(heap, PageAddr(test.reused))
           left == IF test.reused = Null THEN heap ELSE call.heap
           passed == /\ test.passed
                     /\ test.reused = Null \/ call.ret = 1
                     /\ page_free_pages(left) = test.free_before
       IN  /\ heap' = left
           /\ Returned(test.reused, IF test.reused = Null THEN 0 ELSE call.ret)
           /\ verdict' = IF passed THEN "memtest: PASS" ELSE "memtest: FAIL"
    /\ shell_pc' = "prompt"
    /\ test' = NoTest
    /\ UNCHANGED <<commands, memtestFrame>>

memtest ==
    \/ TakePage \/ WritePatterns \/ FreeFirst \/ FreeAgain
    \/ GiveBack \/ Retry \/ EndMemtest

-----------------------------------------------------------------------------
(* taskdemo *)

command_taskdemo ==
    /\ shell_pc = "prompt" /\ InShell
    /\ commands < MaxCommands
    /\ commands' = commands + 1
    /\ shell_pc' = "create A"
    /\ workers_rounds' \in 1 .. MaxRounds
    /\ output' = <<>>
    /\ before' = stats
    /\ UNCHANGED <<schedVars, first, second, round, test, verdict>>

(* The command returns: its frame is overwritten by what runs next. *)
Return(with) ==
    /\ shell_pc' = "prompt"
    /\ verdict' = with
    /\ workers_rounds' = Garbage
    /\ first' = TASK_ID_INVALID /\ second' = TASK_ID_INVALID

CanCreate == FirstUnused # {} /\ page_alloc(heap).ret # Null

(* task_create either returns the slot it took or TASK_ID_INVALID. *)
CreateA ==
    /\ shell_pc = "create A" /\ InShell
    /\ IF CanCreate
       THEN /\ task_create("A")
            /\ first' \in FirstUnused
            /\ shell_pc' = "create B"
            /\ UNCHANGED <<second, workers_rounds, verdict>>
       ELSE /\ Return("could not create task A")
            /\ UNCHANGED schedVars
    /\ UNCHANGED <<round, output, before, test, commands>>

CreateB ==
    /\ shell_pc = "create B" /\ InShell
    /\ IF CanCreate
       THEN /\ task_create("B")
            /\ second' \in FirstUnused
            /\ shell_pc' = "join"
       ELSE /\ shell_pc' = "drain"
            /\ UNCHANGED <<schedVars, second>>
    /\ UNCHANGED <<first, workers_rounds, round, output, verdict, before, test, commands>>

(* Task B could not be created: task A is run to its end and reaped. *)
DrainYield ==
    /\ shell_pc = "drain" /\ InShell
    /\ ~Finished(first)
    /\ task_yield
    /\ UNCHANGED demoVars

(* Faulty variant: the error path returns without reaping task A. *)
DrainReap_forgets ==
    /\ shell_pc = "drain" /\ InShell
    /\ Finished(first)
    /\ Return("could not create task B")
    /\ UNCHANGED <<schedVars, round, output, before, test, commands>>

DrainReap ==
    /\ shell_pc = "drain" /\ InShell
    /\ Finished(first)
    /\ task_reap(first)
    /\ Return(IF tasks'[first].state = "UNUSED"
              THEN "could not create task B" ELSE "task A cleanup error")
    /\ UNCHANGED <<initialized, current_task, cpu, reap_cursor, client_pages,
                   spinning, bypassed, round, output, before, test, commands>>

(* Faulty variants: one finished task is enough to leave the loop; the shell *)
(* polls without yielding.                                                   *)
BothFinished_either == Finished(first) \/ Finished(second)
Wait_polls == UNCHANGED schedVars

BothFinished == Finished(first) /\ Finished(second)

Wait == task_yield

JoinYield ==
    /\ shell_pc = "join" /\ InShell
    /\ ~BothFinished
    /\ Wait
    /\ UNCHANGED demoVars

JoinReap ==
    /\ shell_pc = "join" /\ InShell
    /\ BothFinished
    /\ task_reap(first)
    /\ shell_pc' = "reap B"
    /\ UNCHANGED <<initialized, current_task, cpu, reap_cursor, client_pages,
                   spinning, bypassed, workers_rounds, first, second, round,
                   output, verdict, before, test, commands>>

ReapB ==
    /\ shell_pc = "reap B" /\ InShell
    /\ task_reap(second)
    /\ Return(IF tasks[first].state = "UNUSED" /\ tasks'[second].state = "UNUSED"
              THEN "taskdemo: PASS" ELSE "taskdemo: FAIL")
    /\ UNCHANGED <<initialized, current_task, cpu, reap_cursor, client_pages,
                   spinning, bypassed, round, output, before, test, commands>>

(* Faulty variants: a worker yields after the last round only; it yields     *)
(* after every round.                                                        *)
YieldsAfter_last(r) == r = workers_rounds
YieldsAfter_every(r) == TRUE

YieldsAfter(r) == r # workers_rounds

(* task_demo_worker: the loop variable starts at 1 on the task's stack, each *)
(* turn prints a line, and every turn but the last ends in task_yield.       *)
WorkerStart ==
    /\ task_bootstrap
    /\ round' = [round EXCEPT ![current_task] = 1]
    /\ UNCHANGED <<shell_pc, workers_rounds, first, second, output, verdict,
                   before, test, commands>>

WorkerTurn ==
    /\ current_task # 0 /\ cpu.pc = "body"
    /\ round[current_task] <= workers_rounds
    /\ output' = Append(output, <<tasks[current_task].entry, round[current_task]>>)
    /\ round' = [round EXCEPT ![current_task] = @ + 1]
    /\ IF YieldsAfter(round[current_task]) THEN task_yield ELSE UNCHANGED schedVars
    /\ UNCHANGED <<shell_pc, workers_rounds, first, second, verdict, before,
                   test, commands>>

WorkerReturn ==
    /\ current_task # 0 /\ cpu.pc = "body"
    /\ round[current_task] > workers_rounds
    /\ task_exit_call
    /\ UNCHANGED demoVars

(* What the CPU does inside the scheduler's functions, and overflows. *)
InScheduler ==
    /\ task_yield_switch \/ task_exit \/ task_exit_switch
    /\ UNCHANGED demoVars

Overflow == StackOverflow /\ UNCHANGED demoVars

CpuStep ==
    \/ Boot
    \/ memtest
    \/ CreateA \/ CreateB
    \/ DrainYield \/ DrainReap
    \/ JoinYield \/ JoinReap \/ ReapB
    \/ WorkerStart \/ WorkerTurn \/ WorkerReturn
    \/ InScheduler

DemoNext ==
    \/ CpuStep
    \/ command_memtest
    \/ command_taskdemo
    \/ Overflow

(* The one CPU keeps executing instructions: a step that the current task   *)
(* can take is taken eventually.  Nobody has to enter a command, and no     *)
(* stack has to overflow.                                                   *)
DemoSpec == DemoInit /\ [][DemoNext]_vars /\ WF_vars(CpuStep)

-----------------------------------------------------------------------------
InCommand == shell_pc \in {"create B", "drain", "join", "reap B"}

DemoTypeOK ==
    /\ TypeOK
    /\ shell_pc \in {"kernel_main", "prompt", "create A", "create B", "drain",
                     "join", "reap B", "memtest take", "memtest write",
                     "memtest free", "memtest free again", "memtest give back",
                     "memtest retry", "memtest end"}
    /\ test.index \in DOMAIN test.pages /\ test.original \subseteq Frame \cup {Null}
    /\ workers_rounds \in 0 .. MaxRounds \cup {Garbage}
    /\ first \in 0 .. TaskMax /\ second \in 0 .. TaskMax
    /\ round \in [TaskId -> 0 .. MaxRounds + 1]
    /\ commands \in 0 .. MaxCommands

(* command_taskdemo does not return while a worker can still run: its       *)
(* workers[], which the tasks point into, is alive whenever one reads it    *)
(* (shell.c:379, 402).                                                      *)
FrameOutlivesWorkers ==
    \A t \in TaskId \ {0} :
        tasks[t].state \in {"READY", "RUNNING"} =>
            /\ InCommand
            /\ workers_rounds \in 1 .. MaxRounds
            /\ t \in {first, second}

(* At the prompt no page and no slot is missing but those of tasks whose    *)
(* stack overflowed, which are kept on purpose.                             *)
OnlyCorruptedKept ==
    shell_pc = "prompt" =>
        /\ heap.used_pages = stats.stack_errors
        /\ \A t \in TaskId \ {0} :
               tasks[t].state # "UNUSED" =>
                   tasks[t].state = "FINISHED" /\ tasks[t].stack_corrupted

(* The two workers take strict turns, as the boot test expects of the lines *)
(* they print (tests/qemu_smoke.py:423), unless a stack overflow was found. *)
TurnsAlternate ==
    stats.stack_errors = before.stack_errors =>
        \A i \in DOMAIN output :
            /\ shell_pc = "drain" => output[i] = <<"A", i>>
            /\ shell_pc \in {"join", "reap B"} =>
                   output[i] = <<IF i % 2 = 1 THEN "A" ELSE "B", (i + 1) \div 2>>

(* A run of r rounds without overflow costs 3r switches and 3r - 2 yields,  *)
(* the numbers the tasks command prints and the boot test checks            *)
(* for r = 3 (tests/qemu_smoke.py:439).                                     *)
CostOfDemo ==
    shell_pc = "reap B" /\ stats.stack_errors = before.stack_errors =>
        /\ stats.context_switches = before.context_switches + 3 * workers_rounds
        /\ stats.yield_calls = before.yield_calls + 3 * workers_rounds - 2
        /\ stats.exited_tasks = before.exited_tasks + 2

(* memtest passes exactly when three pages are free when it is entered, and *)
(* whether it passes or fails it returns every page it took (shell.c:305).  *)
MemtestNeutral ==
    [][shell_pc' = "prompt" /\ shell_pc \in {"memtest free again", "memtest end"}
           => /\ page_free_pages(heap') = test.free_before
              /\ (verdict' = "memtest: PASS")
                     <=> (test.free_before >= MEMORY_TEST_PAGE_COUNT)]_vars

(* Each command comes back to the prompt, whatever stacks overflow.         *)
DemoReturns == shell_pc # "prompt" ~> shell_pc = "prompt"
=============================================================================
