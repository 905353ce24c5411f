------------------------------ MODULE TaskProofs -------------------------------
(***************************************************************************)
(* The scheduler keeps its promises for every number of task slots, every  *)
(* amount of RAM and any number of creations, yields and overflows; and    *)
(* the shell commands taskdemo and memtest, which drive it, leave nothing  *)
(* behind and never leave a worker with a pointer into a dead frame, for   *)
(* every number of rounds.                                                 *)
(*                                                                         *)
(* TaskSched first.  Its inductive invariant IInv adds to its properties   *)
(* what they rest on: the state before task_init, what holds at each point *)
(* inside task_yield and task_exit, where a corrupted task can be, and     *)
(* how long a ready task still has to wait.  What the page allocator does  *)
(* comes from the lemmas of PageHeapProofs.                                *)
(*                                                                         *)
(* Then TaskDemo.  Its commands drive the scheduler and the allocator by   *)
(* calls any client may make, so the invariants of TaskSched hold under    *)
(* them; what is added relates where the shell is to the slots and pages.  *)
(***************************************************************************)
EXTENDS TaskDemo, PageHeapProofs, WellFoundedInduction

(* .bss is cleared and nothing but page_alloc and page_free has an effect.  *)
BeforeInit ==
    ~initialized =>
        /\ tasks = [t \in TaskId |-> clear_slot]
        /\ current_task = 0
        /\ cpu = [sp |-> BootStack, pc |-> "body"]

(* The current task runs, until task_exit made its slot FINISHED; the shell *)
(* never gets there, and has always been dispatched before.                 *)
Running ==
    initialized =>
        /\ \A t \in TaskId :
               tasks[t].state = "RUNNING"
                   <=> t = current_task /\ cpu.pc # "task_exit_switch"
        /\ cpu.pc = "task_exit_switch" => tasks[current_task].state = "FINISHED"
        /\ cpu.pc \in {"task_bootstrap", "task_exit", "task_exit_switch"}
               => current_task # 0
        /\ cpu.pc # "parked"
        /\ tasks[0].state \in {"RUNNING", "READY"}
        /\ tasks[0].schedule_count # 0
        /\ tasks[current_task].schedule_count # 0
        /\ current_task # 0 => tasks[current_task].entry \in Entry

(* The shell has no stack page; a corrupted task is on its way out. *)
Corrupted ==
    /\ tasks[0].stack_page = Null
    /\ \A t \in TaskId :
           tasks[t].stack_corrupted =>
               /\ t # 0
               /\ \/ tasks[t].state = "FINISHED"
                  \/ t = current_task /\ cpu.pc = "task_exit"

(* A ready task was passed over once for each slot the turn moved on, and   *)
(* its own slot is still ahead.                                             *)
Waiting ==
    \A t \in TaskId :
        /\ tasks[t].state # "READY" => bypassed[t] = 0
        /\ tasks[t].state = "READY" =>
               bypassed[t] + Distance(current_task, t) <= TaskMax - 1

IInv ==
    /\ TypeOK
    /\ BeforeInit
    /\ Running
    /\ OnOwnStack
    /\ StacksOwned
    /\ Corrupted
    /\ Waiting

-----------------------------------------------------------------------------
(* Every non-empty set of numbers has a least one. *)
LEMMA LeastNumber ==
  ASSUME NEW S \in SUBSET Nat, S # {}
  PROVE  \E x \in S : \A y \in S : x <= y
<1> DEFINE R == {ss \in Nat \X Nat : ss[1] < ss[2]}
<1>1. IsWellFoundedOn(R, Nat)
  BY NatLessThanWellFounded DEF OpToRel
<1> HIDE DEF R
<1>2. \E x \in S : \A y \in S : ~ (<<y, x>> \in R)
  BY <1>1, WFMin
<1>3. ASSUME NEW x \in S, NEW y \in S, ~ (<<y, x>> \in R)
      PROVE  x <= y
  <2>1. x \in Nat /\ y \in Nat
    OBVIOUS
  <2>2. ~(y < x)
    BY <1>3, <2>1 DEF R
  <2> QED
    BY <2>1, <2>2
<1> QED
  BY <1>2, <1>3

(* The search of find_next_ready finds a ready task if there is one. *)
LEMMA SearchFinds ==
  ASSUME TypeOK, find_next_ready = {}
  PROVE  Ready \subseteq {current_task}
<1> SUFFICES ASSUME NEW r \in Ready \ {current_task}
             PROVE  FALSE
  OBVIOUS
<1> DEFINE S == {Distance(current_task, t) : t \in Ready \ {current_task}}
<1>1. S \in SUBSET Nat
  BY TaskMaxAssumption DEF TypeOK, Ready, TaskId, Distance
<1>2. S # {}
  OBVIOUS
<1>3. PICK d \in S : \A y \in S : d <= y
  BY <1>1, <1>2, LeastNumber
<1>4. PICK t \in Ready \ {current_task} : d = Distance(current_task, t)
  BY <1>3
<1>5. \A u \in Ready \ {current_task} :
          Distance(current_task, t) <= Distance(current_task, u)
  BY <1>3, <1>4
<1> QED
  BY <1>4, <1>5 DEF find_next_ready

LEMMA ClearSlotType == clear_slot \in Slot
  BY DEF clear_slot, Slot, clear_context, Context, State, Null

LEMMA SlotNumbers == 0 \in TaskId /\ TaskId \subseteq Nat
  BY TaskMaxAssumption DEF TaskId

(* record_stack_error changes one field of one slot. *)
LEMMA MarkedSlots ==
  ASSUME TypeOK, NEW t \in TaskId
  PROVE  /\ Marked(t) \in [TaskId -> Slot]
         /\ \A u \in TaskId :
                /\ Marked(t)[u].context = tasks[u].context
                /\ Marked(t)[u].entry = tasks[u].entry
                /\ Marked(t)[u].stack_page = tasks[u].stack_page
                /\ Marked(t)[u].state = tasks[u].state
                /\ Marked(t)[u].schedule_count = tasks[u].schedule_count
                /\ Marked(t)[u].stack_corrupted <=>
                       \/ tasks[u].stack_corrupted
                       \/ u = t /\ ~stack_canary_ok(t)
         /\ ErrorsAfter(t) \in Nat
<1> DEFINE bad == tasks[t].stack_corrupted \/ ~stack_canary_ok(t)
           slot == [tasks[t] EXCEPT !.stack_corrupted = bad]
<1>1. tasks[t] \in Slot
  BY DEF TypeOK
<1>2. bad \in BOOLEAN
  OBVIOUS
<1>3. Marked(t) = [tasks EXCEPT ![t] = slot]
  BY DEF Marked
<1> HIDE DEF bad
<1>4. /\ slot \in Slot
      /\ slot.context = tasks[t].context
      /\ slot.entry = tasks[t].entry
      /\ slot.stack_page = tasks[t].stack_page
      /\ slot.state = tasks[t].state
      /\ slot.schedule_count = tasks[t].schedule_count
      /\ slot.stack_corrupted = bad
  BY <1>1, <1>2 DEF Slot
<1> HIDE DEF slot
<1>5. Marked(t) \in [TaskId -> Slot]
  BY <1>3, <1>4 DEF TypeOK
<1>6. Marked(t)[t] = slot /\ \A u \in TaskId \ {t} : Marked(t)[u] = tasks[u]
  BY <1>3 DEF TypeOK
<1>7. ErrorsAfter(t) \in Nat
  BY DEF TypeOK, Stats, ErrorsAfter
<1> QED
  BY <1>4, <1>5, <1>6, <1>7 DEF bad

(* Ownership does not depend on what a task does with its slot. *)
LEMMA SameStacks ==
  ASSUME StacksOwned, UNCHANGED <<heap, client_pages>>,
         \A t \in TaskId :
             /\ tasks'[t].stack_page = tasks[t].stack_page
             /\ tasks'[t].state = "UNUSED" <=> tasks[t].state = "UNUSED"
  PROVE  StacksOwned'
<1>1. StackPages' = StackPages
  BY DEF StackPages
<1> QED
  BY <1>1 DEF StacksOwned

(* Every stack page and every page of other code is a page of RAM, and the  *)
(* running task is on its own.                                              *)
LEMMA PagesInUse ==
  ASSUME IInv
  PROVE  /\ heap \in HeapType
         /\ HeapInv(heap, StackPages \cup client_pages)
         /\ StackPages \cup client_pages \subseteq Frame
         /\ cpu.sp # BootStack =>
                cpu.sp \in StackPages /\ initialized /\ current_task # 0
<1>1. heap \in HeapType /\ HeapInv(heap, StackPages \cup client_pages)
  BY DEF IInv, TypeOK, StacksOwned
<1>2. StackPages \cup client_pages \subseteq Frame
  BY <1>1, HeldPages DEF HeapInv
<1>3. ASSUME cpu.sp # BootStack
      PROVE  cpu.sp \in StackPages /\ initialized /\ current_task # 0
  <2>1. initialized
    BY <1>3 DEF IInv, BeforeInit
  <2>2. cpu.sp = tasks[current_task].stack_page /\ current_task \in TaskId
    BY <2>1 DEF IInv, OnOwnStack, TypeOK
  <2> QED
    BY <1>3, <2>1, <2>2 DEF StackPages, BootStack, IInv, Corrupted
<1> QED
  BY <1>1, <1>2, <1>3

(* What task_context_switch and the code around it do to each slot. *)
LEMMA SwitchSlots ==
  ASSUME TypeOK, NEW next \in find_next_ready, NEW left \in State,
         NEW resume \in Point, SwitchTo(next, left, resume)
  PROVE  /\ next \in TaskId \ {current_task}
         /\ tasks[next].state = "READY"
         /\ tasks' \in [TaskId -> Slot]
         /\ \A t \in TaskId :
                /\ tasks'[t].stack_page = tasks[t].stack_page
                /\ tasks'[t].entry = tasks[t].entry
                /\ tasks'[t].stack_corrupted = tasks[t].stack_corrupted
         /\ \A t \in TaskId \ {current_task, next} : tasks'[t] = tasks[t]
         /\ tasks'[current_task].state = left
         /\ tasks'[current_task].context = [sp |-> cpu.sp, pc |-> resume]
         /\ tasks'[current_task].schedule_count =
                tasks[current_task].schedule_count
         /\ tasks'[next].state = "RUNNING"
         /\ tasks'[next].schedule_count = tasks[next].schedule_count + 1
<1> DEFINE saved == [tasks[current_task] EXCEPT
                        !.state = left,
                        !.context = [sp |-> cpu.sp, pc |-> resume]]
           entered == [tasks[next] EXCEPT
                        !.state = "RUNNING", !.schedule_count = @ + 1]
<1>1. /\ next \in TaskId \ {current_task} /\ tasks[next].state = "READY"
      /\ current_task \in TaskId
  BY DEF find_next_ready, Ready, TypeOK
<1>2. tasks[current_task] \in Slot /\ tasks[next] \in Slot
  BY <1>1 DEF TypeOK
<1>3. [sp |-> cpu.sp, pc |-> resume] \in Context
  BY DEF TypeOK, Context
<1>4. /\ saved \in Slot
      /\ saved.stack_page = tasks[current_task].stack_page
      /\ saved.entry = tasks[current_task].entry
      /\ saved.stack_corrupted = tasks[current_task].stack_corrupted
      /\ saved.state = left
      /\ saved.context = [sp |-> cpu.sp, pc |-> resume]
      /\ saved.schedule_count = tasks[current_task].schedule_count
  BY <1>2, <1>3 DEF Slot
<1>5. /\ entered \in Slot
      /\ entered.stack_page = tasks[next].stack_page
      /\ entered.entry = tasks[next].entry
      /\ entered.stack_corrupted = tasks[next].stack_corrupted
      /\ entered.state = "RUNNING"
      /\ entered.schedule_count = tasks[next].schedule_count + 1
  <2>1. tasks[next].schedule_count + 1 \in Nat /\ "RUNNING" \in State
    BY <1>2 DEF Slot, State
  <2> HIDE DEF State
  <2> QED
    BY <1>2, <2>1 DEF Slot
<1>6. /\ tasks' = [[tasks EXCEPT ![current_task] = saved] EXCEPT ![next] = entered]
  BY <1>1 DEF SwitchTo, TypeOK
<1> HIDE DEF saved, entered
<1>7. /\ tasks' \in [TaskId -> Slot]
      /\ tasks'[current_task] = saved /\ tasks'[next] = entered
      /\ \A t \in TaskId \ {current_task, next} : tasks'[t] = tasks[t]
  BY <1>1, <1>4, <1>5, <1>6 DEF TypeOK
<1> QED
  BY <1>1, <1>4, <1>5, <1>7

-----------------------------------------------------------------------------
(* kernel_main reaches the scheduler in a state of the invariant. *)
LEMMA InitIInv == SchedInit => IInv
<1> SUFFICES ASSUME SchedInit
             PROVE  IInv
  OBVIOUS
<1>1. heap \in HeapType /\ HeapInv(heap, {})
  <2>1. PICK value \in Spill :
           heap = page_alloc_init(BssHeap([p \in Frame |-> value],
                                          [p \in Frame |-> TRUE]))
    BY DEF SchedInit
  <2>2. /\ [p \in Frame |-> value] \in [Frame -> Nat]
        /\ [p \in Frame |-> TRUE] \in [Frame -> BOOLEAN]
    BY SpillAssumption
  <2> QED
    BY <2>1, <2>2, BssHeapInv, InitInv
<1>2. 0 \in TaskId /\ TaskId \subseteq Nat
  BY TaskMaxAssumption DEF TaskId
<1>3. \A t \in TaskId : tasks[t] = clear_slot
  BY DEF SchedInit
<1>4. TypeOK
  <2>1. tasks \in [TaskId -> Slot]
    BY ClearSlotType DEF SchedInit
  <2>2. stats \in Stats
    BY DEF SchedInit, Stats
  <2>3. cpu \in [sp : Nat, pc : Point]
    BY DEF SchedInit, BootStack, Null, Point
  <2>4. bypassed \in [TaskId -> Nat]
    BY DEF SchedInit
  <2>5. initialized \in BOOLEAN /\ spinning \in BOOLEAN
    BY DEF SchedInit
  <2>6. current_task \in TaskId /\ client_pages \subseteq Frame
    BY <1>2 DEF SchedInit
  <2>7. reap_cursor \in 0 .. TaskMax
    BY TaskMaxAssumption DEF SchedInit
  <2> QED
    BY <1>1, <2>1, <2>2, <2>3, <2>4, <2>5, <2>6, <2>7 DEF TypeOK
<1>5. BeforeInit /\ Running /\ OnOwnStack
  BY DEF SchedInit, BeforeInit, Running, OnOwnStack
<1>6. StacksOwned
  <2>1. StackPages = {}
    BY <1>3 DEF StackPages, clear_slot
  <2>2. StackPages \cup client_pages = {}
    BY <2>1 DEF SchedInit
  <2> QED
    BY <1>1, <1>3, <2>1, <2>2 DEF StacksOwned, clear_slot
<1>7. Corrupted
  BY <1>2, <1>3 DEF Corrupted, clear_slot
<1>8. Waiting
  BY <1>3 DEF SchedInit, Waiting, clear_slot
<1> QED
  BY <1>4, <1>5, <1>6, <1>7, <1>8 DEF IInv

-----------------------------------------------------------------------------
(* The order of the slots: past the next ready slot every other one is      *)
(* nearer than before, and none is further than a whole round.              *)
LEMMA NearerSlots ==
  ASSUME NEW a \in TaskId, NEW b \in TaskId \ {a}
  PROVE  /\ Distance(a, b) \in 1 .. TaskMax - 1
         /\ \A c \in TaskId \ {a, b} :
                Distance(a, b) <= Distance(a, c)
                    => Distance(b, c) + 1 <= Distance(a, c)
  BY TaskMaxAssumption DEF TaskId, Distance

(* The dispatch of another task, from task_yield or from task_exit. *)
LEMMA DispatchInv ==
  ASSUME IInv, initialized, NEW next \in find_next_ready,
         NEW left, NEW resume, SwitchTo(next, left, resume),
         \/ cpu.pc = "task_yield" /\ left = "READY" /\ resume = "body"
         \/ cpu.pc = "task_exit_switch" /\ left = "FINISHED" /\ resume = "parked",
         stats' \in Stats,
         UNCHANGED <<heap, initialized, reap_cursor, client_pages, spinning>>
  PROVE  IInv'
<1>1. left \in State /\ resume \in Point
  BY DEF State, Point
<1>2. /\ next \in TaskId \ {current_task}
      /\ tasks[next].state = "READY"
      /\ tasks' \in [TaskId -> Slot]
      /\ \A t \in TaskId :
             /\ tasks'[t].stack_page = tasks[t].stack_page
             /\ tasks'[t].entry = tasks[t].entry
             /\ tasks'[t].stack_corrupted = tasks[t].stack_corrupted
      /\ \A t \in TaskId \ {current_task, next} : tasks'[t] = tasks[t]
      /\ tasks'[current_task].state = left
      /\ tasks'[current_task].context = [sp |-> cpu.sp, pc |-> resume]
      /\ tasks'[current_task].schedule_count =
             tasks[current_task].schedule_count
      /\ tasks'[next].state = "RUNNING"
      /\ tasks'[next].schedule_count = tasks[next].schedule_count + 1
  BY <1>1, SwitchSlots DEF IInv
<1>3. /\ tasks'[current_task].context.sp = cpu.sp
      /\ tasks'[current_task].context.pc = resume
  BY <1>2
<1>4. /\ current_task' = next
      /\ cpu'.sp = tasks[next].context.sp
      /\ cpu'.pc = tasks[next].context.pc
      /\ bypassed' = [t \in TaskId |->
                         IF t \in Ready \ {next} THEN bypassed[t] + 1 ELSE 0]
  BY DEF SwitchTo
<1>5. /\ tasks[next].context.sp = tasks[next].stack_page
      /\ next = 0 <=> tasks[next].stack_page = BootStack
      /\ tasks[next].context.pc = IF tasks[next].schedule_count = 0
                                  THEN "task_bootstrap" ELSE "body"
      /\ next # 0 => tasks[next].entry \in Entry
  BY <1>2 DEF IInv, OnOwnStack, Ready
<1>6. current_task \in TaskId /\ tasks[current_task].state = IF left = "READY"
                                                  THEN "RUNNING" ELSE "FINISHED"
  BY DEF IInv, TypeOK, Running
<1>7. /\ tasks[next].schedule_count \in Nat
      /\ tasks[current_task].schedule_count # 0
      /\ tasks[0].schedule_count # 0
  <2>1. tasks[next] \in Slot
    BY <1>2 DEF IInv, TypeOK
  <2> QED
    BY <2>1 DEF Slot, IInv, Running
<1>8. TypeOK'
  <2>1. cpu' \in [sp : Nat, pc : Point]
    <3>1. tasks[next] \in Slot
      BY <1>2 DEF IInv, TypeOK
    <3>2. cpu' = [sp |-> tasks[next].context.sp, pc |-> tasks[next].context.pc]
      BY DEF SwitchTo
    <3>3. tasks[next].context.sp \in Nat
      BY <1>5, <3>1 DEF Slot
    <3>4. tasks[next].context.pc \in Point
      BY <1>5 DEF Point
    <3> QED
      BY <3>2, <3>3, <3>4
  <2>2. bypassed' \in [TaskId -> Nat]
    BY <1>4 DEF IInv, TypeOK
  <2> QED
    BY <1>2, <1>4, <2>1, <2>2 DEF IInv, TypeOK
<1>9. BeforeInit'
  BY DEF BeforeInit
<1>10. Running'
  <2>1. ASSUME NEW t \in TaskId
        PROVE  tasks'[t].state = "RUNNING" <=> t = current_task'
    <3>1. CASE t \in {current_task, next}
      BY <1>2, <1>4, <3>1
    <3>2. CASE t \notin {current_task, next}
      BY <1>2, <1>4, <3>2 DEF IInv, Running
    <3> QED
      BY <3>1, <3>2
  <2>2. cpu'.pc \in {"task_bootstrap", "body"}
    BY <1>4, <1>5
  <2>3. cpu'.pc = "task_bootstrap" => next # 0
    BY <1>4, <1>5, <1>7
  <2>4. tasks'[0].state \in {"RUNNING", "READY"} /\ tasks'[0].schedule_count # 0
    <3>1. 0 \in TaskId
      BY SlotNumbers
    <3>2. CASE current_task = 0
      BY <1>2, <1>7, <3>2 DEF IInv, Running
    <3>3. CASE next = 0
      BY <1>2, <1>7, <3>3
    <3>4. CASE 0 \notin {current_task, next}
      BY <1>2, <1>7, <3>1, <3>4 DEF IInv, Running
    <3> QED
      BY <3>2, <3>3, <3>4
  <2>5. tasks'[next].schedule_count # 0 /\ (next # 0 => tasks'[next].entry \in Entry)
    BY <1>2, <1>5, <1>7
  <2> QED
    BY <1>4, <2>1, <2>2, <2>3, <2>4, <2>5 DEF Running
<1>11. OnOwnStack'
  <2>1. cpu'.sp = tasks'[current_task'].stack_page
    BY <1>2, <1>4, <1>5
  <2>2. ASSUME NEW t \in TaskId, tasks'[t].state = "READY"
        PROVE  /\ tasks'[t].context.sp = tasks'[t].stack_page
               /\ t = 0 <=> tasks'[t].stack_page = BootStack
               /\ tasks'[t].context.pc = IF tasks'[t].schedule_count = 0
                                         THEN "task_bootstrap" ELSE "body"
               /\ t # 0 => tasks'[t].entry \in Entry
    <3>1. CASE t = current_task
      <4>1. left = "READY" /\ resume = "body"
        BY <1>2, <2>2, <3>1
      <4>2. cpu.sp = tasks[t].stack_page /\ (t # 0 => tasks[t].entry \in Entry)
        BY <3>1 DEF IInv, OnOwnStack, Running
      <4>3. t = 0 <=> tasks[t].stack_page = BootStack
        BY <1>6, <3>1, <4>1 DEF IInv, Corrupted, StacksOwned, BootStack
      <4> QED
        BY <1>2, <1>3, <1>7, <3>1, <4>1, <4>2, <4>3
    <3>2. CASE t # current_task
      <4>1. t # next
        BY <1>2, <2>2
      <4>2. tasks'[t] = tasks[t] /\ t \in Ready
        BY <1>2, <2>2, <3>2, <4>1 DEF Ready
      <4> QED
        BY <4>2 DEF IInv, OnOwnStack
    <3> QED
      BY <3>1, <3>2
  <2> QED
    BY <2>1, <2>2 DEF OnOwnStack, Ready
<1>12. StacksOwned'
  <2>1. \A t \in TaskId : tasks'[t].state = "UNUSED" <=> tasks[t].state = "UNUSED"
    BY <1>2, <1>6
  <2> QED
    BY <1>2, <2>1, SameStacks DEF IInv
<1>13. Corrupted'
  <2>1. tasks'[0].stack_page = Null
    BY <1>2, SlotNumbers DEF IInv, Corrupted
  <2>2. ASSUME NEW t \in TaskId, tasks'[t].stack_corrupted
        PROVE  t # 0 /\ tasks'[t].state = "FINISHED"
    <3>1. t # 0 /\ tasks[t].state = "FINISHED"
      BY <1>2, <2>2 DEF IInv, Corrupted
    <3>2. t # next
      BY <1>2, <3>1
    <3>3. t = current_task => left = "FINISHED"
      BY <1>6, <3>1
    <3> QED
      BY <1>2, <3>1, <3>2, <3>3
  <2> QED
    BY <2>1, <2>2 DEF Corrupted
<1>14. Waiting'
  <2> SUFFICES ASSUME NEW t \in TaskId
               PROVE  /\ tasks'[t].state # "READY" => bypassed'[t] = 0
                      /\ tasks'[t].state = "READY" =>
                             bypassed'[t] + Distance(next, t) <= TaskMax - 1
    BY <1>4 DEF Waiting, Distance
  <2>1. bypassed'[t] = IF t \in Ready \ {next} THEN bypassed[t] + 1 ELSE 0
    BY <1>4
  <2>2. CASE t = next
    BY <1>2, <2>1, <2>2
  <2>3. CASE t = current_task
    <3>1. bypassed'[t] = 0
      BY <1>6, <2>1, <2>3 DEF Ready
    <3>2. Distance(next, t) \in 1 .. TaskMax - 1
      BY <1>2, <1>6, <2>3, NearerSlots
    <3> QED
      BY <3>1, <3>2, TaskMaxAssumption
  <2>4. CASE t \notin {current_task, next}
    <3>1. tasks'[t] = tasks[t]
      BY <1>2, <2>4
    <3>2. CASE tasks[t].state # "READY"
      BY <2>1, <3>1, <3>2 DEF Ready
    <3>3. CASE tasks[t].state = "READY"
      <4>1. bypassed'[t] = bypassed[t] + 1
        BY <2>1, <2>4, <3>3 DEF Ready
      <4>2. bypassed[t] + Distance(current_task, t) <= TaskMax - 1
        BY <3>3 DEF IInv, Waiting
      <4>3. Distance(current_task, next) <= Distance(current_task, t)
        BY <2>4, <3>3 DEF find_next_ready, Ready
      <4>4. Distance(next, t) + 1 <= Distance(current_task, t)
        BY <1>2, <1>6, <2>4, <4>3, NearerSlots
      <4>5. /\ Distance(next, t) \in Nat /\ Distance(current_task, t) \in Nat
            /\ bypassed[t] \in Nat
        BY <1>2, <1>6, <2>4, NearerSlots DEF IInv, TypeOK
      <4> QED
        BY <3>1, <3>3, <4>1, <4>2, <4>4, <4>5, TaskMaxAssumption
    <3> QED
      BY <3>2, <3>3
  <2> QED
    BY <2>2, <2>3, <2>4
<1> QED
  BY <1>8, <1>9, <1>10, <1>11, <1>12, <1>13, <1>14 DEF IInv

(* The CPU goes on in the same task, which is not inside task_exit. *)
LEMMA MoveInv ==
  ASSUME IInv, initialized, NEW point,
         cpu' = [cpu EXCEPT !.pc = point],
         cpu.pc \notin {"task_exit", "task_exit_switch"},
         \/ point \in {"body", "task_reap_finished"}
         \/ point = "task_exit" /\ current_task # 0,
         UNCHANGED <<initialized, tasks, current_task, bypassed>>
  PROVE  /\ cpu' \in [sp : Nat, pc : Point]
         /\ cpu'.sp = cpu.sp
         /\ BeforeInit' /\ Running' /\ OnOwnStack' /\ Corrupted' /\ Waiting'
<1>1. cpu' \in [sp : Nat, pc : Point] /\ cpu'.sp = cpu.sp /\ cpu'.pc = point
  BY DEF IInv, TypeOK, Point
<1>2. BeforeInit'
  BY DEF BeforeInit
<1>3. Running'
  BY <1>1 DEF IInv, Running
<1>4. OnOwnStack'
  BY <1>1 DEF IInv, OnOwnStack, Ready
<1>5. Corrupted'
  BY <1>1 DEF IInv, Corrupted
<1>6. Waiting'
  BY DEF IInv, Waiting, Distance
<1> QED
  BY <1>1, <1>2, <1>3, <1>4, <1>5, <1>6

(* A write into the stack of the running task leaves the allocator and the  *)
(* ownership of the pages as they are.                                      *)
LEMMA StackWrite ==
  ASSUME IInv, cpu.sp \in StackPages, NEW value \in Nat, NEW other \in BOOLEAN,
         heap' = WritePage(heap, cpu.sp, value, other),
         UNCHANGED <<tasks, client_pages>>
  PROVE  heap' \in HeapType /\ StacksOwned'
<1>1. heap' \in HeapType /\ HeapInv(heap', StackPages \cup client_pages)
  <2> DEFINE held == StackPages \cup client_pages
             k == WritePage(heap, cpu.sp, value, other)
  <2>1. heap \in HeapType /\ HeapInv(heap, held) /\ cpu.sp \in held
    BY PagesInUse
  <2> HIDE DEF held
  <2>2. /\ k \in HeapType
        /\ HeapInv(k, held)
        /\ k.initialized = heap.initialized
        /\ k.word = [heap.word EXCEPT ![cpu.sp] = value]
        /\ k.dirty = [heap.dirty EXCEPT ![cpu.sp] = other]
    BY ONLY <2>1, WriteInv
  <2> QED
    BY <2>2 DEF held
<1>2. StackPages' = StackPages
  BY DEF StackPages
<1> QED
  BY <1>1, <1>2 DEF StacksOwned, IInv

(* task_init finds everything cleared and makes the shell the running task. *)
LEMMA task_init_Inv ==
  ASSUME IInv, task_init
  PROVE  IInv'
<1> DEFINE shell == [clear_slot EXCEPT !.state = "RUNNING", !.schedule_count = 1]
<1>1. /\ shell \in Slot /\ shell.state = "RUNNING" /\ shell.schedule_count = 1
      /\ shell.stack_page = Null /\ shell.stack_corrupted = FALSE
  BY ClearSlotType DEF clear_slot, Slot, State
<1>2. tasks' = [t \in TaskId |-> IF t = 0 THEN shell ELSE clear_slot]
  BY DEF task_init
<1> HIDE DEF shell
<1>3. /\ tasks'[0] = shell
      /\ \A t \in TaskId \ {0} : tasks'[t] = clear_slot
      /\ tasks' \in [TaskId -> Slot]
  BY <1>1, <1>2, ClearSlotType, SlotNumbers
<1>4. /\ clear_slot.state = "UNUSED" /\ clear_slot.stack_page = Null
      /\ clear_slot.stack_corrupted = FALSE
  BY DEF clear_slot
<1>5. /\ current_task' = 0 /\ cpu' = [sp |-> BootStack, pc |-> "body"]
      /\ initialized' = TRUE
      /\ \A t \in TaskId : tasks[t] = clear_slot
  BY DEF task_init, IInv, BeforeInit
<1>6. TypeOK'
  <2>1. stats' \in Stats
    BY DEF task_init, Stats
  <2> QED
    BY <1>3, <1>5, <2>1, SlotNumbers DEF task_init, IInv, TypeOK
<1>7. BeforeInit' /\ Running'
  BY <1>1, <1>3, <1>4, <1>5, SlotNumbers DEF BeforeInit, Running
<1>8. OnOwnStack'
  BY <1>1, <1>3, <1>4, <1>5, SlotNumbers DEF OnOwnStack, Ready, BootStack
<1>9. StacksOwned'
  <2>1. StackPages' = {} /\ StackPages = {}
    BY <1>1, <1>3, <1>4, <1>5 DEF StackPages
  <2> QED
    BY <1>1, <1>3, <1>4, <2>1 DEF task_init, IInv, StacksOwned
<1>10. Corrupted'
  BY <1>1, <1>3, <1>4 DEF Corrupted
<1>11. Waiting'
  <2>1. \A t \in TaskId : tasks'[t].state # "READY" /\ bypassed'[t] = 0
    BY <1>1, <1>3, <1>4, <1>5 DEF task_init, IInv, Waiting
  <2> QED
    BY <2>1 DEF Waiting
<1> QED
  BY <1>6, <1>7, <1>8, <1>9, <1>10, <1>11 DEF IInv

(* task_create gives the new task a page nobody held. *)
LEMMA task_create_Inv ==
  ASSUME IInv, NEW entry \in Entry, task_create(entry)
  PROVE  IInv'
<1> DEFINE page == page_alloc(heap).ret
           left == page_alloc(heap).heap
           held == StackPages \cup client_pages
<1>1. PICK t \in FirstUnused :
         /\ page # Null
         /\ heap' = WritePage(left, page, stack_canary(t), FALSE)
         /\ tasks' = [tasks EXCEPT ![t] =
                [clear_slot EXCEPT
                    !.entry = entry, !.stack_page = page, !.state = "READY",
                    !.context = [sp |-> page, pc |-> "task_bootstrap"]]]
  BY DEF task_create
<1>2. t \in TaskId \ {0} /\ tasks[t].state = "UNUSED" /\ initialized
  BY DEF FirstUnused, task_create
<1>3. tasks[t].stack_page = Null
  BY <1>2 DEF IInv, StacksOwned
<1>4. /\ page \in Frame \ held
      /\ left \in HeapType
      /\ HeapInv(left, held \cup {page})
  BY <1>1, PagesInUse, AllocInv
<1> HIDE DEF page, left, held
<1>5. page \in Nat
  BY <1>4, RamAssumption DEF Frame
<1>6. stack_canary(t) \in Nat
  BY <1>2, RamAssumption, SlotNumbers DEF stack_canary
<1>7. heap' \in HeapType /\ HeapInv(heap', held \cup {page})
  <2> DEFINE other == FALSE
             k == WritePage(left, page, stack_canary(t), other)
             out == held \cup {page}
  <2>1. /\ left \in HeapType /\ HeapInv(left, out) /\ page \in out
        /\ stack_canary(t) \in Nat /\ other \in BOOLEAN
    BY <1>4, <1>6
  <2> HIDE DEF out, other
  <2>2. /\ k \in HeapType
        /\ HeapInv(k, out)
        /\ k.initialized = left.initialized
        /\ k.word = [left.word EXCEPT ![page] = stack_canary(t)]
        /\ k.dirty = [left.dirty EXCEPT ![page] = other]
    BY ONLY <2>1, WriteInv
  <2> QED
    BY <1>1, <2>2 DEF out, other
<1> DEFINE slot == [clear_slot EXCEPT
                       !.entry = entry, !.stack_page = page, !.state = "READY",
                       !.context = [sp |-> page, pc |-> "task_bootstrap"]]
<1>8. /\ slot.entry = entry /\ slot.stack_page = page /\ slot.state = "READY"
      /\ slot.context.sp = page /\ slot.context.pc = "task_bootstrap"
      /\ slot.stack_corrupted = FALSE /\ slot.schedule_count = 0
  BY DEF clear_slot
<1>9. slot \in Slot
  <2>1. [sp |-> page, pc |-> "task_bootstrap"] \in Context
    BY <1>5 DEF Context, Point
  <2> QED
    BY <1>5, <2>1 DEF clear_slot, Slot, State
<1>10. tasks' = [tasks EXCEPT ![t] = slot]
  BY <1>1
<1> HIDE DEF slot
<1>11. /\ tasks'[t] = slot
       /\ \A u \in TaskId \ {t} : tasks'[u] = tasks[u]
       /\ tasks' \in [TaskId -> Slot]
  BY <1>2, <1>9, <1>10 DEF IInv, TypeOK
<1>12. /\ t # current_task
       /\ UNCHANGED <<initialized, current_task, cpu, reap_cursor, client_pages,
                      spinning, bypassed>>
  <2>1. tasks[current_task].state # "UNUSED"
    BY <1>2 DEF IInv, Running, TypeOK
  <2> QED
    BY <1>2, <2>1 DEF task_create
<1>13. TypeOK'
  <2>1. stats' \in Stats
    BY DEF task_create, IInv, TypeOK, Stats
  <2> QED
    BY <1>7, <1>11, <1>12, <2>1 DEF IInv, TypeOK
<1>14. BeforeInit' /\ Running'
  BY <1>2, <1>8, <1>11, <1>12, SlotNumbers
     DEF IInv, TypeOK, BeforeInit, Running
<1>15. OnOwnStack'
  <2>1. page # BootStack
    BY <1>1 DEF BootStack
  <2>2. cpu'.sp = tasks'[current_task'].stack_page
    BY <1>2, <1>11, <1>12 DEF IInv, OnOwnStack, TypeOK
  <2>3. ASSUME NEW u \in TaskId, tasks'[u].state = "READY"
        PROVE  /\ tasks'[u].context.sp = tasks'[u].stack_page
               /\ u = 0 <=> tasks'[u].stack_page = BootStack
               /\ tasks'[u].context.pc = IF tasks'[u].schedule_count = 0
                                         THEN "task_bootstrap" ELSE "body"
               /\ u # 0 => tasks'[u].entry \in Entry
    <3>1. CASE u = t
      BY <1>2, <1>8, <1>11, <2>1, <3>1
    <3>2. CASE u # t
      BY <1>2, <1>11, <2>3, <3>2 DEF IInv, OnOwnStack, Ready
    <3> QED
      BY <3>1, <3>2
  <2> QED
    BY <2>2, <2>3 DEF OnOwnStack, Ready
<1>16. StacksOwned'
  <2>1. StackPages' = StackPages \cup {page}
    <3>1. \A u \in TaskId : tasks'[u].stack_page =
              IF u = t THEN page ELSE tasks[u].stack_page
      BY <1>8, <1>11
    <3>2. \A p : p \in StackPages' <=> p \in StackPages \cup {page}
      BY <1>1, <1>2, <1>3, <3>1 DEF StackPages
    <3> QED
      BY <3>2
  <2>2. StackPages' \cup client_pages' = held \cup {page}
    BY <1>12, <2>1 DEF held
  <2>3. StackPages' \cap client_pages' = {}
    BY <1>4, <1>12, <2>1 DEF held, IInv, StacksOwned
  <2>4. \A u \in TaskId : tasks[u].stack_page # page
    BY <1>1, <1>4 DEF held, StackPages
  <2>5. \A u, v \in TaskId :
            tasks'[u].stack_page = tasks'[v].stack_page /\ u # v
                => tasks'[u].stack_page = Null
    BY <1>8, <1>11, <2>4 DEF IInv, StacksOwned
  <2>6. \A u \in TaskId \ {0} :
            tasks'[u].stack_page = Null <=> tasks'[u].state = "UNUSED"
    BY <1>1, <1>8, <1>11 DEF IInv, StacksOwned
  <2> QED
    BY <1>7, <2>2, <2>3, <2>5, <2>6 DEF StacksOwned
<1>17. Corrupted'
  BY <1>2, <1>8, <1>11, <1>12, SlotNumbers DEF IInv, Corrupted
<1>18. Waiting'
  <2>1. bypassed[t] = 0 /\ Distance(current_task, t) \in 1 .. TaskMax - 1
    BY <1>2, <1>12, NearerSlots DEF IInv, TypeOK, Waiting
  <2>2. ASSUME NEW u \in TaskId
        PROVE  /\ tasks'[u].state # "READY" => bypassed[u] = 0
               /\ tasks'[u].state = "READY" =>
                      bypassed[u] + Distance(current_task, u) <= TaskMax - 1
    <3>1. CASE u = t
      BY <1>8, <1>11, <2>1, <3>1, TaskMaxAssumption
    <3>2. CASE u # t
      BY <1>11, <3>2 DEF IInv, Waiting
    <3> QED
      BY <3>1, <3>2
  <2> QED
    BY <1>12, <2>2 DEF Waiting, Distance
<1> QED
  BY <1>13, <1>14, <1>15, <1>16, <1>17, <1>18 DEF IInv

(* A first dispatch: the task's frames go on its own stack. *)
LEMMA task_bootstrap_Inv ==
  ASSUME IInv, task_bootstrap
  PROVE  IInv'
<1>1. initialized /\ current_task # 0 /\ current_task \in TaskId
  BY DEF task_bootstrap, IInv, BeforeInit, Running, TypeOK
<1>2. cpu.sp \in StackPages
  <2>1. tasks[current_task].state = "RUNNING"
    BY <1>1 DEF task_bootstrap, IInv, Running
  <2>2. tasks[current_task].stack_page # Null
    BY <1>1, <2>1 DEF IInv, StacksOwned
  <2> QED
    BY <1>1, <2>2 DEF StackPages, IInv, OnOwnStack
<1>3. cpu.sp \in Frame /\ heap.word[cpu.sp] \in Nat
  BY <1>2, PagesInUse DEF HeapType
<1>4. heap' = WritePage(heap, cpu.sp, heap.word[cpu.sp], TRUE)
  <2>1. [heap EXCEPT !.word[cpu.sp] = heap.word[cpu.sp]] = heap
    BY <1>3, PagesInUse DEF HeapType
  <2>2. [heap EXCEPT !.word[cpu.sp] = heap.word[cpu.sp], !.dirty[cpu.sp] = TRUE]
            = [[heap EXCEPT !.word[cpu.sp] = heap.word[cpu.sp]]
                  EXCEPT !.dirty[cpu.sp] = TRUE]
    BY <1>3, PagesInUse DEF HeapType
  <2> QED
    BY <2>1, <2>2 DEF task_bootstrap, WritePage
<1>5. heap' \in HeapType /\ StacksOwned'
  <2>1. TRUE \in BOOLEAN
    OBVIOUS
  <2> QED
    BY <1>2, <1>3, <1>4, <2>1, StackWrite DEF task_bootstrap
<1>6. /\ cpu' \in [sp : Nat, pc : Point]
      /\ BeforeInit' /\ Running' /\ OnOwnStack' /\ Corrupted' /\ Waiting'
  BY <1>1, MoveInv DEF task_bootstrap
<1>7. TypeOK'
  BY <1>5, <1>6 DEF task_bootstrap, IInv, TypeOK
<1> QED
  BY <1>5, <1>6, <1>7 DEF IInv

(* task_yield marks the current slot; a corrupted task goes to task_exit. *)
LEMMA task_yield_Inv ==
  ASSUME IInv, task_yield
  PROVE  IInv'
<1>1. /\ initialized /\ current_task \in TaskId /\ cpu.pc = "body"
      /\ tasks' = Marked(current_task)
      /\ UNCHANGED <<heap, initialized, current_task, reap_cursor, client_pages,
                     spinning, bypassed>>
  BY DEF task_yield, IInv, TypeOK
<1>2. /\ tasks' \in [TaskId -> Slot]
      /\ \A u \in TaskId :
             /\ tasks'[u].context = tasks[u].context
             /\ tasks'[u].entry = tasks[u].entry
             /\ tasks'[u].stack_page = tasks[u].stack_page
             /\ tasks'[u].state = tasks[u].state
             /\ tasks'[u].schedule_count = tasks[u].schedule_count
             /\ tasks'[u].stack_corrupted <=>
                    \/ tasks[u].stack_corrupted
                    \/ u = current_task /\ ~stack_canary_ok(current_task)
      /\ ErrorsAfter(current_task) \in Nat
  BY <1>1, MarkedSlots DEF IInv
<1>3. /\ cpu'.sp = cpu.sp /\ cpu' \in [sp : Nat, pc : Point]
      /\ cpu'.pc = IF tasks'[current_task].stack_corrupted /\ current_task # 0
                   THEN "task_exit" ELSE "task_yield"
  BY <1>1 DEF task_yield, IInv, TypeOK, Point
<1>4. stats' \in Stats
  <2> DEFINE errors == ErrorsAfter(current_task)
  <2>1. stats \in Stats /\ stats.yield_calls + 1 \in Nat /\ errors \in Nat
    BY <1>2 DEF IInv, TypeOK, Stats
  <2>2. \/ stats' = [stats EXCEPT !.stack_errors = errors]
        \/ stats' = [stats EXCEPT !.stack_errors = errors,
                                  !.yield_calls = stats.yield_calls + 1]
    BY <2>1 DEF task_yield, Stats
  <2> HIDE DEF errors
  <2> QED
    BY <2>1, <2>2 DEF Stats
<1>5. TypeOK'
  BY <1>1, <1>2, <1>3, <1>4 DEF IInv, TypeOK
<1>6. BeforeInit' /\ Running'
  BY <1>1, <1>2, <1>3, SlotNumbers DEF BeforeInit, IInv, Running
<1>7. OnOwnStack'
  BY <1>1, <1>2, <1>3 DEF IInv, OnOwnStack, Ready
<1>8. StacksOwned'
  BY <1>1, <1>2, SameStacks DEF IInv
<1>9. Corrupted'
  <2>1. tasks'[0].stack_page = Null
    BY <1>2, SlotNumbers DEF IInv, Corrupted
  <2>2. ASSUME NEW t \in TaskId, tasks'[t].stack_corrupted
        PROVE  /\ t # 0
               /\ \/ tasks'[t].state = "FINISHED"
                  \/ t = current_task /\ cpu'.pc = "task_exit"
    <3>1. CASE tasks[t].stack_corrupted
      BY <1>1, <1>2, <3>1 DEF IInv, Corrupted
    <3>2. CASE ~tasks[t].stack_corrupted
      <4>1. t = current_task /\ ~stack_canary_ok(t)
        BY <1>2, <2>2, <3>2
      <4>2. t # 0
        BY <4>1 DEF stack_canary_ok, IInv, Corrupted
      <4> QED
        BY <1>3, <2>2, <4>1, <4>2
    <3> QED
      BY <3>1, <3>2
  <2> QED
    BY <1>1, <2>1, <2>2 DEF Corrupted
<1>10. Waiting'
  BY <1>1, <1>2 DEF IInv, Waiting, Distance
<1> QED
  BY <1>5, <1>6, <1>7, <1>8, <1>9, <1>10 DEF IInv

LEMMA task_yield_switch_Inv ==
  ASSUME IInv, task_yield_switch
  PROVE  IInv'
<1>1. initialized
  BY DEF task_yield_switch, IInv, BeforeInit
<1>2. CASE find_next_ready = {}
  <2>1. /\ cpu' \in [sp : Nat, pc : Point]
        /\ BeforeInit' /\ Running' /\ OnOwnStack' /\ Corrupted' /\ Waiting'
    BY <1>1, <1>2, MoveInv DEF task_yield_switch
  <2>2. TypeOK'
    BY <1>2, <2>1 DEF task_yield_switch, IInv, TypeOK
  <2>3. StacksOwned'
    BY <1>2, SameStacks DEF task_yield_switch, IInv
  <2> QED
    BY <2>1, <2>2, <2>3 DEF IInv
<1>3. CASE find_next_ready # {}
  <2>1. PICK next \in find_next_ready : SwitchTo(next, "READY", "body")
    BY <1>3 DEF task_yield_switch
  <2>2. stats' \in Stats
    BY <1>3 DEF task_yield_switch, IInv, TypeOK, Stats
  <2> QED
    BY <1>1, <2>1, <2>2, DispatchInv DEF task_yield_switch
<1> QED
  BY <1>2, <1>3

(* The end of a task's function, or its call of task_exit. *)
LEMMA task_exit_call_Inv ==
  ASSUME IInv, task_exit_call
  PROVE  IInv'
<1>1. initialized
  BY DEF task_exit_call
<1>2. StacksOwned'
  BY SameStacks DEF task_exit_call, IInv
<1>3. CASE current_task = 0
  BY <1>2, <1>3 DEF task_exit_call, IInv, TypeOK, BeforeInit, Running,
                    OnOwnStack, Ready, Corrupted, Waiting, Distance
<1>4. CASE current_task # 0
  <2>1. /\ cpu' \in [sp : Nat, pc : Point]
        /\ BeforeInit' /\ Running' /\ OnOwnStack' /\ Corrupted' /\ Waiting'
    BY <1>1, <1>4, MoveInv DEF task_exit_call, MayCall
  <2>2. TypeOK'
    BY <1>4, <2>1 DEF task_exit_call, IInv, TypeOK
  <2> QED
    BY <1>2, <2>1, <2>2 DEF IInv
<1> QED
  BY <1>3, <1>4

(* task_exit marks its slot and makes it FINISHED. *)
LEMMA task_exit_Inv ==
  ASSUME IInv, task_exit
  PROVE  IInv'
<1> DEFINE slot == [Marked(current_task)[current_task] EXCEPT !.state = "FINISHED"]
<1>1. /\ initialized /\ current_task \in TaskId \ {0} /\ cpu.pc = "task_exit"
      /\ UNCHANGED <<heap, initialized, current_task, reap_cursor, client_pages,
                     spinning, bypassed>>
  BY DEF task_exit, IInv, TypeOK, BeforeInit, Running
<1>2. /\ Marked(current_task) \in [TaskId -> Slot]
      /\ \A u \in TaskId :
             /\ Marked(current_task)[u].context = tasks[u].context
             /\ Marked(current_task)[u].entry = tasks[u].entry
             /\ Marked(current_task)[u].stack_page = tasks[u].stack_page
             /\ Marked(current_task)[u].state = tasks[u].state
             /\ Marked(current_task)[u].schedule_count = tasks[u].schedule_count
             /\ Marked(current_task)[u].stack_corrupted <=>
                    \/ tasks[u].stack_corrupted
                    \/ u = current_task /\ ~stack_canary_ok(current_task)
      /\ ErrorsAfter(current_task) \in Nat
  BY <1>1, MarkedSlots DEF IInv
<1>3. /\ slot \in Slot /\ slot.state = "FINISHED"
      /\ slot.entry = tasks[current_task].entry
      /\ slot.stack_page = tasks[current_task].stack_page
      /\ slot.schedule_count = tasks[current_task].schedule_count
  <2>1. Marked(current_task)[current_task] \in Slot /\ "FINISHED" \in State
    BY <1>1, <1>2 DEF State
  <2> HIDE DEF State
  <2> QED
    BY <1>1, <1>2, <2>1 DEF Slot
<1>4. tasks' = [Marked(current_task) EXCEPT ![current_task] = slot]
  BY DEF task_exit
<1> HIDE DEF slot
<1>5. /\ tasks' \in [TaskId -> Slot]
      /\ tasks'[current_task] = slot
      /\ \A u \in TaskId \ {current_task} :
             tasks'[u] = Marked(current_task)[u]
  BY <1>1, <1>2, <1>3, <1>4
<1>6. /\ \A u \in TaskId :
             /\ tasks'[u].stack_page = tasks[u].stack_page
             /\ tasks'[u].entry = tasks[u].entry
             /\ tasks'[u].schedule_count = tasks[u].schedule_count
      /\ \A u \in TaskId \ {current_task} :
             /\ tasks'[u].context = tasks[u].context
             /\ tasks'[u].state = tasks[u].state
             /\ tasks'[u].stack_corrupted <=> tasks[u].stack_corrupted
      /\ tasks'[current_task].state = "FINISHED"
  BY <1>1, <1>2, <1>3, <1>5
<1>7. /\ cpu'.sp = cpu.sp /\ cpu'.pc = "task_exit_switch"
      /\ cpu' \in [sp : Nat, pc : Point]
  BY DEF task_exit, IInv, TypeOK, Point
<1>8. tasks[current_task].state = "RUNNING"
  BY <1>1 DEF IInv, Running
<1>9. TypeOK'
  <2>1. stats' \in Stats
    <3> DEFINE errors == ErrorsAfter(current_task)
    <3>1. stats \in Stats /\ stats.exited_tasks + 1 \in Nat /\ errors \in Nat
      BY <1>2 DEF IInv, TypeOK, Stats
    <3>2. stats' = [stats EXCEPT !.stack_errors = errors,
                                 !.exited_tasks = stats.exited_tasks + 1]
      BY <3>1 DEF task_exit, Stats
    <3> HIDE DEF errors
    <3> QED
      BY <3>1, <3>2 DEF Stats
  <2> QED
    BY <1>1, <1>5, <1>7, <2>1 DEF IInv, TypeOK
<1>10. BeforeInit' /\ Running'
  BY <1>1, <1>6, <1>7, SlotNumbers DEF BeforeInit, IInv, Running
<1>11. OnOwnStack'
  BY <1>1, <1>6, <1>7 DEF IInv, OnOwnStack, Ready
<1>12. StacksOwned'
  BY <1>1, <1>6, <1>8, SameStacks DEF IInv
<1>13. Corrupted'
  BY <1>1, <1>6, <1>7, SlotNumbers DEF IInv, Corrupted
<1>14. Waiting'
  BY <1>1, <1>6, <1>8 DEF IInv, Waiting, Distance
<1> QED
  BY <1>9, <1>10, <1>11, <1>12, <1>13, <1>14 DEF IInv

(* The shell is ready, so the search of task_exit finds a task. *)
LEMMA task_exit_switch_Inv ==
  ASSUME IInv, task_exit_switch
  PROVE  IInv'
<1>1. initialized
  BY DEF task_exit_switch, IInv, BeforeInit
<1>2. find_next_ready # {}
  <2>1. current_task # 0 /\ tasks[0].state = "READY"
    BY <1>1, SlotNumbers DEF task_exit_switch, IInv, Running
  <2>2. 0 \in Ready \ {current_task}
    BY <2>1, SlotNumbers DEF Ready
  <2> QED
    BY <2>2, SearchFinds DEF IInv
<1>3. PICK next \in find_next_ready : SwitchTo(next, "FINISHED", "parked")
  BY <1>2 DEF task_exit_switch
<1>4. stats' \in Stats
  BY <1>2 DEF task_exit_switch, IInv, TypeOK, Stats
<1> QED
  BY <1>1, <1>3, <1>4, DispatchInv DEF task_exit_switch

(* task_reap releases the page of a finished slot whose canary is intact,   *)
(* or leaves the slot with at most the mark of the overflow.                *)
LEMMA ReapInv ==
  ASSUME IInv, NEW t \in 0 .. TaskMax, task_reap(t),
         UNCHANGED <<initialized, current_task, cpu, client_pages, spinning,
                     bypassed>>,
         reap_cursor' \in 0 .. TaskMax
  PROVE  IInv'
<1> DEFINE freed == page_free(heap, PageAddr(tasks[t].stack_page))
           held == StackPages \cup client_pages
<1>1. CASE ~ReapEligible(t)
  <2>1. UNCHANGED <<tasks, heap, stats>>
    BY <1>1 DEF task_reap
  <2>2. StacksOwned'
    BY <2>1, SameStacks DEF IInv
  <2> QED
    BY <2>1, <2>2 DEF IInv, TypeOK, BeforeInit, Running, OnOwnStack, Ready,
                      Corrupted, Waiting, Distance
<1>2. CASE ReapEligible(t) /\ (Marked(t)[t].stack_corrupted \/ freed.ret = 0)
  <2>1. /\ t \in TaskId \ {0} /\ tasks[t].state = "FINISHED" /\ initialized
        /\ tasks' = Marked(t) /\ heap' = heap
        /\ stats' = [stats EXCEPT !.stack_errors = ErrorsAfter(t)]
    BY <1>2 DEF ReapEligible, task_reap
  <2>2. /\ tasks' \in [TaskId -> Slot]
        /\ \A u \in TaskId :
               /\ tasks'[u].context = tasks[u].context
               /\ tasks'[u].entry = tasks[u].entry
               /\ tasks'[u].stack_page = tasks[u].stack_page
               /\ tasks'[u].state = tasks[u].state
               /\ tasks'[u].schedule_count = tasks[u].schedule_count
               /\ tasks'[u].stack_corrupted <=>
                      \/ tasks[u].stack_corrupted
                      \/ u = t /\ ~stack_canary_ok(t)
        /\ ErrorsAfter(t) \in Nat
    BY <2>1, MarkedSlots DEF IInv
  <2>3. TypeOK'
    <3>1. stats' \in Stats
      BY <2>1, <2>2 DEF IInv, TypeOK, Stats
    <3> QED
      BY <2>1, <2>2, <3>1 DEF IInv, TypeOK
  <2>4. BeforeInit' /\ Running'
    BY <2>1, <2>2, SlotNumbers DEF BeforeInit, IInv, TypeOK, Running
  <2>5. OnOwnStack'
    BY <2>2 DEF IInv, TypeOK, OnOwnStack, Ready
  <2>6. StacksOwned'
    BY <2>1, <2>2, SameStacks DEF IInv
  <2>7. Corrupted'
    BY <2>1, <2>2, SlotNumbers DEF IInv, Corrupted
  <2>8. Waiting'
    BY <2>2 DEF IInv, Waiting, Distance
  <2> QED
    BY <2>3, <2>4, <2>5, <2>6, <2>7, <2>8 DEF IInv
<1>3. CASE ReapEligible(t) /\ ~(Marked(t)[t].stack_corrupted \/ freed.ret = 0)
  <2> DEFINE page == tasks[t].stack_page
  <2>1. /\ t \in TaskId \ {0} /\ tasks[t].state = "FINISHED" /\ initialized
        /\ t # current_task /\ page # Null /\ freed.ret # 0
        /\ tasks' = [tasks EXCEPT ![t] = clear_slot] /\ heap' = freed.heap
        /\ stats' = [stats EXCEPT !.reaped_tasks = @ + 1]
    BY <1>3 DEF ReapEligible, task_reap
  <2>2. page \in held /\ page \notin client_pages /\ page \in Nat
    <3>1. page \in StackPages /\ page \in Nat
      BY <2>1 DEF StackPages, IInv, TypeOK, Slot
    <3> QED
      BY <3>1 DEF IInv, StacksOwned
  <2> HIDE DEF held, page
  <2>3. freed.heap \in HeapType /\ HeapInv(freed.heap, held \ {page})
    <3>1. heap \in HeapType /\ HeapInv(heap, held) /\ page \in Nat /\ 0 \in Nat
      BY <2>2, PagesInUse DEF held
    <3> DEFINE call == page_free(heap, <<page, 0>>)
    <3>2. /\ call.ret = IF page \in held /\ 0 = 0 THEN 1 ELSE 0
          /\ call.heap \in HeapType
          /\ call.ret = 1 =>
                 /\ HeapInv(call.heap, held \ {page})
                 /\ call.heap.word = [heap.word EXCEPT ![page] = heap.free_list]
                 /\ call.heap.dirty = heap.dirty
          /\ call.ret = 0 => call.heap = heap
          /\ call.heap.initialized = heap.initialized
      BY ONLY <3>1, FreeInv
    <3>3. call = freed
      BY DEF PageAddr, page
    <3> HIDE DEF call, freed
    <3> QED
      BY <2>2, <3>2, <3>3
  <2>4. /\ tasks'[t] = clear_slot
        /\ \A u \in TaskId \ {t} : tasks'[u] = tasks[u]
        /\ tasks' \in [TaskId -> Slot]
    BY <2>1, ClearSlotType DEF IInv, TypeOK
  <2>5. /\ clear_slot.state = "UNUSED" /\ clear_slot.stack_page = Null
        /\ clear_slot.stack_corrupted = FALSE
    BY DEF clear_slot
  <2>6. TypeOK'
    <3>1. stats' \in Stats
      BY <2>1 DEF IInv, TypeOK, Stats
    <3> QED
      BY <2>1, <2>3, <2>4, <3>1 DEF IInv, TypeOK
  <2>7. BeforeInit' /\ Running'
    BY <2>1, <2>4, <2>5, SlotNumbers DEF BeforeInit, IInv, TypeOK, Running
  <2>8. OnOwnStack'
    <3>1. cpu'.sp = tasks'[current_task'].stack_page
      BY <2>1, <2>4 DEF IInv, TypeOK, OnOwnStack
    <3>2. \A u \in TaskId : tasks'[u].state = "READY" =>
              u # t /\ tasks'[u] = tasks[u] /\ u \in Ready
      BY <2>4, <2>5 DEF Ready
    <3> QED
      BY <2>1, <3>1, <3>2 DEF IInv, OnOwnStack, Ready
  <2>9. StacksOwned'
    <3>1. \A u \in TaskId \ {t} : tasks[u].stack_page # page
      BY <2>1 DEF page, IInv, StacksOwned
    <3>2. \A u \in TaskId : tasks'[u].stack_page =
              IF u = t THEN Null ELSE tasks[u].stack_page
      BY <2>4, <2>5
    <3>3. \A p : p \in StackPages' <=> p \in StackPages \ {page}
      BY <2>1, <3>1, <3>2 DEF StackPages, page
    <3>4. StackPages' \cup client_pages' = held \ {page}
      BY <2>2, <3>3 DEF held
    <3>5. StackPages' \cap client_pages' = {}
      BY <3>3 DEF IInv, StacksOwned
    <3>6. \A u, v \in TaskId :
              tasks'[u].stack_page = tasks'[v].stack_page /\ u # v
                  => tasks'[u].stack_page = Null
      BY <3>2 DEF IInv, StacksOwned
    <3>7. \A u \in TaskId \ {0} :
              tasks'[u].stack_page = Null <=> tasks'[u].state = "UNUSED"
      BY <2>4, <2>5 DEF IInv, StacksOwned
    <3> QED
      BY <2>1, <2>3, <3>4, <3>5, <3>6, <3>7 DEF StacksOwned
  <2>10. Corrupted'
    BY <2>1, <2>4, <2>5, SlotNumbers DEF IInv, Corrupted
  <2>11. Waiting'
    BY <2>1, <2>4, <2>5 DEF IInv, Waiting, Distance
  <2> QED
    BY <2>6, <2>7, <2>8, <2>9, <2>10, <2>11 DEF IInv
<1> QED
  BY <1>1, <1>2, <1>3

LEMMA task_reap_finished_Inv ==
  ASSUME IInv, task_reap_finished
  PROVE  IInv'
<1>1. /\ cpu' \in [sp : Nat, pc : Point]
      /\ BeforeInit' /\ Running' /\ OnOwnStack' /\ Corrupted' /\ Waiting'
  BY MoveInv DEF task_reap_finished, MayCall
<1>2. TypeOK'
  BY <1>1, TaskMaxAssumption DEF task_reap_finished, IInv, TypeOK
<1>3. StacksOwned'
  BY SameStacks DEF task_reap_finished, IInv
<1> QED
  BY <1>1, <1>2, <1>3 DEF IInv

LEMMA task_reap_finished_loop_Inv ==
  ASSUME IInv, task_reap_finished_loop
  PROVE  IInv'
<1>1. CASE reap_cursor < TaskMax
  <2>1. reap_cursor \in 0 .. TaskMax /\ reap_cursor' \in 0 .. TaskMax
    BY <1>1, TaskMaxAssumption DEF task_reap_finished_loop, IInv, TypeOK
  <2> QED
    BY <1>1, <2>1, ReapInv DEF task_reap_finished_loop
<1>2. CASE ~(reap_cursor < TaskMax)
  <2>1. initialized
    BY DEF task_reap_finished_loop, IInv, BeforeInit
  <2>2. /\ cpu' \in [sp : Nat, pc : Point]
        /\ BeforeInit' /\ Running' /\ OnOwnStack' /\ Corrupted' /\ Waiting'
    BY <1>2, <2>1, MoveInv DEF task_reap_finished_loop
  <2>3. TypeOK'
    BY <1>2, <2>2, TaskMaxAssumption
       DEF task_reap_finished_loop, IInv, TypeOK
  <2>4. StacksOwned'
    BY <1>2, SameStacks DEF task_reap_finished_loop, IInv
  <2> QED
    BY <2>2, <2>3, <2>4 DEF IInv
<1> QED
  BY <1>1, <1>2

LEMMA StackOverflow_Inv ==
  ASSUME IInv, StackOverflow
  PROVE  IInv'
<1>1. PICK value \in Spill : heap' = WritePage(heap, cpu.sp, value, TRUE)
  BY DEF StackOverflow
<1>2. cpu.sp \in StackPages /\ value \in Nat /\ TRUE \in BOOLEAN
  BY SpillAssumption, PagesInUse DEF StackOverflow
<1>3. heap' \in HeapType /\ StacksOwned'
  BY <1>1, <1>2, StackWrite DEF StackOverflow
<1> QED
  BY <1>3 DEF StackOverflow, IInv, TypeOK, BeforeInit, Running, OnOwnStack,
              Ready, Corrupted, Waiting, Distance

(* Pages of other code are never those of a stack. *)
LEMMA ClientAlloc_Inv ==
  ASSUME IInv, ClientAlloc
  PROVE  IInv'
<1> DEFINE page == page_alloc(heap).ret
           held == StackPages \cup client_pages
<1>1. /\ page \in Frame \ held
      /\ heap' \in HeapType
      /\ HeapInv(heap', held \cup {page})
  BY PagesInUse, AllocInv DEF ClientAlloc
<1>2. client_pages' = client_pages \cup {page} /\ tasks' = tasks
  BY DEF ClientAlloc
<1> HIDE DEF page
<1>3. StacksOwned'
  <2>1. StackPages' = StackPages
    BY <1>2 DEF StackPages
  <2>2. StackPages' \cup client_pages' = held \cup {page}
    BY <1>2, <2>1
  <2>3. StackPages' \cap client_pages' = {}
    BY <1>1, <1>2, <2>1 DEF IInv, StacksOwned
  <2> HIDE DEF held
  <2> QED
    BY <1>1, <1>2, <2>2, <2>3 DEF IInv, StacksOwned
<1>4. TypeOK'
  BY <1>1, <1>2 DEF ClientAlloc, IInv, TypeOK
<1> QED
  BY <1>3, <1>4 DEF ClientAlloc, IInv, BeforeInit, Running, OnOwnStack,
                    Ready, Corrupted, Waiting, Distance

LEMMA ClientFree_Inv ==
  ASSUME IInv, ClientFree
  PROVE  IInv'
<1> DEFINE held == StackPages \cup client_pages
<1>1. PICK page \in client_pages :
         /\ heap' = page_free(heap, PageAddr(page)).heap
         /\ client_pages' = client_pages \ {page}
  BY DEF ClientFree
<1>2. heap' \in HeapType /\ HeapInv(heap', held \ {page})
  <2>1. heap \in HeapType /\ HeapInv(heap, held)
    BY PagesInUse
  <2>2. page \in held /\ page \in Nat /\ 0 \in Nat
    BY PagesInUse, RamAssumption DEF Frame
  <2> HIDE DEF held
  <2> DEFINE call == page_free(heap, <<page, 0>>)
  <2>3. /\ call.ret = IF page \in held /\ 0 = 0 THEN 1 ELSE 0
        /\ call.heap \in HeapType
        /\ call.ret = 1 =>
               /\ HeapInv(call.heap, held \ {page})
               /\ call.heap.word = [heap.word EXCEPT ![page] = heap.free_list]
               /\ call.heap.dirty = heap.dirty
        /\ call.ret = 0 => call.heap = heap
        /\ call.heap.initialized = heap.initialized
    BY ONLY <2>1, <2>2, FreeInv
  <2>4. heap' = call.heap
    BY <1>1 DEF PageAddr
  <2> HIDE DEF call
  <2> QED
    BY <2>2, <2>3, <2>4
<1>3. StacksOwned'
  <2>1. StackPages' = StackPages /\ page \notin StackPages
    BY DEF ClientFree, StackPages, IInv, StacksOwned
  <2>2. StackPages' \cup client_pages' = held \ {page}
    BY <1>1, <2>1
  <2>3. StackPages' \cap client_pages' = {}
    BY <1>1, <2>1 DEF IInv, StacksOwned
  <2> HIDE DEF held
  <2> QED
    BY <1>2, <2>2, <2>3 DEF ClientFree, IInv, StacksOwned
<1>4. TypeOK'
  BY <1>1, <1>2 DEF ClientFree, IInv, TypeOK
<1> QED
  BY <1>3, <1>4 DEF ClientFree, IInv, BeforeInit, Running, OnOwnStack,
                    Ready, Corrupted, Waiting, Distance

-----------------------------------------------------------------------------
(* Every step of every task keeps the invariant. *)
LEMMA StepIInv ==
  ASSUME IInv, [SchedNext]_schedVars
  PROVE  IInv'
<1>1. CASE task_init
  BY <1>1, task_init_Inv
<1>2. ASSUME NEW entry \in Entry, task_create(entry)
      PROVE  IInv'
  BY <1>2, task_create_Inv
<1>3. CASE task_bootstrap
  BY <1>3, task_bootstrap_Inv
<1>4. CASE task_yield
  BY <1>4, task_yield_Inv
<1>5. CASE task_yield_switch
  BY <1>5, task_yield_switch_Inv
<1>6. CASE task_exit_call
  BY <1>6, task_exit_call_Inv
<1>7. CASE task_exit
  BY <1>7, task_exit_Inv
<1>8. CASE task_exit_switch
  BY <1>8, task_exit_switch_Inv
<1>9. CASE task_reap_call
  <2>1. reap_cursor' \in 0 .. TaskMax
    BY <1>9 DEF task_reap_call, IInv, TypeOK
  <2> QED
    BY <1>9, <2>1, ReapInv DEF task_reap_call
<1>10. CASE task_reap_finished
  BY <1>10, task_reap_finished_Inv
<1>11. CASE task_reap_finished_loop
  BY <1>11, task_reap_finished_loop_Inv
<1>12. CASE StackOverflow
  BY <1>12, StackOverflow_Inv
<1>13. CASE ClientAlloc
  BY <1>13, ClientAlloc_Inv
<1>14. CASE ClientFree
  BY <1>14, ClientFree_Inv
<1>15. CASE UNCHANGED schedVars
  BY <1>15 DEF schedVars, IInv, TypeOK, BeforeInit, Running, OnOwnStack, Ready,
               StacksOwned, StackPages, Corrupted, Waiting, Distance
<1> QED
  BY <1>1, <1>2, <1>3, <1>4, <1>5, <1>6, <1>7, <1>8, <1>9, <1>10, <1>11,
     <1>12, <1>13, <1>14, <1>15 DEF SchedNext

(* The inductive invariant, from which the theorems below follow. *)
LEMMA InvariantHolds == SchedSpec => []IInv
<1>1. IInv /\ [SchedNext]_schedVars => IInv'
  BY StepIInv
<1> QED
  BY InitIInv, <1>1, PTL DEF SchedSpec

(* The scheduler's state and the allocator's under it are well typed. *)
THEOREM TypeCorrect == SchedSpec => []TypeOK
<1>1. IInv => TypeOK
  BY DEF IInv
<1> QED
  BY InvariantHolds, <1>1, PTL

(* One task runs, the shell can always run again, and task_exit never ends  *)
(* in its wfe loop (task.c:208).                                            *)
THEOREM ExitSwitches == SchedSpec => []ExitAlwaysSwitches
<1>1. ASSUME IInv
      PROVE  ExitAlwaysSwitches
  <2> SUFFICES ASSUME initialized
               PROVE  /\ {t \in TaskId : tasks[t].state = "RUNNING"} =
                             IF cpu.pc = "task_exit_switch" THEN {}
                             ELSE {current_task}
                      /\ tasks[0].state = IF current_task = 0 THEN "RUNNING"
                                                              ELSE "READY"
                      /\ cpu.pc # "parked"
    BY DEF ExitAlwaysSwitches
  <2>1. \A t \in TaskId :
            tasks[t].state = "RUNNING"
                <=> t = current_task /\ cpu.pc # "task_exit_switch"
    BY <1>1 DEF IInv, Running
  <2>2. current_task \in TaskId
    BY <1>1 DEF IInv, TypeOK
  <2>3. {t \in TaskId : tasks[t].state = "RUNNING"} =
            IF cpu.pc = "task_exit_switch" THEN {} ELSE {current_task}
    BY <2>1, <2>2
  <2>4. tasks[0].state = IF current_task = 0 THEN "RUNNING" ELSE "READY"
    BY <1>1, <2>1, SlotNumbers DEF IInv, Running
  <2> QED
    BY <1>1, <2>3, <2>4 DEF IInv, Running
<1> QED
  BY InvariantHolds, <1>1, PTL

(* The CPU is on the stack of the current task and every ready task resumes *)
(* on its own (task.c:206).                                                 *)
THEOREM EveryTaskOnItsStack == SchedSpec => []OnOwnStack
<1>1. IInv => OnOwnStack
  BY DEF IInv
<1> QED
  BY InvariantHolds, <1>1, PTL

(* Stack pages are never lost, shared, or on the free list while a slot     *)
(* holds them (task.c:232).                                                 *)
THEOREM StacksAreOwned == SchedSpec => []StacksOwned
<1>1. IInv => StacksOwned
  BY DEF IInv
<1> QED
  BY InvariantHolds, <1>1, PTL

(* A ready task waits for at most one turn of each other slot (task.c:79).  *)
THEOREM SchedulerIsFair == SchedSpec => []BoundedBypass
<1>1. ASSUME IInv
      PROVE  BoundedBypass
  <2> SUFFICES ASSUME NEW t \in TaskId, TaskMax # 1
               PROVE  bypassed[t] <= TaskMax - 2
    BY DEF BoundedBypass
  <2>1. CASE tasks[t].state # "READY"
    BY <1>1, <2>1, TaskMaxAssumption DEF IInv, Waiting
  <2>2. CASE tasks[t].state = "READY"
    <3>1. initialized /\ current_task \in TaskId /\ bypassed[t] \in Nat
      BY <1>1, <2>2 DEF IInv, BeforeInit, clear_slot, TypeOK
    <3>2. t # current_task
      BY <1>1, <2>2, <3>1 DEF IInv, Running
    <3>3. Distance(current_task, t) \in 1 .. TaskMax - 1
      BY <3>1, <3>2, NearerSlots
    <3>4. bypassed[t] + Distance(current_task, t) <= TaskMax - 1
      BY <1>1, <2>2 DEF IInv, Waiting
    <3> QED
      BY <3>1, <3>3, <3>4, TaskMaxAssumption
  <2> QED
    BY <2>1, <2>2
<1> QED
  BY InvariantHolds, <1>1, PTL

-----------------------------------------------------------------------------
(* What one step does to the slot of a task whose stack overflowed, whether *)
(* or not anyone noticed: the slot keeps its page, and once marked it stays *)
(* marked, is not dispatched and stays FINISHED.                            *)
OverflowKept(t) ==
    /\ tasks[t].stack_corrupted \/ ~stack_canary_ok(t)
           => tasks'[t].stack_page = tasks[t].stack_page
    /\ tasks[t].stack_corrupted =>
           /\ tasks'[t].stack_corrupted
           /\ current_task' = t => current_task = t
           /\ tasks[t].state = "FINISHED" => tasks'[t].state = "FINISHED"

LEMMA SwitchKeeps ==
  ASSUME IInv, initialized, NEW t \in TaskId, NEW next \in find_next_ready,
         NEW left \in {"READY", "FINISHED"}, NEW resume \in Point,
         SwitchTo(next, left, resume),
         left = "READY" => cpu.pc = "task_yield"
  PROVE  OverflowKept(t)
<1>1. left \in State
  BY DEF State
<1>2. /\ next \in TaskId \ {current_task}
      /\ tasks[next].state = "READY"
      /\ tasks' \in [TaskId -> Slot]
      /\ \A u \in TaskId :
             /\ tasks'[u].stack_page = tasks[u].stack_page
             /\ tasks'[u].entry = tasks[u].entry
             /\ tasks'[u].stack_corrupted = tasks[u].stack_corrupted
      /\ \A u \in TaskId \ {current_task, next} : tasks'[u] = tasks[u]
      /\ tasks'[current_task].state = left
      /\ tasks'[current_task].context = [sp |-> cpu.sp, pc |-> resume]
      /\ tasks'[current_task].schedule_count =
             tasks[current_task].schedule_count
      /\ tasks'[next].state = "RUNNING"
      /\ tasks'[next].schedule_count = tasks[next].schedule_count + 1
  BY <1>1, SwitchSlots DEF IInv
<1>3. current_task' = next
  BY DEF SwitchTo
<1>4. ASSUME tasks[t].stack_corrupted
      PROVE  t # next /\ (tasks[t].state = "FINISHED" => tasks'[t].state = "FINISHED")
  <2>1. tasks[t].state # "READY"
    BY <1>4 DEF IInv, Corrupted, Running
  <2>2. CASE t = current_task
    BY <1>2, <2>1, <2>2 DEF IInv, Running
  <2>3. CASE t # current_task
    BY <1>2, <2>1, <2>3
  <2> QED
    BY <1>2, <2>1, <2>2, <2>3
<1> QED
  BY <1>2, <1>3, <1>4 DEF OverflowKept

LEMMA ReapKeeps ==
  ASSUME IInv, NEW t \in TaskId, NEW u \in 0 .. TaskMax, task_reap(u),
         UNCHANGED current_task
  PROVE  OverflowKept(t)
<1>1. CASE ~ReapEligible(u)
  BY <1>1 DEF task_reap, OverflowKept
<1>2. CASE ReapEligible(u)
  <2>1. u \in TaskId
    BY <1>2 DEF ReapEligible
  <2>2. \A v \in TaskId :
            /\ Marked(u)[v].stack_page = tasks[v].stack_page
            /\ Marked(u)[v].state = tasks[v].state
            /\ Marked(u)[v].stack_corrupted <=>
                   \/ tasks[v].stack_corrupted
                   \/ v = u /\ ~stack_canary_ok(u)
    BY <2>1, MarkedSlots DEF IInv
  <2>3. \/ tasks' = Marked(u)
        \/ tasks' = [tasks EXCEPT ![u] = clear_slot] /\ ~Marked(u)[u].stack_corrupted
    BY <1>2 DEF task_reap
  <2>4. CASE tasks' = Marked(u)
    BY <2>2, <2>4 DEF OverflowKept
  <2>5. CASE /\ tasks' = [tasks EXCEPT ![u] = clear_slot]
             /\ ~Marked(u)[u].stack_corrupted
    <3>1. CASE t = u
      BY <2>1, <2>2, <2>5, <3>1 DEF OverflowKept
    <3>2. CASE t # u
      BY <2>1, <2>5, <3>2 DEF OverflowKept, IInv, TypeOK
    <3> QED
      BY <3>1, <3>2
  <2> QED
    BY <2>3, <2>4, <2>5
<1> QED
  BY <1>1, <1>2

LEMMA StepKeeps ==
  ASSUME IInv, [SchedNext]_schedVars, NEW t \in TaskId
  PROVE  OverflowKept(t)
<1>1. CASE task_init
  <2>1. tasks[t] = clear_slot
    BY <1>1 DEF task_init, IInv, BeforeInit
  <2>2. ~tasks[t].stack_corrupted /\ stack_canary_ok(t)
    BY <2>1 DEF clear_slot, stack_canary_ok
  <2> QED
    BY <2>2 DEF OverflowKept
<1>2. ASSUME NEW entry \in Entry, task_create(entry)
      PROVE  OverflowKept(t)
  <2>1. PICK u \in FirstUnused :
           /\ \E slot : tasks' = [tasks EXCEPT ![u] = slot]
           /\ current_task' = current_task
    BY <1>2 DEF task_create
  <2>2. u \in TaskId \ {0} /\ tasks[u].state = "UNUSED" /\ initialized
    BY <1>2 DEF FirstUnused, task_create
  <2>3. CASE t = u
    <3>1. tasks[t].stack_page = Null /\ t # current_task
      BY <2>2, <2>3 DEF IInv, StacksOwned, Running
    <3>2. ~tasks[t].stack_corrupted /\ stack_canary_ok(t)
      BY <2>2, <2>3, <3>1 DEF IInv, Corrupted, stack_canary_ok
    <3> QED
      BY <3>2 DEF OverflowKept
  <2>4. CASE t # u
    BY <2>1, <2>2, <2>4 DEF OverflowKept, IInv, TypeOK
  <2> QED
    BY <2>3, <2>4
<1>3. CASE task_yield
  <2>1. tasks' = Marked(current_task) /\ current_task' = current_task
    BY <1>3 DEF task_yield
  <2>2. current_task \in TaskId
    BY DEF IInv, TypeOK
  <2>3. /\ Marked(current_task)[t].stack_page = tasks[t].stack_page
        /\ Marked(current_task)[t].state = tasks[t].state
        /\ tasks[t].stack_corrupted => Marked(current_task)[t].stack_corrupted
    BY <2>2, MarkedSlots DEF IInv
  <2> QED
    BY <2>1, <2>3 DEF OverflowKept
<1>4. CASE task_exit
  <2>1. /\ tasks' = [Marked(current_task) EXCEPT ![current_task].state = "FINISHED"]
        /\ current_task' = current_task
    BY <1>4 DEF task_exit
  <2>2. current_task \in TaskId
    BY DEF IInv, TypeOK
  <2>3. /\ Marked(current_task) \in [TaskId -> Slot]
        /\ Marked(current_task)[t].stack_page = tasks[t].stack_page
        /\ Marked(current_task)[t].state = tasks[t].state
        /\ tasks[t].stack_corrupted => Marked(current_task)[t].stack_corrupted
    BY <2>2, MarkedSlots DEF IInv
  <2>4. /\ tasks'[t].stack_page = Marked(current_task)[t].stack_page
        /\ tasks'[t].stack_corrupted = Marked(current_task)[t].stack_corrupted
        /\ Marked(current_task)[t].state = "FINISHED"
               => tasks'[t].state = "FINISHED"
    <3> DEFINE marked == Marked(current_task)
    <3>1. marked \in [TaskId -> Slot]
      BY <2>3
    <3>2. tasks' = [marked EXCEPT ![current_task].state = "FINISHED"]
      BY <2>1
    <3> HIDE DEF marked
    <3>3. /\ tasks'[t].stack_page = marked[t].stack_page
          /\ tasks'[t].stack_corrupted = marked[t].stack_corrupted
          /\ marked[t].state = "FINISHED" => tasks'[t].state = "FINISHED"
      BY <2>2, <3>1, <3>2 DEF Slot
    <3> QED
      BY <3>3 DEF marked
  <2> QED
    BY <2>1, <2>3, <2>4 DEF OverflowKept
<1>5. CASE task_yield_switch
  <2>1. initialized
    BY <1>5 DEF task_yield_switch, IInv, BeforeInit
  <2>2. CASE find_next_ready = {}
    BY <1>5, <2>2 DEF task_yield_switch, OverflowKept
  <2>3. CASE find_next_ready # {}
    <3>1. PICK next \in find_next_ready : SwitchTo(next, "READY", "body")
      BY <1>5, <2>3 DEF task_yield_switch
    <3>2. "body" \in Point /\ cpu.pc = "task_yield"
      BY <1>5 DEF Point, task_yield_switch
    <3> QED
      BY <2>1, <3>1, <3>2, SwitchKeeps
  <2> QED
    BY <2>2, <2>3
<1>6. CASE task_exit_switch
  <2>1. initialized
    BY <1>6 DEF task_exit_switch, IInv, BeforeInit
  <2>2. CASE find_next_ready = {}
    BY <1>6, <2>2 DEF task_exit_switch, OverflowKept
  <2>3. CASE find_next_ready # {}
    <3>1. PICK next \in find_next_ready : SwitchTo(next, "FINISHED", "parked")
      BY <1>6, <2>3 DEF task_exit_switch
    <3>2. "parked" \in Point
      BY DEF Point
    <3> QED
      BY <2>1, <3>1, <3>2, SwitchKeeps
  <2> QED
    BY <2>2, <2>3
<1>7. CASE task_reap_call
  BY <1>7, ReapKeeps DEF task_reap_call
<1>8. CASE task_reap_finished_loop
  <2>1. reap_cursor \in 0 .. TaskMax
    BY DEF IInv, TypeOK
  <2> QED
    BY <1>8, <2>1, ReapKeeps DEF task_reap_finished_loop, OverflowKept
<1>9. CASE UNCHANGED <<tasks, current_task>>
  BY <1>9 DEF OverflowKept
<1> QED
  BY <1>1, <1>2, <1>3, <1>4, <1>5, <1>6, <1>7, <1>8, <1>9
     DEF SchedNext, schedVars, task_bootstrap, task_exit_call,
         task_reap_finished, StackOverflow, ClientAlloc, ClientFree

(* An overflowed stack is never released (task.c:228). *)
THEOREM OverflowIsKept == SchedSpec => OverflowedStackKept
<1>1. IInv /\ [SchedNext]_schedVars
        => [\A t \in TaskId :
               tasks[t].stack_corrupted \/ ~stack_canary_ok(t)
                   => tasks'[t].stack_page = tasks[t].stack_page]_schedVars
  BY StepKeeps DEF OverflowKept
<1> QED
  BY InvariantHolds, <1>1, PTL DEF SchedSpec, OverflowedStackKept

(* A task whose overflow was noticed is not dispatched again and its slot   *)
(* not reused (task.c:163).                                                 *)
THEOREM CorruptionEnds == SchedSpec => CorruptedTaskEnds
<1>1. IInv /\ [SchedNext]_schedVars
        => [\A t \in TaskId :
               tasks[t].stack_corrupted =>
                   /\ tasks'[t].stack_corrupted
                   /\ current_task' = t => current_task = t
                   /\ tasks[t].state = "FINISHED"
                          => tasks'[t].state = "FINISHED"]_schedVars
  BY StepKeeps DEF OverflowKept
<1> QED
  BY InvariantHolds, <1>1, PTL DEF SchedSpec, CorruptedTaskEnds

-----------------------------------------------------------------------------
(* The counters.  The slots they are about, as sets: *)
Created == {t \in TaskId \ {0} : tasks[t].state \in {"READY", "RUNNING", "FINISHED"}}
Ended == {t \in TaskId \ {0} : tasks[t].state = "FINISHED"}
Errors == {t \in TaskId : tasks[t].stack_corrupted}

(* A call of task_yield or task_exit that is counted and has not switched   *)
(* yet is one the switches are behind.                                      *)
SwitchAhead ==
    cpu.pc \in {"task_yield", "task_exit_switch"}
        => stats.context_switches < stats.yield_calls + stats.exited_tasks

Counts ==
    /\ stats.created_tasks = Cardinality(Created) + stats.reaped_tasks
    /\ stats.exited_tasks = Cardinality(Ended) + stats.reaped_tasks
    /\ stats.stack_errors = Cardinality(Errors)
    /\ stats.context_switches <= stats.yield_calls + stats.exited_tasks
    /\ SwitchAhead

LEMMA SlotSets ==
  /\ IsFiniteSet(Created) /\ Cardinality(Created) \in Nat
  /\ IsFiniteSet(Ended) /\ Cardinality(Ended) \in Nat
  /\ IsFiniteSet(Errors) /\ Cardinality(Errors) \in Nat
<1>1. IsFiniteSet(TaskId)
  BY TaskMaxAssumption, FS_Interval, 0 \in Int, TaskMax - 1 \in Int DEF TaskId
<1>2. Created \in SUBSET TaskId /\ Ended \in SUBSET TaskId /\ Errors \in SUBSET TaskId
  BY DEF Created, Ended, Errors
<1>3. IsFiniteSet(Created) /\ IsFiniteSet(Ended) /\ IsFiniteSet(Errors)
  BY <1>1, <1>2, FS_Subset
<1> QED
  BY <1>3, FS_CardinalityType

LEMMA SameStates ==
  ASSUME \A t \in TaskId : tasks'[t].state = tasks[t].state
  PROVE  Created' = Created /\ Ended' = Ended
BY DEF Created, Ended

LEMMA SameErrors ==
  ASSUME \A t \in TaskId : tasks'[t].stack_corrupted <=> tasks[t].stack_corrupted
  PROVE  Errors' = Errors
BY DEF Errors

(* record_stack_error counts the slot it marks, once.                       *)
LEMMA ErrorsCounted ==
  ASSUME Counts, NEW t \in TaskId,
         \A u \in TaskId : tasks'[u].stack_corrupted <=>
                               \/ tasks[u].stack_corrupted
                               \/ u = t /\ ~stack_canary_ok(t)
  PROVE  ErrorsAfter(t) = Cardinality(Errors')
<1>1. stats.stack_errors = Cardinality(Errors) /\ Cardinality(Errors) \in Nat
  BY SlotSets DEF Counts
<1>2. CASE NewlyCorrupted(t)
  <2>1. Errors' = Errors \cup {t} /\ t \notin Errors
    BY <1>2 DEF Errors, NewlyCorrupted
  <2>2. Cardinality(Errors') = Cardinality(Errors) + 1
    BY <2>1, SlotSets, FS_AddElement
  <2> QED
    BY <1>1, <1>2, <2>2 DEF ErrorsAfter
<1>3. CASE ~NewlyCorrupted(t)
  <2>1. Errors' = Errors
    BY <1>3 DEF Errors, NewlyCorrupted
  <2> QED
    BY <1>1, <1>3, <2>1 DEF ErrorsAfter
<1> QED
  BY <1>2, <1>3

LEMMA SwitchCounts ==
  ASSUME IInv, Counts, initialized, NEW next \in find_next_ready,
         NEW left \in {"READY", "FINISHED"}, NEW resume \in {"body", "parked"},
         SwitchTo(next, left, resume),
         \/ cpu.pc = "task_yield" /\ left = "READY"
         \/ cpu.pc = "task_exit_switch" /\ left = "FINISHED",
         stats' = [stats EXCEPT !.context_switches = @ + 1]
  PROVE  Counts'
<1>1. left \in State /\ resume \in Point
  BY DEF State, Point
<1>2. /\ next \in TaskId \ {current_task}
      /\ tasks[next].state = "READY"
      /\ tasks' \in [TaskId -> Slot]
      /\ \A u \in TaskId :
             /\ tasks'[u].stack_page = tasks[u].stack_page
             /\ tasks'[u].entry = tasks[u].entry
             /\ tasks'[u].stack_corrupted = tasks[u].stack_corrupted
      /\ \A u \in TaskId \ {current_task, next} : tasks'[u] = tasks[u]
      /\ tasks'[current_task].state = left
      /\ tasks'[current_task].context = [sp |-> cpu.sp, pc |-> resume]
      /\ tasks'[current_task].schedule_count =
             tasks[current_task].schedule_count
      /\ tasks'[next].state = "RUNNING"
      /\ tasks'[next].schedule_count = tasks[next].schedule_count + 1
  BY <1>1, SwitchSlots DEF IInv
<1>3. current_task \in TaskId /\ tasks[current_task].state = IF left = "READY" THEN "RUNNING" ELSE "FINISHED"
  BY DEF IInv, TypeOK, Running
<1>4. Created' = Created /\ Ended' = Ended
  <2>1. \A u \in TaskId :
            /\ tasks'[u].state \in {"READY", "RUNNING", "FINISHED"}
                   <=> tasks[u].state \in {"READY", "RUNNING", "FINISHED"}
            /\ tasks'[u].state = "FINISHED" <=> tasks[u].state = "FINISHED"
    BY <1>2, <1>3
  <2> QED
    BY <2>1 DEF Created, Ended
<1>5. Errors' = Errors
  BY <1>2, SameErrors
<1>6. stats \in Stats
  BY DEF IInv, TypeOK
<1>7. /\ stats'.created_tasks = stats.created_tasks /\ stats'.exited_tasks = stats.exited_tasks
      /\ stats'.reaped_tasks = stats.reaped_tasks /\ stats'.stack_errors = stats.stack_errors
      /\ stats'.yield_calls = stats.yield_calls
      /\ stats'.context_switches = stats.context_switches + 1
  BY <1>6 DEF Stats
<1>8. stats.context_switches < stats.yield_calls + stats.exited_tasks
  BY DEF Counts, SwitchAhead
<1>9. /\ stats.context_switches \in Nat /\ stats.yield_calls \in Nat /\ stats.exited_tasks \in Nat
  BY <1>6 DEF Stats
<1>10. stats'.context_switches <= stats'.yield_calls + stats'.exited_tasks
  BY <1>7, <1>8, <1>9
<1>11. cpu'.pc \in {"body", "task_bootstrap"}
  <2>1. next \in Ready
    BY <1>2 DEF Ready
  <2> QED
    BY <2>1 DEF IInv, OnOwnStack, SwitchTo
<1> QED
  BY <1>4, <1>5, <1>7, <1>10, <1>11 DEF Counts, SwitchAhead

LEMMA ReapCounts ==
  ASSUME IInv, Counts, NEW t \in 0 .. TaskMax, task_reap(t),
         cpu.pc \notin {"task_yield", "task_exit_switch"}, UNCHANGED cpu
  PROVE  Counts'
<1>1. stats \in Stats
  BY DEF IInv, TypeOK
<1>2. SwitchAhead'
  BY DEF SwitchAhead
<1>3. CASE ~ReapEligible(t)
  <2>1. UNCHANGED <<tasks, stats>>
    BY <1>3 DEF task_reap
  <2>2. Created' = Created /\ Ended' = Ended /\ Errors' = Errors
    BY <2>1 DEF Created, Ended, Errors
  <2> QED
    BY <1>2, <2>1, <2>2 DEF Counts
<1>4. ASSUME ReapEligible(t)
      PROVE  /\ t \in TaskId \ {0} /\ tasks[t].state = "FINISHED"
             /\ \/ /\ tasks' = Marked(t)
                   /\ stats' = [stats EXCEPT !.stack_errors = ErrorsAfter(t)]
                \/ /\ tasks' = [tasks EXCEPT ![t] = clear_slot]
                   /\ ~Marked(t)[t].stack_corrupted
                   /\ stats' = [stats EXCEPT !.reaped_tasks = @ + 1]
  BY <1>4 DEF ReapEligible, task_reap
<1>5. CASE /\ ReapEligible(t) /\ tasks' = Marked(t)
           /\ stats' = [stats EXCEPT !.stack_errors = ErrorsAfter(t)]
  <2>1. \A u \in TaskId :
            /\ tasks'[u].state = tasks[u].state
            /\ tasks'[u].stack_corrupted <=>
                   \/ tasks[u].stack_corrupted
                   \/ u = t /\ ~stack_canary_ok(t)
    BY <1>4, <1>5, MarkedSlots DEF IInv
  <2>2. Created' = Created /\ Ended' = Ended
    BY <2>1, SameStates
  <2>3. ErrorsAfter(t) = Cardinality(Errors')
    BY <1>4, <1>5, <2>1, ErrorsCounted
  <2>4. /\ stats'.created_tasks = stats.created_tasks /\ stats'.exited_tasks = stats.exited_tasks
        /\ stats'.reaped_tasks = stats.reaped_tasks /\ stats'.stack_errors = ErrorsAfter(t)
        /\ stats'.yield_calls = stats.yield_calls
        /\ stats'.context_switches = stats.context_switches
    BY <1>1, <1>5 DEF Stats
  <2> QED
    BY <1>2, <2>2, <2>3, <2>4 DEF Counts
<1>6. CASE /\ ReapEligible(t) /\ tasks' = [tasks EXCEPT ![t] = clear_slot]
           /\ ~Marked(t)[t].stack_corrupted
           /\ stats' = [stats EXCEPT !.reaped_tasks = @ + 1]
  <2>1. /\ tasks'[t] = clear_slot /\ \A u \in TaskId \ {t} : tasks'[u] = tasks[u]
    BY <1>4, <1>6 DEF IInv, TypeOK
  <2>2. clear_slot.state = "UNUSED" /\ clear_slot.stack_corrupted = FALSE
    BY DEF clear_slot
  <2>3. Created' = Created \ {t} /\ t \in Created
    BY <1>4, <1>6, <2>1, <2>2 DEF Created
  <2>4. Ended' = Ended \ {t} /\ t \in Ended
    BY <1>4, <1>6, <2>1, <2>2 DEF Ended
  <2>5. Errors' = Errors
    <3>1. ~tasks[t].stack_corrupted
      BY <1>4, <1>6, MarkedSlots DEF IInv
    <3> QED
      BY <1>4, <1>6, <2>1, <2>2, <3>1 DEF Errors
  <2>6. /\ Cardinality(Created') = Cardinality(Created) - 1
        /\ Cardinality(Ended') = Cardinality(Ended) - 1
    BY <2>3, <2>4, SlotSets, FS_RemoveElement
  <2>7. /\ stats'.created_tasks = stats.created_tasks /\ stats'.exited_tasks = stats.exited_tasks
        /\ stats'.reaped_tasks = stats.reaped_tasks + 1
        /\ stats'.stack_errors = stats.stack_errors
        /\ stats'.yield_calls = stats.yield_calls
        /\ stats'.context_switches = stats.context_switches
    BY <1>1, <1>6 DEF Stats
  <2>8. stats.reaped_tasks \in Nat /\ Cardinality(Created) \in Nat /\ Cardinality(Ended) \in Nat
    BY <1>1, SlotSets DEF Stats
  <2>9. /\ stats.created_tasks = Cardinality(Created) + stats.reaped_tasks
        /\ stats.exited_tasks = Cardinality(Ended) + stats.reaped_tasks
    BY DEF Counts
  <2>10. /\ stats'.created_tasks = Cardinality(Created') + stats'.reaped_tasks
         /\ stats'.exited_tasks = Cardinality(Ended') + stats'.reaped_tasks
    BY <2>6, <2>7, <2>8, <2>9
  <2> QED
    BY <1>2, <2>5, <2>7, <2>10 DEF Counts
<1> QED
  BY <1>3, <1>4, <1>5, <1>6

LEMMA InitCounts == SchedInit => Counts
<1> SUFFICES ASSUME SchedInit PROVE Counts
  OBVIOUS
<1>1. Created = {} /\ Ended = {} /\ Errors = {}
  BY DEF SchedInit, clear_slot, Created, Ended, Errors
<1>2. Cardinality({}) = 0
  BY FS_EmptySet
<1>3. /\ stats.created_tasks = 0 /\ stats.context_switches = 0 /\ stats.yield_calls = 0
      /\ stats.exited_tasks = 0 /\ stats.reaped_tasks = 0 /\ stats.stack_errors = 0
      /\ cpu.pc = "body"
  BY DEF SchedInit
<1>4. 0 = 0 + 0 /\ 0 <= 0 + 0
  OBVIOUS
<1> QED
  BY <1>1, <1>2, <1>3, <1>4 DEF Counts, SwitchAhead

LEMMA StepCounts ==
  ASSUME IInv, Counts, [SchedNext]_schedVars
  PROVE  Counts'
<1>1. /\ stats \in Stats /\ current_task \in TaskId /\ tasks \in [TaskId -> Slot]
      /\ 0 \in TaskId
  BY SlotNumbers DEF IInv, TypeOK
<1>2. /\ stats.created_tasks \in Nat /\ stats.context_switches \in Nat
      /\ stats.yield_calls \in Nat /\ stats.exited_tasks \in Nat
      /\ stats.reaped_tasks \in Nat /\ stats.stack_errors \in Nat
  BY <1>1 DEF Stats
<1>3. /\ stats.created_tasks = Cardinality(Created) + stats.reaped_tasks
      /\ stats.exited_tasks = Cardinality(Ended) + stats.reaped_tasks
      /\ stats.stack_errors = Cardinality(Errors)
      /\ stats.context_switches <= stats.yield_calls + stats.exited_tasks
      /\ Cardinality(Created) \in Nat /\ Cardinality(Ended) \in Nat
  BY SlotSets DEF Counts
<1>4. CASE task_init
  <2>1. \A t \in TaskId \ {0} : tasks'[t].state = "UNUSED"
    BY <1>4 DEF task_init, clear_slot
  <2>2. \A t \in TaskId : tasks'[t].stack_corrupted = FALSE
    BY <1>4 DEF task_init, clear_slot
  <2>3. Created' = {} /\ Ended' = {} /\ Errors' = {}
    BY <2>1, <2>2 DEF Created, Ended, Errors
  <2>4. Cardinality({}) = 0
    BY FS_EmptySet
  <2>5. /\ stats'.created_tasks = 0 /\ stats'.context_switches = 0 /\ stats'.yield_calls = 0
        /\ stats'.exited_tasks = 0 /\ stats'.reaped_tasks = 0 /\ stats'.stack_errors = 0
        /\ cpu'.pc = "body"
    BY <1>4 DEF task_init, MayCall
  <2>6. 0 = 0 + 0 /\ 0 <= 0 + 0
    OBVIOUS
  <2> QED
    BY <2>3, <2>4, <2>5, <2>6 DEF Counts, SwitchAhead
<1>5. ASSUME NEW entry \in Entry, task_create(entry)
      PROVE  Counts'
  <2>1. PICK t \in FirstUnused :
           LET page == page_alloc(heap).ret
           IN  tasks' = [tasks EXCEPT ![t] =
                  [clear_slot EXCEPT
                      !.entry = entry,
                      !.stack_page = page,
                      !.state = "READY",
                      !.context = [sp |-> page, pc |-> "task_bootstrap"]]]
    BY <1>5 DEF task_create
  <2>2. t \in TaskId \ {0} /\ tasks[t].state = "UNUSED" /\ initialized
    BY <1>5 DEF FirstUnused, task_create
  <2>3. ~tasks[t].stack_corrupted
    BY <2>2 DEF IInv, Corrupted, Running
  <2>4. /\ tasks'[t].state = "READY" /\ tasks'[t].stack_corrupted = FALSE
        /\ \A u \in TaskId \ {t} : tasks'[u] = tasks[u]
    BY <1>1, <2>1, <2>2 DEF clear_slot
  <2>5. Created' = Created \cup {t} /\ t \notin Created
    BY <2>2, <2>4 DEF Created
  <2>6. Ended' = Ended /\ Errors' = Errors
    BY <2>2, <2>3, <2>4 DEF Ended, Errors
  <2>7. Cardinality(Created') = Cardinality(Created) + 1
    BY <2>5, SlotSets, FS_AddElement
  <2>8. /\ stats'.created_tasks = stats.created_tasks + 1
        /\ stats'.context_switches = stats.context_switches
        /\ stats'.yield_calls = stats.yield_calls
        /\ stats'.exited_tasks = stats.exited_tasks
        /\ stats'.reaped_tasks = stats.reaped_tasks
        /\ stats'.stack_errors = stats.stack_errors
        /\ cpu' = cpu /\ cpu.pc = "body"
    BY <1>1, <1>5 DEF task_create, MayCall, Stats
  <2>9. stats'.created_tasks = Cardinality(Created') + stats'.reaped_tasks
    BY <1>2, <1>3, <2>7, <2>8
  <2> QED
    BY <1>3, <2>6, <2>8, <2>9 DEF Counts, SwitchAhead
<1>6. CASE task_yield
  <2>1. tasks' = Marked(current_task) /\ current_task' = current_task
    BY <1>6 DEF task_yield
  <2>2. \A u \in TaskId :
            /\ tasks'[u].state = tasks[u].state
            /\ tasks'[u].stack_corrupted <=>
                   \/ tasks[u].stack_corrupted
                   \/ u = current_task /\ ~stack_canary_ok(current_task)
    BY <1>1, <2>1, MarkedSlots DEF IInv
  <2>3. Created' = Created /\ Ended' = Ended
    BY <2>2, SameStates
  <2>4. ErrorsAfter(current_task) = Cardinality(Errors')
    BY <1>1, <2>2, ErrorsCounted
  <2>5. /\ stats'.created_tasks = stats.created_tasks
        /\ stats'.context_switches = stats.context_switches
        /\ stats'.exited_tasks = stats.exited_tasks
        /\ stats'.reaped_tasks = stats.reaped_tasks
        /\ stats'.stack_errors = ErrorsAfter(current_task)
        /\ \/ cpu'.pc = "task_exit" /\ stats'.yield_calls = stats.yield_calls
           \/ stats'.yield_calls = stats.yield_calls + 1
    <3>1. cpu \in [sp : Nat, pc : Point]
      BY DEF IInv, TypeOK
    <3>2. \/ /\ cpu' = [cpu EXCEPT !.pc = "task_exit"]
             /\ stats' = [stats EXCEPT !.stack_errors = ErrorsAfter(current_task)]
          \/ stats' = [stats EXCEPT !.stack_errors = ErrorsAfter(current_task),
                                    !.yield_calls = @ + 1]
      BY <1>6 DEF task_yield
    <3>3. CASE /\ cpu' = [cpu EXCEPT !.pc = "task_exit"]
               /\ stats' = [stats EXCEPT !.stack_errors = ErrorsAfter(current_task)]
      BY <1>1, <3>1, <3>3 DEF Stats
    <3>4. CASE stats' = [stats EXCEPT !.stack_errors = ErrorsAfter(current_task),
                                      !.yield_calls = @ + 1]
      BY <1>1, <3>4 DEF Stats
    <3> QED
      BY <3>2, <3>3, <3>4
  <2>6. /\ stats'.context_switches <= stats'.yield_calls + stats'.exited_tasks
        /\ cpu'.pc # "task_exit" =>
               stats'.context_switches < stats'.yield_calls + stats'.exited_tasks
    BY <1>2, <1>3, <2>5
  <2> QED
    BY <1>3, <2>3, <2>4, <2>5, <2>6 DEF Counts, SwitchAhead
<1>7. CASE task_exit
  <2> DEFINE marked == Marked(current_task)
  <2>1. /\ tasks' = [marked EXCEPT ![current_task].state = "FINISHED"]
        /\ stats' = [stats EXCEPT !.stack_errors = ErrorsAfter(current_task),
                                  !.exited_tasks = @ + 1]
        /\ cpu' = [cpu EXCEPT !.pc = "task_exit_switch"]
    BY <1>7 DEF task_exit
  <2>2. /\ marked \in [TaskId -> Slot]
        /\ \A u \in TaskId :
               /\ marked[u].state = tasks[u].state
               /\ marked[u].stack_corrupted <=>
                      \/ tasks[u].stack_corrupted
                      \/ u = current_task /\ ~stack_canary_ok(current_task)
    BY <1>1, MarkedSlots DEF IInv
  <2> HIDE DEF marked
  <2>3. /\ tasks'[current_task].state = "FINISHED"
        /\ tasks'[current_task].stack_corrupted = marked[current_task].stack_corrupted
        /\ \A u \in TaskId \ {current_task} : tasks'[u] = marked[u]
    BY <1>1, <2>1, <2>2 DEF Slot
  <2>4. current_task # 0 /\ tasks[current_task].state = "RUNNING"
    BY <1>1, <1>7 DEF task_exit, IInv, BeforeInit, Running
  <2>5. Created' = Created
    BY <1>1, <2>2, <2>3, <2>4 DEF Created
  <2>6. Ended' = Ended \cup {current_task} /\ current_task \notin Ended
    BY <1>1, <2>2, <2>3, <2>4 DEF Ended
  <2>7. ErrorsAfter(current_task) = Cardinality(Errors')
    <3>1. \A u \in TaskId : tasks'[u].stack_corrupted <=>
                                \/ tasks[u].stack_corrupted
                                \/ u = current_task /\ ~stack_canary_ok(current_task)
      BY <2>2, <2>3
    <3> QED
      BY <1>1, <3>1, ErrorsCounted
  <2>8. Cardinality(Ended') = Cardinality(Ended) + 1
    BY <2>6, SlotSets, FS_AddElement
  <2>9. /\ stats'.created_tasks = stats.created_tasks
        /\ stats'.context_switches = stats.context_switches
        /\ stats'.yield_calls = stats.yield_calls
        /\ stats'.exited_tasks = stats.exited_tasks + 1
        /\ stats'.reaped_tasks = stats.reaped_tasks
        /\ stats'.stack_errors = ErrorsAfter(current_task)
    BY <1>1, <2>1 DEF Stats
  <2>10. /\ stats'.exited_tasks = Cardinality(Ended') + stats'.reaped_tasks
         /\ stats'.context_switches < stats'.yield_calls + stats'.exited_tasks
         /\ stats'.context_switches <= stats'.yield_calls + stats'.exited_tasks
    BY <1>2, <1>3, <2>8, <2>9
  <2> QED
    BY <1>3, <2>5, <2>7, <2>9, <2>10 DEF Counts, SwitchAhead
<1>8. CASE UNCHANGED <<tasks, stats>> /\ cpu'.pc \notin {"task_yield", "task_exit_switch"}
  <2>1. Created' = Created /\ Ended' = Ended /\ Errors' = Errors
    BY <1>8 DEF Created, Ended, Errors
  <2> QED
    BY <1>3, <1>8, <2>1 DEF Counts, SwitchAhead
<1>9. CASE UNCHANGED <<tasks, stats, cpu>>
  <2>1. Created' = Created /\ Ended' = Ended /\ Errors' = Errors
    BY <1>9 DEF Created, Ended, Errors
  <2> QED
    BY <1>3, <1>9, <2>1 DEF Counts, SwitchAhead
<1>10. CASE task_yield_switch
  <2>1. initialized
    BY <1>10 DEF task_yield_switch, IInv, BeforeInit
  <2>2. CASE find_next_ready = {}
    <3>1. UNCHANGED <<tasks, stats>> /\ cpu'.pc = "body"
      BY <1>10, <2>2 DEF task_yield_switch, IInv, TypeOK
    <3> QED
      BY <1>8, <3>1
  <2>3. CASE find_next_ready # {}
    <3>1. PICK next \in find_next_ready : SwitchTo(next, "READY", "body")
      BY <1>10, <2>3 DEF task_yield_switch
    <3>2. /\ cpu.pc = "task_yield"
          /\ stats' = [stats EXCEPT !.context_switches = @ + 1]
      BY <1>10, <2>3 DEF task_yield_switch
    <3> QED
      BY <2>1, <3>1, <3>2, SwitchCounts
  <2> QED
    BY <2>2, <2>3
<1>11. CASE task_exit_switch
  <2>1. initialized
    BY <1>11 DEF task_exit_switch, IInv, BeforeInit
  <2>2. CASE find_next_ready = {}
    <3>1. UNCHANGED <<tasks, stats>> /\ cpu'.pc = "parked"
      BY <1>11, <2>2 DEF task_exit_switch, IInv, TypeOK
    <3> QED
      BY <1>8, <3>1
  <2>3. CASE find_next_ready # {}
    <3>1. PICK next \in find_next_ready : SwitchTo(next, "FINISHED", "parked")
      BY <1>11, <2>3 DEF task_exit_switch
    <3>2. /\ cpu.pc = "task_exit_switch"
          /\ stats' = [stats EXCEPT !.context_switches = @ + 1]
      BY <1>11, <2>3 DEF task_exit_switch
    <3> QED
      BY <2>1, <3>1, <3>2, SwitchCounts
  <2> QED
    BY <2>2, <2>3
<1>12. CASE task_reap_call
  BY <1>12, ReapCounts DEF task_reap_call, MayCall
<1>13. CASE task_reap_finished_loop
  <2>1. CASE reap_cursor < TaskMax
    <3>1. reap_cursor \in 0 .. TaskMax
      BY DEF IInv, TypeOK
    <3> QED
      BY <1>13, <2>1, <3>1, ReapCounts DEF task_reap_finished_loop
  <2>2. CASE ~(reap_cursor < TaskMax)
    <3>1. UNCHANGED <<tasks, stats>> /\ cpu'.pc = "body"
      BY <1>13, <2>2 DEF task_reap_finished_loop, IInv, TypeOK
    <3> QED
      BY <1>8, <3>1
  <2> QED
    BY <2>1, <2>2
<1>14. CASE task_bootstrap \/ task_exit_call \/ task_reap_finished
  <2>1. cpu \in [sp : Nat, pc : Point]
    BY DEF IInv, TypeOK
  <2>2. UNCHANGED <<tasks, stats>> /\ cpu'.pc \notin {"task_yield", "task_exit_switch"}
    BY <1>14, <2>1 DEF task_bootstrap, task_exit_call, task_reap_finished, MayCall
  <2> QED
    BY <1>8, <2>2
<1> QED
  BY <1>4, <1>5, <1>6, <1>7, <1>9, <1>10, <1>11, <1>12, <1>13, <1>14
     DEF SchedNext, schedVars, StackOverflow, ClientAlloc, ClientFree

(* The counters the tasks command prints agree with the slots (task.c:277). *)
THEOREM CountersCorrect == SchedSpec => []CountersAgree
<1>1. SchedSpec => []Counts
  <2>1. IInv /\ Counts /\ [SchedNext]_schedVars => Counts'
    BY StepCounts
  <2> QED
    BY InitCounts, <2>1, InvariantHolds, PTL DEF SchedSpec
<1>2. Counts => CountersAgree
  <2>1. \A t \in TaskId : tasks[t].state \in {"FINISHED"} <=> tasks[t].state = "FINISHED"
    OBVIOUS
  <2>2. Ended = {t \in TaskId \ {0} : tasks[t].state \in {"FINISHED"}}
    BY <2>1 DEF Ended
  <2> QED
    BY <2>2 DEF Counts, CountersAgree, Created, Errors
<1> QED
  BY <1>1, <1>2, PTL

-----------------------------------------------------------------------------
(*                                TaskDemo                                  *)
-----------------------------------------------------------------------------
Worker == TaskId \ {0}

(* A slot no task will run in again: free, or kept for good.                *)
Settled(t) ==
    \/ tasks[t].state = "UNUSED"
    \/ tasks[t].state = "FINISHED" /\ tasks[t].stack_corrupted

(* Where the shell is, and whether it runs.                                 *)
Control ==
    /\ spinning = FALSE /\ heap.initialized
    /\ initialized <=> shell_pc # "kernel_main"
    /\ shell_pc \notin {"drain", "join"} => InShell
    /\ shell_pc = "create A" \/ InCommand => workers_rounds \in 1 .. MaxRounds

(* Which slots a worker may be in.                                          *)
WorkerSlots ==
    /\ ~InCommand => \A t \in Worker : Settled(t)
    /\ InCommand => first \in Worker
    /\ shell_pc \in {"create B", "drain"} =>
           \A t \in Worker \ {first} : Settled(t)
    /\ shell_pc = "create B" => tasks[first].state # "UNUSED"
    /\ shell_pc \in {"join", "reap B"} =>
           /\ second \in Worker \ {first}
           /\ \A t \in Worker \ {first, second} : Settled(t)
    /\ shell_pc = "reap B" => tasks[second].state = "FINISHED" /\ Settled(first)

ShellInv == Control /\ WorkerSlots

(* The locals of command_memtest and the pages it holds.                    *)
Test ==
    [index : 1 .. 3, pages : [1 .. 3 -> Nat], original : SUBSET Nat,
     reused : Nat, passed : BOOLEAN, free_before : Int]

One(page) == IF page = Null THEN 0 ELSE 1

HeldPagesOfTest == One(test.pages[1]) + One(test.pages[2]) + One(test.pages[3])

PagesApart ==
    \A i, j \in 1 .. 3 : test.pages[i] = test.pages[j] /\ i # j => test.pages[i] = Null

(* What memtest holds is what its pages[] names, and what is missing from   *)
(* the free pages; the test passes so far exactly if three pages were free. *)
Before3 == test.free_before >= MEMORY_TEST_PAGE_COUNT

NotTesting ==
    shell_pc \notin {"memtest take", "memtest write", "memtest free",
                     "memtest free again", "memtest give back", "memtest retry",
                     "memtest end"} => client_pages = {} /\ test = NoTest

PagesNamed ==
    shell_pc \in {"memtest take", "memtest write", "memtest free", "memtest give back"} =>
        /\ client_pages = {test.pages[i] : i \in 1 .. 3} \ {Null}
        /\ PagesApart
        /\ page_free_pages(heap) = test.free_before - HeldPagesOfTest
        /\ client_pages \subseteq test.original

TakingPages ==
    shell_pc = "memtest take" =>
        \A i \in 1 .. 3 : test.pages[i] = Null <=> i >= test.index

ThreeTaken ==
    shell_pc \in {"memtest write", "memtest free", "memtest free again"} =>
        /\ Before3 /\ test.index = 1
        /\ test.pages[1] # Null /\ test.pages[2] # Null /\ test.pages[3] # Null
        /\ shell_pc # "memtest write" => test.passed

(* After its release the first page heads the free list.                    *)
FirstFreed ==
    shell_pc = "memtest free again" =>
        /\ client_pages = {test.pages[2], test.pages[3]}
        /\ PagesApart /\ client_pages \subseteq test.original
        /\ page_free_pages(heap) = test.free_before - 2
        /\ heap.free_list = test.pages[1]

(* From then on one of the three does, so Retry gets it back.               *)
OldPageFirst ==
    shell_pc \in {"memtest free again", "memtest give back", "memtest retry"} =>
        (test.passed => heap.free_list \in test.original \ {Null})

GivingBack ==
    shell_pc = "memtest give back" =>
        \A i \in 1 .. test.index - 1 : test.pages[i] = Null

PassedSoFar ==
    shell_pc \in {"memtest give back", "memtest retry", "memtest end"} =>
        (test.passed <=> Before3)

AllGivenBack ==
    /\ shell_pc = "memtest retry" =>
           client_pages = {} /\ page_free_pages(heap) = test.free_before
    /\ shell_pc = "memtest end" =>
           /\ client_pages = {test.reused} \ {Null}
           /\ page_free_pages(heap) = test.free_before - One(test.reused)
    /\ shell_pc # "memtest end" => test.reused = Null

MemtestInv ==
    /\ test \in Test
    /\ NotTesting /\ PagesNamed /\ TakingPages /\ ThreeTaken /\ FirstFreed
    /\ OldPageFirst /\ GivingBack /\ PassedSoFar /\ AllGivenBack

DemoInv == IInv /\ Counts /\ DemoTypeOK /\ ShellInv /\ MemtestInv

-----------------------------------------------------------------------------
(* Plain facts *)

LEMMA WorkerFacts ==
  /\ Worker \subseteq TaskId /\ Worker \subseteq Nat /\ Worker \subseteq 0 .. TaskMax
  /\ 0 \in TaskId /\ 0 \notin Worker
  /\ TASK_ID_INVALID \notin TaskId /\ TASK_ID_INVALID \in 0 .. TaskMax
BY TaskMaxAssumption DEF Worker, TaskId, TASK_ID_INVALID

LEMMA UnusedIsWorker ==
  /\ FirstUnused \subseteq Worker
  /\ \A t \in FirstUnused : tasks[t].state = "UNUSED"
  /\ \A t, u \in FirstUnused : t = u
<1>1. FirstUnused \subseteq Worker /\ \A t \in FirstUnused : tasks[t].state = "UNUSED"
  BY DEF FirstUnused, Worker
<1>2. ASSUME NEW t \in FirstUnused, NEW u \in FirstUnused, t < u
      PROVE  FALSE
  BY <1>2, TaskMaxAssumption DEF FirstUnused, TaskId
<1>3. ASSUME NEW t \in FirstUnused, NEW u \in FirstUnused
      PROVE  t = u
  <2>1. t \in Nat /\ u \in Nat
    BY <1>1, WorkerFacts
  <2>2. ~(t < u) /\ ~(u < t)
    BY <1>2
  <2> QED
    BY <2>1, <2>2
<1> QED
  BY <1>1, <1>3

(* Every page number handed out is the address of a page.                   *)
LEMMA NullIsNoPage == Null \notin Frame /\ Null \in Nat /\ Frame \subseteq Nat
BY RamAssumption DEF Null, Frame

LEMMA ManagedPages ==
  /\ IsFiniteSet(ManagedStart .. RamEnd - 1)
  /\ Cardinality(ManagedStart .. RamEnd - 1) = RamEnd - ManagedStart
<1> DEFINE last == RamEnd - 1
<1>1. last \in Int /\ ManagedStart \in Int /\ RamEnd \in Int /\ ManagedStart <= RamEnd
      /\ last = RamEnd - 1
  BY ManagedStartInRam, RamAssumption
<1> HIDE DEF last
<1>2. /\ IsFiniteSet(ManagedStart .. last)
      /\ Cardinality(ManagedStart .. last) =
             IF ManagedStart > last THEN 0 ELSE last - ManagedStart + 1
  BY <1>1, FS_Interval
<1>3. Cardinality(ManagedStart .. last) = RamEnd - ManagedStart
  BY <1>1, <1>2
<1> QED
  BY <1>2, <1>3 DEF last

LEMMA PageTaken ==
  ASSUME IInv
  PROVE  LET call == page_alloc(heap)
         IN  /\ call.ret \in Nat
             /\ call.ret # Null =>
                    /\ call.ret \notin StackPages \cup client_pages
                    /\ page_is_zero(call.heap, call.ret)
                    /\ page_free_pages(heap) >= 1
                    /\ page_free_pages(call.heap) = page_free_pages(heap) - 1
             /\ call.ret = Null =>
                    /\ call.heap = heap
                    /\ heap.initialized => page_free_pages(heap) = 0
             /\ heap.free_list # Null => call.ret = heap.free_list
<1> DEFINE held == StackPages \cup client_pages
           page == page_alloc(heap).ret
           left == page_alloc(heap).heap
<1>1. heap \in HeapType /\ HeapInv(heap, held) /\ ManagedStart \in Nat /\ RamEnd \in Nat
      /\ ManagedStart <= RamEnd
  BY PagesInUse, ManagedStartInRam, RamAssumption
<1>2. /\ left \in HeapType
      /\ page # Null => /\ page \in Frame \ held
                        /\ HeapInv(left, held \cup {page})
                        /\ left.word = [heap.word EXCEPT ![page] = 0]
                        /\ left.dirty = [heap.dirty EXCEPT ![page] = FALSE]
      /\ page = Null => /\ left = heap
                        /\ heap.initialized =>
                               heap.free_list = Null /\ heap.bump_next = RamEnd
  BY <1>1, AllocInv
<1>3. page # Null => heap.initialized /\ left.initialized
  BY <1>1 DEF page_alloc, zero_page, HeapType
<1>4. heap.free_list # Null => page = heap.free_list
  BY <1>1 DEF page_alloc, HeapType, HeapInv, BoundsOK
<1>5. page # Null => /\ left.used_pages = heap.used_pages + 1
                     /\ left.total_pages = heap.total_pages
  BY <1>1 DEF page_alloc, zero_page, HeapType
<1>6. page # Null => left.used_pages <= left.total_pages
  <2> SUFFICES ASSUME page # Null PROVE left.used_pages <= left.total_pages
    OBVIOUS
  <2> DEFINE more == held \cup {page}
             managed == ManagedStart .. RamEnd - 1
  <2>1. HeapInv(left, more) /\ left.initialized
    BY <1>2, <1>3
  <2> HIDE DEF page, left, held, more
  <2>2. more \subseteq managed
    BY <1>2, <2>1, PoolView
  <2>3. IsFiniteSet(managed) /\ Cardinality(managed) = RamEnd - ManagedStart
    BY ManagedPages
  <2>4. Cardinality(more) <= RamEnd - ManagedStart
    BY <2>2, <2>3, FS_Subset
  <2> QED
    BY <2>1, <2>4 DEF HeapInv, BoundsOK
<1>7. page = Null /\ heap.initialized => heap.used_pages = heap.total_pages
  <2> SUFFICES ASSUME page = Null, heap.initialized PROVE heap.used_pages = heap.total_pages
    OBVIOUS
  <2> DEFINE managed == ManagedStart .. RamEnd - 1
  <2> HIDE DEF page, left, held
  <2>1. held = managed
    BY <1>1, <1>2, PoolView
  <2>2. Cardinality(managed) = RamEnd - ManagedStart
    BY ManagedPages
  <2> QED
    BY <1>1, <2>1, <2>2 DEF HeapInv, BoundsOK
<1>8. page \in Nat /\ (page # Null => page \notin held)
  BY <1>2, NullIsNoPage
<1>9. page # Null => page_is_zero(left, page)
  <2> HIDE DEF page, left, held
  <2> QED
    BY <1>1, <1>2 DEF page_is_zero, HeapType
<1>10. /\ page # Null => /\ page_free_pages(heap) >= 1
                         /\ page_free_pages(left) = page_free_pages(heap) - 1
       /\ page = Null /\ heap.initialized => page_free_pages(heap) = 0
  <2> HIDE DEF page, left, held
  <2> QED
    BY <1>1, <1>2, <1>5, <1>6, <1>7 DEF page_free_pages, HeapType
<1> HIDE DEF held
<1> QED
  BY <1>2, <1>4, <1>8, <1>9, <1>10 DEF held

(* A page that is held is released, any other is refused.                   *)
LEMMA PageReturned ==
  ASSUME IInv, NEW page \in Nat
  PROVE  LET call == page_free(heap, PageAddr(page))
         IN  IF page \in StackPages \cup client_pages
             THEN /\ call.ret = 1
                  /\ call.heap.free_list = page
                  /\ page_free_pages(call.heap) = page_free_pages(heap) + 1
                  /\ call.heap.initialized = heap.initialized
             ELSE call.ret = 0 /\ call.heap = heap
<1> DEFINE held == StackPages \cup client_pages
           call == page_free(heap, PageAddr(page))
<1>1. heap \in HeapType /\ HeapInv(heap, held) /\ PageAddr(page) = <<page, 0>>
  BY PagesInUse DEF PageAddr
<1>2. /\ call.ret = IF page \in held THEN 1 ELSE 0
      /\ call.ret = 0 => call.heap = heap
      /\ call.heap.initialized = heap.initialized
  <2> DEFINE freed == page_free(heap, <<page, 0>>)
  <2>1. heap \in HeapType /\ HeapInv(heap, held) /\ page \in Nat /\ 0 \in Nat
    BY <1>1
  <2>2. /\ freed.ret = IF page \in held /\ 0 = 0 THEN 1 ELSE 0
        /\ freed.heap \in HeapType
        /\ freed.ret = 1 =>
               /\ HeapInv(freed.heap, held \ {page})
               /\ freed.heap.word = [heap.word EXCEPT ![page] = heap.free_list]
               /\ freed.heap.dirty = heap.dirty
        /\ freed.ret = 0 => freed.heap = heap
        /\ freed.heap.initialized = heap.initialized
    BY ONLY <2>1, FreeInv
  <2> HIDE DEF freed, held
  <2> QED
    BY <1>1, <2>2 DEF freed
<1>3. call.ret = 1 => /\ call.heap.free_list = page
                      /\ call.heap.used_pages = heap.used_pages - 1
                      /\ call.heap.total_pages = heap.total_pages
  BY <1>1 DEF page_free, HeapType
<1>4. call.ret = 1 => page_free_pages(call.heap) = page_free_pages(heap) + 1
  <2> HIDE DEF call
  <2> QED
    BY <1>1, <1>3 DEF page_free_pages, HeapType
<1> QED
  BY <1>2, <1>3, <1>4

-----------------------------------------------------------------------------
(* The commands are clients of the scheduler and the allocator              *)

LEMMA TestFacts ==
  ASSUME MemtestInv
  PROVE  /\ test \in Test
         /\ test.index \in {1, 2, 3}
         /\ test.pages[1] \in Nat /\ test.pages[2] \in Nat /\ test.pages[3] \in Nat
         /\ test.pages[test.index] \in Nat /\ test.reused \in Nat
         /\ {test.pages[i] : i \in 1 .. 3} =
                {test.pages[1], test.pages[2], test.pages[3]}
         /\ DOMAIN test.pages = 1 .. 3
<1>1. /\ test.index \in 1 .. 3 /\ test.pages \in [1 .. 3 -> Nat] /\ test.reused \in Nat
      /\ test \in Test
  BY DEF MemtestInv, Test
<1>2. 1 .. 3 = {1, 2, 3}
  OBVIOUS
<1> QED
  BY <1>1, <1>2

(* A call of page_alloc by memtest.                                         *)
LEMMA TakenIsAlloc ==
  ASSUME IInv, ShellInv, InShell, heap' = page_alloc(heap).heap,
         Taken(page_alloc(heap).ret), UNCHANGED schedExceptHeap
  PROVE  [SchedNext]_schedVars
<1>1. CASE page_alloc(heap).ret = Null
  <2>1. heap' = heap
    BY <1>1, PageTaken
  <2>2. client_pages' = client_pages
    BY <1>1 DEF Taken
  <2> QED
    BY <2>1, <2>2 DEF schedExceptHeap, schedVars
<1>2. CASE page_alloc(heap).ret # Null
  <2>1. client_pages' = client_pages \cup {page_alloc(heap).ret}
    BY <1>2 DEF Taken
  <2>2. ClientAlloc
    BY <1>2, <2>1 DEF ClientAlloc, MayCall, InShell, ShellInv, Control, schedExceptHeap
  <2> QED
    BY <2>2 DEF SchedNext
<1> QED BY <1>1, <1>2

(* A call of page_free by memtest for a page that is not a stack.           *)
LEMMA ReturnedIsFree ==
  ASSUME IInv, ShellInv, InShell, NEW page \in Nat, page \notin StackPages,
         heap' = page_free(heap, PageAddr(page)).heap,
         Returned(page, page_free(heap, PageAddr(page)).ret), UNCHANGED schedExceptHeap
  PROVE  [SchedNext]_schedVars
<1>1. CASE page \in client_pages
  <2>1. client_pages' = client_pages \ {page}
    BY <1>1, PageReturned DEF Returned
  <2>2. ClientFree
    BY <1>1, <2>1 DEF ClientFree, MayCall, InShell, ShellInv, Control, schedExceptHeap
  <2> QED
    BY <2>2 DEF SchedNext
<1>2. CASE page \notin client_pages
  <2>1. heap' = heap /\ client_pages' = client_pages
    BY <1>2, PageReturned DEF Returned
  <2> QED
    BY <2>1 DEF schedExceptHeap, schedVars
<1> QED BY <1>1, <1>2

(* Pages memtest names are never stacks: NULL is none, and the others are    *)
(* held or, after FreeFirst, on the free list.                               *)
LEMMA NotAStack ==
  ASSUME IInv, NEW page \in client_pages \cup {Null}
  PROVE  page \notin StackPages
BY DEF IInv, StacksOwned, StackPages

LEMMA ListHeadIsSpare ==
  ASSUME IInv
  PROVE  heap.free_list \notin (StackPages \cup client_pages) \ {Null}
BY PagesInUse DEF HeapInv, LinksInside, Spare

LEMMA NoPageIsKept ==
  ASSUME IInv, ShellInv, UNCHANGED <<heap, schedExceptHeap>>, Returned(Null, 0)
  PROVE  UNCHANGED schedVars
BY DEF Returned, schedExceptHeap, schedVars

LEMMA NextIsSched ==
  ASSUME IInv, DemoTypeOK, ShellInv, MemtestInv, DemoNext
  PROVE  [SchedNext]_schedVars \/ WritePatterns
<1>1. CASE Boot
  BY <1>1 DEF Boot, SchedNext
<1>2. CASE memtest
  <2>0. ASSUME ~WritePatterns
        PROVE  InShell /\ UNCHANGED schedExceptHeap
    BY <1>2, <2>0 DEF memtest, TakePage, FreeFirst, FreeAgain, GiveBack, Retry, EndMemtest,
                      AtMemtest, memtestFrame
  <2>1. CASE TakePage
    <3>1. heap' = page_alloc(heap).heap /\ Taken(page_alloc(heap).ret)
          /\ InShell /\ UNCHANGED schedExceptHeap
      BY <2>1 DEF TakePage, AtMemtest, memtestFrame
    <3> QED
      BY <3>1, TakenIsAlloc
  <2>2. CASE FreeFirst
    <3>1. /\ heap' = page_free(heap, PageAddr(test.pages[1])).heap
          /\ Returned(test.pages[1], page_free(heap, PageAddr(test.pages[1])).ret)
          /\ InShell /\ UNCHANGED schedExceptHeap /\ shell_pc = "memtest free"
      BY <2>2 DEF FreeFirst, AtMemtest, memtestFrame
    <3>2. test.pages[1] \in Nat /\ test.pages[1] \in client_pages
      <4>1. /\ client_pages = {test.pages[i] : i \in 1 .. 3} \ {Null}
            /\ test.pages[1] # Null
        BY <3>1 DEF MemtestInv, PagesNamed, ThreeTaken
      <4> QED
        BY <4>1, TestFacts
    <3> QED
      BY <3>1, <3>2, NotAStack, ReturnedIsFree
  <2>3. CASE FreeAgain
    <3>1. /\ heap' = page_free(heap, PageAddr(test.pages[1])).heap
          /\ Returned(test.pages[1], page_free(heap, PageAddr(test.pages[1])).ret)
          /\ InShell /\ UNCHANGED schedExceptHeap /\ shell_pc = "memtest free again"
      BY <2>3 DEF FreeAgain, AtMemtest, memtestFrame
    <3>2. test.pages[1] \in Nat /\ heap.free_list = test.pages[1]
      BY <3>1, TestFacts DEF MemtestInv, FirstFreed
    <3>3. test.pages[1] \notin StackPages
      BY <3>2, ListHeadIsSpare DEF StackPages
    <3> QED
      BY <3>1, <3>2, <3>3, ReturnedIsFree
  <2>4. CASE GiveBack
    <3> DEFINE page == test.pages[test.index]
    <3>1. /\ heap' = IF Skipped(page) THEN heap ELSE page_free(heap, PageAddr(page)).heap
          /\ Returned(page, IF Skipped(page) THEN 0 ELSE page_free(heap, PageAddr(page)).ret)
          /\ InShell /\ UNCHANGED schedExceptHeap /\ shell_pc = "memtest give back"
      BY <2>4 DEF GiveBack, AtMemtest, memtestFrame
    <3>2. page \in Nat /\ page \in client_pages \cup {Null}
      BY <3>1, TestFacts DEF MemtestInv, PagesNamed
    <3> HIDE DEF page
    <3>3. CASE page = Null
      BY <3>1, <3>3, NoPageIsKept DEF Skipped
    <3>4. CASE page # Null
      BY <3>1, <3>2, <3>4, NotAStack, ReturnedIsFree DEF Skipped
    <3> QED BY <3>3, <3>4
  <2>5. CASE Retry
    <3>1. InShell /\ UNCHANGED schedExceptHeap
      BY <2>5 DEF Retry, AtMemtest, memtestFrame
    <3>2. CASE UNCHANGED <<heap, client_pages>>
      BY <3>1, <3>2 DEF schedExceptHeap, schedVars
    <3>3. CASE heap' = page_alloc(heap).heap /\ Taken(page_alloc(heap).ret)
      BY <3>1, <3>3, TakenIsAlloc
    <3> QED
      BY <2>5, <3>2, <3>3 DEF Retry
  <2>6. CASE EndMemtest
    <3> DEFINE page == test.reused
    <3>1. /\ heap' = IF page = Null THEN heap ELSE page_free(heap, PageAddr(page)).heap
          /\ Returned(page, IF page = Null THEN 0 ELSE page_free(heap, PageAddr(page)).ret)
          /\ InShell /\ UNCHANGED schedExceptHeap /\ shell_pc = "memtest end"
      BY <2>6 DEF EndMemtest, AtMemtest, memtestFrame
    <3>2. page \in Nat /\ page \in client_pages \cup {Null}
      BY <3>1, TestFacts DEF MemtestInv, AllGivenBack
    <3> HIDE DEF page
    <3>3. CASE page = Null
      BY <3>1, <3>3, NoPageIsKept
    <3>4. CASE page # Null
      BY <3>1, <3>2, <3>4, NotAStack, ReturnedIsFree
    <3> QED BY <3>3, <3>4
  <2> QED
    BY <1>2, <2>1, <2>2, <2>3, <2>4, <2>5, <2>6 DEF memtest
<1>3. CASE CreateA \/ CreateB
  <2>1. "A" \in Entry /\ "B" \in Entry
    BY RoundsAssumption
  <2> QED
    BY <1>3, <2>1 DEF CreateA, CreateB, SchedNext
<1>4. CASE DrainYield \/ JoinYield
  BY <1>4 DEF DrainYield, JoinYield, Wait, SchedNext
<1>5. CASE DrainReap \/ JoinReap \/ ReapB
  <2>1. /\ InShell
        /\ task_reap(first) \/ task_reap(second)
        /\ UNCHANGED <<initialized, current_task, cpu, reap_cursor, client_pages,
                       spinning, bypassed>>
    BY <1>5 DEF DrainReap, JoinReap, ReapB
  <2>2. first \in 0 .. TaskMax /\ second \in 0 .. TaskMax
    BY DEF DemoTypeOK
  <2>3. \E t \in 0 .. TaskMax : task_reap(t)
    BY <2>1, <2>2
  <2>4. MayCall
    <3>1. spinning = FALSE /\ cpu.pc = "body"
      BY <2>1 DEF InShell, ShellInv, Control
    <3> QED
      BY <3>1 DEF MayCall
  <2>5. task_reap_call
    BY <2>1, <2>3, <2>4 DEF task_reap_call
  <2> QED
    BY <2>5 DEF SchedNext
<1>6. CASE WorkerStart
  BY <1>6 DEF WorkerStart, SchedNext
<1>7. CASE WorkerTurn
  BY <1>7 DEF WorkerTurn, SchedNext
<1>8. CASE WorkerReturn
  BY <1>8 DEF WorkerReturn, SchedNext
<1>9. CASE InScheduler
  BY <1>9 DEF InScheduler, SchedNext
<1>10. CASE Overflow
  BY <1>10 DEF Overflow, SchedNext
<1>11. CASE command_memtest \/ command_taskdemo
  BY <1>11 DEF command_memtest, command_taskdemo, memtestFrame, schedExceptHeap, schedVars
<1> QED
  BY <1>1, <1>2, <1>3, <1>4, <1>5, <1>6, <1>7, <1>8, <1>9, <1>10, <1>11 DEF DemoNext, CpuStep

LEMMA Written ==
  ASSUME NEW h \in HeapType, NEW held, HeapInv(h, held), NEW page \in held,
         NEW value \in Nat, NEW other \in BOOLEAN
  PROVE  LET k == WritePage(h, page, value, other)
         IN  page_free_pages(k) = page_free_pages(h)
BY DEF WritePage, HeapType, page_free_pages

LEMMA MemtestWrites ==
  ASSUME IInv, MemtestInv, WritePatterns
  PROVE  LET pages == test.pages
         IN  /\ heap' \in HeapType
             /\ HeapInv(heap', StackPages \cup client_pages)
             /\ heap'.word[pages[1]] = Pattern(1)
             /\ heap'.word[pages[2]] = Pattern(2)
             /\ heap'.word[pages[3]] = Pattern(3)
             /\ heap'.initialized = heap.initialized
             /\ page_free_pages(heap') = page_free_pages(heap)
<1> DEFINE all == TRUE
           a == test.pages[1]
           b == test.pages[2]
           c == test.pages[3]
           held == StackPages \cup client_pages
           h1 == WritePage(heap, a, Pattern(1), all)
           h2 == WritePage(h1, b, Pattern(2), all)
           h3 == WritePage(h2, c, Pattern(3), all)
<1>0. shell_pc = "memtest write"
  BY DEF WritePatterns, AtMemtest
<1>1. a \in held /\ b \in held /\ c \in held /\ a # b /\ a # c /\ b # c
  <2>1. /\ client_pages = {test.pages[i] : i \in 1 .. 3} \ {Null} /\ PagesApart
        /\ a # Null /\ b # Null /\ c # Null
    BY <1>0 DEF MemtestInv, PagesNamed, ThreeTaken
  <2> QED
    BY <2>1, TestFacts DEF PagesApart
<1>2. /\ Pattern(1) \in Nat /\ Pattern(2) \in Nat /\ Pattern(3) \in Nat
      /\ all \in BOOLEAN
  BY RamAssumption DEF Pattern
<1>3. heap \in HeapType /\ HeapInv(heap, held) /\ held \subseteq Frame
  BY PagesInUse
<1>4. heap' = h3
  BY DEF WritePatterns
<1>5. \A h, page, value :
          h \in HeapType /\ HeapInv(h, held) /\ page \in held /\ value \in Nat =>
              LET k == WritePage(h, page, value, all)
              IN  /\ k \in HeapType
                  /\ HeapInv(k, held)
                  /\ k.initialized = h.initialized
                  /\ k.word = [h.word EXCEPT ![page] = value]
                  /\ page_free_pages(k) = page_free_pages(h)
  <2> HIDE DEF held, all
  <2> SUFFICES ASSUME NEW h \in HeapType, HeapInv(h, held), NEW page \in held,
                      NEW value \in Nat
               PROVE  LET k == WritePage(h, page, value, all)
                      IN  /\ k \in HeapType
                          /\ HeapInv(k, held)
                          /\ k.initialized = h.initialized
                          /\ k.word = [h.word EXCEPT ![page] = value]
                          /\ page_free_pages(k) = page_free_pages(h)
    OBVIOUS
  <2> DEFINE k == WritePage(h, page, value, all)
  <2>1. h \in HeapType /\ HeapInv(h, held) /\ page \in held /\ value \in Nat
        /\ all \in BOOLEAN
    BY <1>2
  <2>2. /\ k \in HeapType
        /\ HeapInv(k, held)
        /\ k.initialized = h.initialized
        /\ k.word = [h.word EXCEPT ![page] = value]
        /\ k.dirty = [h.dirty EXCEPT ![page] = all]
    BY ONLY <2>1, WriteInv
  <2>3. page_free_pages(k) = page_free_pages(h)
    BY ONLY <2>1, Written
  <2> QED
    BY <2>2, <2>3
<1> HIDE DEF all, a, b, c, held
<1>6. /\ h1 \in HeapType /\ HeapInv(h1, held) /\ h1.initialized = heap.initialized
      /\ h1.word = [heap.word EXCEPT ![a] = Pattern(1)]
      /\ page_free_pages(h1) = page_free_pages(heap)
  BY ONLY <1>1, <1>2, <1>3, <1>5
<1> HIDE DEF h1
<1>7. /\ h2 \in HeapType /\ HeapInv(h2, held) /\ h2.initialized = h1.initialized
      /\ h2.word = [h1.word EXCEPT ![b] = Pattern(2)]
      /\ page_free_pages(h2) = page_free_pages(h1)
  <2>1. h1 \in HeapType /\ HeapInv(h1, held)
    BY <1>6
  <2> QED
    BY ONLY <1>1, <1>2, <2>1, <1>5
<1> HIDE DEF h2
<1>8. /\ h3 \in HeapType /\ HeapInv(h3, held) /\ h3.initialized = h2.initialized
      /\ h3.word = [h2.word EXCEPT ![c] = Pattern(3)]
      /\ page_free_pages(h3) = page_free_pages(h2)
  <2>1. h2 \in HeapType /\ HeapInv(h2, held)
    BY <1>7
  <2> QED
    BY ONLY <1>1, <1>2, <2>1, <1>5
<1> HIDE DEF h3
<1>9. h3.word[a] = Pattern(1) /\ h3.word[b] = Pattern(2) /\ h3.word[c] = Pattern(3)
  BY <1>1, <1>3, <1>6, <1>7, <1>8 DEF HeapType
<1> QED
  BY <1>4, <1>6, <1>7, <1>8, <1>9 DEF a, b, c, held

LEMMA WritesKeepSched ==
  ASSUME IInv, Counts, MemtestInv, WritePatterns
  PROVE  IInv' /\ Counts'
<1>1. UNCHANGED <<initialized, tasks, current_task, stats, cpu, reap_cursor,
                  client_pages, spinning, bypassed>>
  BY DEF WritePatterns, memtestFrame, schedExceptHeap
<1>2. heap' \in HeapType /\ HeapInv(heap', StackPages \cup client_pages)
  BY MemtestWrites
<1>3. StackPages' = StackPages
  BY <1>1 DEF StackPages
<1>4. TypeOK' /\ StacksOwned'
  BY <1>1, <1>2, <1>3 DEF IInv, TypeOK, StacksOwned
<1>5. BeforeInit' /\ Running' /\ OnOwnStack' /\ Corrupted' /\ Waiting'
  BY <1>1 DEF IInv, BeforeInit, Running, OnOwnStack, Corrupted, Waiting, Ready, Distance
<1>6. Counts'
  BY <1>1 DEF Counts, SwitchAhead, Created, Ended, Errors
<1> QED
  BY <1>4, <1>5, <1>6 DEF IInv

LEMMA SchedKept ==
  ASSUME DemoInv, [DemoNext]_vars
  PROVE  IInv' /\ Counts'
<1>0. IInv /\ Counts /\ DemoTypeOK /\ ShellInv /\ MemtestInv
  BY DEF DemoInv
<1>1. CASE WritePatterns
  BY <1>0, <1>1, WritesKeepSched
<1>2. CASE [SchedNext]_schedVars
  BY <1>0, <1>2, StepIInv, StepCounts
<1>3. CASE UNCHANGED vars
  BY <1>2, <1>3 DEF vars
<1> QED
  BY <1>0, <1>1, <1>2, <1>3, NextIsSched

-----------------------------------------------------------------------------
(* What the scheduler's steps leave alone *)

LEMMA HeapStaysReady ==
  ASSUME IInv, [SchedNext]_schedVars, heap.initialized
  PROVE  heap'.initialized
<1>0. heap \in HeapType
  BY PagesInUse
<1>1. page_alloc(heap).heap.initialized
  BY <1>0 DEF page_alloc, zero_page, HeapType
<1>2. \A address : page_free(heap, address).heap.initialized
  BY <1>0 DEF page_free, HeapType
<1>3. \A h, page, value, other :
          h.initialized => WritePage(h, page, value, other).initialized
  BY DEF WritePage
<1>4. ASSUME NEW entry \in Entry, task_create(entry) PROVE heap'.initialized
  <2>1. PICK page, value : heap' = WritePage(page_alloc(heap).heap, page, value, FALSE)
    BY <1>4 DEF task_create
  <2> QED
    BY <1>1, <1>3, <2>1
<1>5. CASE task_bootstrap
  BY <1>0, <1>5 DEF task_bootstrap, HeapType
<1>6. ASSUME NEW t, task_reap(t) PROVE heap'.initialized
  BY <1>2, <1>6 DEF task_reap
<1>7. CASE StackOverflow
  BY <1>3, <1>7 DEF StackOverflow
<1>8. CASE ClientAlloc
  BY <1>1, <1>8 DEF ClientAlloc
<1>9. CASE ClientFree
  BY <1>2, <1>9 DEF ClientFree
<1>10. CASE task_reap_call
  BY <1>6, <1>10 DEF task_reap_call
<1>11. CASE task_reap_finished_loop
  BY <1>6, <1>11 DEF task_reap_finished_loop
<1>12. CASE UNCHANGED heap
  BY <1>12
<1>13. CASE \/ task_init \/ task_yield \/ task_yield_switch \/ task_exit_call
            \/ task_exit \/ task_exit_switch \/ task_reap_finished \/ UNCHANGED schedVars
  BY <1>12, <1>13 DEF task_init, task_yield, task_yield_switch, task_exit_call, task_exit,
                      task_exit_switch, task_reap_finished, schedVars
<1> QED
  BY <1>4, <1>5, <1>7, <1>8, <1>9, <1>10, <1>11, <1>13 DEF SchedNext

(* The scheduler's steps under the commands, but for task_create.           *)
Scheduling ==
    \/ task_bootstrap \/ task_yield \/ task_yield_switch
    \/ task_exit_call \/ task_exit \/ task_exit_switch
    \/ task_reap_call \/ StackOverflow

(* Only task_create takes a free slot.                                      *)
LEMMA UnusedStays ==
  ASSUME IInv, Scheduling, initialized, NEW t \in Worker, tasks[t].state = "UNUSED"
  PROVE  tasks'[t].state = "UNUSED"
<1>0. TypeOK /\ t \in TaskId /\ current_task \in TaskId /\ tasks \in [TaskId -> Slot]
  BY WorkerFacts DEF IInv, TypeOK
<1>2. CASE task_yield
  BY <1>0, <1>2, MarkedSlots DEF task_yield
<1>3. CASE task_exit
  <2>1. t # current_task
    <3>1. cpu.pc = "task_exit"
      BY <1>3 DEF task_exit
    <3>2. tasks[current_task].state = "RUNNING"
      BY <1>0, <3>1 DEF IInv, Running
    <3> QED
      BY <3>2
  <2>2. Marked(current_task) \in [TaskId -> Slot] /\ Marked(current_task)[t].state = "UNUSED"
    BY <1>0, MarkedSlots
  <2>3. tasks' = [Marked(current_task) EXCEPT ![current_task].state = "FINISHED"]
    BY <1>3 DEF task_exit
  <2> QED
    BY <1>0, <2>1, <2>2, <2>3
<1>4. ASSUME NEW next \in find_next_ready, NEW left, NEW resume,
             SwitchTo(next, left, resume)
      PROVE  tasks'[t].state = "UNUSED"
  <2>1. tasks[next].state = "READY" /\ tasks[current_task].state # "UNUSED"
    BY <1>0, <1>4 DEF find_next_ready, Ready, IInv, Running
  <2>2. t # next /\ t # current_task
    BY <2>1
  <2>3. tasks' = [tasks EXCEPT
                    ![current_task].state = left,
                    ![current_task].context = [sp |-> cpu.sp, pc |-> resume],
                    ![next].state = "RUNNING",
                    ![next].schedule_count = @ + 1]
    BY <1>4 DEF SwitchTo
  <2> QED
    BY <1>0, <2>2, <2>3
<1>5. CASE task_yield_switch
  <2>1. CASE UNCHANGED tasks
    BY <2>1
  <2>2. CASE \E next \in find_next_ready : SwitchTo(next, "READY", "body")
    BY <1>4, <2>2
  <2> QED
    BY <1>5, <2>1, <2>2 DEF task_yield_switch
<1>6. CASE task_exit_switch
  <2>1. CASE UNCHANGED tasks
    BY <2>1
  <2>2. CASE \E next \in find_next_ready : SwitchTo(next, "FINISHED", "parked")
    BY <1>4, <2>2
  <2> QED
    BY <1>6, <2>1, <2>2 DEF task_exit_switch
<1>7. ASSUME NEW u, task_reap(u)
      PROVE  tasks'[t].state = "UNUSED"
  <2>1. CASE ~ReapEligible(u)
    BY <1>7, <2>1 DEF task_reap
  <2>2. CASE ReapEligible(u)
    <3>1. u \in TaskId /\ t # u
      BY <2>2 DEF ReapEligible
    <3>2. tasks' = Marked(u) \/ tasks' = [tasks EXCEPT ![u] = clear_slot]
      BY <1>7, <2>2 DEF task_reap
    <3> QED
      BY <1>0, <3>1, <3>2, MarkedSlots
  <2> QED BY <2>1, <2>2
<1>8. CASE task_reap_call
  BY <1>7, <1>8 DEF task_reap_call
<1>9. CASE task_bootstrap \/ task_exit_call \/ StackOverflow
  BY <1>9 DEF task_bootstrap, task_exit_call, StackOverflow
<1> QED
  BY <1>2, <1>3, <1>5, <1>6, <1>8, <1>9 DEF Scheduling

LEMMA SettledStays ==
  ASSUME IInv, Scheduling, initialized, NEW t \in Worker, Settled(t)
  PROVE  Settled(t)'
<1>1. CASE tasks[t].state = "UNUSED"
  BY <1>1, UnusedStays DEF Settled
<1>2. CASE tasks[t].state = "FINISHED" /\ tasks[t].stack_corrupted
  <2>1. SchedNext
    BY DEF Scheduling, SchedNext
  <2>2. OverflowKept(t)
    BY <2>1, StepKeeps, WorkerFacts
  <2> QED
    BY <1>2, <2>2 DEF OverflowKept, Settled
<1> QED
  BY <1>1, <1>2 DEF Settled

(* task_reap releases the slot of a finished task, or keeps it for good     *)
(* because its stack overflowed; it touches no other slot.                  *)
LEMMA ReapSettles ==
  ASSUME IInv, initialized, current_task = 0, NEW t \in Worker,
         tasks[t].state = "FINISHED", task_reap(t)
  PROVE  Settled(t)' /\ \A u \in TaskId \ {t} : tasks'[u].state = tasks[u].state
<1> DEFINE page == tasks[t].stack_page
<1>0. t \in TaskId /\ tasks \in [TaskId -> Slot] /\ TypeOK
  BY WorkerFacts DEF IInv, TypeOK
<1>1. page \in StackPages /\ page # Null /\ page \in Nat
  <2>1. page # Null
    BY DEF IInv, StacksOwned, Worker
  <2> QED
    BY <1>0, <2>1 DEF StackPages, Slot
<1>2. page_free(heap, PageAddr(page)).ret = 1
  <2> HIDE DEF page
  <2> QED
    BY <1>1, PageReturned
<1>3. ReapEligible(t)
  BY <1>0, <1>1 DEF ReapEligible, Worker
<1>4. /\ Marked(t) \in [TaskId -> Slot]
      /\ \A u \in TaskId : Marked(t)[u].state = tasks[u].state
  BY <1>0, MarkedSlots
<1>5. CASE Marked(t)[t].stack_corrupted
  <2>1. tasks' = Marked(t)
    BY <1>3, <1>5 DEF task_reap
  <2> QED
    BY <1>0, <1>4, <1>5, <2>1 DEF Settled
<1>6. CASE ~Marked(t)[t].stack_corrupted
  <2>1. tasks' = [tasks EXCEPT ![t] = clear_slot]
    BY <1>2, <1>3, <1>6 DEF task_reap
  <2>2. clear_slot.state = "UNUSED"
    BY DEF clear_slot
  <2> QED
    BY <1>0, <2>1, <2>2 DEF Settled
<1> QED
  BY <1>5, <1>6

-----------------------------------------------------------------------------
(* The shell *)

shellVars == <<shell_pc, workers_rounds, first, second>>

(* Everything but the shell's own steps happens while it waits.             *)
LEMMA WhileWaiting ==
  ASSUME IInv, ShellInv,
         \/ DrainYield \/ JoinYield \/ WorkerStart \/ WorkerTurn \/ WorkerReturn
         \/ InScheduler \/ Overflow
  PROVE  /\ shell_pc \in {"drain", "join"} /\ initialized
         /\ UNCHANGED shellVars
         /\ Scheduling \/ UNCHANGED schedVars
         /\ spinning' = FALSE /\ initialized' = initialized
<1>0. InShell \/ shell_pc \in {"drain", "join"}
  BY DEF ShellInv, Control
<1>1. shell_pc \in {"drain", "join"} => initialized
  BY DEF ShellInv, Control
<1>2. spinning = FALSE
  BY DEF ShellInv, Control
<1>3. CASE DrainYield \/ JoinYield
  BY <1>1, <1>2, <1>3 DEF DrainYield, JoinYield, Wait, Scheduling, shellVars, demoVars, task_yield
<1>4. CASE WorkerStart
  <2>1. ~InShell
    BY <1>4 DEF WorkerStart, task_bootstrap, InShell
  <2> QED
    BY <1>0, <1>1, <1>2, <1>4, <2>1 DEF WorkerStart, task_bootstrap, Scheduling, shellVars
<1>5. CASE WorkerTurn
  <2>1. ~InShell
    BY <1>5 DEF WorkerTurn, InShell
  <2>2. CASE task_yield
    BY <1>0, <1>1, <1>2, <1>5, <2>1, <2>2 DEF WorkerTurn, Scheduling, shellVars, task_yield
  <2>3. CASE UNCHANGED schedVars
    BY <1>0, <1>1, <1>2, <1>5, <2>1, <2>3 DEF WorkerTurn, shellVars, schedVars
  <2> QED
    BY <1>5, <2>2, <2>3 DEF WorkerTurn
<1>6. CASE WorkerReturn
  <2>1. ~InShell
    BY <1>6 DEF WorkerReturn, InShell
  <2> QED
    BY <1>0, <1>1, <1>2, <1>6, <2>1
    DEF WorkerReturn, task_exit_call, Scheduling, shellVars, demoVars
<1>7. CASE InScheduler
  <2>1. ~InShell
    BY <1>7 DEF InScheduler, task_yield_switch, task_exit, task_exit_switch, InShell
  <2> QED
    BY <1>0, <1>1, <1>2, <1>7, <2>1
    DEF InScheduler, task_yield_switch, task_exit, task_exit_switch, Scheduling, shellVars,
        demoVars
<1>8. CASE Overflow
  <2>1. ~InShell
    <3>1. cpu.sp # BootStack
      BY <1>8 DEF Overflow, StackOverflow
    <3> QED
      BY <3>1, PagesInUse DEF InShell
  <2> QED
    BY <1>0, <1>1, <1>2, <1>8, <2>1
    DEF Overflow, StackOverflow, Scheduling, shellVars, demoVars
<1> QED
  BY <1>3, <1>4, <1>5, <1>6, <1>7, <1>8

LEMMA WaitingKeepsShell ==
  ASSUME IInv, ShellInv, heap'.initialized,
         \/ DrainYield \/ JoinYield \/ WorkerStart \/ WorkerTurn \/ WorkerReturn
         \/ InScheduler \/ Overflow
  PROVE  ShellInv'
<1>1. /\ shell_pc \in {"drain", "join"} /\ initialized
      /\ UNCHANGED shellVars
      /\ Scheduling \/ UNCHANGED schedVars
      /\ spinning' = FALSE /\ initialized' = initialized
  BY WhileWaiting
<1>2. Control'
  BY <1>1 DEF Control, ShellInv, shellVars, InCommand
<1>3. ASSUME NEW t \in Worker, Settled(t) PROVE Settled(t)'
  <2>1. CASE UNCHANGED schedVars
    BY <1>3, <2>1 DEF Settled, schedVars
  <2>2. CASE Scheduling
    BY <1>1, <1>3, <2>2, SettledStays
  <2> QED BY <1>1, <2>1, <2>2
<1>4. WorkerSlots'
  BY <1>1, <1>3 DEF WorkerSlots, ShellInv, shellVars, InCommand
<1> QED
  BY <1>2, <1>4 DEF ShellInv

LEMMA BootKeepsShell ==
  ASSUME IInv, ShellInv, heap'.initialized, Boot
  PROVE  ShellInv'
<1>1. /\ shell_pc = "kernel_main" /\ InShell /\ spinning = FALSE
  BY DEF Boot, ShellInv, Control
<1>2. /\ shell_pc' = "prompt" /\ initialized' = TRUE /\ current_task' = 0 /\ cpu' = cpu
      /\ spinning' = spinning
      /\ tasks' = [t \in TaskId |->
                      IF t = 0 THEN [clear_slot EXCEPT !.state = "RUNNING",
                                                       !.schedule_count = 1]
                               ELSE clear_slot]
  BY DEF Boot, task_init
<1>3. Control'
  BY <1>1, <1>2 DEF Control, InShell, InCommand
<1>4. clear_slot.state = "UNUSED"
  BY DEF clear_slot
<1>5. \A t \in Worker : Settled(t)'
  BY <1>2, <1>4, WorkerFacts DEF Settled, Worker
<1> QED
  BY <1>2, <1>3, <1>5 DEF ShellInv, WorkerSlots, InCommand

(* memtest and the calls of the two commands touch no slot.                 *)
LEMMA MemtestKeepsShell ==
  ASSUME IInv, ShellInv, heap'.initialized, memtest \/ command_memtest
  PROVE  ShellInv'
<1>1. /\ InShell /\ UNCHANGED <<initialized, tasks, current_task, cpu, spinning>>
      /\ shell_pc \in {"prompt", "memtest take", "memtest write", "memtest free",
                       "memtest free again", "memtest give back", "memtest retry",
                       "memtest end"}
      /\ shell_pc' \in {"prompt", "memtest take", "memtest write", "memtest free",
                        "memtest free again", "memtest give back", "memtest retry",
                        "memtest end"}
  BY DEF memtest, command_memtest, TakePage, WritePatterns, FreeFirst, FreeAgain, GiveBack,
         Retry, EndMemtest, AtMemtest, memtestFrame, schedExceptHeap
<1>2. Control'
  BY <1>1 DEF Control, ShellInv, InShell, InCommand
<1>3. \A t \in Worker : Settled(t)'
  BY <1>1 DEF ShellInv, WorkerSlots, InCommand, Settled
<1> QED
  BY <1>1, <1>2, <1>3 DEF ShellInv, WorkerSlots, InCommand

LEMMA CommandKeepsShell ==
  ASSUME IInv, ShellInv, command_taskdemo
  PROVE  ShellInv'
<1>1. /\ InShell /\ UNCHANGED <<heap, initialized, tasks, current_task, cpu, spinning>>
      /\ shell_pc = "prompt" /\ shell_pc' = "create A"
      /\ workers_rounds' \in 1 .. MaxRounds
  BY DEF command_taskdemo, schedVars
<1>2. Control'
  BY <1>1 DEF Control, ShellInv, InShell, InCommand
<1>3. \A t \in Worker : Settled(t)'
  BY <1>1 DEF ShellInv, WorkerSlots, InCommand, Settled
<1> QED
  BY <1>1, <1>2, <1>3 DEF ShellInv, WorkerSlots, InCommand

(* task_create fills the one slot the search found.                         *)
LEMMA CreatedSlot ==
  ASSUME IInv, NEW entry, task_create(entry), NEW t \in FirstUnused
  PROVE  /\ tasks'[t].state = "READY"
         /\ \A u \in TaskId \ {t} : tasks'[u] = tasks[u]
<1> DEFINE page == page_alloc(heap).ret
           slot == [clear_slot EXCEPT
                          !.entry = entry,
                          !.stack_page = page,
                          !.state = "READY",
                          !.context = [sp |-> page, pc |-> "task_bootstrap"]]
<1>1. PICK u \in FirstUnused : tasks' = [tasks EXCEPT ![u] = slot]
  BY DEF task_create
<1>2. u = t /\ t \in TaskId /\ tasks \in [TaskId -> Slot]
  BY <1>1, UnusedIsWorker, WorkerFacts DEF IInv, TypeOK
<1>3. slot.state = "READY"
  BY DEF clear_slot
<1> HIDE DEF slot
<1> QED
  BY <1>1, <1>2, <1>3

LEMMA CreateKeepsShell ==
  ASSUME IInv, ShellInv, heap'.initialized, CreateA \/ CreateB
  PROVE  ShellInv'
<1>0. /\ InShell /\ UNCHANGED <<initialized, current_task, cpu, spinning>>
      /\ shell_pc \in {"create A", "create B"} /\ workers_rounds \in 1 .. MaxRounds
  BY DEF CreateA, CreateB, task_create, schedVars, ShellInv, Control, InCommand
<1>1. ASSUME UNCHANGED tasks, NEW t \in Worker, Settled(t) PROVE Settled(t)'
  BY <1>1 DEF Settled
<1>2. CASE CreateA /\ CanCreate
  <2>1. /\ task_create("A") /\ first' \in FirstUnused /\ shell_pc' = "create B"
        /\ shell_pc = "create A" /\ UNCHANGED workers_rounds
    BY <1>2 DEF CreateA
  <2>2. /\ tasks'[first'].state = "READY" /\ first' \in Worker
        /\ \A u \in Worker \ {first'} : tasks'[u] = tasks[u]
    BY <2>1, CreatedSlot, UnusedIsWorker, WorkerFacts
  <2>3. \A u \in Worker \ {first'} : Settled(u)'
    BY <2>1, <2>2 DEF Settled, ShellInv, WorkerSlots, InCommand
  <2>4. Control'
    BY <1>0, <2>1 DEF Control, ShellInv, InShell
  <2> QED
    BY <2>1, <2>2, <2>3, <2>4 DEF ShellInv, WorkerSlots, InCommand
<1>3. CASE CreateA /\ ~CanCreate
  <2>1. /\ shell_pc = "create A" /\ shell_pc' = "prompt" /\ UNCHANGED tasks
    BY <1>3 DEF CreateA, Return, schedVars
  <2>2. \A u \in Worker : Settled(u)'
    BY <1>1, <2>1 DEF ShellInv, WorkerSlots, InCommand
  <2>3. Control'
    BY <1>0, <2>1 DEF Control, ShellInv, InShell, InCommand
  <2> QED
    BY <2>1, <2>2, <2>3 DEF ShellInv, WorkerSlots, InCommand
<1>4. CASE CreateB /\ CanCreate
  <2>1. /\ task_create("B") /\ second' \in FirstUnused /\ shell_pc' = "join"
        /\ shell_pc = "create B" /\ UNCHANGED <<workers_rounds, first>>
    BY <1>4 DEF CreateB
  <2>2. /\ first \in Worker /\ tasks[first].state # "UNUSED"
        /\ \A t \in Worker \ {first} : Settled(t)
    BY <2>1 DEF ShellInv, WorkerSlots, InCommand
  <2>3. second' \in Worker \ {first}
    BY <2>1, <2>2, UnusedIsWorker
  <2>4. \A u \in Worker \ {second'} : tasks'[u] = tasks[u]
    BY <2>1, CreatedSlot, WorkerFacts
  <2>5. \A u \in Worker \ {first, second'} : Settled(u)'
    BY <2>2, <2>4 DEF Settled
  <2>6. Control'
    BY <1>0, <2>1 DEF Control, ShellInv, InShell
  <2> QED
    BY <2>1, <2>2, <2>3, <2>5, <2>6 DEF ShellInv, WorkerSlots, InCommand
<1>5. CASE CreateB /\ ~CanCreate
  <2>1. /\ shell_pc = "create B" /\ shell_pc' = "drain"
        /\ UNCHANGED <<tasks, first, workers_rounds>>
    BY <1>5 DEF CreateB, schedVars
  <2>2. first \in Worker /\ \A t \in Worker \ {first} : Settled(t)'
    BY <1>1, <2>1 DEF ShellInv, WorkerSlots, InCommand
  <2>3. Control'
    BY <1>0, <2>1 DEF Control, ShellInv, InShell
  <2> QED
    BY <2>1, <2>2, <2>3 DEF ShellInv, WorkerSlots, InCommand
<1> QED
  BY <1>2, <1>3, <1>4, <1>5

LEMMA ReapKeepsShell ==
  ASSUME IInv, ShellInv, heap'.initialized, DrainReap \/ JoinReap \/ ReapB
  PROVE  ShellInv'
<1>0. /\ InShell /\ UNCHANGED <<initialized, current_task, cpu, spinning>>
      /\ shell_pc \in {"drain", "join", "reap B"} /\ workers_rounds \in 1 .. MaxRounds
      /\ current_task = 0 /\ initialized
  BY DEF DrainReap, JoinReap, ReapB, ShellInv, Control, InCommand, InShell
<1>1. ASSUME NEW t \in Worker, tasks[t].state = "FINISHED", task_reap(t),
             NEW u \in Worker, u = t \/ Settled(u)
      PROVE  Settled(u)'
  <2>1. CASE u = t
    BY <1>0, <1>1, <2>1, ReapSettles
  <2>2. CASE u # t /\ Settled(u)
    <3>1. task_reap_call
      <4>1. UNCHANGED <<initialized, current_task, cpu, reap_cursor, client_pages,
                        spinning, bypassed>>
        BY DEF DrainReap, JoinReap, ReapB
      <4>2. MayCall
        BY <1>0 DEF MayCall, InShell, ShellInv, Control
      <4> QED
        BY <1>1, <4>1, <4>2, WorkerFacts DEF task_reap_call
    <3> QED
      BY <1>0, <2>2, <3>1, SettledStays DEF Scheduling
  <2> QED
    BY <1>1, <2>1, <2>2
<1>2. CASE DrainReap
  <2>1. /\ shell_pc = "drain" /\ tasks[first].state = "FINISHED" /\ task_reap(first)
        /\ shell_pc' = "prompt" /\ first \in Worker
        /\ \A t \in Worker \ {first} : Settled(t)
    BY <1>2 DEF DrainReap, Finished, Return, ShellInv, WorkerSlots, InCommand
  <2>2. \A t \in Worker : Settled(t)'
    BY <1>1, <2>1
  <2>3. Control'
    BY <1>0, <2>1 DEF Control, ShellInv, InShell, InCommand
  <2> QED
    BY <2>1, <2>2, <2>3 DEF ShellInv, WorkerSlots, InCommand
<1>3. CASE JoinReap
  <2>1. /\ shell_pc = "join" /\ tasks[first].state = "FINISHED" /\ task_reap(first)
        /\ tasks[second].state = "FINISHED"
        /\ shell_pc' = "reap B" /\ UNCHANGED <<first, second, workers_rounds>>
        /\ first \in Worker /\ second \in Worker \ {first}
        /\ \A t \in Worker \ {first, second} : Settled(t)
    BY <1>3 DEF JoinReap, BothFinished, Finished, ShellInv, WorkerSlots, InCommand
  <2>2. \A t \in Worker \ {second} : Settled(t)'
    BY <1>1, <2>1
  <2>3. tasks'[second].state = "FINISHED"
    BY <1>0, <2>1, ReapSettles, WorkerFacts
  <2>4. Control'
    BY <1>0, <2>1 DEF Control, ShellInv, InShell, InCommand
  <2> QED
    BY <2>1, <2>2, <2>3, <2>4 DEF ShellInv, WorkerSlots, InCommand
<1>4. CASE ReapB
  <2>1. /\ shell_pc = "reap B" /\ task_reap(second)
        /\ tasks[second].state = "FINISHED"
        /\ shell_pc' = "prompt"
        /\ first \in Worker /\ second \in Worker \ {first}
        /\ \A t \in Worker \ {second} : Settled(t)
    BY <1>4 DEF ReapB, Return, ShellInv, WorkerSlots, InCommand
  <2>2. \A t \in Worker : Settled(t)'
    BY <1>1, <2>1
  <2>3. Control'
    BY <1>0, <2>1 DEF Control, ShellInv, InShell, InCommand
  <2> QED
    BY <2>1, <2>2, <2>3 DEF ShellInv, WorkerSlots, InCommand
<1> QED
  BY <1>2, <1>3, <1>4

LEMMA ShellKept ==
  ASSUME DemoInv, [DemoNext]_vars
  PROVE  ShellInv'
<1>0. IInv /\ DemoTypeOK /\ ShellInv /\ MemtestInv /\ heap.initialized
  BY DEF DemoInv, ShellInv, Control
<1>1. heap'.initialized
  <2>1. CASE WritePatterns
    BY <1>0, <2>1, MemtestWrites
  <2>2. CASE [SchedNext]_schedVars
    BY <1>0, <2>2, HeapStaysReady
  <2>3. CASE UNCHANGED vars
    BY <1>0, <2>2, <2>3 DEF vars
  <2> QED
    BY <1>0, <2>1, <2>2, <2>3, NextIsSched
<1>2. CASE UNCHANGED vars
  BY <1>0, <1>2
  DEF vars, schedVars, demoVars, ShellInv, Control, WorkerSlots, InShell, InCommand, Settled
<1>3. CASE Boot
  BY <1>0, <1>1, <1>3, BootKeepsShell
<1>4. CASE memtest \/ command_memtest
  BY <1>0, <1>1, <1>4, MemtestKeepsShell
<1>5. CASE command_taskdemo
  BY <1>0, <1>5, CommandKeepsShell
<1>6. CASE CreateA \/ CreateB
  BY <1>0, <1>1, <1>6, CreateKeepsShell
<1>7. CASE DrainReap \/ JoinReap \/ ReapB
  BY <1>0, <1>1, <1>7, ReapKeepsShell
<1>8. CASE \/ DrainYield \/ JoinYield \/ WorkerStart \/ WorkerTurn \/ WorkerReturn
           \/ InScheduler \/ Overflow
  BY <1>0, <1>1, <1>8, WaitingKeepsShell
<1> QED
  BY <1>2, <1>3, <1>4, <1>5, <1>6, <1>7, <1>8 DEF DemoNext, CpuStep

-----------------------------------------------------------------------------
(* memtest *)

testVars == <<shell_pc, test, client_pages>>

LEMMA OneToThree == 1 .. 3 = {1, 2, 3}
OBVIOUS

LEMMA PageNames ==
  ASSUME NEW pages \in [1 .. 3 -> Nat]
  PROVE  /\ {pages[i] : i \in 1 .. 3} = {pages[1], pages[2], pages[3]}
         /\ pages[1] \in Nat /\ pages[2] \in Nat /\ pages[3] \in Nat
         /\ DOMAIN pages = 1 .. 3
BY OneToThree

(* MemtestInv read off page by page.                                        *)
LEMMA TestSoFar ==
  ASSUME MemtestInv,
         shell_pc \in {"memtest take", "memtest write", "memtest free", "memtest give back"}
  PROVE  LET pages == test.pages
         IN  /\ test \in Test /\ pages \in [1 .. 3 -> Nat] /\ test.reused = Null
             /\ client_pages = {pages[1], pages[2], pages[3]} \ {Null}
             /\ client_pages \subseteq test.original
             /\ pages[1] = pages[2] => pages[1] = Null
             /\ pages[1] = pages[3] => pages[1] = Null
             /\ pages[2] = pages[3] => pages[2] = Null
             /\ page_free_pages(heap) =
                    test.free_before - (One(pages[1]) + One(pages[2]) + One(pages[3]))
<1>1. test \in Test /\ test.pages \in [1 .. 3 -> Nat] /\ test.reused = Null
  BY DEF MemtestInv, Test, AllGivenBack
<1>2. {test.pages[i] : i \in 1 .. 3} = {test.pages[1], test.pages[2], test.pages[3]}
  BY <1>1, PageNames
<1>3. PagesNamed
  BY DEF MemtestInv
<1>4. PagesApart /\ client_pages = {test.pages[i] : i \in 1 .. 3} \ {Null}
      /\ client_pages \subseteq test.original
      /\ page_free_pages(heap) = test.free_before - HeldPagesOfTest
  BY <1>3 DEF PagesNamed
<1>5. /\ test.pages[1] = test.pages[2] => test.pages[1] = Null
      /\ test.pages[1] = test.pages[3] => test.pages[1] = Null
      /\ test.pages[2] = test.pages[3] => test.pages[2] = Null
  <2>1. \A i, j \in {1, 2, 3} :
            test.pages[i] = test.pages[j] /\ i # j => test.pages[i] = Null
    BY <1>4, OneToThree DEF PagesApart
  <2> QED
    BY ONLY <2>1
<1> QED
  BY <1>1, <1>2, <1>4, <1>5 DEF HeldPagesOfTest

(* ... and put together again.                                              *)
LEMMA TestGoesOn ==
  ASSUME shell_pc' \in {"memtest take", "memtest write", "memtest free",
                         "memtest give back"},
         test' \in Test, NEW pages \in [1 .. 3 -> Nat], test'.pages = pages,
         test'.reused = Null,
         client_pages' = {pages[1], pages[2], pages[3]} \ {Null},
         client_pages' \subseteq test'.original,
         pages[1] = pages[2] => pages[1] = Null,
         pages[1] = pages[3] => pages[1] = Null,
         pages[2] = pages[3] => pages[2] = Null,
         page_free_pages(heap') =
             test'.free_before - (One(pages[1]) + One(pages[2]) + One(pages[3])),
         TakingPages', ThreeTaken', OldPageFirst', GivingBack', PassedSoFar'
  PROVE  MemtestInv'
<1>1. {pages[i] : i \in 1 .. 3} = {pages[1], pages[2], pages[3]}
  BY PageNames
<1>2. \A i, j \in 1 .. 3 : pages[i] = pages[j] /\ i # j => pages[i] = Null
  BY OneToThree
<1>3. PagesNamed'
  BY <1>1, <1>2 DEF PagesNamed, PagesApart, HeldPagesOfTest
<1>4. NotTesting' /\ FirstFreed' /\ AllGivenBack'
  BY DEF NotTesting, FirstFreed, AllGivenBack
<1> QED
  BY <1>3, <1>4 DEF MemtestInv

LEMMA command_memtest_Test ==
  ASSUME IInv, MemtestInv, command_memtest
  PROVE  MemtestInv'
<1> DEFINE count == page_free_pages(heap)
<1>1. /\ shell_pc = "prompt" /\ shell_pc' = "memtest take"
      /\ test' = [NoTest EXCEPT !.free_before = count]
      /\ heap' = heap /\ client_pages' = client_pages
  BY DEF command_memtest, AtMemtest
<1>2. client_pages = {}
  BY <1>1 DEF MemtestInv, NotTesting
<1>3. count \in Int
  BY PagesInUse DEF page_free_pages, HeapType
<1> HIDE DEF count
<1>4. <<Null, Null, Null>> \in [1 .. 3 -> Nat]
  BY NullIsNoPage
<1>5. test' \in Test
  <2>1. test' = [index |-> 1, pages |-> <<Null, Null, Null>>, original |-> {},
                 reused |-> Null, passed |-> TRUE, free_before |-> count]
    BY <1>1 DEF NoTest
  <2> QED
    BY ONLY <1>3, <1>4, <2>1, NullIsNoPage DEF Test
<1> DEFINE pages == <<Null, Null, Null>>
<1>6. /\ test'.pages = pages /\ test'.reused = Null /\ test'.free_before = count
      /\ test'.index = 1
  BY <1>1 DEF NoTest
<1>7. pages[1] = Null /\ pages[2] = Null /\ pages[3] = Null /\ pages \in [1 .. 3 -> Nat]
  BY <1>4
<1> HIDE DEF pages
<1>8. page_free_pages(heap') =
          test'.free_before - (One(pages[1]) + One(pages[2]) + One(pages[3]))
  <2>1. One(pages[1]) = 0 /\ One(pages[2]) = 0 /\ One(pages[3]) = 0
    BY <1>7 DEF One
  <2>2. page_free_pages(heap') = count
    BY <1>1 DEF count
  <2> QED
    BY ONLY <1>3, <1>6, <2>1, <2>2
<1>9. TakingPages'
  <2>1. \A i \in {1, 2, 3} : pages[i] = Null /\ i >= 1
    BY <1>7
  <2> QED
    BY <1>6, <2>1, OneToThree DEF TakingPages
<1>10. ThreeTaken' /\ OldPageFirst' /\ GivingBack' /\ PassedSoFar'
  BY <1>1 DEF ThreeTaken, OldPageFirst, GivingBack, PassedSoFar
<1> QED
  BY <1>1, <1>2, <1>5, <1>6, <1>7, <1>8, <1>9, <1>10, TestGoesOn

LEMMA WritePatterns_Test ==
  ASSUME IInv, MemtestInv, WritePatterns
  PROVE  MemtestInv'
<1> DEFINE pages == test.pages
<1>1. shell_pc = "memtest write" /\ client_pages' = client_pages
  BY DEF WritePatterns, AtMemtest
<1>2. /\ test \in Test /\ pages \in [1 .. 3 -> Nat] /\ test.reused = Null
      /\ client_pages = {pages[1], pages[2], pages[3]} \ {Null}
      /\ client_pages \subseteq test.original
      /\ pages[1] = pages[2] => pages[1] = Null
      /\ pages[1] = pages[3] => pages[1] = Null
      /\ pages[2] = pages[3] => pages[2] = Null
      /\ page_free_pages(heap) =
             test.free_before - (One(pages[1]) + One(pages[2]) + One(pages[3]))
  BY <1>1, TestSoFar
<1>3. \A i \in DOMAIN test.pages : heap'.word[test.pages[i]] = Pattern(i)
  <2>1. \A i \in {1, 2, 3} : heap'.word[test.pages[i]] = Pattern(i)
    BY MemtestWrites
  <2> QED
    BY <1>2, <2>1, OneToThree, PageNames
<1>4. test' = [test EXCEPT !.passed = TRUE] /\ shell_pc' = "memtest free"
  BY <1>3 DEF WritePatterns
<1>5. /\ test' \in Test /\ test'.pages = pages /\ test'.reused = Null
      /\ test'.original = test.original /\ test'.free_before = test.free_before
      /\ test'.index = test.index /\ test'.passed = TRUE
  BY <1>2, <1>4 DEF Test
<1>6. page_free_pages(heap') = page_free_pages(heap)
  BY MemtestWrites
<1>7. ThreeTaken'
  BY <1>1, <1>4, <1>5 DEF ThreeTaken, MemtestInv, Before3
<1>8. TakingPages' /\ OldPageFirst' /\ GivingBack' /\ PassedSoFar'
  BY <1>4 DEF TakingPages, OldPageFirst, GivingBack, PassedSoFar
<1> HIDE DEF pages
<1> QED
  BY <1>1, <1>2, <1>4, <1>5, <1>6, <1>7, <1>8, TestGoesOn

LEMMA FreeFirst_Test ==
  ASSUME IInv, MemtestInv, FreeFirst
  PROVE  MemtestInv'
<1> DEFINE pages == test.pages
           call == page_free(heap, PageAddr(pages[1]))
<1>1. /\ shell_pc = "memtest free" /\ heap' = call.heap
      /\ Returned(pages[1], call.ret)
      /\ test' = [test EXCEPT !.passed = (call.ret = 1)]
      /\ shell_pc' = IF call.ret = 1 THEN "memtest free again" ELSE "memtest give back"
  BY DEF FreeFirst, AtMemtest
<1>2. /\ test \in Test /\ pages \in [1 .. 3 -> Nat] /\ test.reused = Null
      /\ client_pages = {pages[1], pages[2], pages[3]} \ {Null}
      /\ client_pages \subseteq test.original
      /\ pages[1] = pages[2] => pages[1] = Null
      /\ pages[1] = pages[3] => pages[1] = Null
      /\ pages[2] = pages[3] => pages[2] = Null
      /\ page_free_pages(heap) =
             test.free_before - (One(pages[1]) + One(pages[2]) + One(pages[3]))
  BY <1>1, TestSoFar
<1>3. /\ Before3 /\ test.index = 1
      /\ pages[1] # Null /\ pages[2] # Null /\ pages[3] # Null
  BY <1>1 DEF MemtestInv, ThreeTaken
<1>4. pages[1] \in Nat /\ pages[1] \in client_pages
  BY <1>2, <1>3, PageNames
<1>5. call.ret = 1 /\ call.heap.free_list = pages[1]
      /\ page_free_pages(call.heap) = page_free_pages(heap) + 1
  <2> HIDE DEF pages
  <2> QED
    BY <1>4, PageReturned
<1>6. test' = [test EXCEPT !.passed = TRUE] /\ shell_pc' = "memtest free again"
      /\ client_pages' = client_pages \ {pages[1]}
  <2> HIDE DEF call, pages
  <2> QED
    BY <1>1, <1>5 DEF Returned
<1>7. /\ test' \in Test /\ test'.pages = pages /\ test'.reused = Null
      /\ test'.original = test.original /\ test'.free_before = test.free_before
      /\ test'.index = 1 /\ test'.passed = TRUE
  BY <1>2, <1>3, <1>6 DEF Test
<1>8. PagesApart'
  BY <1>1, <1>7 DEF PagesApart, MemtestInv, PagesNamed
<1>9. page_free_pages(heap') = test'.free_before - 2
  <2>1. One(pages[1]) = 1 /\ One(pages[2]) = 1 /\ One(pages[3]) = 1
    BY <1>3 DEF One
  <2>2. test.free_before \in Int
    BY <1>2 DEF Test
  <2> HIDE DEF call, pages
  <2>3. page_free_pages(heap') = page_free_pages(heap) + 1
    BY <1>1, <1>5
  <2> QED
    BY ONLY <1>2, <1>7, <2>1, <2>2, <2>3
<1>10. client_pages' = {pages[2], pages[3]}
  BY <1>2, <1>3, <1>6
<1>11. heap'.free_list = pages[1]
  BY <1>1, <1>5
<1>12. FirstFreed'
  BY <1>2, <1>6, <1>7, <1>8, <1>9, <1>10, <1>11 DEF FirstFreed
<1>13. OldPageFirst'
  BY <1>2, <1>3, <1>4, <1>7, <1>11 DEF OldPageFirst
<1>14. ThreeTaken'
  BY <1>3, <1>7 DEF ThreeTaken, Before3
<1>15. NotTesting' /\ PagesNamed' /\ TakingPages' /\ GivingBack' /\ PassedSoFar'
       /\ AllGivenBack'
  BY <1>6, <1>7
  DEF NotTesting, PagesNamed, TakingPages, GivingBack, PassedSoFar, AllGivenBack
<1> QED
  BY <1>7, <1>12, <1>13, <1>14, <1>15 DEF MemtestInv

LEMMA FreeAgain_Test ==
  ASSUME IInv, MemtestInv, FreeAgain
  PROVE  MemtestInv' /\ shell_pc' = "memtest give back"
<1> DEFINE old == test.pages
           call == page_free(heap, PageAddr(old[1]))
<1>1. /\ shell_pc = "memtest free again" /\ heap' = call.heap
      /\ Returned(old[1], call.ret)
  BY DEF FreeAgain, AtMemtest
<1>2. /\ test \in Test /\ old \in [1 .. 3 -> Nat] /\ test.reused = Null
      /\ Before3 /\ test.index = 1 /\ test.passed
      /\ old[1] # Null /\ old[2] # Null /\ old[3] # Null
      /\ client_pages = {old[2], old[3]} /\ client_pages \subseteq test.original
      /\ page_free_pages(heap) = test.free_before - 2
      /\ heap.free_list = old[1] /\ heap.free_list \in test.original \ {Null}
  BY <1>1 DEF MemtestInv, Test, ThreeTaken, FirstFreed, AllGivenBack, OldPageFirst
<1>3. old[2] # old[3]
  <2>1. \A i, j \in {1, 2, 3} : old[i] = old[j] /\ i # j => old[i] = Null
    BY <1>1, OneToThree DEF MemtestInv, FirstFreed, PagesApart
  <2>2. old[2] = old[3] => old[2] = Null
    BY ONLY <2>1
  <2> QED
    BY <1>2, <2>2
<1>4. call.ret = 0 /\ call.heap = heap
  <2>1. old[1] \in Nat /\ old[1] \notin StackPages \cup client_pages
    BY <1>2, PageNames, ListHeadIsSpare
  <2> HIDE DEF old
  <2> QED
    BY <2>1, PageReturned
<1>5. /\ shell_pc' = "memtest give back" /\ test' = [test EXCEPT !.pages[1] = Null]
      /\ heap' = heap /\ client_pages' = client_pages
  <2>0. call.ret # 1
    BY <1>4
  <2> HIDE DEF call, old
  <2>1. client_pages' = client_pages /\ heap' = heap
    BY <1>1, <1>4, <2>0, Zenon DEF Returned
  <2>2. /\ call.ret # 1 => /\ shell_pc' = "memtest give back"
                           /\ test' = [test EXCEPT !.pages[1] = Null]
    BY Zenon DEF FreeAgain, call, old
  <2> QED
    BY <2>0, <2>1, <2>2, Zenon
<1> DEFINE pages == [old EXCEPT ![1] = Null]
<1>6. /\ test'.pages = pages /\ test'.reused = Null
      /\ test'.original = test.original /\ test'.free_before = test.free_before
      /\ test'.index = 1 /\ test'.passed
  BY <1>2, <1>5 DEF Test
<1>7. pages[1] = Null /\ pages[2] = old[2] /\ pages[3] = old[3]
      /\ pages \in [1 .. 3 -> Nat]
  BY <1>2, NullIsNoPage
<1>8. test' \in Test
  BY <1>2, <1>5, <1>7 DEF Test
<1> HIDE DEF pages, old, call
<1>9. page_free_pages(heap') =
          test'.free_before - (One(pages[1]) + One(pages[2]) + One(pages[3]))
  <2>1. One(pages[1]) = 0 /\ One(pages[2]) = 1 /\ One(pages[3]) = 1
    BY <1>2, <1>7 DEF One
  <2>2. test.free_before \in Int
    BY <1>2 DEF Test
  <2>3. page_free_pages(heap') = page_free_pages(heap)
    BY <1>5
  <2> QED
    BY ONLY <1>2, <1>6, <2>1, <2>2, <2>3
<1>10. client_pages' = {pages[1], pages[2], pages[3]} \ {Null}
  BY <1>2, <1>5, <1>7
<1>11. TakingPages' /\ ThreeTaken' /\ GivingBack'
  <2>1. shell_pc' = "memtest give back" /\ test'.index = 1
    BY <1>5, <1>6
  <2> QED
    <3>1. TakingPages' /\ ThreeTaken'
      BY <2>1 DEF TakingPages, ThreeTaken
    <3>2. \A i \in 1 .. 1 - 1 : FALSE
      OBVIOUS
    <3>3. GivingBack'
      BY <2>1, <3>2, Zenon DEF GivingBack
    <3> QED
      BY <3>1, <3>3
<1>12. OldPageFirst' /\ PassedSoFar'
  BY <1>2, <1>5, <1>6 DEF OldPageFirst, PassedSoFar, Before3
<1> QED
  BY <1>2, <1>3, <1>5, <1>6, <1>7, <1>8, <1>9, <1>10, <1>11, <1>12, TestGoesOn

LEMMA TakePage_Test ==
  ASSUME IInv, ShellInv, MemtestInv, TakePage
  PROVE  MemtestInv'
<1> DEFINE old == test.pages
           i == test.index
           ret == page_alloc(heap).ret
           left == page_alloc(heap).heap
           good == ret # Null /\ page_is_zero(left, ret)
           pages == [old EXCEPT ![i] = ret]
<1>1. /\ shell_pc = "memtest take" /\ heap' = left /\ Taken(ret)
      /\ shell_pc' = IF ~good THEN "memtest give back"
                     ELSE IF i = 3 THEN "memtest write" ELSE shell_pc
  BY DEF TakePage, AtMemtest, MEMORY_TEST_PAGE_COUNT
<1>2. test' = [test EXCEPT
                  !.pages[test.index] = ret,
                  !.original = @ \cup {ret},
                  !.passed = good,
                  !.index = IF good /\ ~(i = 3) THEN @ + 1 ELSE 1]
  BY Zenon DEF TakePage, MEMORY_TEST_PAGE_COUNT
<1>3. /\ test \in Test /\ old \in [1 .. 3 -> Nat] /\ test.reused = Null
      /\ client_pages = {old[1], old[2], old[3]} \ {Null}
      /\ client_pages \subseteq test.original
      /\ old[1] = old[2] => old[1] = Null
      /\ old[1] = old[3] => old[1] = Null
      /\ old[2] = old[3] => old[2] = Null
      /\ page_free_pages(heap) =
             test.free_before - (One(old[1]) + One(old[2]) + One(old[3]))
  BY <1>1, TestSoFar
<1>4. /\ ret \in Nat
      /\ ret # Null => /\ ret \notin client_pages
                       /\ page_is_zero(left, ret)
                       /\ page_free_pages(heap) >= 1
                       /\ page_free_pages(left) = page_free_pages(heap) - 1
      /\ ret = Null => page_free_pages(left) = page_free_pages(heap)
                       /\ page_free_pages(heap) = 0
  <2>1. heap.initialized
    BY DEF ShellInv, Control
  <2> QED
    BY <2>1, PageTaken
<1>5. good <=> ret # Null
  <2> HIDE DEF ret, left
  <2> QED
    BY <1>4
<1>6. /\ i \in {1, 2, 3}
      /\ \A j \in {1, 2, 3} : old[j] = Null <=> j >= i
  BY <1>1, OneToThree DEF MemtestInv, Test, TakingPages
<1> HIDE DEF ret, left, good
<1>7. /\ test'.pages = pages /\ test'.original = test.original \cup {ret}
      /\ test'.passed = good /\ test'.reused = Null
      /\ test'.index = IF good /\ i # 3 THEN i + 1 ELSE 1
      /\ test'.free_before = test.free_before
  BY <1>2, <1>3 DEF Test
<1>8. pages \in [1 .. 3 -> Nat] /\ pages[i] = ret
      /\ \A j \in {1, 2, 3} \ {i} : pages[j] = old[j]
  BY <1>3, <1>4, <1>6, OneToThree
<1>9. good \in BOOLEAN
  BY DEF good
<1>10. test' \in Test
  <2>1. test' = [index |-> test'.index, pages |-> test'.pages,
                 original |-> test'.original, reused |-> test'.reused,
                 passed |-> test'.passed, free_before |-> test'.free_before]
    BY <1>2, <1>3 DEF Test
  <2>2. test'.index \in 1 .. 3
    BY <1>6, <1>7
  <2>3. test'.original \in SUBSET Nat /\ test'.free_before \in Int
    BY <1>3, <1>4, <1>7 DEF Test
  <2>4. test'.pages \in [1 .. 3 -> Nat] /\ test'.reused \in Nat /\ test'.passed \in BOOLEAN
    BY <1>7, <1>8, <1>9, NullIsNoPage
  <2> QED
    BY ONLY <2>1, <2>2, <2>3, <2>4 DEF Test
<1>11. /\ client_pages' = {pages[1], pages[2], pages[3]} \ {Null}
       /\ pages[1] = pages[2] => pages[1] = Null
       /\ pages[1] = pages[3] => pages[1] = Null
       /\ pages[2] = pages[3] => pages[2] = Null
  <2>1. client_pages' = client_pages \cup ({ret} \ {Null})
    BY <1>1 DEF Taken
  <2>2. old[i] = Null
    BY <1>6
  <2> HIDE DEF pages, old, i
  <2> QED
    BY <1>3, <1>4, <1>6, <1>8, <2>1, <2>2
<1>12. page_free_pages(heap') =
           test'.free_before - (One(pages[1]) + One(pages[2]) + One(pages[3]))
  <2>1. One(old[i]) = 0 /\ \A j \in {1, 2, 3} \ {i} : One(pages[j]) = One(old[j])
    BY <1>6, <1>8 DEF One
  <2>2. One(pages[i]) = IF ret = Null THEN 0 ELSE 1
    BY <1>8 DEF One
  <2>3. \A j \in {1, 2, 3} : One(old[j]) \in Int
    BY DEF One
  <2>4. test.free_before \in Int /\ page_free_pages(heap') = page_free_pages(left)
    BY <1>1, <1>3 DEF Test
  <2>5. page_free_pages(left) = page_free_pages(heap) - (IF ret = Null THEN 0 ELSE 1)
    BY <1>3, <1>4, <2>3, <2>4
  <2> HIDE DEF pages, old, i
  <2>6. One(pages[1]) + One(pages[2]) + One(pages[3]) =
            One(old[1]) + One(old[2]) + One(old[3]) + (IF ret = Null THEN 0 ELSE 1)
    BY ONLY <1>6, <2>1, <2>2, <2>3
  <2> QED
    BY ONLY <1>3, <1>7, <2>3, <2>4, <2>5, <2>6
<1>13. client_pages' \subseteq test'.original
  <2>1. client_pages' = client_pages \cup ({ret} \ {Null})
    BY <1>1 DEF Taken
  <2> QED
    BY <1>3, <1>7, <2>1
<1>14. Before3 <=> page_free_pages(heap) >= 4 - i
  <2>1. \A j \in {1, 2, 3} : One(old[j]) = IF j >= i THEN 0 ELSE 1
    BY <1>6 DEF One
  <2>2. test.free_before \in Int
    BY <1>3 DEF Test
  <2> HIDE DEF old, i
  <2>3. One(old[1]) + One(old[2]) + One(old[3]) = i - 1
    BY ONLY <1>6, <2>1
  <2> QED
    BY <1>3, <1>6, <2>2, <2>3 DEF Before3, MEMORY_TEST_PAGE_COUNT
<1>15. Before3' <=> Before3
  BY <1>7 DEF Before3
<1> HIDE DEF old, i, pages
<1>16. CASE ~good
  <2>1. shell_pc' = "memtest give back" /\ test'.index = 1 /\ ~test'.passed
    BY <1>1, <1>7, <1>9, <1>16
  <2>2. ~Before3'
    BY <1>4, <1>5, <1>6, <1>14, <1>15, <1>16
  <2>3. TakingPages' /\ ThreeTaken' /\ OldPageFirst' /\ PassedSoFar'
    BY <2>1, <2>2 DEF TakingPages, ThreeTaken, OldPageFirst, PassedSoFar
  <2>4. \A j \in 1 .. 1 - 1 : FALSE
    OBVIOUS
  <2>5. GivingBack'
    BY <2>1, <2>4, Zenon DEF GivingBack
  <2> QED
    BY <1>3, <1>7, <1>8, <1>10, <1>11, <1>12, <1>13, <2>1, <2>3, <2>5, TestGoesOn
<1>17. CASE good /\ i # 3
  <2>1. shell_pc' = "memtest take" /\ test'.index = i + 1
    BY <1>1, <1>7, <1>17
  <2>2. \A j \in {1, 2, 3} : pages[j] = Null <=> j >= i + 1
    BY <1>5, <1>6, <1>8, <1>17
  <2>3. TakingPages'
    BY <1>7, <2>1, <2>2, OneToThree, Zenon DEF TakingPages
  <2>4. ThreeTaken' /\ OldPageFirst' /\ PassedSoFar' /\ GivingBack'
    BY <2>1 DEF ThreeTaken, OldPageFirst, PassedSoFar, GivingBack
  <2> QED
    BY <1>3, <1>7, <1>8, <1>10, <1>11, <1>12, <1>13, <2>1, <2>3, <2>4, TestGoesOn
<1>18. CASE good /\ i = 3
  <2>1. shell_pc' = "memtest write" /\ test'.index = 1
    BY <1>1, <1>7, <1>18
  <2>2. pages[1] # Null /\ pages[2] # Null /\ pages[3] # Null
    BY <1>5, <1>6, <1>8, <1>18
  <2>3. Before3'
    <3>1. page_free_pages(heap) >= 1
      BY <1>4, <1>5, <1>18
    <3> QED
      BY <1>14, <1>15, <1>18, <3>1
  <2>4. ThreeTaken'
    BY <1>7, <2>1, <2>2, <2>3 DEF ThreeTaken
  <2>5. TakingPages' /\ OldPageFirst' /\ PassedSoFar' /\ GivingBack'
    BY <2>1 DEF TakingPages, OldPageFirst, PassedSoFar, GivingBack
  <2> QED
    BY <1>3, <1>7, <1>8, <1>10, <1>11, <1>12, <1>13, <2>1, <2>4, <2>5, TestGoesOn
<1> QED
  BY <1>16, <1>17, <1>18

LEMMA GiveBack_Test ==
  ASSUME IInv, MemtestInv, GiveBack
  PROVE  MemtestInv'
<1> DEFINE old == test.pages
           i == test.index
           page == old[i]
           call == page_free(heap, PageAddr(page))
           pages == [old EXCEPT ![i] = Null]
<1>1. /\ shell_pc = "memtest give back"
      /\ heap' = IF page = Null THEN heap ELSE call.heap
      /\ Returned(page, IF page = Null THEN 0 ELSE call.ret)
      /\ shell_pc' = IF i = 3 THEN "memtest retry" ELSE shell_pc
  BY DEF GiveBack, AtMemtest, MEMORY_TEST_PAGE_COUNT, Skipped
<1>2. test' = [test EXCEPT
                  !.pages[test.index] =
                      IF ~(page = Null) /\ call.ret = 1 THEN Null ELSE page,
                  !.passed = @ /\ (page = Null \/ (~(page = Null) /\ call.ret = 1)),
                  !.index = IF i = 3 THEN 1 ELSE @ + 1]
  BY Zenon DEF GiveBack, MEMORY_TEST_PAGE_COUNT, Skipped
<1>3. /\ test \in Test /\ old \in [1 .. 3 -> Nat] /\ test.reused = Null
      /\ client_pages = {old[1], old[2], old[3]} \ {Null}
      /\ client_pages \subseteq test.original
      /\ old[1] = old[2] => old[1] = Null
      /\ old[1] = old[3] => old[1] = Null
      /\ old[2] = old[3] => old[2] = Null
      /\ page_free_pages(heap) =
             test.free_before - (One(old[1]) + One(old[2]) + One(old[3]))
  BY <1>1, TestSoFar
<1>4. i \in {1, 2, 3} /\ page \in Nat
  BY <1>3, TestFacts
<1>5. page \in client_pages \cup {Null}
  <2> HIDE DEF old, i
  <2> QED
    BY <1>3, <1>4 DEF page
<1>6. page # Null => /\ call.ret = 1 /\ call.heap.free_list = page
                     /\ page_free_pages(call.heap) = page_free_pages(heap) + 1
  <2> HIDE DEF page
  <2> QED
    BY <1>4, <1>5, PageReturned
<1> HIDE DEF call
<1>7. /\ test'.pages = [old EXCEPT ![i] =
                            IF ~(page = Null) /\ call.ret = 1 THEN Null ELSE page]
      /\ test'.passed = (test.passed /\ (page = Null \/ (~(page = Null) /\ call.ret = 1)))
      /\ test'.original = test.original /\ test'.reused = Null
      /\ test'.index = IF i = 3 THEN 1 ELSE i + 1
      /\ test'.free_before = test.free_before
  BY <1>2, <1>3 DEF Test
<1>8. test'.pages = pages /\ test'.passed = test.passed
  <2>1. (IF ~(page = Null) /\ call.ret = 1 THEN Null ELSE page) = Null
    BY <1>6
  <2>2. test.passed \in BOOLEAN /\ (page = Null \/ (~(page = Null) /\ call.ret = 1))
    BY <1>3, <1>6 DEF Test
  <2> QED
    BY <1>7, <2>1, <2>2, Zenon
<1>9. pages \in [1 .. 3 -> Nat] /\ pages[i] = Null
      /\ \A j \in {1, 2, 3} \ {i} : pages[j] = old[j]
  BY <1>3, <1>4, OneToThree, NullIsNoPage
<1>10. test' \in Test
  <2>1. test' = [index |-> test'.index, pages |-> test'.pages,
                 original |-> test'.original, reused |-> test'.reused,
                 passed |-> test'.passed, free_before |-> test'.free_before]
    BY <1>2, <1>3 DEF Test
  <2>2. test'.index \in 1 .. 3
    BY <1>4, <1>7
  <2>3. test'.original \in SUBSET Nat /\ test'.free_before \in Int
        /\ test'.passed \in BOOLEAN
    BY <1>3, <1>7, <1>8 DEF Test
  <2>4. test'.pages \in [1 .. 3 -> Nat] /\ test'.reused \in Nat
    BY <1>7, <1>8, <1>9, NullIsNoPage
  <2> QED
    BY ONLY <2>1, <2>2, <2>3, <2>4 DEF Test
<1>11. client_pages' = client_pages \ {page}
  <2>1. page = Null => page \notin client_pages
    BY <1>3
  <2> HIDE DEF page
  <2> QED
    BY <1>1, <1>6, <2>1 DEF Returned
<1>12. /\ client_pages' = {pages[1], pages[2], pages[3]} \ {Null}
       /\ pages[1] = pages[2] => pages[1] = Null
       /\ pages[1] = pages[3] => pages[1] = Null
       /\ pages[2] = pages[3] => pages[2] = Null
  <2> HIDE DEF pages, old, i
  <2> QED
    BY <1>3, <1>4, <1>9, <1>11 DEF page
<1>13. page_free_pages(heap') =
           test'.free_before - (One(pages[1]) + One(pages[2]) + One(pages[3]))
  <2>1. One(pages[i]) = 0 /\ \A j \in {1, 2, 3} \ {i} : One(pages[j]) = One(old[j])
    BY <1>4, <1>9 DEF One
  <2>2. One(old[i]) = IF page = Null THEN 0 ELSE 1
    BY DEF One
  <2>3. \A j \in {1, 2, 3} : One(old[j]) \in Int
    BY DEF One
  <2>4. test.free_before \in Int
    BY <1>3 DEF Test
  <2> HIDE DEF pages, old, page, i
  <2>5. page_free_pages(heap') = page_free_pages(heap) + (IF page = Null THEN 0 ELSE 1)
    <3>1. page_free_pages(heap) \in Int
      BY <1>3, <2>3, <2>4
    <3>2. page = Null => page_free_pages(heap') = page_free_pages(heap)
      BY <1>1
    <3>3. page # Null => page_free_pages(heap') = page_free_pages(heap) + 1
      BY <1>1, <1>6
    <3> QED
      BY ONLY <3>1, <3>2, <3>3
  <2>6. One(old[1]) + One(old[2]) + One(old[3]) =
            One(pages[1]) + One(pages[2]) + One(pages[3]) + (IF page = Null THEN 0 ELSE 1)
    BY ONLY <1>4, <2>1, <2>2, <2>3
  <2>7. \A j \in {1, 2, 3} : One(pages[j]) \in Int
    BY DEF One
  <2> QED
    BY ONLY <1>3, <1>7, <2>3, <2>4, <2>5, <2>6, <2>7
<1>14. client_pages' \subseteq test'.original
  BY <1>3, <1>7, <1>11
<1>15. test'.passed => heap'.free_list \in test'.original \ {Null}
  <2>1. test.passed => heap.free_list \in test.original \ {Null}
    BY <1>1 DEF MemtestInv, OldPageFirst
  <2>2. page # Null => page \in test.original
    BY <1>3, <1>5
  <2> HIDE DEF page
  <2> QED
    BY <1>1, <1>6, <1>7, <1>8, <2>1, <2>2
<1>16. test'.passed <=> Before3'
  BY <1>1, <1>7, <1>8 DEF MemtestInv, PassedSoFar, Before3
<1>17. \A j \in 1 .. i : pages[j] = Null
  <2>1. \A j \in 1 .. i - 1 : old[j] = Null
    BY <1>1 DEF MemtestInv, GivingBack
  <2> HIDE DEF pages, old, i
  <2> QED
    BY <1>4, <1>9, <2>1
<1> HIDE DEF pages, old, i, page
<1>18. CASE i # 3
  <2>1. shell_pc' = "memtest give back" /\ test'.index = i + 1
    BY <1>1, <1>7, <1>18
  <2>2. \A j \in 1 .. (i + 1) - 1 : pages[j] = Null
    BY <1>4, <1>17
  <2>3. GivingBack'
    BY <1>8, <2>1, <2>2, Zenon DEF GivingBack
  <2>4. TakingPages' /\ ThreeTaken' /\ OldPageFirst' /\ PassedSoFar'
    BY <1>15, <1>16, <2>1 DEF TakingPages, ThreeTaken, OldPageFirst, PassedSoFar
  <2> QED
    BY <1>7, <1>8, <1>9, <1>10, <1>12, <1>13, <1>14, <2>1, <2>3, <2>4, TestGoesOn
<1>19. CASE i = 3
  <2>1. shell_pc' = "memtest retry"
    BY <1>1, <1>19
  <2>2. pages[1] = Null /\ pages[2] = Null /\ pages[3] = Null
    BY <1>17, <1>19
  <2>3. client_pages' = {}
    BY <1>12, <2>2
  <2>4. page_free_pages(heap') = test'.free_before
    <3>1. One(Null) = 0 /\ test'.free_before \in Int
      BY <1>10 DEF One, Test
    <3> QED
      BY ONLY <1>13, <2>2, <3>1
  <2>5. AllGivenBack'
    BY <1>7, <2>1, <2>3, <2>4 DEF AllGivenBack
  <2>6. NotTesting' /\ PagesNamed' /\ TakingPages' /\ ThreeTaken' /\ FirstFreed'
        /\ OldPageFirst' /\ GivingBack' /\ PassedSoFar'
    BY <1>15, <1>16, <2>1
    DEF NotTesting, PagesNamed, TakingPages, ThreeTaken, FirstFreed, OldPageFirst,
        GivingBack, PassedSoFar
  <2> QED
    BY <1>10, <2>5, <2>6 DEF MemtestInv
<1> QED
  BY <1>18, <1>19

LEMMA Retry_Test ==
  ASSUME IInv, MemtestInv, Retry
  PROVE  MemtestInv'
<1> DEFINE ret == page_alloc(heap).ret
           left == page_alloc(heap).heap
<1>1. /\ shell_pc = "memtest retry" /\ shell_pc' = "memtest end"
      /\ test.passed /\ page_free_pages(heap) = test.free_before =>
             /\ heap' = left /\ Taken(ret)
             /\ test' = [test EXCEPT
                             !.reused = ret,
                             !.passed = /\ ret # Null
                                        /\ page_is_zero(left, ret)
                                        /\ ret \in test.original]
      /\ ~(test.passed /\ page_free_pages(heap) = test.free_before) =>
             test' = [test EXCEPT !.passed = FALSE] /\ UNCHANGED <<heap, client_pages>>
  BY DEF Retry, AtMemtest
<1>2. /\ test \in Test /\ test.reused = Null /\ client_pages = {}
      /\ page_free_pages(heap) = test.free_before
      /\ test.passed <=> Before3
      /\ test.passed => heap.free_list \in test.original \ {Null}
  BY <1>1 DEF MemtestInv, AllGivenBack, PassedSoFar, OldPageFirst
<1>3. /\ ret \in Nat
      /\ heap.free_list # Null => ret = heap.free_list
      /\ ret # Null => /\ page_is_zero(left, ret)
                       /\ page_free_pages(left) = page_free_pages(heap) - 1
  BY PageTaken
<1> HIDE DEF ret, left
<1>4. CASE test.passed
  <2>1. ret # Null /\ ret \in test.original /\ page_is_zero(left, ret)
        /\ page_free_pages(left) = page_free_pages(heap) - 1
    BY <1>2, <1>3, <1>4
  <2>2. heap' = left /\ client_pages' = {ret} /\ test' = [test EXCEPT !.reused = ret, !.passed = TRUE]
    <3>1. heap' = left /\ Taken(ret)
      BY <1>1, <1>2, <1>4
    <3>2. client_pages' = {ret}
      BY <1>2, <2>1, <3>1 DEF Taken
    <3>3. test' = [test EXCEPT !.reused = ret,
                               !.passed = /\ ret # Null
                                          /\ page_is_zero(left, ret)
                                          /\ ret \in test.original]
      BY <1>1, <1>2, <1>4
    <3>4. (ret # Null /\ page_is_zero(left, ret) /\ ret \in test.original) = TRUE
      BY <2>1
    <3> QED
      BY <3>1, <3>2, <3>3, <3>4, Zenon
  <2>3. /\ test' \in Test /\ test'.reused = ret /\ test'.passed
        /\ test'.free_before = test.free_before
    BY <1>2, <1>3, <2>2 DEF Test
  <2>4. page_free_pages(heap') = test'.free_before - One(test'.reused)
    <3>1. One(test'.reused) = 1
      BY <2>1, <2>3 DEF One
    <3>2. page_free_pages(heap') = page_free_pages(left)
      BY <2>2
    <3> QED
      BY ONLY <1>2, <2>1, <2>3, <3>1, <3>2
  <2>5. AllGivenBack'
    BY <1>1, <2>1, <2>2, <2>3, <2>4 DEF AllGivenBack
  <2>6. PassedSoFar'
    BY <1>2, <1>4, <2>3 DEF PassedSoFar, Before3
  <2>7. NotTesting' /\ PagesNamed' /\ TakingPages' /\ ThreeTaken' /\ FirstFreed'
        /\ OldPageFirst' /\ GivingBack'
    BY <1>1
    DEF NotTesting, PagesNamed, TakingPages, ThreeTaken, FirstFreed, OldPageFirst, GivingBack
  <2> QED
    BY <2>3, <2>5, <2>6, <2>7 DEF MemtestInv
<1>5. CASE ~test.passed
  <2>1. test' = [test EXCEPT !.passed = FALSE] /\ heap' = heap /\ client_pages' = {}
    BY <1>1, <1>2, <1>5
  <2>2. /\ test' \in Test /\ test'.reused = Null /\ ~test'.passed
        /\ test'.free_before = test.free_before
    BY <1>2, <2>1 DEF Test
  <2>3. page_free_pages(heap') = test'.free_before - One(test'.reused)
    <3>1. One(test'.reused) = 0 /\ test.free_before \in Int
      BY <1>2, <2>2 DEF One, Test
    <3>2. page_free_pages(heap') = page_free_pages(heap)
      BY <2>1
    <3> QED
      BY ONLY <1>2, <2>2, <3>1, <3>2
  <2>4. AllGivenBack'
    BY <1>1, <2>1, <2>2, <2>3 DEF AllGivenBack
  <2>5. PassedSoFar'
    BY <1>2, <1>5, <2>2 DEF PassedSoFar, Before3
  <2>6. NotTesting' /\ PagesNamed' /\ TakingPages' /\ ThreeTaken' /\ FirstFreed'
        /\ OldPageFirst' /\ GivingBack'
    BY <1>1
    DEF NotTesting, PagesNamed, TakingPages, ThreeTaken, FirstFreed, OldPageFirst, GivingBack
  <2> QED
    BY <2>2, <2>4, <2>5, <2>6 DEF MemtestInv
<1> QED
  BY <1>4, <1>5

LEMMA NoTestFacts == NoTest \in Test /\ NoTest.reused = Null
<1>1. <<Null, Null, Null>> \in [1 .. 3 -> Nat] /\ Null \in Nat
  BY NullIsNoPage
<1> QED
  BY <1>1 DEF NoTest, Test

LEMMA NothingTested ==
  ASSUME client_pages' = {}, test' = NoTest,
         shell_pc' \in {"kernel_main", "prompt", "create A", "create B", "drain", "join",
                        "reap B"}
  PROVE  MemtestInv'
<1>1. test' \in Test /\ test'.reused = Null
  BY NoTestFacts
<1>2. NotTesting' /\ AllGivenBack'
  BY <1>1 DEF NotTesting, AllGivenBack
<1>3. PagesNamed' /\ TakingPages' /\ ThreeTaken' /\ FirstFreed'
      /\ OldPageFirst' /\ GivingBack' /\ PassedSoFar'
  BY DEF PagesNamed, TakingPages, ThreeTaken, FirstFreed, OldPageFirst, GivingBack,
         PassedSoFar
<1> QED
  BY <1>1, <1>2, <1>3 DEF MemtestInv

(* The last free is of a page memtest holds, so it gives it back; it passes *)
(* with every check before it.                                              *)
LEMMA EndMemtest_Test ==
  ASSUME IInv, MemtestInv, EndMemtest
  PROVE  /\ MemtestInv'
         /\ page_free_pages(heap') = test.free_before
         /\ verdict' = "memtest: PASS" <=> Before3
<1> DEFINE page == test.reused
           call == page_free(heap, PageAddr(page))
           left == IF page = Null THEN heap ELSE call.heap
           passed == /\ test.passed
                     /\ page = Null \/ call.ret = 1
                     /\ page_free_pages(left) = test.free_before
<1>1. /\ shell_pc = "memtest end" /\ shell_pc' = "prompt" /\ test' = NoTest
      /\ heap' = left
      /\ Returned(page, IF page = Null THEN 0 ELSE call.ret)
      /\ verdict' = IF passed THEN "memtest: PASS" ELSE "memtest: FAIL"
  BY DEF EndMemtest, AtMemtest
<1>2. /\ page \in Nat /\ client_pages = {page} \ {Null}
      /\ page_free_pages(heap) = test.free_before - One(page)
      /\ test.passed <=> Before3
      /\ test.free_before \in Int
  BY <1>1 DEF MemtestInv, AllGivenBack, PassedSoFar, Test
<1>3. page # Null => /\ call.ret = 1
                     /\ page_free_pages(call.heap) = page_free_pages(heap) + 1
  <2>1. page # Null => page \in client_pages
    BY <1>2
  <2> HIDE DEF page
  <2> QED
    BY <1>2, <2>1, PageReturned
<1> HIDE DEF call, page
<1>4. page_free_pages(left) = test.free_before
  <2>1. page = Null => One(page) = 0 /\ left = heap
    BY DEF One, left
  <2>2. page # Null => One(page) = 1 /\ left = call.heap
    BY DEF One, left
  <2> HIDE DEF left
  <2> QED
    BY <1>2, <1>3, <2>1, <2>2
<1>5. client_pages' = {}
  BY <1>1, <1>2, <1>3 DEF Returned
<1>6. passed <=> Before3
  BY <1>2, <1>3, <1>4
<1> HIDE DEF left, passed
<1>7. MemtestInv'
  BY <1>1, <1>5, NothingTested
<1>8. verdict' = "memtest: PASS" <=> Before3
  BY <1>1, <1>6
<1> QED
  BY <1>1, <1>4, <1>7, <1>8

LEMMA MemtestKept ==
  ASSUME DemoInv, [DemoNext]_vars
  PROVE  MemtestInv'
<1>0. IInv /\ DemoTypeOK /\ ShellInv /\ MemtestInv
  BY DEF DemoInv
<1>1. CASE memtest
  BY <1>0, <1>1, TakePage_Test, WritePatterns_Test, FreeFirst_Test, FreeAgain_Test,
     GiveBack_Test, Retry_Test, EndMemtest_Test DEF memtest
<1>2. CASE command_memtest
  BY <1>0, <1>2, command_memtest_Test
<1>3. CASE UNCHANGED vars
  <2>1. UNCHANGED <<heap, client_pages, test, shell_pc>>
    BY <1>3 DEF vars, schedVars, demoVars
  <2>2. NotTesting' /\ TakingPages' /\ ThreeTaken' /\ GivingBack' /\ PassedSoFar'
    BY <1>0, <2>1
    DEF MemtestInv, NotTesting, TakingPages, ThreeTaken, GivingBack, PassedSoFar, Before3
  <2>3. PagesNamed'
    BY <1>0, <2>1 DEF MemtestInv, PagesNamed, PagesApart, HeldPagesOfTest
  <2>4. FirstFreed' /\ OldPageFirst' /\ AllGivenBack'
    BY <1>0, <2>1 DEF MemtestInv, FirstFreed, PagesApart, OldPageFirst, AllGivenBack
  <2> QED
    BY <1>0, <2>1, <2>2, <2>3, <2>4 DEF MemtestInv
<1>4. ASSUME \/ Boot \/ CreateA \/ CreateB \/ DrainYield \/ DrainReap
             \/ JoinYield \/ JoinReap \/ ReapB \/ WorkerStart \/ WorkerTurn
             \/ WorkerReturn \/ InScheduler \/ command_taskdemo \/ Overflow
      PROVE  MemtestInv'
  <2> DEFINE Others == {"kernel_main", "prompt", "create A", "create B", "drain", "join",
                        "reap B"}
  <2>1. shell_pc \in Others /\ shell_pc' \in Others
        /\ UNCHANGED <<client_pages, test>>
    <3>1. CASE \/ DrainYield \/ JoinYield \/ WorkerStart \/ WorkerTurn \/ WorkerReturn
               \/ InScheduler \/ Overflow
      <4>1. shell_pc \in {"drain", "join"} /\ UNCHANGED shellVars
        BY <1>0, <3>1, WhileWaiting
      <4>2. UNCHANGED test
        BY <3>1 DEF DrainYield, JoinYield, WorkerStart, WorkerTurn, WorkerReturn,
                    InScheduler, Overflow, demoVars
      <4>3. UNCHANGED client_pages
        BY <3>1
        DEF DrainYield, JoinYield, Wait, WorkerStart, WorkerTurn, WorkerReturn, InScheduler,
            Overflow, task_yield, task_bootstrap, task_exit_call, task_yield_switch,
            task_exit, task_exit_switch, StackOverflow, schedVars
      <4> QED
        BY <4>1, <4>2, <4>3 DEF shellVars
    <3>2. CASE Boot
      BY <3>2 DEF Boot, task_init
    <3>3. CASE command_taskdemo
      BY <3>3 DEF command_taskdemo, schedVars
    <3>4. CASE CreateA \/ CreateB
      BY <3>4 DEF CreateA, CreateB, Return, task_create, schedVars
    <3>5. CASE DrainReap \/ JoinReap \/ ReapB
      BY <3>5 DEF DrainReap, JoinReap, ReapB, Return
    <3> QED
      BY <1>4, <3>1, <3>2, <3>3, <3>4, <3>5
  <2>2. client_pages = {} /\ test = NoTest
    BY <1>0, <2>1 DEF MemtestInv, NotTesting
  <2> QED
    BY <2>1, <2>2, NothingTested
<1> QED
  BY <1>1, <1>2, <1>3, <1>4 DEF DemoNext, CpuStep

-----------------------------------------------------------------------------
(* Types, and the invariant put together *)

LEMMA TypeKept ==
  ASSUME DemoInv, [DemoNext]_vars
  PROVE  DemoTypeOK'
<1>0. IInv /\ DemoTypeOK /\ ShellInv /\ MemtestInv
  BY DEF DemoInv
<1>1. IInv' /\ MemtestInv'
  BY SchedKept, MemtestKept
<1>2. TypeOK'
  BY <1>1 DEF IInv
<1>3. test'.index \in DOMAIN test'.pages
  <2>1. test' \in Test
    BY <1>1 DEF MemtestInv
  <2> QED
    BY <2>1 DEF Test
<1>4. test'.original \subseteq Frame \cup {Null}
  <2>0. test.original \subseteq Frame \cup {Null} /\ test \in Test
    BY <1>0 DEF DemoTypeOK, MemtestInv
  <2>1. CASE TakePage
    <3>1. test'.original = test.original \cup {page_alloc(heap).ret}
      <4> DEFINE ret == page_alloc(heap).ret
      <4>1. PICK good, index : test' = [test EXCEPT
                  !.pages[test.index] = ret, !.original = @ \cup {ret},
                  !.passed = good, !.index = index]
        BY <2>1, Zenon DEF TakePage
      <4> HIDE DEF ret
      <4>2. test'.original = test.original \cup {ret}
        BY <2>0, <4>1 DEF Test
      <4> QED
        BY <4>2 DEF ret
    <3>2. page_alloc(heap).ret \in client_pages' \cup {Null}
      BY <2>1 DEF TakePage, Taken
    <3>3. client_pages' \subseteq Frame
      BY <1>2 DEF TypeOK
    <3> QED
      BY <2>0, <3>1, <3>2, <3>3
  <2>2. CASE test'.original = test.original
    BY <2>0, <2>2
  <2>3. CASE test' = NoTest \/ test'.original = {}
    BY <2>3 DEF NoTest
  <2>4. CASE UNCHANGED test
    BY <2>2, <2>4
  <2>5. CASE \/ WritePatterns \/ FreeFirst \/ FreeAgain \/ GiveBack \/ Retry
             \/ EndMemtest \/ command_memtest
    <3>1. CASE WritePatterns
      BY <2>0, <2>2, <3>1 DEF WritePatterns, Test
    <3>2. CASE FreeFirst
      BY <2>0, <2>2, <3>2 DEF FreeFirst, Test
    <3>3. CASE FreeAgain
      <4>1. test' = NoTest \/ test' = [test EXCEPT !.pages[1] = Null]
        BY <3>3, Zenon DEF FreeAgain
      <4> QED
        BY <2>0, <2>2, <2>3, <4>1 DEF Test
    <3>4. CASE GiveBack
      <4>1. PICK page, passed, index :
               test' = [test EXCEPT !.pages[test.index] = page, !.passed = passed,
                                    !.index = index]
        BY <3>4, Zenon DEF GiveBack
      <4> QED
        BY <2>0, <2>2, <4>1 DEF Test
    <3>5. CASE Retry
      BY <2>0, <2>2, <3>5 DEF Retry, Test
    <3>6. CASE EndMemtest \/ command_memtest
      BY <2>3, <3>6 DEF EndMemtest, command_memtest, NoTest
    <3> QED
      BY <2>5, <3>1, <3>2, <3>3, <3>4, <3>5, <3>6
  <2>6. CASE \/ Boot \/ CreateA \/ CreateB \/ DrainYield \/ DrainReap
             \/ JoinYield \/ JoinReap \/ ReapB \/ WorkerStart \/ WorkerTurn
             \/ WorkerReturn \/ InScheduler \/ command_taskdemo \/ Overflow
             \/ UNCHANGED vars
    BY <2>4, <2>6
    DEF Boot, CreateA, CreateB, DrainYield, DrainReap, JoinYield, JoinReap, ReapB,
        WorkerStart, WorkerTurn, WorkerReturn, InScheduler, command_taskdemo, Overflow,
        vars, demoVars
  <2> QED
    BY <2>1, <2>5, <2>6 DEF DemoNext, CpuStep, memtest
<1>5. shell_pc' \in {"kernel_main", "prompt", "create A", "create B", "drain",
                     "join", "reap B", "memtest take", "memtest write",
                     "memtest free", "memtest free again", "memtest give back",
                     "memtest retry", "memtest end"}
      /\ commands' \in 0 .. MaxCommands
  <2>0. shell_pc \in {"kernel_main", "prompt", "create A", "create B", "drain",
                      "join", "reap B", "memtest take", "memtest write",
                      "memtest free", "memtest free again", "memtest give back",
                      "memtest retry", "memtest end"}
        /\ commands \in 0 .. MaxCommands /\ MaxCommands \in Nat
    BY <1>0, RoundsAssumption DEF DemoTypeOK
  <2>1. CASE memtest
    BY <2>0, <2>1 DEF memtest, TakePage, WritePatterns, FreeFirst, FreeAgain, GiveBack,
                      Retry, EndMemtest, AtMemtest
  <2>2. CASE command_memtest \/ command_taskdemo
    <3>1. commands < MaxCommands /\ commands' = commands + 1
      BY <2>2 DEF command_memtest, command_taskdemo
    <3>2. commands \in 0 .. MaxCommands /\ MaxCommands \in Nat
      BY <2>0
    <3>3. commands' \in 0 .. MaxCommands
      BY ONLY <3>1, <3>2
    <3>4. shell_pc' \in {"memtest take", "create A"}
      BY <2>2 DEF command_memtest, command_taskdemo
    <3> QED
      BY <3>3, <3>4
  <2>4. CASE \/ Boot \/ CreateA \/ CreateB \/ DrainYield \/ DrainReap
             \/ JoinYield \/ JoinReap \/ ReapB \/ WorkerStart \/ WorkerTurn
             \/ WorkerReturn \/ InScheduler \/ Overflow \/ UNCHANGED vars
    BY <2>0, <2>4
    DEF Boot, CreateA, CreateB, DrainYield, DrainReap, JoinYield, JoinReap, ReapB, Return,
        WorkerStart, WorkerTurn, WorkerReturn, InScheduler, Overflow, vars, demoVars
  <2> QED
    BY <2>1, <2>2, <2>4 DEF DemoNext, CpuStep
<1>6. /\ workers_rounds' \in 0 .. MaxRounds \cup {Garbage}
      /\ first' \in 0 .. TaskMax /\ second' \in 0 .. TaskMax
  <2>0. /\ workers_rounds \in 0 .. MaxRounds \cup {Garbage}
        /\ first \in 0 .. TaskMax /\ second \in 0 .. TaskMax
        /\ 1 .. MaxRounds \subseteq 0 .. MaxRounds
        /\ FirstUnused \subseteq 0 .. TaskMax /\ TASK_ID_INVALID \in 0 .. TaskMax
    <3>1. 1 .. MaxRounds \subseteq 0 .. MaxRounds
      BY RoundsAssumption
    <3>2. FirstUnused \subseteq 0 .. TaskMax
      BY UnusedIsWorker, WorkerFacts
    <3> QED
      BY <1>0, <3>1, <3>2, WorkerFacts DEF DemoTypeOK
  <2>1. CASE memtest \/ command_memtest
    BY <2>0, <2>1 DEF memtest, command_memtest, TakePage, WritePatterns, FreeFirst,
                      FreeAgain, GiveBack, Retry, EndMemtest, memtestFrame
  <2>2. CASE command_taskdemo
    BY <2>0, <2>2 DEF command_taskdemo
  <2>3. CASE CreateA \/ CreateB \/ DrainReap \/ JoinReap \/ ReapB
    BY <2>0, <2>3 DEF CreateA, CreateB, DrainReap, JoinReap, ReapB, Return
  <2>4. CASE \/ Boot \/ DrainYield \/ JoinYield \/ WorkerStart \/ WorkerTurn
             \/ WorkerReturn \/ InScheduler \/ Overflow \/ UNCHANGED vars
    BY <2>0, <2>4
    DEF Boot, DrainYield, JoinYield, WorkerStart, WorkerTurn, WorkerReturn, InScheduler,
        Overflow, vars, demoVars
  <2> QED
    BY <2>1, <2>2, <2>3, <2>4 DEF DemoNext, CpuStep
<1>7. round' \in [TaskId -> 0 .. MaxRounds + 1]
  <2>0. round \in [TaskId -> 0 .. MaxRounds + 1] /\ MaxRounds \in Nat \ {0}
        /\ current_task \in TaskId
    BY <1>0, RoundsAssumption DEF DemoTypeOK, TypeOK
  <2>1. CASE WorkerStart
    <3>1. 1 \in 0 .. MaxRounds + 1
      BY <2>0
    <3>2. round' = [round EXCEPT ![current_task] = 1]
      BY <2>1 DEF WorkerStart
    <3> QED
      BY <2>0, <3>1, <3>2
  <2>2. CASE WorkerTurn
    <3>1. shell_pc \in {"drain", "join"}
      BY <1>0, <2>2, WhileWaiting
    <3>2. workers_rounds \in 1 .. MaxRounds
      BY <1>0, <3>1 DEF ShellInv, Control, InCommand
    <3>3. round[current_task] <= workers_rounds
          /\ round' = [round EXCEPT ![current_task] = round[current_task] + 1]
      BY <2>2 DEF WorkerTurn
    <3>4. round[current_task] \in 0 .. MaxRounds + 1
      BY <2>0
    <3>5. round[current_task] + 1 \in 0 .. MaxRounds + 1
      BY ONLY <2>0, <3>2, <3>3, <3>4
    <3> QED
      BY <2>0, <3>3, <3>5
  <2>3. CASE UNCHANGED round
    BY <2>0, <2>3
  <2>4. CASE \/ memtest \/ command_memtest \/ command_taskdemo
             \/ Boot \/ CreateA \/ CreateB \/ DrainYield \/ DrainReap
             \/ JoinYield \/ JoinReap \/ ReapB \/ WorkerReturn
             \/ InScheduler \/ Overflow \/ UNCHANGED vars
    BY <2>3, <2>4
    DEF memtest, command_memtest, TakePage, WritePatterns, FreeFirst, FreeAgain, GiveBack,
        Retry, EndMemtest, memtestFrame, command_taskdemo, Boot, CreateA, CreateB,
        DrainYield, DrainReap, JoinYield, JoinReap, ReapB, WorkerReturn, InScheduler,
        Overflow, vars, demoVars
  <2> QED
    BY <2>1, <2>2, <2>4 DEF DemoNext, CpuStep
<1> QED
  BY <1>2, <1>3, <1>4, <1>5, <1>6, <1>7 DEF DemoTypeOK

LEMMA InitDemo == DemoInit => DemoInv
<1> SUFFICES ASSUME DemoInit PROVE DemoInv
  OBVIOUS
<1>1. SchedInit /\ IInv /\ Counts
  BY InitIInv, InitCounts DEF DemoInit
<1>2. /\ shell_pc = "kernel_main" /\ workers_rounds = Garbage
      /\ first = TASK_ID_INVALID /\ second = TASK_ID_INVALID
      /\ round = [t \in TaskId |-> 0] /\ test = NoTest /\ commands = 0
  BY DEF DemoInit
<1>3. /\ initialized = FALSE /\ tasks = [t \in TaskId |-> clear_slot]
      /\ current_task = 0 /\ cpu = [sp |-> BootStack, pc |-> "body"]
      /\ client_pages = {} /\ spinning = FALSE /\ heap.initialized
  <2>1. heap.initialized
    BY <1>1 DEF SchedInit, page_alloc_init
  <2> QED
    BY <1>1, <2>1 DEF SchedInit
<1>4. NoTest \in Test /\ NoTest.reused = Null
  BY NoTestFacts
<1>5. DemoTypeOK
  <2>1. TypeOK
    BY <1>1 DEF IInv
  <2>2. NoTest.index \in DOMAIN NoTest.pages /\ NoTest.original = {}
    BY OneToThree DEF NoTest
  <2>3. 0 \in 0 .. MaxRounds + 1 /\ 0 \in 0 .. MaxCommands
    BY RoundsAssumption
  <2> QED
    BY <1>2, <2>1, <2>2, <2>3, WorkerFacts DEF DemoTypeOK
<1>6. ShellInv
  <2>1. \A t \in Worker : Settled(t)
    BY <1>3, WorkerFacts DEF Settled, clear_slot
  <2> QED
    BY <1>2, <1>3, <2>1 DEF ShellInv, Control, WorkerSlots, InShell, InCommand
<1>7. MemtestInv
  <2>1. NotTesting /\ AllGivenBack
    BY <1>2, <1>3, <1>4 DEF NotTesting, AllGivenBack
  <2>2. PagesNamed /\ TakingPages /\ ThreeTaken /\ FirstFreed
        /\ OldPageFirst /\ GivingBack /\ PassedSoFar
    BY <1>2 DEF PagesNamed, TakingPages, ThreeTaken, FirstFreed, OldPageFirst, GivingBack,
                PassedSoFar
  <2> QED
    BY <1>2, <1>4, <2>1, <2>2 DEF MemtestInv
<1> QED
  BY <1>1, <1>5, <1>6, <1>7 DEF DemoInv

LEMMA DemoKept ==
  ASSUME DemoInv, [DemoNext]_vars
  PROVE  DemoInv'
BY SchedKept, TypeKept, ShellKept, MemtestKept DEF DemoInv

LEMMA DemoInvariant == DemoSpec => []DemoInv
<1>1. DemoInv /\ [DemoNext]_vars => DemoInv'
  BY DemoKept
<1> QED
  BY InitDemo, <1>1, PTL DEF DemoSpec

-----------------------------------------------------------------------------
(* What the commands promise                                                *)

(* The types of everything the shell's commands touch, the scheduler's and  *)
(* the allocator's state included.                                          *)
THEOREM DemoTypeCorrect == DemoSpec => []DemoTypeOK
<1>1. DemoInv => DemoTypeOK
  BY DEF DemoInv
<1> QED
  BY DemoInvariant, <1>1, PTL

(* A task that can run is one of the two of the taskdemo that is still      *)
(* executing, so the workers[] it reads is alive (shell.c:379, 402).        *)
THEOREM FrameOutlives == DemoSpec => []FrameOutlivesWorkers
<1>1. ASSUME DemoInv
      PROVE  FrameOutlivesWorkers
  <2> SUFFICES ASSUME NEW t \in TaskId \ {0}, tasks[t].state \in {"READY", "RUNNING"}
               PROVE  /\ InCommand
                      /\ workers_rounds \in 1 .. MaxRounds
                      /\ t \in {first, second}
    BY DEF FrameOutlivesWorkers
  <2>1. t \in Worker /\ ~Settled(t)
    BY DEF Worker, Settled
  <2>2. InCommand
    BY <1>1, <2>1 DEF DemoInv, ShellInv, WorkerSlots
  <2>3. workers_rounds \in 1 .. MaxRounds
    BY <1>1, <2>2 DEF DemoInv, ShellInv, Control
  <2>4. t \in {first, second}
    BY <1>1, <2>1, <2>2 DEF DemoInv, ShellInv, WorkerSlots, InCommand
  <2> QED
    BY <2>2, <2>3, <2>4
<1> QED
  BY DemoInvariant, <1>1, PTL

(* Back at the prompt the pages in use are the stacks of the tasks whose    *)
(* overflow was counted, one each, and their slots are the ones not free.   *)
THEOREM NothingLeftBehind == DemoSpec => []OnlyCorruptedKept
<1>1. ASSUME DemoInv, shell_pc = "prompt"
      PROVE  /\ heap.used_pages = stats.stack_errors
             /\ \A t \in TaskId \ {0} :
                    tasks[t].state # "UNUSED" =>
                        tasks[t].state = "FINISHED" /\ tasks[t].stack_corrupted
  <2>1. \A t \in Worker : Settled(t)
    BY <1>1 DEF DemoInv, ShellInv, WorkerSlots, InCommand
  <2>2. client_pages = {} /\ IInv /\ Counts
    BY <1>1 DEF DemoInv, MemtestInv, NotTesting
  <2> DEFINE stack == [t \in Errors |-> tasks[t].stack_page]
  <2>3. Errors = {t \in TaskId : tasks[t].stack_page # Null}
    <3>1. ASSUME NEW t \in TaskId
          PROVE  tasks[t].stack_corrupted <=> tasks[t].stack_page # Null
      <4>1. CASE t = 0
        BY <2>2, <4>1 DEF IInv, Corrupted
      <4>2. CASE t # 0 /\ tasks[t].state = "UNUSED"
        BY <2>2, <3>1, <4>2 DEF IInv, Corrupted, StacksOwned, BeforeInit, Running
      <4>3. CASE t # 0 /\ tasks[t].state # "UNUSED"
        BY <2>1, <2>2, <3>1, <4>3 DEF IInv, StacksOwned, Settled, Worker
      <4> QED
        BY <4>1, <4>2, <4>3
    <3> QED
      BY <3>1 DEF Errors
  <2>4. stack \in Injection(Errors, StackPages)
    <3>1. stack \in [Errors -> StackPages]
      BY <2>3 DEF StackPages
    <3>2. \A t, u \in Errors : stack[t] = stack[u] => t = u
      BY <2>2, <2>3 DEF IInv, StacksOwned
    <3> QED
      BY <3>1, <3>2 DEF Injection, IsInjective
  <2>5. stack \in Surjection(Errors, StackPages)
    BY <2>3, <2>4 DEF Surjection, Injection, StackPages
  <2>6. Cardinality(StackPages) = Cardinality(Errors)
    BY <2>4, <2>5, SlotSets, FS_Surjection
  <2>7. heap.used_pages = Cardinality(StackPages)
    BY <2>2, PagesInUse DEF HeapInv, BoundsOK
  <2> QED
    BY <2>1, <2>2, <2>6, <2>7 DEF Counts, Settled, Worker
<1>2. DemoInv => OnlyCorruptedKept
  BY <1>1 DEF OnlyCorruptedKept
<1> QED
  BY DemoInvariant, <1>2, PTL

(* memtest gives back as many pages as it took on every path, and passes    *)
(* exactly when three were free (shell.c:305).                              *)
THEOREM MemtestIsNeutral == DemoSpec => MemtestNeutral
<1>1. ASSUME DemoInv, [DemoNext]_vars,
             shell_pc' = "prompt", shell_pc \in {"memtest free again", "memtest end"}
      PROVE  /\ page_free_pages(heap') = test.free_before
             /\ (verdict' = "memtest: PASS")
                   <=> (test.free_before >= MEMORY_TEST_PAGE_COUNT)
  <2>0. IInv /\ ShellInv /\ MemtestInv
    BY <1>1 DEF DemoInv
  <2>1. CASE EndMemtest
    BY <2>0, <2>1, EndMemtest_Test DEF Before3
  <2>2. CASE FreeAgain
    BY <1>1, <2>0, <2>2, FreeAgain_Test
  <2>3. CASE \/ TakePage \/ WritePatterns \/ FreeFirst \/ GiveBack \/ Retry
    BY <1>1, <2>3 DEF TakePage, WritePatterns, FreeFirst, GiveBack, Retry, AtMemtest
  <2>4. CASE \/ DrainYield \/ JoinYield \/ WorkerStart \/ WorkerTurn \/ WorkerReturn
             \/ InScheduler \/ Overflow
    BY <1>1, <2>0, <2>4, WhileWaiting
  <2>5. CASE \/ Boot \/ CreateA \/ CreateB \/ DrainReap \/ JoinReap \/ ReapB
             \/ command_memtest \/ command_taskdemo
    BY <1>1, <2>5 DEF Boot, CreateA, CreateB, DrainReap, JoinReap, ReapB, command_memtest,
                      command_taskdemo, AtMemtest
  <2>6. CASE UNCHANGED vars
    BY <1>1, <2>6 DEF vars, demoVars
  <2> QED
    BY <1>1, <2>1, <2>2, <2>3, <2>4, <2>5, <2>6 DEF DemoNext, CpuStep, memtest
<1>2. DemoInv /\ [DemoNext]_vars =>
          [shell_pc' = "prompt" /\ shell_pc \in {"memtest free again", "memtest end"}
           => /\ page_free_pages(heap') = test.free_before
              /\ (verdict' = "memtest: PASS")
                     <=> (test.free_before >= MEMORY_TEST_PAGE_COUNT)]_vars
  BY <1>1
<1> QED
  BY DemoInvariant, <1>2, PTL DEF DemoSpec, MemtestNeutral

-----------------------------------------------------------------------------
(* The turns of the two workers                                             *)

(* What the two workers did in this command, as long as no overflow was     *)
(* noticed in it.  A task that was not dispatched yet has printed nothing,  *)
(* whatever its loop variable was in the last command.                      *)
NoneNoticed == stats.stack_errors = before.stack_errors

Fresh(t) ==
    \/ t = current_task /\ cpu.pc = "task_bootstrap"
    \/ tasks[t].state = "READY" /\ tasks[t].schedule_count = 0

Lines(t) == IF Fresh(t) THEN 0 ELSE round[t] - 1

(* The calls of task_yield by a worker: one a line, but for the last line.  *)
Yields(t) == IF Lines(t) = workers_rounds THEN workers_rounds - 1 ELSE Lines(t)

(* How far a worker got: it is ready until its last line and finished after.*)
Progress(t) ==
    /\ Lines(t) \in 0 .. workers_rounds
    /\ t # current_task =>
           tasks[t].state = IF Lines(t) = workers_rounds THEN "FINISHED" ELSE "READY"
    /\ t = current_task =>
           /\ cpu.pc \in {"task_bootstrap", "body", "task_yield", "task_exit",
                          "task_exit_switch"}
           /\ cpu.pc = "task_yield" => Lines(t) # workers_rounds
           /\ cpu.pc \in {"task_exit", "task_exit_switch"} => Lines(t) = workers_rounds

(* Has the worker that runs printed the line of this turn?                  *)
Printed ==
    \/ cpu.pc \in {"task_yield", "task_exit", "task_exit_switch"}
    \/ Lines(current_task) = workers_rounds

ShellRuns == current_task = 0 => cpu.pc \in {"body", "task_yield"}

If(condition) == IF condition THEN 1 ELSE 0

(* Shell, A, B, shell, ...: who has printed more, and what it cost so far.  *)
(* The last summands of yield_calls are the shell's own calls.              *)
TurnOfShell ==
    current_task = 0 =>
        /\ Lines(first) = Lines(second)
        /\ cpu.pc = "task_yield" => Lines(first) # workers_rounds
        /\ stats.context_switches = before.context_switches + 3 * Lines(first)
        /\ stats.yield_calls = before.yield_calls + Yields(first) + Yields(second)
                               + Lines(first) + If(cpu.pc = "task_yield")

TurnOfA ==
    current_task = first =>
        /\ Lines(first) = Lines(second) + If(Printed)
        /\ stats.context_switches = before.context_switches + 3 * Lines(second) + 1
        /\ stats.yield_calls = before.yield_calls + Yields(first) + Yields(second)
                               + Lines(second) + 1

TurnOfB ==
    current_task = second =>
        /\ Lines(first) = Lines(second) + 1 - If(Printed)
        /\ stats.context_switches = before.context_switches + 3 * Lines(first) - 1
        /\ stats.yield_calls = before.yield_calls + Yields(first) + Yields(second)
                               + Lines(first)

InTurn ==
    \A i \in 1 .. Len(output) :
        output[i] = <<IF i % 2 = 1 THEN "A" ELSE "B", (i + 1) \div 2>>

BothWork ==
    /\ first < second
    /\ tasks[first].entry = "A" /\ tasks[second].entry = "B"
    /\ Progress(first) /\ Progress(second)
    /\ current_task \in {0, first, second} /\ ShellRuns
    /\ TurnOfShell /\ TurnOfA /\ TurnOfB
    /\ stats.exited_tasks = before.exited_tasks
           + If(tasks[first].state = "FINISHED") + If(tasks[second].state = "FINISHED")
    /\ Len(output) = Lines(first) + Lines(second)
    /\ InTurn

OneWorks ==
    /\ tasks[first].entry = "A"
    /\ Progress(first)
    /\ current_task \in {0, first} /\ ShellRuns
    /\ Len(output) = Lines(first)
    /\ \A i \in 1 .. Len(output) : output[i] = <<"A", i>>

OneCreated ==
    /\ tasks[first].entry = "A" /\ tasks[first].state = "READY"
    /\ tasks[first].schedule_count = 0
    /\ \A t \in 1 .. first - 1 : tasks[t].state # "UNUSED"
    /\ output = <<>>
    /\ stats = [before EXCEPT !.created_tasks = @ + 1]

BothDone ==
    /\ InTurn
    /\ stats.context_switches = before.context_switches + 3 * workers_rounds
    /\ stats.yield_calls = before.yield_calls + 3 * workers_rounds - 2
    /\ stats.exited_tasks = before.exited_tasks + 2

TurnsInv ==
    /\ before \in Stats /\ output \in Seq(Entry \X Nat)
    /\ shell_pc = "create A" => output = <<>> /\ stats = before
    /\ shell_pc = "create B" => OneCreated
    /\ InCommand => stats.stack_errors >= before.stack_errors
    /\ NoneNoticed =>
           /\ shell_pc = "drain" => OneWorks
           /\ shell_pc = "join" => BothWork
           /\ shell_pc = "reap B" => BothDone

LEMMA HalvesOf ==
  ASSUME NEW m \in Nat
  PROVE  /\ (2 * m + 1) % 2 = 1 /\ (2 * m + 1 + 1) \div 2 = m + 1
         /\ (2 * m + 2) % 2 = 0 /\ (2 * m + 2 + 1) \div 2 = m + 1
OBVIOUS

LEMMA StatNumbers ==
  ASSUME NEW s \in Stats
  PROVE  /\ s.created_tasks \in Nat /\ s.context_switches \in Nat /\ s.yield_calls \in Nat
         /\ s.exited_tasks \in Nat /\ s.reaped_tasks \in Nat /\ s.stack_errors \in Nat
BY DEF Stats

(* Errors are never uncounted.                                              *)
LEMMA ErrorsGrow ==
  ASSUME IInv, SchedNext, initialized
  PROVE  stats'.stack_errors >= stats.stack_errors
<1>0. stats \in Stats /\ stats.stack_errors \in Nat
  BY StatNumbers DEF IInv, TypeOK
<1>1. \A t : ErrorsAfter(t) >= stats.stack_errors
  BY <1>0 DEF ErrorsAfter
<1>2. CASE task_yield
  BY <1>0, <1>1, <1>2 DEF task_yield, Stats
<1>3. CASE task_exit
  BY <1>0, <1>1, <1>3 DEF task_exit, Stats
<1>4. ASSUME NEW t, task_reap(t) PROVE stats'.stack_errors >= stats.stack_errors
  BY <1>0, <1>1, <1>4 DEF task_reap, Stats
<1>5. CASE task_reap_call \/ task_reap_finished_loop
  <2>1. CASE UNCHANGED stats
    BY <1>0, <2>1
  <2> QED
    BY <1>4, <1>5, <2>1 DEF task_reap_call, task_reap_finished_loop
<1>6. CASE task_yield_switch \/ task_exit_switch \/ \E entry \in Entry : task_create(entry)
  <2>1. stats'.stack_errors = stats.stack_errors
    BY <1>0, <1>6 DEF task_yield_switch, task_exit_switch, task_create, Stats
  <2> QED
    BY <1>0, <2>1
<1>7. CASE \/ task_bootstrap \/ task_exit_call \/ task_reap_finished \/ StackOverflow
           \/ ClientAlloc \/ ClientFree
  <2>1. UNCHANGED stats
    BY <1>7 DEF task_bootstrap, task_exit_call, task_reap_finished, StackOverflow,
                ClientAlloc, ClientFree
  <2> QED
    BY <1>0, <2>1
<1> QED
  BY <1>2, <1>3, <1>5, <1>6, <1>7 DEF SchedNext, task_init

LEMMA LinesKept ==
  ASSUME NEW t \in TaskId, UNCHANGED <<current_task, round>>,
         tasks'[t].state = "READY" <=> tasks[t].state = "READY",
         tasks'[t].schedule_count = tasks[t].schedule_count,
         t = current_task =>
             (cpu'.pc = "task_bootstrap" <=> cpu.pc = "task_bootstrap")
  PROVE  Lines(t)' = Lines(t)
<1>1. Fresh(t)' <=> Fresh(t)
  BY DEF Fresh
<1> QED
  BY <1>1 DEF Lines

(* A switch changes neither what was printed nor who is fresh.              *)
LEMMA SwitchLines ==
  ASSUME IInv, initialized, NEW next \in find_next_ready, NEW left, NEW resume,
         SwitchTo(next, left, resume), UNCHANGED round,
         \/ cpu.pc = "task_yield" /\ left = "READY" /\ resume = "body"
         \/ cpu.pc = "task_exit_switch" /\ left = "FINISHED" /\ resume = "parked"
  PROVE  /\ \A t \in TaskId : Lines(t)' = Lines(t) /\ tasks'[t].entry = tasks[t].entry
         /\ next \in TaskId \ {current_task} /\ current_task' = next
         /\ tasks[next].state = "READY"
         /\ tasks'[current_task].state = left /\ tasks'[next].state = "RUNNING"
         /\ \A t \in TaskId \ {current_task, next} : tasks'[t].state = tasks[t].state
         /\ cpu'.pc \in {"task_bootstrap", "body"}
         /\ next = 0 => cpu'.pc = "body"
<1>0. left \in State /\ resume \in Point /\ TypeOK /\ current_task \in TaskId
  BY DEF State, Point, IInv, TypeOK
<1>1. /\ next \in TaskId \ {current_task}
      /\ tasks[next].state = "READY"
      /\ \A t \in TaskId : tasks'[t].entry = tasks[t].entry
      /\ \A t \in TaskId \ {current_task, next} : tasks'[t] = tasks[t]
      /\ tasks'[current_task].state = left
      /\ tasks'[current_task].schedule_count = tasks[current_task].schedule_count
      /\ tasks'[next].state = "RUNNING"
  BY <1>0, SwitchSlots
<1>2. current_task' = next /\ cpu'.pc = tasks[next].context.pc
  BY DEF SwitchTo
<1>3. cpu'.pc = IF tasks[next].schedule_count = 0 THEN "task_bootstrap" ELSE "body"
  BY <1>1, <1>2 DEF IInv, OnOwnStack, Ready
<1>4. next = 0 => tasks[next].schedule_count # 0
  BY DEF IInv, Running
<1>5. Fresh(next)' <=> Fresh(next)
  BY <1>1, <1>2, <1>3 DEF Fresh
<1>6. ASSUME NEW t \in TaskId, t = current_task
      PROVE  ~Fresh(t) /\ ~Fresh(t)'
  <2>1. tasks[current_task].state # "READY" /\ tasks[current_task].schedule_count # 0
    BY <1>0 DEF IInv, Running
  <2> QED
    BY <1>0, <1>1, <1>2, <1>6, <2>1 DEF Fresh
<1>7. \A t \in TaskId \ {current_task, next} : Fresh(t)' <=> Fresh(t)
  BY <1>1, <1>2 DEF Fresh
<1>8. \A t \in TaskId : Lines(t)' = Lines(t)
  BY <1>5, <1>6, <1>7 DEF Lines
<1> QED
  BY <1>1, <1>2, <1>3, <1>4, <1>8

(* Only the shell and the workers of the command can be picked.             *)
LEMMA WhoIsReady ==
  ASSUME IInv, ShellInv, shell_pc \in {"drain", "join"}
  PROVE  /\ Ready \subseteq {0, first, second}
         /\ shell_pc = "drain" => Ready \subseteq {0, first}
         /\ current_task # 0 => 0 \in Ready
         /\ first \in Worker
         /\ shell_pc = "join" => second \in Worker \ {first}
<1>1. /\ first \in Worker
      /\ shell_pc = "join" => second \in Worker \ {first}
                              /\ \A t \in Worker \ {first, second} : Settled(t)
      /\ shell_pc = "drain" => \A t \in Worker \ {first} : Settled(t)
  BY DEF ShellInv, WorkerSlots, InCommand
<1>2. \A t \in Ready : t \in TaskId /\ ~Settled(t)
  BY DEF Ready, Settled
<1>3. current_task # 0 => 0 \in Ready
  <2>1. initialized
    BY DEF ShellInv, Control
  <2> QED
    BY <2>1, WorkerFacts DEF IInv, Running, Ready
<1> QED
  BY <1>1, <1>2, <1>3 DEF Worker

(* The counters and the output of a step that is none of its own.           *)
LEMMA BothKept ==
  ASSUME BothWork, UNCHANGED <<first, second, before, workers_rounds, current_task, output>>,
         NEW a \in Worker, NEW b \in Worker, a = first, b = second,
         Lines(a)' = Lines(a), Lines(b)' = Lines(b),
         tasks'[a].state = tasks[a].state, tasks'[b].state = tasks[b].state,
         tasks'[a].entry = tasks[a].entry, tasks'[b].entry = tasks[b].entry,
         stats'.context_switches = stats.context_switches,
         stats'.yield_calls = stats.yield_calls,
         stats'.exited_tasks = stats.exited_tasks,
         Progress(a)', Progress(b)',
         current_task = 0 => cpu'.pc = cpu.pc,
         current_task # 0 => (Printed' <=> Printed)
  PROVE  BothWork'
<1>1. Yields(a)' = Yields(a) /\ Yields(b)' = Yields(b)
  BY DEF Yields
<1>2. TurnOfShell'
  BY <1>1 DEF BothWork, TurnOfShell
<1>3. current_task # 0 => If(Printed)' = If(Printed)
  BY DEF If
<1>4. TurnOfA' /\ TurnOfB'
  <2>1. a # 0 => TurnOfA'
    BY <1>1, <1>3 DEF BothWork, TurnOfA
  <2>2. b # 0 => TurnOfB'
    BY <1>1, <1>3 DEF BothWork, TurnOfB
  <2>3. a # 0 /\ b # 0
    BY DEF Worker
  <2> QED
    BY <2>1, <2>2, <2>3
<1> QED
  BY <1>2, <1>4 DEF BothWork, ShellRuns, InTurn, If

(* After the shell the search reaches A, after A it reaches B, and after B  *)
(* the shell, since A was created in the lower slot.                        *)
LEMMA TurnGoesTo ==
  ASSUME TypeOK, NEW a \in Worker, NEW b \in Worker, a < b,
         Ready \subseteq {0, a, b}, NEW next \in find_next_ready
  PROVE  /\ current_task = 0 /\ a \in Ready => next = a
         /\ current_task = a /\ b \in Ready => next = b
         /\ current_task = b /\ 0 \in Ready => next = 0
<1>0. TaskMax \in Nat /\ a \in 1 .. TaskMax - 1 /\ b \in 1 .. TaskMax - 1
  BY TaskMaxAssumption DEF Worker, TaskId
<1>1. next \in {0, a, b} \ {current_task}
  BY DEF find_next_ready
<1>2. \A u \in Ready \ {current_task} :
          Distance(current_task, next) <= Distance(current_task, u)
  BY DEF find_next_ready
<1>3. ASSUME current_task = 0, a \in Ready PROVE next = a
  <2>1. Distance(0, next) <= Distance(0, a)
    BY <1>0, <1>2, <1>3
  <2> QED
    BY ONLY <1>0, <1>1, <1>3, <2>1, a < b DEF Distance
<1>4. ASSUME current_task = a, b \in Ready PROVE next = b
  <2>1. Distance(a, next) <= Distance(a, b)
    BY <1>0, <1>2, <1>4
  <2> QED
    BY ONLY <1>0, <1>1, <1>4, <2>1, a < b DEF Distance
<1>5. ASSUME current_task = b, 0 \in Ready PROVE next = 0
  <2>1. Distance(b, next) <= Distance(b, 0)
    BY <1>0, <1>2, <1>5
  <2> QED
    BY ONLY <1>0, <1>1, <1>5, <2>1, a < b DEF Distance
<1> QED
  BY <1>3, <1>4, <1>5

(* A worker that runs its own code is a sound task that was dispatched.     *)
LEMMA RunningWorker ==
  ASSUME IInv, ShellInv, shell_pc \in {"drain", "join"}, NEW m \in TaskId,
         m = current_task, m # 0
  PROVE  /\ m \in Worker /\ initialized
         /\ tasks[m].schedule_count # 0 /\ tasks[m].state # "READY"
         /\ cpu.pc # "task_exit_switch" => tasks[m].state = "RUNNING"
         /\ cpu.pc \in {"body", "task_yield"} => ~tasks[m].stack_corrupted
<1>1. initialized
  BY DEF ShellInv, Control
<1> QED
  BY <1>1 DEF IInv, Running, Corrupted, Worker

(* A turn of the loop prints the next line and yields unless it was the     *)
(* last.                                                                    *)
LEMMA TurnDoes ==
  ASSUME IInv, DemoTypeOK, ShellInv, shell_pc \in {"drain", "join"}, WorkerTurn,
         stats'.stack_errors = stats.stack_errors, NEW m \in TaskId, m = current_task
  PROVE  /\ m \in Worker /\ cpu.pc = "body" /\ current_task' = m
         /\ Lines(m) \in Int /\ Lines(m) < workers_rounds
         /\ Lines(m)' = Lines(m) + 1
         /\ \A t \in TaskId \ {m} : Lines(t)' = Lines(t)
         /\ \A t \in TaskId : /\ tasks'[t].state = tasks[t].state
                              /\ tasks'[t].entry = tasks[t].entry
         /\ output' = Append(output, <<tasks[m].entry, Lines(m) + 1>>)
         /\ cpu'.pc = IF Lines(m) + 1 = workers_rounds THEN "body" ELSE "task_yield"
         /\ stats'.yield_calls = stats.yield_calls + If(Lines(m) + 1 # workers_rounds)
         /\ stats'.context_switches = stats.context_switches
         /\ stats'.exited_tasks = stats.exited_tasks
<1>0. /\ m # 0 /\ cpu.pc = "body" /\ TypeOK /\ cpu \in [sp : Nat, pc : Point]
      /\ round[m] <= workers_rounds /\ round' = [round EXCEPT ![m] = @ + 1]
      /\ round \in [TaskId -> 0 .. MaxRounds + 1] /\ stats \in Stats
      /\ IF round[m] # workers_rounds THEN task_yield ELSE UNCHANGED schedVars
  BY DEF WorkerTurn, YieldsAfter, DemoTypeOK, IInv, TypeOK
<1>1. /\ m \in Worker /\ tasks[m].state = "RUNNING" /\ ~tasks[m].stack_corrupted
  BY <1>0, RunningWorker
<1>2. /\ round[m] \in Int /\ workers_rounds \in Int
      /\ round'[m] = round[m] + 1 /\ \A t \in TaskId \ {m} : round'[t] = round[t]
  <2>0. workers_rounds \in 0 .. MaxRounds \cup {Garbage}
    BY DEF DemoTypeOK
  <2>1. workers_rounds \in Nat
    BY ONLY <2>0, RoundsAssumption
  <2> QED
    BY <1>0, <2>1, RoundsAssumption
<1>3. ~Fresh(m) /\ Lines(m) = round[m] - 1
  BY <1>0, <1>1 DEF Fresh, Lines
<1>4. output' = Append(output, <<tasks[m].entry, Lines(m) + 1>>)
  BY <1>2, <1>3 DEF WorkerTurn
<1>5. /\ current_task' = m
      /\ \A t \in TaskId : /\ tasks'[t].state = tasks[t].state
                           /\ tasks'[t].entry = tasks[t].entry
                           /\ tasks'[t].schedule_count = tasks[t].schedule_count
      /\ cpu'.pc = IF round[m] = workers_rounds THEN "body" ELSE "task_yield"
      /\ stats'.yield_calls = stats.yield_calls + If(round[m] # workers_rounds)
      /\ stats'.context_switches = stats.context_switches
      /\ stats'.exited_tasks = stats.exited_tasks
  <2>1. CASE round[m] = workers_rounds
    <3>1. UNCHANGED <<tasks, current_task, cpu, stats>>
      BY <1>0, <2>1 DEF schedVars
    <3> QED
      BY <1>0, <2>1, <3>1, StatNumbers DEF If
  <2>2. CASE round[m] # workers_rounds
    <3>1. task_yield /\ current_task' = m /\ tasks' = Marked(m)
      BY <1>0, <2>2 DEF task_yield
    <3>2. \A t \in TaskId : /\ tasks'[t].state = tasks[t].state
                            /\ tasks'[t].entry = tasks[t].entry
                            /\ tasks'[t].schedule_count = tasks[t].schedule_count
      BY <1>0, <3>1, MarkedSlots
    <3>3. stats'.stack_errors = ErrorsAfter(m)
      BY <1>0, <3>1 DEF task_yield, Stats
    <3>4. ~NewlyCorrupted(m)
      BY <1>0, <3>3, StatNumbers DEF ErrorsAfter
    <3>5. ~tasks'[m].stack_corrupted
      BY <1>0, <1>1, <3>1, <3>4 DEF Marked, NewlyCorrupted, TypeOK, Slot
    <3>6. /\ cpu' = [cpu EXCEPT !.pc = "task_yield"]
          /\ stats' = [stats EXCEPT !.stack_errors = ErrorsAfter(m),
                                    !.yield_calls = @ + 1]
      BY <3>1, <3>5 DEF task_yield
    <3> QED
      BY <1>0, <2>2, <3>1, <3>2, <3>6, StatNumbers DEF If, Stats
  <2> QED
    BY <2>1, <2>2
<1>6. \A t \in TaskId : Fresh(t)' <=> Fresh(t)
  BY <1>0, <1>5 DEF Fresh
<1>7. Lines(m)' = Lines(m) + 1
  BY <1>2, <1>3, <1>6 DEF Lines
<1>8. \A t \in TaskId \ {m} : Lines(t)' = Lines(t)
  BY <1>2, <1>6 DEF Lines
<1>9. /\ Lines(m) \in Int /\ Lines(m) < workers_rounds
      /\ Lines(m) + 1 = workers_rounds <=> round[m] = workers_rounds
  BY <1>0, <1>2, <1>3
<1> QED
  BY <1>0, <1>1, <1>4, <1>5, <1>7, <1>8, <1>9 DEF If

(* The other steps of a worker that print nothing.                          *)
LEMMA StartDoes ==
  ASSUME IInv, DemoTypeOK, ShellInv, shell_pc \in {"drain", "join"}, WorkerStart,
         NEW m \in TaskId, m = current_task
  PROVE  /\ m # 0 /\ cpu.pc = "task_bootstrap" /\ cpu'.pc = "body"
         /\ Lines(m) = 0 /\ \A t \in TaskId : Lines(t)' = Lines(t)
         /\ UNCHANGED <<current_task, tasks, stats, output>>
<1>0. /\ m # 0 /\ cpu.pc = "task_bootstrap" /\ TypeOK /\ initialized
      /\ cpu \in [sp : Nat, pc : Point] /\ cpu' = [cpu EXCEPT !.pc = "body"]
      /\ round' = [round EXCEPT ![m] = 1] /\ round \in [TaskId -> 0 .. MaxRounds + 1]
      /\ UNCHANGED <<current_task, tasks, stats, output>>
  BY DEF WorkerStart, task_bootstrap, DemoTypeOK, IInv, TypeOK, Running, ShellInv, Control
<1>1. cpu'.pc = "body" /\ tasks[m].state = "RUNNING"
  BY <1>0, RunningWorker
<1>2. Fresh(m) /\ ~Fresh(m)' /\ \A t \in TaskId \ {m} : Fresh(t)' <=> Fresh(t)
  BY <1>0, <1>1 DEF Fresh
<1>3. Lines(m) = 0
  BY <1>2 DEF Lines
<1>4. Lines(m)' = 0
  <2>1. round'[m] = 1
    BY <1>0
  <2> QED
    BY <1>2, <2>1 DEF Lines
<1>5. \A t \in TaskId \ {m} : Lines(t)' = Lines(t)
  <2>1. \A t \in TaskId \ {m} : round'[t] = round[t]
    BY <1>0
  <2> QED
    BY <1>2, <2>1 DEF Lines
<1> QED
  BY <1>0, <1>1, <1>3, <1>4, <1>5

LEMMA ReturnDoes ==
  ASSUME IInv, DemoTypeOK, ShellInv, shell_pc \in {"drain", "join"}, WorkerReturn,
         NEW m \in TaskId, m = current_task
  PROVE  /\ m # 0 /\ cpu.pc = "body" /\ cpu'.pc = "task_exit"
         /\ Lines(m) \in Int /\ Lines(m) >= workers_rounds
         /\ \A t \in TaskId : Lines(t)' = Lines(t)
         /\ UNCHANGED <<current_task, tasks, stats, output>>
<1>0. /\ m # 0 /\ cpu.pc = "body" /\ TypeOK /\ round[m] > workers_rounds
      /\ cpu \in [sp : Nat, pc : Point] /\ cpu' = [cpu EXCEPT !.pc = "task_exit"]
      /\ round \in [TaskId -> 0 .. MaxRounds + 1]
      /\ UNCHANGED <<current_task, tasks, stats, output, round>>
  BY DEF WorkerReturn, task_exit_call, demoVars, DemoTypeOK, IInv, TypeOK
<1>1. cpu'.pc = "task_exit" /\ tasks[m].state = "RUNNING"
  BY <1>0, RunningWorker
<1>2. \A t \in TaskId : Lines(t)' = Lines(t)
  BY <1>0, <1>1, LinesKept
<1>3. workers_rounds \in Nat /\ round[m] \in Int
  <2>1. workers_rounds \in 0 .. MaxRounds \cup {Garbage}
    BY DEF DemoTypeOK
  <2> QED
    BY ONLY <1>0, <2>1, RoundsAssumption, m \in TaskId
<1>4. Lines(m) = round[m] - 1
  BY <1>0, <1>1 DEF Lines, Fresh
<1>5. Lines(m) \in Int /\ Lines(m) >= workers_rounds
  BY ONLY <1>0, <1>3, <1>4
<1> QED
  BY <1>0, <1>1, <1>2, <1>5

LEMMA ExitDoes ==
  ASSUME IInv, ShellInv, shell_pc \in {"drain", "join"}, task_exit, UNCHANGED demoVars,
         NEW m \in TaskId, m = current_task
  PROVE  /\ m # 0 /\ cpu.pc = "task_exit" /\ cpu'.pc = "task_exit_switch"
         /\ tasks[m].state = "RUNNING" /\ tasks'[m].state = "FINISHED"
         /\ \A t \in TaskId \ {m} : tasks'[t].state = tasks[t].state
         /\ \A t \in TaskId : Lines(t)' = Lines(t) /\ tasks'[t].entry = tasks[t].entry
         /\ current_task' = m /\ output' = output
         /\ stats'.context_switches = stats.context_switches
         /\ stats'.yield_calls = stats.yield_calls
         /\ stats'.exited_tasks = stats.exited_tasks + 1
<1>0. /\ cpu.pc = "task_exit" /\ TypeOK /\ initialized /\ cpu \in [sp : Nat, pc : Point]
      /\ cpu' = [cpu EXCEPT !.pc = "task_exit_switch"]
      /\ tasks' = [Marked(m) EXCEPT ![m].state = "FINISHED"]
      /\ stats' = [stats EXCEPT !.stack_errors = ErrorsAfter(m), !.exited_tasks = @ + 1]
      /\ stats \in Stats
      /\ UNCHANGED <<current_task, output, round>>
  BY DEF task_exit, demoVars, IInv, TypeOK, ShellInv, Control
<1>1. m # 0 /\ tasks[m].state = "RUNNING"
  BY <1>0 DEF IInv, Running
<1>2. Marked(m) \in [TaskId -> Slot]
      /\ \A t \in TaskId : /\ Marked(m)[t].entry = tasks[t].entry
                           /\ Marked(m)[t].state = tasks[t].state
                           /\ Marked(m)[t].schedule_count = tasks[t].schedule_count
  BY <1>0, MarkedSlots
<1>3. /\ tasks'[m].state = "FINISHED" /\ tasks'[m].entry = tasks[m].entry
      /\ tasks'[m].schedule_count = tasks[m].schedule_count
      /\ \A t \in TaskId \ {m} : tasks'[t] = Marked(m)[t]
  BY <1>0, <1>2 DEF Slot
<1>4. cpu'.pc = "task_exit_switch"
  BY <1>0
<1>5. \A t \in TaskId : Lines(t)' = Lines(t)
  <2> SUFFICES ASSUME NEW t \in TaskId PROVE Lines(t)' = Lines(t)
    OBVIOUS
  <2>1. /\ tasks'[t].state = "READY" <=> tasks[t].state = "READY"
        /\ tasks'[t].schedule_count = tasks[t].schedule_count
    BY <1>1, <1>2, <1>3
  <2> QED
    BY <1>0, <1>4, <2>1, LinesKept
<1>6. /\ stats'.context_switches = stats.context_switches
      /\ stats'.yield_calls = stats.yield_calls
      /\ stats'.exited_tasks = stats.exited_tasks + 1
  BY <1>0 DEF Stats
<1> QED
  BY <1>0, <1>1, <1>2, <1>3, <1>4, <1>5, <1>6

(* The shell has no canary to lose and counts its own call.                 *)
LEMMA ShellYieldDoes ==
  ASSUME IInv, ShellInv, shell_pc \in {"drain", "join"}, InShell, task_yield,
         UNCHANGED demoVars
  PROVE  /\ cpu'.pc = "task_yield" /\ current_task' = 0 /\ output' = output
         /\ \A t \in TaskId : /\ Lines(t)' = Lines(t)
                              /\ tasks'[t].state = tasks[t].state
                              /\ tasks'[t].entry = tasks[t].entry
         /\ stats'.context_switches = stats.context_switches
         /\ stats'.yield_calls = stats.yield_calls + 1
         /\ stats'.exited_tasks = stats.exited_tasks
<1>0. /\ current_task = 0 /\ cpu.pc = "body" /\ TypeOK /\ initialized
      /\ cpu \in [sp : Nat, pc : Point] /\ stats \in Stats /\ 0 \in TaskId
      /\ cpu' = [cpu EXCEPT !.pc = "task_yield"]
      /\ tasks' = Marked(0)
      /\ stats' = [stats EXCEPT !.stack_errors = ErrorsAfter(0), !.yield_calls = @ + 1]
      /\ UNCHANGED <<current_task, output, round>>
  BY WorkerFacts DEF task_yield, demoVars, IInv, TypeOK, ShellInv, Control, InShell
<1>1. \A t \in TaskId : /\ tasks'[t].entry = tasks[t].entry
                        /\ tasks'[t].state = tasks[t].state
                        /\ tasks'[t].schedule_count = tasks[t].schedule_count
  BY <1>0, MarkedSlots
<1>2. cpu'.pc = "task_yield"
  BY <1>0
<1>3. \A t \in TaskId : Lines(t)' = Lines(t)
  BY <1>0, <1>1, <1>2, LinesKept
<1>4. /\ stats'.context_switches = stats.context_switches
      /\ stats'.yield_calls = stats.yield_calls + 1
      /\ stats'.exited_tasks = stats.exited_tasks
  BY <1>0 DEF Stats
<1> QED
  BY <1>0, <1>1, <1>2, <1>3, <1>4

(* Who and what a joining shell deals with.                                 *)
LEMMA BothFacts ==
  ASSUME DemoInv, shell_pc = "join", BothWork, before \in Stats
  PROVE  /\ first \in Worker /\ second \in Worker /\ first # second /\ first < second
         /\ first \in TaskId /\ second \in TaskId /\ first # 0 /\ second # 0
         /\ current_task \in TaskId /\ current_task \in {0, first, second}
         /\ workers_rounds \in Nat \ {0}
         /\ Lines(first) \in 0 .. workers_rounds /\ Lines(second) \in 0 .. workers_rounds
         /\ stats \in Stats
<1>1. /\ first \in Worker /\ second \in Worker \ {first} /\ first < second
      /\ workers_rounds \in 1 .. MaxRounds
      /\ Lines(first) \in 0 .. workers_rounds /\ Lines(second) \in 0 .. workers_rounds
      /\ current_task \in {0, first, second}
  BY DEF DemoInv, ShellInv, WorkerSlots, Control, InCommand, BothWork, Progress
<1>2. MaxRounds \in Nat
  BY RoundsAssumption
<1>3. workers_rounds \in Nat \ {0}
  BY <1>1, <1>2
<1> QED
  BY <1>1, <1>3, WorkerFacts DEF DemoInv, IInv, TypeOK, Worker

LEMMA StartKeepsBoth ==
  ASSUME DemoInv, shell_pc = "join", BothWork, before \in Stats, WorkerStart
  PROVE  BothWork'
<1> USE BothFacts
<1> DEFINE m == current_task
<1>1. /\ m # 0 /\ cpu.pc = "task_bootstrap" /\ cpu'.pc = "body" /\ Lines(m) = 0
      /\ \A t \in TaskId : Lines(t)' = Lines(t)
      /\ UNCHANGED <<current_task, tasks, stats, output>>
  BY StartDoes DEF DemoInv
<1>2. UNCHANGED <<first, second, before, workers_rounds>>
  BY DEF WorkerStart
<1>3. ASSUME NEW t \in {first, second} PROVE Progress(t)'
  BY <1>1, <1>2 DEF BothWork, Progress
<1>4. Printed' <=> Printed
  BY <1>1, <1>2 DEF Printed
<1> QED
  BY <1>1, <1>2, <1>3, <1>4, BothKept

LEMMA ReturnKeepsBoth ==
  ASSUME DemoInv, shell_pc = "join", BothWork, before \in Stats, WorkerReturn
  PROVE  BothWork'
<1> USE BothFacts
<1> DEFINE m == current_task
<1>1. /\ m # 0 /\ cpu.pc = "body" /\ cpu'.pc = "task_exit"
      /\ Lines(m) \in Int /\ Lines(m) >= workers_rounds
      /\ \A t \in TaskId : Lines(t)' = Lines(t)
      /\ UNCHANGED <<current_task, tasks, stats, output>>
  BY ReturnDoes DEF DemoInv
<1>2. UNCHANGED <<first, second, before, workers_rounds>>
  BY DEF WorkerReturn, demoVars
<1>3. Lines(m) = workers_rounds
  <2>1. Lines(m) \in 0 .. workers_rounds /\ workers_rounds \in Nat
    BY <1>1
  <2> QED
    BY ONLY <1>1, <2>1
<1>4. ASSUME NEW t \in {first, second} PROVE Progress(t)'
  BY <1>1, <1>2, <1>3 DEF BothWork, Progress
<1>5. Printed' <=> Printed
  BY <1>1, <1>2, <1>3 DEF Printed
<1> QED
  BY <1>1, <1>2, <1>4, <1>5, BothKept

LEMMA OverflowKeepsBoth ==
  ASSUME DemoInv, shell_pc = "join", BothWork, before \in Stats,
         Overflow \/ UNCHANGED vars
  PROVE  BothWork'
<1>1. UNCHANGED <<first, second, before, workers_rounds, round, output, tasks,
                  current_task, stats, cpu>>
  BY DEF Overflow, StackOverflow, demoVars, vars, schedVars
<1>2. \A t \in TaskId : Lines(t)' = Lines(t)
  BY <1>1, LinesKept
<1>3. ASSUME NEW t \in {first, second} PROVE Progress(t)'
  BY <1>1, <1>2, BothFacts DEF BothWork, Progress
<1>4. Printed' <=> Printed
  BY <1>1, <1>2, BothFacts DEF Printed
<1> QED
  BY <1>1, <1>2, <1>3, <1>4, BothKept, BothFacts

LEMMA ExitKeepsBoth ==
  ASSUME DemoInv, shell_pc = "join", BothWork, before \in Stats, task_exit,
         UNCHANGED demoVars
  PROVE  BothWork'
<1> USE BothFacts
<1> DEFINE m == current_task
<1>1. /\ m # 0 /\ cpu.pc = "task_exit" /\ cpu'.pc = "task_exit_switch"
      /\ tasks[m].state = "RUNNING" /\ tasks'[m].state = "FINISHED"
      /\ \A t \in TaskId \ {m} : tasks'[t].state = tasks[t].state
      /\ \A t \in TaskId : Lines(t)' = Lines(t) /\ tasks'[t].entry = tasks[t].entry
      /\ current_task' = m /\ output' = output
      /\ stats'.context_switches = stats.context_switches
      /\ stats'.yield_calls = stats.yield_calls
      /\ stats'.exited_tasks = stats.exited_tasks + 1
  BY ExitDoes DEF DemoInv
<1>2. UNCHANGED <<first, second, before, workers_rounds>>
  BY DEF demoVars
<1>3. ASSUME NEW t \in {first, second} PROVE Progress(t)'
  BY <1>1, <1>2 DEF BothWork, Progress
<1>4. Printed' /\ Printed
  BY <1>1 DEF Printed
<1>5. \A t \in {first, second} : Yields(t)' = Yields(t)
  BY <1>1, <1>2 DEF Yields
<1>6. TurnOfShell' /\ TurnOfA' /\ TurnOfB'
  <2>1. TurnOfShell'
    BY <1>1 DEF TurnOfShell
  <2>2. If(Printed)' = If(Printed)
    BY <1>4 DEF If
  <2>3. TurnOfA'
    BY <1>1, <1>2, <1>5, <2>2 DEF BothWork, TurnOfA
  <2>4. TurnOfB'
    BY <1>1, <1>2, <1>5, <2>2 DEF BothWork, TurnOfB
  <2> QED
    BY <2>1, <2>3, <2>4
<1>7. stats'.exited_tasks = before'.exited_tasks
           + If(tasks'[first].state = "FINISHED") + If(tasks'[second].state = "FINISHED")
  <2>1. /\ stats.exited_tasks = before.exited_tasks
                + If(tasks[first].state = "FINISHED") + If(tasks[second].state = "FINISHED")
        /\ stats.exited_tasks \in Nat /\ before.exited_tasks \in Nat
    BY StatNumbers DEF BothWork
  <2>2. CASE m = first
    <3>1. tasks'[second].state = tasks[second].state
      BY <1>1, <2>2
    <3> QED
      BY <1>1, <1>2, <2>1, <2>2, <3>1 DEF If
  <2>3. CASE m = second
    <3>1. tasks'[first].state = tasks[first].state
      BY <1>1, <2>3
    <3> QED
      BY <1>1, <1>2, <2>1, <2>3, <3>1 DEF If
  <2> QED
    BY <1>1, <2>2, <2>3
<1>8. ShellRuns' /\ InTurn' /\ Len(output') = Lines(first)' + Lines(second)'
  BY <1>1, <1>2 DEF BothWork, ShellRuns, InTurn
<1> QED
  BY <1>1, <1>2, <1>3, <1>6, <1>7, <1>8 DEF BothWork

LEMMA JoinYieldKeepsBoth ==
  ASSUME DemoInv, shell_pc = "join", BothWork, before \in Stats, JoinYield
  PROVE  BothWork'
<1> USE BothFacts
<1>0. InShell /\ task_yield /\ UNCHANGED demoVars /\ ~BothFinished
  BY DEF JoinYield, Wait
<1>1. /\ cpu'.pc = "task_yield" /\ current_task' = 0 /\ output' = output
      /\ \A t \in TaskId : /\ Lines(t)' = Lines(t)
                           /\ tasks'[t].state = tasks[t].state
                           /\ tasks'[t].entry = tasks[t].entry
      /\ stats'.context_switches = stats.context_switches
      /\ stats'.yield_calls = stats.yield_calls + 1
      /\ stats'.exited_tasks = stats.exited_tasks
      /\ current_task = 0 /\ cpu.pc = "body"
  BY <1>0, ShellYieldDoes DEF DemoInv, InShell
<1>2. UNCHANGED <<first, second, before, workers_rounds>>
  BY <1>0 DEF demoVars
<1>3. Lines(first) # workers_rounds /\ Lines(first) = Lines(second)
  <2>1. /\ tasks[first].state = IF Lines(first) = workers_rounds THEN "FINISHED" ELSE "READY"
        /\ tasks[second].state = IF Lines(second) = workers_rounds THEN "FINISHED" ELSE "READY"
        /\ Lines(first) = Lines(second)
    BY <1>1 DEF BothWork, Progress, TurnOfShell
  <2> QED
    BY <1>0, <2>1 DEF BothFinished, Finished
<1>4. ASSUME NEW t \in {first, second} PROVE Progress(t)'
  BY <1>1, <1>2 DEF BothWork, Progress
<1>5. \A t \in {first, second} : Yields(t)' = Yields(t)
  BY <1>1, <1>2 DEF Yields
<1>6. TurnOfShell' /\ TurnOfA' /\ TurnOfB'
  <2>1. TurnOfA' /\ TurnOfB'
    BY <1>1, <1>2 DEF TurnOfA, TurnOfB
  <2>2. /\ stats.yield_calls = before.yield_calls + Yields(first) + Yields(second)
                               + Lines(first)
        /\ stats.context_switches = before.context_switches + 3 * Lines(first)
    <3>1. before.yield_calls \in Nat
      BY StatNumbers
    <3>2. Yields(first) \in Int /\ Yields(second) \in Int
      BY DEF Yields
    <3> QED
      BY <1>1, <3>1, <3>2 DEF BothWork, TurnOfShell, If
  <2>3. TurnOfShell'
    BY <1>1, <1>2, <1>3, <1>5, <2>2 DEF TurnOfShell, If
  <2> QED
    BY <2>1, <2>3
<1>7. ShellRuns' /\ InTurn' /\ Len(output') = Lines(first)' + Lines(second)'
  BY <1>1, <1>2 DEF BothWork, ShellRuns, InTurn
<1>8. stats'.exited_tasks = before'.exited_tasks
           + If(tasks'[first].state = "FINISHED") + If(tasks'[second].state = "FINISHED")
  BY <1>1, <1>2 DEF BothWork, If
<1> QED
  BY <1>1, <1>2, <1>4, <1>6, <1>7, <1>8 DEF BothWork

LEMMA Appended ==
  ASSUME NEW S, NEW lines \in Seq(S), NEW line, NEW k \in Nat, Len(lines) = k
  PROVE  /\ Len(Append(lines, line)) = k + 1
         /\ Append(lines, line)[k + 1] = line
         /\ \A i \in 1 .. k : Append(lines, line)[i] = lines[i]
OBVIOUS

LEMMA TurnKeepsBoth ==
  ASSUME DemoInv, shell_pc = "join", BothWork, before \in Stats, WorkerTurn,
         output \in Seq(Entry \X Nat), stats'.stack_errors = stats.stack_errors
  PROVE  BothWork'
<1> USE BothFacts
<1> DEFINE m == current_task
           n == Lines(m)
<1>1. /\ m # 0 /\ cpu.pc = "body" /\ current_task' = m
      /\ n \in Int /\ n < workers_rounds /\ Lines(m)' = n + 1
      /\ \A t \in TaskId \ {m} : Lines(t)' = Lines(t)
      /\ \A t \in TaskId : /\ tasks'[t].state = tasks[t].state
                           /\ tasks'[t].entry = tasks[t].entry
      /\ output' = Append(output, <<tasks[m].entry, n + 1>>)
      /\ cpu'.pc = IF n + 1 = workers_rounds THEN "body" ELSE "task_yield"
      /\ stats'.yield_calls = stats.yield_calls + If(n + 1 # workers_rounds)
      /\ stats'.context_switches = stats.context_switches
      /\ stats'.exited_tasks = stats.exited_tasks
  BY TurnDoes DEF DemoInv, Worker
<1>2. UNCHANGED <<first, second, before, workers_rounds>>
  BY DEF WorkerTurn
<1>3. ~Printed /\ Printed'
  BY <1>1, <1>2 DEF Printed
<1>4. If(Printed) = 0 /\ If(Printed)' = 1
  BY <1>3 DEF If
<1>5. n \in 0 .. workers_rounds
  BY <1>1
<1>6. /\ Yields(m) = n /\ Yields(m)' = n + If(n + 1 # workers_rounds)
      /\ If(n + 1 # workers_rounds) \in {0, 1}
      /\ \A t \in {first, second} \ {m} : Yields(t)' = Yields(t) /\ Yields(t) \in Int
  BY <1>1, <1>2 DEF Yields, If
<1>7. ASSUME NEW t \in {first, second} PROVE Progress(t)'
  <2>1. CASE t = m
    <3>1. Lines(t)' \in 0 .. workers_rounds' /\ (cpu'.pc = "task_yield" => Lines(t)' # workers_rounds')
      BY <1>1, <1>2, <1>5, <2>1
    <3> QED
      BY <1>1, <2>1, <3>1 DEF Progress
  <2>2. CASE t # m
    BY <1>1, <1>2, <2>2 DEF BothWork, Progress
  <2> QED
    BY <2>1, <2>2
<1>8. /\ stats.yield_calls \in Nat /\ before.yield_calls \in Nat
      /\ stats.context_switches \in Nat /\ before.context_switches \in Nat
  BY StatNumbers
<1>9. CASE m = first
  <2>0. Lines(second) \in Int
    OBVIOUS
  <2>1. /\ Lines(first) = n /\ Lines(second) = n /\ tasks[m].entry = "A"
        /\ stats.context_switches = before.context_switches + 3 * n + 1
        /\ stats.yield_calls = before.yield_calls + Yields(first) + Yields(second) + n + 1
    <3>1. /\ Lines(first) = n /\ tasks[m].entry = "A"
          /\ Lines(first) = Lines(second) + 0
          /\ stats.context_switches = before.context_switches + 3 * Lines(second) + 1
          /\ stats.yield_calls = before.yield_calls + Yields(first) + Yields(second)
                                 + Lines(second) + 1
      BY <1>4, <1>9 DEF BothWork, TurnOfA
    <3>2. Lines(second) = n
      BY ONLY <2>0, <3>1
    <3> QED
      BY <3>1, <3>2
  <2>2. Lines(first)' = n + 1 /\ Lines(second)' = n
    BY <1>1, <1>2, <1>9, <2>1
  <2>3. Yields(second)' = Yields(second) /\ Yields(second) \in Int
    BY <1>2, <1>6, <1>9
  <2>4. Yields(first) = n /\ Yields(first)' = n + If(n + 1 # workers_rounds)
    BY <1>6, <1>9, <1>1, <1>2
  <2>5. TurnOfShell' /\ TurnOfB'
    BY <1>1, <1>2, <1>9 DEF TurnOfShell, TurnOfB
  <2>6. TurnOfA'
    <3>1. stats'.yield_calls = before.yield_calls + Yields(first)' + Yields(second)' + n + 1
      <4>1. /\ stats'.yield_calls = stats.yield_calls + If(n + 1 # workers_rounds)
            /\ stats.yield_calls = before.yield_calls + Yields(first) + Yields(second) + n + 1
            /\ If(n + 1 # workers_rounds) \in {0, 1} /\ n \in Int
        BY <1>1, <1>6, <2>1
      <4> HIDE DEF n
      <4> QED
        BY ONLY <1>8, <2>3, <2>4, <4>1
    <3> QED
      BY <1>1, <1>2, <1>4, <2>1, <2>2, <3>1 DEF TurnOfA
  <2>7. /\ Len(output) = 2 * n /\ Len(output') = 2 * n + 1
        /\ output'[2 * n + 1] = <<"A", n + 1>>
        /\ \A i \in 1 .. 2 * n : output'[i] = output[i]
    <3>1. Len(output) = n + n
      BY <2>1 DEF BothWork
    <3> HIDE DEF n, m
    <3> QED
      BY <1>1, <2>1, <3>1
  <2>8. InTurn'
    <3> SUFFICES ASSUME NEW i \in 1 .. 2 * n + 1
                 PROVE  output'[i] = <<IF i % 2 = 1 THEN "A" ELSE "B", (i + 1) \div 2>>
      BY <2>7 DEF InTurn
    <3>1. n \in Nat
      BY <1>5
    <3>2. CASE i = 2 * n + 1
      <4>1. i % 2 = 1 /\ (i + 1) \div 2 = n + 1
        BY <3>1, <3>2, HalvesOf
      <4> QED
        BY <2>7, <3>2, <4>1
    <3>3. CASE i \in 1 .. 2 * n
      BY <2>7, <3>3 DEF BothWork, InTurn
    <3> QED
      BY ONLY <3>1, <3>2, <3>3, i \in 1 .. 2 * n + 1
  <2> QED
    <3>1. Len(output') = Lines(first)' + Lines(second)'
      BY <1>5, <2>2, <2>7
    <3>2. ShellRuns' /\ current_task' \in {0, first', second'}
      BY <1>1, <1>2, <1>9 DEF ShellRuns
    <3>3. stats'.exited_tasks = before'.exited_tasks
              + If(tasks'[first].state = "FINISHED") + If(tasks'[second].state = "FINISHED")
      BY <1>1, <1>2 DEF BothWork, If
    <3> QED
      BY <1>1, <1>2, <1>7, <2>5, <2>6, <2>8, <3>1, <3>2, <3>3 DEF BothWork
<1>10. CASE m = second
  <2>1. /\ Lines(second) = n /\ Lines(first) = n + 1 /\ tasks[m].entry = "B"
        /\ stats.context_switches = before.context_switches + 3 * (n + 1) - 1
        /\ stats.yield_calls = before.yield_calls + Yields(first) + Yields(second) + (n + 1)
    BY <1>4, <1>5, <1>10 DEF BothWork, TurnOfB
  <2>2. Lines(second)' = n + 1 /\ Lines(first)' = n + 1
    BY <1>1, <1>2, <1>10, <2>1
  <2>3. Yields(first)' = Yields(first) /\ Yields(first) \in Int
    BY <1>2, <1>6, <1>10
  <2>4. Yields(second) = n /\ Yields(second)' = n + If(n + 1 # workers_rounds)
    BY <1>6, <1>10, <1>1, <1>2
  <2>5. TurnOfShell' /\ TurnOfA'
    BY <1>1, <1>2, <1>10 DEF TurnOfShell, TurnOfA
  <2>6. TurnOfB'
    <3>1. stats'.yield_calls = before.yield_calls + Yields(first)' + Yields(second)' + (n + 1)
      <4>1. /\ stats'.yield_calls = stats.yield_calls + If(n + 1 # workers_rounds)
            /\ stats.yield_calls = before.yield_calls + Yields(first) + Yields(second) + (n + 1)
            /\ If(n + 1 # workers_rounds) \in {0, 1} /\ n \in Int
        BY <1>1, <1>6, <2>1
      <4> HIDE DEF n
      <4> QED
        BY ONLY <1>8, <2>3, <2>4, <4>1
    <3>2. n + 1 = n + 1 + 1 - 1
      BY <1>5
    <3> QED
      BY <1>1, <1>2, <1>4, <2>1, <2>2, <3>1, <3>2 DEF TurnOfB
  <2>7. /\ Len(output) = 2 * n + 1 /\ Len(output') = 2 * n + 2
        /\ output'[2 * n + 2] = <<"B", n + 1>>
        /\ \A i \in 1 .. 2 * n + 1 : output'[i] = output[i]
    <3>1. Len(output) = n + 1 + n
      BY <2>1 DEF BothWork
    <3>2. output' = Append(output, <<"B", n + 1>>) /\ n \in Nat
      BY <1>1, <1>5, <2>1
    <3> HIDE DEF n, m
    <3>3. Len(output) = 2 * n + 1 /\ 2 * n + 1 \in Nat /\ 2 * n + 1 + 1 = 2 * n + 2
      BY ONLY <3>1, <3>2
    <3> QED
      BY <3>2, <3>3, Appended
  <2>8. InTurn'
    <3> SUFFICES ASSUME NEW i \in 1 .. 2 * n + 2
                 PROVE  output'[i] = <<IF i % 2 = 1 THEN "A" ELSE "B", (i + 1) \div 2>>
      BY <2>7 DEF InTurn
    <3>1. n \in Nat
      BY <1>5
    <3>2. CASE i = 2 * n + 2
      <4>1. i % 2 = 0 /\ (i + 1) \div 2 = n + 1
        BY <3>1, <3>2, HalvesOf
      <4> QED
        BY <2>7, <3>2, <4>1
    <3>3. CASE i \in 1 .. 2 * n + 1
      BY <2>7, <3>3 DEF BothWork, InTurn
    <3> QED
      BY ONLY <3>1, <3>2, <3>3, i \in 1 .. 2 * n + 2
  <2> QED
    <3>1. Len(output') = Lines(first)' + Lines(second)'
      BY <1>5, <2>2, <2>7
    <3>2. ShellRuns' /\ current_task' \in {0, first', second'}
      BY <1>1, <1>2, <1>10 DEF ShellRuns
    <3>3. stats'.exited_tasks = before'.exited_tasks
              + If(tasks'[first].state = "FINISHED") + If(tasks'[second].state = "FINISHED")
      BY <1>1, <1>2 DEF BothWork, If
    <3> QED
      BY <1>1, <1>2, <1>7, <2>5, <2>6, <2>8, <3>1, <3>2, <3>3 DEF BothWork
<1> QED
  BY <1>1, <1>9, <1>10

(* The turn passes from the shell to A, from A to B and from B to the shell.*)
LEMMA TurnPasses ==
  ASSUME DemoInv, shell_pc = "join", BothWork, before \in Stats,
         cpu.pc \in {"task_yield", "task_exit_switch"}
  PROVE  /\ find_next_ready # {}
         /\ Lines(second) = IF current_task = first THEN Lines(first) - 1 ELSE Lines(first)
         /\ \A next \in find_next_ready :
                next = CASE current_task = 0 -> first
                         [] current_task = first -> second
                         [] current_task = second -> 0
<1> USE BothFacts
<1>0. IInv /\ ShellInv /\ TypeOK
  BY DEF DemoInv, IInv
<1>1. Ready \subseteq {0, first, second} /\ (current_task # 0 => 0 \in Ready)
  BY <1>0, WhoIsReady
<1>2. Lines(first) \in Int /\ Lines(second) \in Int /\ If(Printed) = 1
  BY DEF Printed, If
<1>3. CASE current_task = 0
  <2>1. /\ cpu.pc = "task_yield" /\ Lines(first) = Lines(second)
        /\ Lines(first) # workers_rounds
    BY <1>3 DEF BothWork, ShellRuns, TurnOfShell
  <2>2. first \in Ready
    BY <1>3, <2>1 DEF BothWork, Progress, Ready
  <2> QED
    BY <1>0, <1>1, <1>3, <2>1, <2>2, SearchFinds, TurnGoesTo
<1>4. CASE current_task = first
  <2>1. Lines(first) = Lines(second) + 1
    BY <1>2, <1>4 DEF BothWork, TurnOfA
  <2>2. Lines(second) # workers_rounds
    <3>1. /\ Lines(first) \in 0 .. workers_rounds /\ workers_rounds \in Nat
          /\ Lines(second) \in Int
      OBVIOUS
    <3> QED
      BY ONLY <2>1, <3>1
  <2>3. second \in Ready
    BY <1>4, <2>2 DEF BothWork, Progress, Ready
  <2>4. Lines(second) = Lines(first) - 1
    BY ONLY <1>2, <2>1
  <2> QED
    BY <1>0, <1>1, <1>4, <2>3, <2>4, SearchFinds, TurnGoesTo
<1>5. CASE current_task = second
  <2>1. Lines(first) = Lines(second) + 1 - 1
    BY <1>2, <1>5 DEF BothWork, TurnOfB
  <2>2. Lines(second) = Lines(first)
    BY ONLY <1>2, <2>1
  <2> QED
    BY <1>0, <1>1, <1>5, <2>2, SearchFinds, TurnGoesTo
<1> QED
  BY <1>3, <1>4, <1>5

LEMMA SwitchKeepsBoth ==
  ASSUME DemoInv, shell_pc = "join", BothWork, before \in Stats,
         NEW next \in find_next_ready, NEW left, NEW resume, SwitchTo(next, left, resume),
         stats' = [stats EXCEPT !.context_switches = @ + 1], UNCHANGED demoVars,
         \/ cpu.pc = "task_yield" /\ left = "READY" /\ resume = "body"
         \/ cpu.pc = "task_exit_switch" /\ left = "FINISHED" /\ resume = "parked"
  PROVE  BothWork'
<1> USE BothFacts
<1> DEFINE m == current_task
<1>0. IInv /\ ShellInv /\ TypeOK /\ initialized
  BY DEF DemoInv, IInv, ShellInv, Control
<1>1. /\ \A t \in TaskId : Lines(t)' = Lines(t) /\ tasks'[t].entry = tasks[t].entry
      /\ next \in TaskId \ {m} /\ current_task' = next
      /\ tasks[next].state = "READY"
      /\ tasks'[m].state = left /\ tasks'[next].state = "RUNNING"
      /\ \A t \in TaskId \ {m, next} : tasks'[t].state = tasks[t].state
      /\ cpu'.pc \in {"task_bootstrap", "body"}
      /\ next = 0 => cpu'.pc = "body"
  BY <1>0, SwitchLines DEF demoVars
<1>2. UNCHANGED <<first, second, before, workers_rounds, output>>
  BY DEF demoVars
<1>3. /\ stats'.context_switches = stats.context_switches + 1
      /\ stats'.yield_calls = stats.yield_calls
      /\ stats'.exited_tasks = stats.exited_tasks
  BY DEF Stats
<1>4. /\ Lines(second) = IF m = first THEN Lines(first) - 1 ELSE Lines(first)
      /\ next = CASE m = 0 -> first [] m = first -> second [] m = second -> 0
  BY TurnPasses
<1>5. \A t \in {first, second} : Yields(t)' = Yields(t) /\ Yields(t) \in Int
  BY <1>1, <1>2 DEF Yields
<1>6. m # 0 => left = IF Lines(m) = workers_rounds THEN "FINISHED" ELSE "READY"
  <2>1. m # 0 => Progress(m)
    BY DEF BothWork
  <2> QED
    BY <2>1 DEF Progress
<1>7. Lines(next) # workers_rounds \/ next = 0
  <2>1. next \in {first, second} => tasks[next].state =
            IF Lines(next) = workers_rounds THEN "FINISHED" ELSE "READY"
    BY <1>1 DEF BothWork, Progress
  <2> QED
    BY <1>1, <1>4, <2>1
<1>8. ASSUME NEW t \in {first, second} PROVE Progress(t)'
  <2>1. Lines(t)' \in 0 .. workers_rounds'
    BY <1>1, <1>2
  <2>2. CASE t = next
    BY <1>1, <1>2, <2>1, <2>2 DEF Progress
  <2>3. CASE t = m
    BY <1>1, <1>2, <1>6, <2>1, <2>3 DEF Progress
  <2>4. CASE t # m /\ t # next
    BY <1>1, <1>2, <2>1, <2>4 DEF BothWork, Progress
  <2> QED
    BY <2>2, <2>3, <2>4
<1>9. Printed' => next = 0
  BY <1>1, <1>2, <1>7 DEF Printed
<1>10. /\ stats.yield_calls \in Nat /\ before.yield_calls \in Nat
       /\ stats.context_switches \in Nat /\ before.context_switches \in Nat
       /\ Lines(first) \in Int /\ Lines(second) \in Int
  BY StatNumbers
<1>11. /\ Lines(first)' = Lines(first) /\ Lines(second)' = Lines(second)
       /\ Yields(first)' = Yields(first) /\ Yields(second)' = Yields(second)
       /\ Yields(first) \in Int /\ Yields(second) \in Int
  BY <1>1, <1>2, <1>5
<1>12. ASSUME m = 0
      PROVE  TurnOfShell' /\ TurnOfA' /\ TurnOfB'
  <2>1. next = first /\ Lines(second) = Lines(first) /\ cpu.pc = "task_yield"
    BY <1>4, <1>12 DEF BothWork, ShellRuns
  <2>2. If(Printed)' = 0 /\ If(cpu.pc = "task_yield") = 1
    BY <1>9, <2>1 DEF If
  <2>3. /\ stats.context_switches = before.context_switches + 3 * Lines(first)
        /\ stats.yield_calls = before.yield_calls + Yields(first) + Yields(second)
                               + Lines(first) + 1
    BY <1>12, <2>2 DEF BothWork, TurnOfShell
  <2>4. /\ Lines(first) = Lines(second) + 0
        /\ stats'.context_switches = before.context_switches + 3 * Lines(second) + 1
        /\ stats'.yield_calls = before.yield_calls + Yields(first) + Yields(second)
                                + Lines(second) + 1
    BY ONLY <1>3, <1>10, <1>11, <2>1, <2>3
  <2>5. TurnOfA'
    BY <1>2, <1>11, <2>2, <2>4 DEF TurnOfA
  <2> QED
    BY <1>1, <1>2, <2>1, <2>5 DEF TurnOfShell, TurnOfB
<1>13. ASSUME m = first
      PROVE  TurnOfShell' /\ TurnOfA' /\ TurnOfB'
  <2>1. next = second /\ Lines(second) = Lines(first) - 1
    BY <1>4, <1>13
  <2>2. If(Printed)' = 0
    BY <1>9, <2>1 DEF If
  <2>3. /\ stats.context_switches = before.context_switches + 3 * Lines(second) + 1
        /\ stats.yield_calls = before.yield_calls + Yields(first) + Yields(second)
                               + Lines(second) + 1
    BY <1>13 DEF BothWork, TurnOfA
  <2>4. /\ Lines(first) = Lines(second) + 1 - 0
        /\ stats'.context_switches = before.context_switches + 3 * Lines(first) - 1
        /\ stats'.yield_calls = before.yield_calls + Yields(first) + Yields(second)
                                + Lines(first)
    BY ONLY <1>3, <1>10, <1>11, <2>1, <2>3
  <2>5. TurnOfB'
    BY <1>2, <1>11, <2>2, <2>4 DEF TurnOfB
  <2> QED
    BY <1>1, <1>2, <2>1, <2>5 DEF TurnOfShell, TurnOfA
<1>14. ASSUME m = second
      PROVE  TurnOfShell' /\ TurnOfA' /\ TurnOfB'
  <2>1. next = 0 /\ Lines(second) = Lines(first) /\ cpu'.pc = "body"
    BY <1>1, <1>4, <1>14
  <2>2. If(cpu.pc = "task_yield")' = 0
    BY <2>1 DEF If
  <2>3. /\ stats.context_switches = before.context_switches + 3 * Lines(first) - 1
        /\ stats.yield_calls = before.yield_calls + Yields(first) + Yields(second)
                               + Lines(first)
    BY <1>14 DEF BothWork, TurnOfB
  <2>4. /\ Lines(first) = Lines(second)
        /\ stats'.context_switches = before.context_switches + 3 * Lines(first)
        /\ stats'.yield_calls = before.yield_calls + Yields(first) + Yields(second)
                                + Lines(first) + 0
    BY ONLY <1>3, <1>10, <1>11, <2>1, <2>3
  <2>5. TurnOfShell'
    BY <1>2, <1>11, <2>1, <2>2, <2>4 DEF TurnOfShell
  <2> QED
    BY <1>1, <1>2, <2>1, <2>5 DEF TurnOfA, TurnOfB
<1>15. TurnOfShell' /\ TurnOfA' /\ TurnOfB'
  BY <1>12, <1>13, <1>14
<1>16. /\ tasks'[first].state = "FINISHED" <=> tasks[first].state = "FINISHED"
       /\ tasks'[second].state = "FINISHED" <=> tasks[second].state = "FINISHED"
  <2>1. left = "FINISHED" <=> tasks[m].state = "FINISHED"
    BY <1>0 DEF IInv, Running
  <2>2. ASSUME NEW t \in {first, second}
        PROVE  tasks'[t].state = "FINISHED" <=> tasks[t].state = "FINISHED"
    BY <1>1, <2>1
  <2> QED
    BY <2>2
<1>17. stats'.exited_tasks = before'.exited_tasks
           + If(tasks'[first].state = "FINISHED") + If(tasks'[second].state = "FINISHED")
  BY <1>2, <1>3, <1>16 DEF BothWork, If
<1>18. ShellRuns' /\ InTurn' /\ Len(output') = Lines(first)' + Lines(second)'
  BY <1>1, <1>2 DEF BothWork, ShellRuns, InTurn
<1>19. current_task' \in {0, first', second'}
  BY <1>1, <1>2, <1>4
<1> QED
  BY <1>1, <1>2, <1>8, <1>15, <1>17, <1>18, <1>19 DEF BothWork

(* While task A is drained it prints its lines alone.                       *)
LEMMA OneKept ==
  ASSUME DemoInv, shell_pc = "drain", OneWorks, output \in Seq(Entry \X Nat),
         stats'.stack_errors = stats.stack_errors,
         \/ DrainYield \/ WorkerStart \/ WorkerTurn \/ WorkerReturn \/ Overflow
         \/ task_exit /\ UNCHANGED demoVars
         \/ UNCHANGED vars
  PROVE  OneWorks'
<1> DEFINE m == current_task
           a == first
<1>0. /\ IInv /\ DemoTypeOK /\ ShellInv
      /\ a \in Worker /\ a \in TaskId /\ a # 0 /\ m \in {0, a} /\ m \in TaskId
      /\ Lines(a) \in 0 .. workers_rounds
  BY WorkerFacts DEF DemoInv, ShellInv, WorkerSlots, InCommand, OneWorks, Progress, IInv,
                     TypeOK, Worker
<1>1. workers_rounds \in Nat \ {0}
  <2>1. workers_rounds \in 1 .. MaxRounds
    BY DEF DemoInv, ShellInv, Control, InCommand
  <2> QED
    BY ONLY <2>1, RoundsAssumption
<1>2. UNCHANGED <<first, workers_rounds>>
  BY DEF DrainYield, WorkerStart, WorkerTurn, WorkerReturn, Overflow, demoVars, vars
<1>3. CASE DrainYield
  <2>1. InShell /\ task_yield /\ UNCHANGED demoVars
    BY <1>3 DEF DrainYield
  <2>2. /\ cpu'.pc = "task_yield" /\ m = 0 /\ current_task' = 0 /\ output' = output
        /\ Lines(a)' = Lines(a) /\ tasks'[a].state = tasks[a].state
        /\ tasks'[a].entry = tasks[a].entry
    BY <1>0, <1>2, <2>1, ShellYieldDoes DEF InShell
  <2>3. Progress(a)'
    BY <1>0, <1>2, <2>2 DEF OneWorks, Progress
  <2> QED
    BY <1>2, <2>2, <2>3 DEF OneWorks, ShellRuns
<1>4. CASE WorkerStart
  <2>1. /\ m # 0 /\ cpu.pc = "task_bootstrap" /\ cpu'.pc = "body" /\ Lines(a)' = Lines(a)
        /\ UNCHANGED <<current_task, tasks, stats, output>>
    BY <1>0, <1>2, <1>4, StartDoes
  <2>2. Progress(a)'
    BY <1>0, <1>2, <2>1 DEF OneWorks, Progress
  <2> QED
    BY <1>2, <2>1, <2>2 DEF OneWorks, ShellRuns
<1>5. CASE WorkerTurn
  <2>1. /\ cpu.pc = "body" /\ m = a /\ current_task' = a
        /\ Lines(a) < workers_rounds /\ Lines(a)' = Lines(a) + 1
        /\ tasks'[a].state = tasks[a].state /\ tasks'[a].entry = tasks[a].entry
        /\ output' = Append(output, <<tasks[a].entry, Lines(a) + 1>>)
        /\ cpu'.pc = IF Lines(a) + 1 = workers_rounds THEN "body" ELSE "task_yield"
    BY <1>0, <1>2, <1>5, TurnDoes DEF WorkerTurn
  <2>2. Progress(a)'
    <3>1. Lines(a) + 1 \in 0 .. workers_rounds
      BY ONLY <1>0, <1>1, <2>1
    <3> QED
      BY <1>2, <2>1, <3>1 DEF Progress
  <2>3. /\ Len(output) = Lines(a) /\ tasks[a].entry = "A" /\ Lines(a) \in Nat
        /\ \A i \in 1 .. Len(output) : output[i] = <<"A", i>>
    BY <1>0 DEF OneWorks
  <2>4. /\ Len(output') = Lines(a) + 1
        /\ output'[Lines(a) + 1] = <<"A", Lines(a) + 1>>
        /\ \A i \in 1 .. Lines(a) : output'[i] = output[i]
    BY <2>1, <2>3, Appended
  <2>5. \A i \in 1 .. Len(output') : output'[i] = <<"A", i>>
    BY <2>3, <2>4
  <2> QED
    BY <1>0, <1>2, <2>1, <2>2, <2>3, <2>4, <2>5 DEF OneWorks, ShellRuns
<1>6. CASE WorkerReturn
  <2>1. /\ m = a /\ cpu'.pc = "task_exit" /\ Lines(a) >= workers_rounds
        /\ Lines(a)' = Lines(a) /\ UNCHANGED <<current_task, tasks, stats, output>>
    BY <1>0, <1>2, <1>6, ReturnDoes
  <2>2. Lines(a) = workers_rounds
    BY ONLY <1>0, <1>1, <2>1
  <2>3. Progress(a)'
    BY <1>0, <1>2, <2>1, <2>2 DEF Progress
  <2> QED
    BY <1>0, <1>2, <2>1, <2>3 DEF OneWorks, ShellRuns
<1>7. CASE Overflow \/ UNCHANGED vars
  <2>1. UNCHANGED <<round, output, tasks, current_task, cpu>>
    BY <1>7 DEF Overflow, StackOverflow, demoVars, vars, schedVars
  <2>2. Lines(a)' = Lines(a)
    BY <1>0, <1>2, <2>1, LinesKept
  <2>3. Progress(a)'
    BY <1>2, <2>1, <2>2 DEF OneWorks, Progress
  <2> QED
    BY <1>2, <2>1, <2>2, <2>3 DEF OneWorks, ShellRuns
<1>8. CASE task_exit /\ UNCHANGED demoVars
  <2>1. /\ m = a /\ cpu.pc = "task_exit" /\ cpu'.pc = "task_exit_switch"
        /\ Lines(a)' = Lines(a) /\ tasks'[a].entry = tasks[a].entry
        /\ current_task' = a /\ output' = output
    BY <1>0, <1>2, <1>8, ExitDoes
  <2>2. Progress(a)'
    BY <1>2, <2>1 DEF OneWorks, Progress
  <2> QED
    BY <1>0, <1>2, <2>1, <2>2 DEF OneWorks, ShellRuns
<1> QED
  BY <1>3, <1>4, <1>5, <1>6, <1>7, <1>8

LEMMA SwitchKeepsOne ==
  ASSUME DemoInv, shell_pc = "drain", OneWorks, UNCHANGED demoVars,
         NEW next \in find_next_ready, NEW left, NEW resume, SwitchTo(next, left, resume),
         \/ cpu.pc = "task_yield" /\ left = "READY" /\ resume = "body"
         \/ cpu.pc = "task_exit_switch" /\ left = "FINISHED" /\ resume = "parked"
  PROVE  OneWorks'
<1> DEFINE m == current_task
           a == first
<1>0. /\ IInv /\ ShellInv /\ initialized
      /\ a \in Worker /\ a \in TaskId /\ a # 0 /\ m \in {0, a} /\ m \in TaskId
  BY WorkerFacts DEF DemoInv, ShellInv, WorkerSlots, Control, InCommand, OneWorks, IInv,
                     TypeOK, Worker
<1>1. Ready \subseteq {0, a} /\ next \in Ready
  BY <1>0, WhoIsReady DEF find_next_ready
<1>2. /\ Lines(a)' = Lines(a) /\ tasks'[a].entry = tasks[a].entry
      /\ next \in TaskId \ {m} /\ current_task' = next
      /\ tasks'[m].state = left /\ tasks[next].state = "READY"
      /\ cpu'.pc \in {"task_bootstrap", "body"}
      /\ next = 0 => cpu'.pc = "body"
      /\ UNCHANGED <<first, workers_rounds, output>>
  BY <1>0, SwitchLines DEF demoVars
<1>3. Progress(a)'
  BY <1>0, <1>1, <1>2 DEF OneWorks, Progress
<1> QED
  BY <1>0, <1>1, <1>2, <1>3 DEF OneWorks, ShellRuns

LEMMA SchedulerKeepsTurns ==
  ASSUME DemoInv, InScheduler, before \in Stats, output \in Seq(Entry \X Nat),
         stats'.stack_errors = stats.stack_errors
  PROVE  /\ shell_pc = "drain" /\ OneWorks => OneWorks'
         /\ shell_pc = "join" /\ BothWork => BothWork'
<1>0. /\ IInv /\ ShellInv /\ TypeOK /\ UNCHANGED demoVars
      /\ shell_pc \in {"drain", "join"}
  BY WhileWaiting DEF DemoInv, IInv, InScheduler
<1>1. CASE task_exit
  BY <1>0, <1>1, OneKept, ExitKeepsBoth
<1>2. ASSUME \/ task_yield_switch /\ find_next_ready # {}
             \/ task_exit_switch /\ find_next_ready # {}
      PROVE  \E next \in find_next_ready, left \in State, resume \in Point :
                 /\ SwitchTo(next, left, resume)
                 /\ stats' = [stats EXCEPT !.context_switches = @ + 1]
                 /\ \/ cpu.pc = "task_yield" /\ left = "READY" /\ resume = "body"
                    \/ cpu.pc = "task_exit_switch" /\ left = "FINISHED" /\ resume = "parked"
  <2>1. "READY" \in State /\ "FINISHED" \in State /\ "body" \in Point /\ "parked" \in Point
    BY DEF State, Point
  <2>2. CASE task_yield_switch
    <3>1. PICK next \in find_next_ready : SwitchTo(next, "READY", "body")
      BY <1>2, <2>2 DEF task_yield_switch
    <3>2. cpu.pc = "task_yield" /\ stats' = [stats EXCEPT !.context_switches = @ + 1]
      BY <1>2, <2>2 DEF task_yield_switch
    <3> QED
      BY <2>1, <3>1, <3>2
  <2>3. CASE task_exit_switch
    <3>1. PICK next \in find_next_ready : SwitchTo(next, "FINISHED", "parked")
      BY <1>2, <2>3 DEF task_exit_switch
    <3>2. cpu.pc = "task_exit_switch" /\ stats' = [stats EXCEPT !.context_switches = @ + 1]
      BY <1>2, <2>3 DEF task_exit_switch
    <3> QED
      BY <2>1, <3>1, <3>2
  <2> QED
    BY <1>2, <2>2, <2>3
<1>3. CASE \/ task_yield_switch /\ find_next_ready # {}
           \/ task_exit_switch /\ find_next_ready # {}
  BY <1>0, <1>2, <1>3, SwitchKeepsOne, SwitchKeepsBoth
<1>4. ASSUME find_next_ready = {}, task_yield_switch \/ task_exit_switch,
             shell_pc = "join"
      PROVE  ~BothWork
  <2>1. current_task = 0
    BY <1>0, <1>4, SearchFinds, WhoIsReady
  <2>2. initialized
    BY <1>0 DEF ShellInv, Control
  <2>3. ~task_exit_switch
    BY <1>0, <2>1, <2>2 DEF IInv, Running, task_exit_switch
  <2>4. cpu.pc = "task_yield"
    BY <1>4, <2>3 DEF task_yield_switch
  <2> QED
    BY <1>4, <2>4, TurnPasses
<1>5. ASSUME find_next_ready = {}, task_yield_switch \/ task_exit_switch,
             shell_pc = "drain", OneWorks
      PROVE  OneWorks'
  <2>1. current_task = 0
    BY <1>0, <1>5, SearchFinds, WhoIsReady
  <2>2. initialized
    BY <1>0 DEF ShellInv, Control
  <2>3. task_yield_switch
    BY <1>0, <1>5, <2>1, <2>2 DEF IInv, Running, task_exit_switch
  <2>4. /\ cpu' = [cpu EXCEPT !.pc = "body"] /\ cpu.pc = "task_yield"
        /\ UNCHANGED <<tasks, current_task, first, workers_rounds, output, round>>
    BY <1>0, <1>5, <2>3 DEF task_yield_switch, demoVars
  <2>5. cpu'.pc = "body"
    BY <1>0, <2>4 DEF TypeOK
  <2>6. first \in TaskId /\ first # 0
    BY <1>0, <1>5, WhoIsReady, WorkerFacts DEF Worker
  <2>7. Lines(first)' = Lines(first)
    BY <2>4, <2>5, <2>6, LinesKept
  <2>8. Progress(first)'
    BY <1>5, <2>1, <2>4, <2>6, <2>7 DEF OneWorks, Progress
  <2> QED
    BY <1>5, <2>1, <2>4, <2>5, <2>7, <2>8 DEF OneWorks, ShellRuns
<1> QED
  BY <1>0, <1>1, <1>3, <1>4, <1>5 DEF InScheduler

LEMMA WaitingKeepsTurns ==
  ASSUME DemoInv, TurnsInv,
         \/ DrainYield \/ JoinYield \/ WorkerStart \/ WorkerTurn \/ WorkerReturn
         \/ InScheduler \/ Overflow
  PROVE  TurnsInv'
<1>0. /\ IInv /\ ShellInv /\ TypeOK /\ DemoTypeOK /\ stats \in Stats
      /\ before \in Stats /\ output \in Seq(Entry \X Nat)
  BY DEF DemoInv, IInv, TypeOK, TurnsInv
<1>1. /\ shell_pc \in {"drain", "join"} /\ initialized /\ InCommand
      /\ UNCHANGED <<shell_pc, before>> /\ (Scheduling \/ UNCHANGED schedVars)
  BY <1>0, WhileWaiting
     DEF InCommand, shellVars, DrainYield, JoinYield, WorkerStart, WorkerTurn, WorkerReturn,
         InScheduler, Overflow, demoVars
<1>2. stats'.stack_errors >= stats.stack_errors
  <2>1. CASE Scheduling
    BY <1>0, <1>1, <2>1, ErrorsGrow DEF Scheduling, SchedNext
  <2>2. CASE UNCHANGED schedVars
    BY <1>0, <2>2, StatNumbers DEF schedVars
  <2> QED
    BY <1>1, <2>1, <2>2
<1>3. stats' \in Stats
  <2>1. DemoNext
    BY DEF DemoNext, CpuStep
  <2>2. IInv'
    BY <2>1, SchedKept
  <2> QED
    BY <2>2 DEF IInv, TypeOK
<1>4. /\ stats.stack_errors \in Nat /\ stats'.stack_errors \in Nat
      /\ before.stack_errors \in Nat /\ stats.stack_errors >= before.stack_errors
  BY <1>0, <1>1, <1>3, StatNumbers DEF TurnsInv
<1>5. ASSUME NoneNoticed'
      PROVE  NoneNoticed /\ stats'.stack_errors = stats.stack_errors
  <2>1. stats'.stack_errors = before.stack_errors
    BY <1>1, <1>5 DEF NoneNoticed
  <2>2. stats.stack_errors = before.stack_errors /\ stats'.stack_errors = stats.stack_errors
    BY ONLY <1>2, <1>4, <2>1
  <2> QED
    BY <2>2 DEF NoneNoticed
<1>6. ASSUME NoneNoticed'
      PROVE  /\ shell_pc = "drain" => OneWorks'
             /\ shell_pc = "join" => BothWork'
  <2>1. /\ shell_pc = "drain" => OneWorks
        /\ shell_pc = "join" => BothWork
        /\ stats'.stack_errors = stats.stack_errors
    BY <1>5, <1>6 DEF TurnsInv
  <2>2. CASE InScheduler
    BY <1>0, <2>1, <2>2, SchedulerKeepsTurns
  <2>3. CASE DrainYield \/ JoinYield
    BY <1>0, <2>1, <2>3, OneKept, JoinYieldKeepsBoth DEF DrainYield, JoinYield
  <2>4. CASE WorkerStart \/ WorkerTurn \/ WorkerReturn \/ Overflow
    BY <1>0, <2>1, <2>4, OneKept, StartKeepsBoth, TurnKeepsBoth, ReturnKeepsBoth,
       OverflowKeepsBoth
  <2> QED
    BY <2>2, <2>3, <2>4
<1>7. output' \in Seq(Entry \X Nat)
  <2>1. CASE WorkerTurn
    <3>1. tasks[current_task].entry \in Entry
      BY <1>0, <1>1, <2>1 DEF WorkerTurn, IInv, Running
    <3>2. round[current_task] \in Nat
      <4>1. round \in [TaskId -> 0 .. MaxRounds + 1] /\ current_task \in TaskId
        BY <1>0 DEF DemoTypeOK, TypeOK
      <4> QED
        BY <4>1, RoundsAssumption
    <3>3. output' = Append(output, <<tasks[current_task].entry, round[current_task]>>)
      BY <2>1 DEF WorkerTurn
    <3> QED
      BY ONLY <1>0, <3>1, <3>2, <3>3
  <2>2. CASE ~WorkerTurn
    <3>1. output' = output
      BY <2>2 DEF DrainYield, JoinYield, WorkerStart, WorkerReturn, InScheduler, Overflow,
                  demoVars
    <3> QED
      BY <1>0, <3>1
  <2> QED
    BY <2>1, <2>2
<1>8. stats'.stack_errors >= before'.stack_errors
  BY <1>1, <1>2, <1>4
<1>9. before' \in Stats /\ shell_pc' \in {"drain", "join"}
  BY <1>0, <1>1
<1> QED
  BY <1>1, <1>6, <1>7, <1>8, <1>9 DEF TurnsInv

(* The counters and the slots as taskdemo finds and leaves them.            *)
LEMMA CreateKeepsTurns ==
  ASSUME DemoInv, TurnsInv, CreateA \/ CreateB
  PROVE  TurnsInv'
<1>0. /\ IInv /\ ShellInv /\ TypeOK /\ DemoTypeOK /\ stats \in Stats
      /\ before \in Stats /\ output \in Seq(Entry \X Nat)
      /\ current_task = 0 /\ cpu.pc = "body"
      /\ UNCHANGED <<output, before, current_task, cpu, round>>
  BY DEF DemoInv, IInv, TypeOK, TurnsInv, CreateA, CreateB, InShell, task_create, schedVars
<1>1. CASE CreateA /\ CanCreate
  <2>1. /\ task_create("A") /\ first' \in FirstUnused /\ shell_pc' = "create B"
        /\ output = <<>> /\ stats = before
    BY <1>1 DEF CreateA, TurnsInv
  <2> DEFINE a == first'
             page == page_alloc(heap).ret
             slot == [clear_slot EXCEPT
                          !.entry = "A",
                          !.stack_page = page,
                          !.state = "READY",
                          !.context = [sp |-> page, pc |-> "task_bootstrap"]]
  <2>2. tasks' = [tasks EXCEPT ![a] = slot]
    <3>1. PICK u \in FirstUnused : tasks' = [tasks EXCEPT ![u] = slot]
      BY <2>1 DEF task_create
    <3> QED
      BY <2>1, <3>1, UnusedIsWorker
  <2>3. a \in Worker /\ a \in TaskId /\ tasks \in [TaskId -> Slot]
    BY <1>0, <2>1, UnusedIsWorker, WorkerFacts DEF TypeOK
  <2>4. slot.state = "READY" /\ slot.entry = "A" /\ slot.schedule_count = 0
    BY DEF clear_slot
  <2>5. tasks'[a] = slot /\ \A t \in TaskId \ {a} : tasks'[t] = tasks[t]
    <3> HIDE DEF slot, a
    <3> QED
      BY <2>2, <2>3
  <2>6. /\ tasks'[a].state = "READY" /\ tasks'[a].entry = "A"
        /\ tasks'[a].schedule_count = 0
    BY <2>4, <2>5
  <2>7. \A t \in 1 .. a - 1 : tasks'[t].state # "UNUSED"
    <3>1. \A t \in 1 .. a - 1 : tasks[t].state # "UNUSED"
      BY <2>1 DEF FirstUnused
    <3>2. \A t \in 1 .. a - 1 : t \in TaskId \ {a}
      <4>1. a \in 1 .. TaskMax - 1 /\ TaskMax \in Nat
        BY <2>3, TaskMaxAssumption DEF TaskId, Worker
      <4> HIDE DEF a, slot
      <4>2. \A t \in 1 .. a - 1 : t \in 0 .. TaskMax - 1 /\ t # a
        BY ONLY <4>1
      <4> QED
        BY <4>2 DEF TaskId
    <3> QED
      BY <2>5, <3>1, <3>2
  <2>8. stats' = [before EXCEPT !.created_tasks = @ + 1]
    BY <2>1 DEF task_create
  <2>9. OneCreated'
    BY <1>0, <2>1, <2>6, <2>7, <2>8 DEF OneCreated
  <2>10. stats'.stack_errors >= before'.stack_errors
    <3>1. stats'.stack_errors = before.stack_errors
      BY <1>0, <2>8 DEF Stats
    <3> QED
      BY <1>0, <3>1, StatNumbers
  <2> QED
    BY <1>0, <2>1, <2>9, <2>10 DEF TurnsInv
<1>2. CASE CreateA /\ ~CanCreate
  <2>1. shell_pc' = "prompt"
    BY <1>2 DEF CreateA, Return
  <2> QED
    BY <1>0, <2>1 DEF TurnsInv, InCommand
<1>3. CASE CreateB
  <2>0. /\ shell_pc = "create B" /\ UNCHANGED <<first, workers_rounds>> /\ OneCreated
        /\ first \in Worker /\ first \in TaskId /\ first # 0
        /\ workers_rounds \in 1 .. MaxRounds
    BY <1>0, <1>3, WorkerFacts
       DEF CreateB, TurnsInv, ShellInv, WorkerSlots, Control, InCommand, Worker
  <2>1. workers_rounds \in Nat \ {0}
    <3>1. workers_rounds \in 1 .. MaxRounds /\ MaxRounds \in Nat
      BY <2>0, RoundsAssumption
    <3> QED
      BY ONLY <3>1
  <2>2. /\ stats.context_switches = before.context_switches
        /\ stats.yield_calls = before.yield_calls
        /\ stats.exited_tasks = before.exited_tasks
        /\ stats.stack_errors = before.stack_errors
    BY <1>0, <2>0 DEF OneCreated, Stats
  <2>3. tasks[first].state = "READY" /\ tasks[first].schedule_count = 0
        /\ tasks[first].entry = "A" /\ output = <<>> /\ Len(output) = 0
    BY <2>0 DEF OneCreated
  <2>4. CASE ~CanCreate
    <3>1. shell_pc' = "drain" /\ UNCHANGED <<tasks, stats>>
      BY <1>3, <2>4 DEF CreateB, schedVars
    <3>2. Lines(first)' = 0
      BY <2>0, <2>3, <3>1 DEF Lines, Fresh
    <3>3. Progress(first)'
      <4>1. Lines(first)' \in 0 .. workers_rounds' /\ Lines(first)' # workers_rounds'
        <5>1. workers_rounds' = workers_rounds
          BY <2>0
        <5>2. 0 \in 0 .. workers_rounds /\ 0 # workers_rounds
          BY ONLY <2>1
        <5>3. 0 \in 0 .. workers_rounds' /\ 0 # workers_rounds'
          BY <5>1, <5>2
        <5> QED
          BY ONLY <5>3, <3>2
      <4>2. first' # current_task' /\ tasks'[first'].state = "READY"
        BY <1>0, <2>0, <2>3, <3>1
      <4> QED
        BY <4>1, <4>2 DEF Progress
    <3>4. OneWorks'
      <4>1. /\ tasks'[first'].entry = "A" /\ Len(output') = Lines(first)'
            /\ current_task' = 0 /\ cpu'.pc = "body"
        BY <1>0, <2>0, <2>3, <3>1, <3>2
      <4>2. \A i \in 1 .. Len(output') : output'[i] = <<"A", i>>
        BY <1>0, <2>3
      <4> QED
        BY <3>3, <4>1, <4>2 DEF OneWorks, ShellRuns
    <3>5. stats'.stack_errors >= before'.stack_errors
      BY <1>0, <2>2, <3>1, StatNumbers
    <3> QED
      BY <1>0, <3>1, <3>4, <3>5 DEF TurnsInv
  <2>5. CASE CanCreate
    <3>1. task_create("B") /\ second' \in FirstUnused /\ shell_pc' = "join"
      BY <1>3, <2>5 DEF CreateB
    <3> DEFINE b == second'
               page == page_alloc(heap).ret
               slot == [clear_slot EXCEPT
                            !.entry = "B",
                            !.stack_page = page,
                            !.state = "READY",
                            !.context = [sp |-> page, pc |-> "task_bootstrap"]]
    <3>2. tasks' = [tasks EXCEPT ![b] = slot]
      <4>1. PICK u \in FirstUnused : tasks' = [tasks EXCEPT ![u] = slot]
        BY <3>1 DEF task_create
      <4> QED
        BY <3>1, <4>1, UnusedIsWorker
    <3>3. /\ b \in Worker /\ b \in TaskId /\ b # 0 /\ tasks \in [TaskId -> Slot]
          /\ tasks[b].state = "UNUSED"
      BY <1>0, <3>1, UnusedIsWorker, WorkerFacts DEF TypeOK, Worker
    <3>4. first < b
      <4>1. \A t \in 1 .. first - 1 : tasks[t].state # "UNUSED"
        BY <2>0 DEF OneCreated
      <4>2. b \notin 1 .. first - 1 /\ b # first
        BY <2>3, <3>3, <4>1
      <4>3. b \in Nat \ {0} /\ first \in Nat
        BY <2>0, <3>3, WorkerFacts
      <4> QED
        BY ONLY <4>2, <4>3
    <3>5. slot.state = "READY" /\ slot.entry = "B" /\ slot.schedule_count = 0
      BY DEF clear_slot
    <3>6. tasks'[b] = slot /\ tasks'[first] = tasks[first]
      <4>1. first # b
        BY <2>3, <3>3
      <4> HIDE DEF slot, b
      <4> QED
        BY <2>0, <3>2, <3>3, <4>1
    <3>7. /\ tasks'[b].state = "READY" /\ tasks'[b].entry = "B"
          /\ tasks'[b].schedule_count = 0
          /\ tasks'[first].state = "READY" /\ tasks'[first].entry = "A"
          /\ tasks'[first].schedule_count = 0
      BY <2>3, <3>5, <3>6
    <3>8. Lines(first)' = 0 /\ Lines(second)' = 0
      BY <2>0, <3>7 DEF Lines, Fresh
    <3>9. Progress(first)' /\ Progress(second)'
      <4>1. 0 \in 0 .. workers_rounds' /\ 0 # workers_rounds'
        <5>1. 0 \in 0 .. workers_rounds /\ 0 # workers_rounds
          BY ONLY <2>1
        <5> QED
          BY <2>0, <5>1
      <4>2. /\ first' # current_task' /\ tasks'[first'].state = "READY"
            /\ second' # current_task' /\ tasks'[second'].state = "READY"
        BY <1>0, <2>0, <3>3, <3>7
      <4> QED
        BY ONLY <3>8, <4>1, <4>2 DEF Progress
    <3>10. /\ stats'.context_switches = before.context_switches
           /\ stats'.yield_calls = before.yield_calls
           /\ stats'.exited_tasks = before.exited_tasks
           /\ stats'.stack_errors = before.stack_errors
      BY <1>0, <2>2, <3>1 DEF task_create, Stats
    <3>11. /\ before.context_switches \in Nat /\ before.yield_calls \in Nat
           /\ before.exited_tasks \in Nat /\ before.stack_errors \in Nat
      BY <1>0, StatNumbers
    <3>12. TurnOfShell' /\ TurnOfA' /\ TurnOfB'
      <4>1. Yields(first)' = 0 /\ Yields(second)' = 0
        BY <2>0, <2>1, <3>8 DEF Yields
      <4>2. If(cpu.pc = "task_yield")' = 0
        BY <1>0 DEF If
      <4>3. /\ stats'.context_switches = before'.context_switches + 3 * 0
            /\ stats'.yield_calls = before'.yield_calls + 0 + 0 + 0 + 0
        BY <1>0, <3>10, <3>11
      <4>4. TurnOfShell'
        BY <1>0, <3>8, <4>1, <4>2, <4>3 DEF TurnOfShell
      <4> QED
        BY <1>0, <2>0, <3>3, <4>4 DEF TurnOfA, TurnOfB
    <3>13. stats'.exited_tasks = before'.exited_tasks
               + If(tasks'[first'].state = "FINISHED") + If(tasks'[second'].state = "FINISHED")
      <4>1. /\ If(tasks'[first'].state = "FINISHED") = 0
            /\ If(tasks'[second'].state = "FINISHED") = 0
        BY <2>0, <3>7 DEF If
      <4>2. stats'.exited_tasks = before'.exited_tasks + 0 + 0
        BY <1>0, <3>10, <3>11
      <4> QED
        BY <4>1, <4>2
    <3>14. Len(output') = Lines(first)' + Lines(second)' /\ InTurn'
      BY <1>0, <2>3, <3>8 DEF InTurn
    <3>15. BothWork'
      BY <1>0, <2>0, <3>4, <3>7, <3>9, <3>12, <3>13, <3>14 DEF BothWork, ShellRuns
    <3>16. stats'.stack_errors >= before'.stack_errors
      BY <1>0, <3>10, <3>11
    <3> QED
      BY <1>0, <3>1, <3>15, <3>16 DEF TurnsInv
  <2> QED
    BY <2>4, <2>5
<1> QED
  BY <1>1, <1>2, <1>3

LEMMA ReapDoes ==
  ASSUME stats \in Stats, NEW t, task_reap(t)
  PROVE  /\ stats'.context_switches = stats.context_switches
         /\ stats'.yield_calls = stats.yield_calls
         /\ stats'.exited_tasks = stats.exited_tasks
         /\ stats'.stack_errors >= stats.stack_errors
<1>0. stats.stack_errors \in Nat
  BY StatNumbers
<1>1. ErrorsAfter(t) >= stats.stack_errors
  BY <1>0 DEF ErrorsAfter
<1>2. CASE stats' = stats
  BY <1>0, <1>2
<1>3. CASE stats' = [stats EXCEPT !.stack_errors = ErrorsAfter(t)]
  BY <1>1, <1>3 DEF Stats
<1>4. CASE stats' = [stats EXCEPT !.reaped_tasks = @ + 1]
  BY <1>0, <1>4 DEF Stats
<1> QED
  BY <1>2, <1>3, <1>4 DEF task_reap

LEMMA ReapKeepsTurns ==
  ASSUME DemoInv, TurnsInv, DrainReap \/ JoinReap \/ ReapB
  PROVE  TurnsInv'
<1>0. /\ TypeOK /\ stats \in Stats /\ before \in Stats /\ output \in Seq(Entry \X Nat)
      /\ current_task = 0 /\ cpu.pc = "body"
      /\ UNCHANGED <<output, before>>
  BY DEF DemoInv, IInv, TypeOK, TurnsInv, DrainReap, JoinReap, ReapB, InShell
<1>1. CASE DrainReap \/ ReapB
  <2>1. shell_pc' = "prompt"
    BY <1>1 DEF DrainReap, ReapB, Return
  <2> QED
    BY <1>0, <2>1 DEF TurnsInv, InCommand
<1>2. CASE JoinReap
  <2>1. /\ shell_pc = "join" /\ shell_pc' = "reap B" /\ BothFinished
        /\ UNCHANGED workers_rounds
        /\ stats'.context_switches = stats.context_switches
        /\ stats'.yield_calls = stats.yield_calls
        /\ stats'.exited_tasks = stats.exited_tasks
        /\ stats'.stack_errors >= stats.stack_errors
    BY <1>0, <1>2, ReapDoes DEF JoinReap
  <2>2. stats' \in Stats
    <3>1. DemoNext
      BY <1>2 DEF DemoNext, CpuStep
    <3>2. IInv'
      BY <3>1, SchedKept
    <3> QED
      BY <3>2 DEF IInv, TypeOK
  <2>3. /\ stats.stack_errors \in Nat /\ stats'.stack_errors \in Nat
        /\ before.stack_errors \in Nat /\ stats.stack_errors >= before.stack_errors
    BY <1>0, <2>1, <2>2, StatNumbers DEF TurnsInv, InCommand
  <2>4. stats'.stack_errors >= before'.stack_errors
    <3>1. stats'.stack_errors >= stats.stack_errors /\ before' = before
      BY <1>0, <2>1
    <3> QED
      BY ONLY <2>3, <3>1
  <2>5. ASSUME NoneNoticed'
        PROVE  BothDone'
    <3>1. stats.stack_errors = before.stack_errors
      <4>1. stats'.stack_errors = before.stack_errors
        BY <1>0, <2>5 DEF NoneNoticed
      <4>2. stats'.stack_errors >= stats.stack_errors
        BY <2>1
      <4> QED
        BY ONLY <2>3, <4>1, <4>2
    <3>2. BothWork
      BY <2>1, <3>1 DEF TurnsInv, NoneNoticed
    <3>3. /\ first # 0 /\ second # 0 /\ workers_rounds \in Nat \ {0}
      BY <1>0, <2>1, <3>2, BothFacts
    <3>4. Lines(first) = workers_rounds /\ Lines(second) = workers_rounds
      BY <1>0, <2>1, <3>2, <3>3 DEF BothWork, Progress, BothFinished, Finished
    <3>5. Yields(first) = workers_rounds - 1 /\ Yields(second) = workers_rounds - 1
      BY <3>4 DEF Yields
    <3>6. If(cpu.pc = "task_yield") = 0
      BY <1>0 DEF If
    <3>7. /\ stats.context_switches = before.context_switches + 3 * workers_rounds
          /\ stats.yield_calls = before.yield_calls + (workers_rounds - 1)
                                 + (workers_rounds - 1) + workers_rounds + 0
      BY <1>0, <3>2, <3>4, <3>5, <3>6 DEF BothWork, TurnOfShell
    <3>8. stats.exited_tasks = before.exited_tasks + 1 + 1
      BY <2>1, <3>2 DEF BothWork, BothFinished, Finished, If
    <3>9. before.yield_calls \in Nat /\ before.exited_tasks \in Nat
      BY <1>0, StatNumbers
    <3>10. stats.yield_calls = before.yield_calls + 3 * workers_rounds - 2
      BY ONLY <3>3, <3>7, <3>9
    <3>11. stats.exited_tasks = before.exited_tasks + 2
      BY ONLY <3>8, <3>9
    <3>12. InTurn'
      BY <1>0, <3>2 DEF BothWork, InTurn
    <3> QED
      BY <1>0, <2>1, <3>7, <3>10, <3>11, <3>12 DEF BothDone
  <2> QED
    BY <1>0, <2>1, <2>4, <2>5 DEF TurnsInv
<1> QED
  BY <1>1, <1>2

LEMMA TurnsKept ==
  ASSUME DemoInv, TurnsInv, [DemoNext]_vars
  PROVE  TurnsInv'
<1>0. /\ stats \in Stats /\ before \in Stats /\ output \in Seq(Entry \X Nat)
  BY DEF DemoInv, IInv, TypeOK, TurnsInv
<1>1. CASE \/ DrainYield \/ JoinYield \/ WorkerStart \/ WorkerTurn \/ WorkerReturn
           \/ InScheduler \/ Overflow
  BY <1>1, WaitingKeepsTurns
<1>2. CASE CreateA \/ CreateB
  BY <1>2, CreateKeepsTurns
<1>3. CASE DrainReap \/ JoinReap \/ ReapB
  BY <1>3, ReapKeepsTurns
<1>4. CASE Boot \/ memtest \/ command_memtest
  <2>1. /\ UNCHANGED <<before, output>>
        /\ shell_pc' \notin {"create A", "create B", "drain", "join", "reap B"}
    BY <1>4 DEF Boot, memtest, TakePage, WritePatterns, FreeFirst, FreeAgain, GiveBack,
                Retry, EndMemtest, AtMemtest, command_memtest, memtestFrame
  <2> QED
    BY <1>0, <2>1 DEF TurnsInv, InCommand
<1>5. CASE command_taskdemo
  <2>1. /\ shell_pc' = "create A" /\ output' = <<>> /\ before' = stats /\ stats' = stats
    BY <1>5 DEF command_taskdemo, schedVars
  <2>2. output' \in Seq(Entry \X Nat) /\ before' \in Stats
    <3>1. output' = <<>> /\ before' = stats
      BY <2>1
    <3> QED
      BY ONLY <1>0, <3>1
  <2> QED
    BY <2>1, <2>2 DEF TurnsInv, InCommand
<1>6. CASE UNCHANGED vars
  <2>1. UNCHANGED <<shell_pc, before, output, stats, tasks, cpu, current_task, first, second,
                    workers_rounds, round>>
    BY <1>6 DEF vars, schedVars, demoVars
  <2>2. OneCreated' <=> OneCreated
    BY <2>1, Zenon DEF OneCreated
  <2>3. /\ shell_pc = "drain" /\ OneWorks => OneWorks'
        /\ shell_pc = "join" /\ BothWork => BothWork'
    <3>1. stats'.stack_errors = stats.stack_errors
      BY <2>1
    <3> QED
      BY <1>0, <1>6, <3>1, OneKept, OverflowKeepsBoth
  <2>4. NoneNoticed' => NoneNoticed
    BY <2>1 DEF NoneNoticed
  <2>5. BothDone => BothDone'
    BY <2>1 DEF BothDone, InTurn
  <2>6. before' \in Stats /\ output' \in Seq(Entry \X Nat)
    BY <1>0, <2>1
  <2> QED
    BY <2>1, <2>2, <2>3, <2>4, <2>5, <2>6 DEF TurnsInv, InCommand
<1> QED
  BY <1>1, <1>2, <1>3, <1>4, <1>5, <1>6 DEF DemoNext, CpuStep

LEMMA TurnsInvariant == DemoSpec => []TurnsInv
<1>1. DemoInit => TurnsInv
  <2> SUFFICES ASSUME DemoInit PROVE TurnsInv
    OBVIOUS
  <2>1. stats \in Stats
    BY DEF DemoInit, SchedInit, Stats
  <2> QED
    BY <2>1 DEF DemoInit, TurnsInv, InCommand
<1>2. DemoInv /\ TurnsInv /\ [DemoNext]_vars => TurnsInv'
  BY TurnsKept
<1> QED
  BY DemoInvariant, <1>1, <1>2, PTL DEF DemoSpec

(* The lines of the two tasks alternate, A first, and without task B those  *)
(* of A are numbered in order, up to the first overflow that is noticed     *)
(* (shell.c:356, task.c:79).                                                *)
THEOREM WorkersAlternate == DemoSpec => []TurnsAlternate
<1>1. ASSUME DemoInv, TurnsInv
      PROVE  TurnsAlternate
  <2> SUFFICES ASSUME stats.stack_errors = before.stack_errors, NEW i \in DOMAIN output
               PROVE  /\ shell_pc = "drain" => output[i] = <<"A", i>>
                      /\ shell_pc \in {"join", "reap B"} =>
                             output[i] = <<IF i % 2 = 1 THEN "A" ELSE "B", (i + 1) \div 2>>
    BY DEF TurnsAlternate
  <2>1. i \in 1 .. Len(output) /\ NoneNoticed
    <3>1. output \in Seq(Entry \X Nat)
      BY <1>1 DEF TurnsInv
    <3>2. DOMAIN output = 1 .. Len(output)
      BY ONLY <3>1
    <3> QED
      BY <3>2 DEF NoneNoticed
  <2>2. shell_pc = "drain" => output[i] = <<"A", i>>
    BY <1>1, <2>1 DEF TurnsInv, OneWorks
  <2>3. shell_pc \in {"join", "reap B"} => InTurn
    BY <1>1, <2>1 DEF TurnsInv, BothWork, BothDone
  <2> QED
    BY <2>1, <2>2, <2>3 DEF InTurn
<1> QED
  BY DemoInvariant, TurnsInvariant, <1>1, PTL

(* What r rounds without an overflow add to the counters (shell.c:422).     *)
THEOREM CostIsExact == DemoSpec => []CostOfDemo
<1>1. TurnsInv => CostOfDemo
  BY DEF TurnsInv, CostOfDemo, NoneNoticed, BothDone
<1> QED
  BY TurnsInvariant, <1>1, PTL
=============================================================================
