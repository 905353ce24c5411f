--------------------------------- MODULE Timer ---------------------------------
(***************************************************************************)
(* src/timer.c: the tick counter its interrupt keeps, and the sleep of the *)
(* shell's "sleep" command, which waits for that counter in WFE.           *)
(*                                                                         *)
(* Time is the generic timer's counter and may advance between any two     *)
(* steps, so the handler can run any number of tick intervals late.  As in *)
(* UartRx, one CPU runs the handler to its end before the code it          *)
(* interrupted, only the event register wakes a WFE, and a return from an  *)
(* exception does not set it.  The GIC sees the timer's line with a delay, *)
(* and so may deliver an interrupt whose cause has gone.                   *)
(***************************************************************************)
EXTENDS Naturals

CONSTANTS
    Frequencies,       \* values cntfrq_el0 may have
    TicksPerSecond,    \* TIMER_TICKS_PER_SECOND
    SleepMaxSeconds,   \* SLEEP_MAX_SECONDS
    MaxCounter         \* bound: the last value of the counter

ASSUME TimerAssumption ==
    /\ Frequencies \subseteq Nat
    /\ TicksPerSecond \in Nat \ {0}
    /\ SleepMaxSeconds \in Nat
    /\ MaxCounter \in Nat

VARIABLES
    counter,           \* cntpct_el0
    compare,           \* cntp_cval_el0
    line,              \* the timer's interrupt line as the GIC sees it
    kernel,            \* how far timer_init is
    tick_interval, next_deadline, tick_count,
    isr,               \* where timer_handle_interrupt is
    now,               \* its local "now"
    event,             \* the CPU's event register
    sleep,             \* where timer_sleep_ticks is
    start,             \* its local "start"
    duration_ticks,    \* its argument
    booted,            \* history: the counter when timer_init read it
    called             \* history: the counter when the sleep was called

tickVars == <<tick_interval, next_deadline, tick_count>>
isrVars == <<isr, now>>
sleepVars == <<sleep, start, duration_ticks, called>>
vars == <<counter, compare, line, kernel, tickVars, isrVars, event, sleepVars,
          booted>>

Init ==
    /\ counter = 0 /\ compare = 0 /\ line = FALSE
    /\ kernel = "off"
    /\ tick_interval = 0 /\ next_deadline = 0 /\ tick_count = 0
    /\ isr = "idle" /\ now = 0
    /\ event = FALSE
    /\ sleep = "idle" /\ start = 0 /\ duration_ticks = 0
    /\ booted = 0 /\ called = 0

-----------------------------------------------------------------------------
(* The hardware *)

TimePasses ==
    /\ counter < MaxCounter
    /\ counter' = counter + 1
    /\ UNCHANGED <<compare, line, kernel, tickVars, isrVars, event, sleepVars,
                   booted>>

Expired == kernel = "running" /\ counter >= compare

LineFollows ==
    /\ line # Expired
    /\ line' = Expired
    /\ UNCHANGED <<counter, compare, kernel, tickVars, isrVars, event,
                   sleepVars, booted>>

(* The event register is shared: the UART's handler executes SEV too.       *)
OtherEvent ==
    /\ ~event
    /\ event' = TRUE
    /\ UNCHANGED <<counter, compare, line, kernel, tickVars, isrVars,
                   sleepVars, booted>>

-----------------------------------------------------------------------------
(* timer_init *)

(* Faulty variant: a counter slower than the ticks leaves no interval.      *)
Interval_unchecked(frequency) == frequency \div TicksPerSecond

Interval(frequency) ==
    IF frequency < TicksPerSecond THEN 1 ELSE frequency \div TicksPerSecond

(* Up to the first deadline ...                                             *)
timer_init ==
    /\ kernel = "off"
    /\ kernel' = "arming"
    /\ \E frequency \in Frequencies : tick_interval' = Interval(frequency)
    /\ booted' = counter
    /\ next_deadline' = counter + tick_interval'
    /\ UNCHANGED <<counter, compare, line, tick_count, isrVars, event,
                   sleepVars>>

(* ... and the writes that start the timer, after which kernel_main unmasks *)
(* interrupts.                                                              *)
timer_init_start ==
    /\ kernel = "arming"
    /\ kernel' = "running"
    /\ compare' = next_deadline
    /\ UNCHANGED <<counter, line, tickVars, isrVars, event, sleepVars, booted>>

-----------------------------------------------------------------------------
(* timer_handle_interrupt *)

IsrEnter ==
    /\ kernel = "running" /\ isr = "idle"
    /\ line
    /\ isr' = "count"
    /\ now' = counter
    /\ UNCHANGED <<counter, compare, line, kernel, tickVars, event, sleepVars,
                   booted>>

ElapsedTicks == (now - next_deadline) \div tick_interval + 1

(* Faulty variants: the next deadline is measured from the late handler; one *)
(* tick is counted however many intervals went by.                           *)
NextDeadline_drifts == now + tick_interval
CountedTicks_once == 1

NextDeadline == next_deadline + ElapsedTicks * tick_interval

CountedTicks == ElapsedTicks

IsrCount ==
    /\ isr = "count"
    /\ isr' = "exit"
    /\ IF now >= next_deadline
       THEN /\ tick_count' = tick_count + CountedTicks
            /\ next_deadline' = NextDeadline
       ELSE UNCHANGED <<tick_count, next_deadline>>
    /\ compare' = next_deadline'
    /\ UNCHANGED <<counter, line, kernel, tick_interval, now, event, sleepVars,
                   booted>>

(* Faulty variant: the handler does not execute SEV. *)
Sev_left_out == FALSE

Sev == TRUE

IsrExit ==
    /\ isr = "exit"
    /\ isr' = "idle" /\ now' = 0
    /\ event' = (event \/ Sev)
    /\ UNCHANGED <<counter, compare, line, kernel, tickVars, sleepVars,
                   booted>>

-----------------------------------------------------------------------------
(* command_sleep and timer_sleep_ticks, which run only while no handler does *)

(* A call with a number of seconds that command_sleep accepts.              *)
SleepCall ==
    /\ kernel = "running" /\ isr = "idle" /\ sleep = "idle"
    /\ \E seconds \in 0 .. SleepMaxSeconds :
           duration_ticks' = seconds * TicksPerSecond
    /\ start' = tick_count
    /\ called' = counter
    /\ sleep' = "check"
    /\ UNCHANGED <<counter, compare, line, kernel, tickVars, isrVars, event,
                   booted>>

(* Its locals leave the scope when it returns. *)
NoLocals == start' = 0 /\ duration_ticks' = 0 /\ called' = 0

SleepCheck ==
    /\ isr = "idle" /\ sleep = "check"
    /\ IF tick_count - start < duration_ticks
       THEN sleep' = "wfe" /\ UNCHANGED <<start, duration_ticks, called>>
       ELSE sleep' = "idle" /\ NoLocals
    /\ UNCHANGED <<counter, compare, line, kernel, tickVars, isrVars, event,
                   booted>>

(* WFE consumes an event that is already there, or sleeps until one comes.  *)
SleepWfe ==
    /\ isr = "idle" /\ sleep = "wfe"
    /\ sleep' = IF event THEN "check" ELSE "asleep"
    /\ event' = FALSE
    /\ UNCHANGED <<counter, compare, line, kernel, tickVars, isrVars, start,
                   duration_ticks, called, booted>>

(* Faulty variant: a wake-up is taken for the end of the sleep. *)
AfterWake_returns == "idle"

AfterWake == "check"

SleepWake ==
    /\ isr = "idle" /\ sleep = "asleep"
    /\ event
    /\ event' = FALSE
    /\ sleep' = AfterWake
    /\ UNCHANGED <<counter, compare, line, kernel, tickVars, isrVars, start,
                   duration_ticks, called, booted>>

Isr == IsrEnter \/ IsrCount \/ IsrExit

timer_sleep_ticks == SleepCheck \/ SleepWfe \/ SleepWake

Next ==
    \/ TimePasses
    \/ LineFollows
    \/ OtherEvent
    \/ timer_init
    \/ timer_init_start
    \/ Isr
    \/ SleepCall
    \/ timer_sleep_ticks

(* The line follows the timer, a pending interrupt is taken and its handler *)
(* runs on, and so does the interrupted code.  Time need not pass, other    *)
(* events need not come and the shell need not sleep.                       *)
Fairness == WF_vars(LineFollows) /\ WF_vars(Isr) /\ WF_vars(timer_sleep_ticks)

Spec == Init /\ [][Next]_vars /\ Fairness

-----------------------------------------------------------------------------
(* The state is well typed; a running timer has an interval to divide by.   *)
TypeOK ==
    /\ counter \in Nat /\ compare \in Nat /\ next_deadline \in Nat
    /\ now \in 0 .. counter /\ booted \in 0 .. counter /\ called \in 0 .. counter
    /\ kernel \in {"off", "arming", "running"}
    /\ tick_interval \in IF kernel = "off" THEN {0} ELSE Nat \ {0}
    /\ tick_count \in Nat /\ start \in 0 .. tick_count
    /\ duration_ticks \in 0 .. SleepMaxSeconds * TicksPerSecond
    /\ isr \in {"idle", "count", "exit"}
    /\ sleep \in {"idle", "check", "wfe", "asleep"}
    /\ line \in BOOLEAN /\ event \in BOOLEAN

(* When tick n falls due. *)
TickTime(n) == booted + n * tick_interval

(* However late and however often the handler runs, the ticks stay on the   *)
(* grid timer_init laid: no tick is counted before its time, and after a    *)
(* run of the handler every interval that had gone by is counted exactly    *)
(* once (timer.c:55-62).                                                    *)
TicksFollowTime ==
    kernel = "running" =>
        /\ next_deadline = TickTime(tick_count + 1)
        /\ TickTime(tick_count) <= counter
        /\ isr = "exit" => tick_count = (now - booted) \div tick_interval

(* The tick count never stays behind the time: moving the compare value     *)
(* leaves no deadline unnoticed that has come meanwhile (timer.c:62).       *)
TicksCatchUp ==
    (kernel = "running" /\ TickTime(tick_count + 1) <= counter)
        ~> TickTime(tick_count + 1) > counter

SleepEnds == sleep # "idle" /\ sleep' = "idle"

(* A sleep ends no earlier than the tick it waits for is due, whatever else *)
(* wakes the CPU and however late ticks are counted (timer.c:83-87).        *)
SleepEndsOnTick ==
    [][SleepEnds => counter >= TickTime(start + duration_ticks)]_vars

(* A sleep ends once the tick it waits for is due: the event the handler    *)
(* leaves closes the gap between the check and the WFE (timer.c:65, 83-86). *)
SleepReturns ==
    (sleep # "idle" /\ TickTime(start + duration_ticks) <= counter)
        ~> sleep = "idle"

(* "sleep <seconds>" returns after the given seconds (README.md:136), and   *)
(* not early (timer.c:84-85), at least when no tick was waiting to be       *)
(* counted at the call.  The code starts from the last tick before the      *)
(* call, so it can return up to one interval too soon.                      *)
SleepLastsItsTime ==
    [][SleepEnds /\ called < TickTime(start + 1)
           => counter - called >= duration_ticks * tick_interval]_vars
================================================================================
