------------------------------ MODULE TimerProofs ------------------------------
(***************************************************************************)
(* The ticks stay on their grid for every frequency of the counter, every  *)
(* tick rate and every delay of the handler, and a sleep ends on its tick. *)
(***************************************************************************)
EXTENDS Timer, Integers, TLAPS

(* A number between two neighbouring multiples of n has their quotient.     *)
LEMMA Quotient ==
  ASSUME NEW x \in Int, NEW n \in Nat \ {0}, NEW q \in Int,
         q * n <= x, x < (q + 1) * n
  PROVE  x \div n = q
<1> DEFINE p == x \div n
           s == x % n
<1>1. p \in Int /\ s \in 0 .. n - 1 /\ x = p * n + s
  OBVIOUS
<1> HIDE DEF p, s
<1>2. p * n <= x /\ x < (p + 1) * n
  <2>1. (p + 1) * n = p * n + n
    BY <1>1
  <2> QED
    BY <1>1, <2>1
<1>3. ASSUME NEW a \in Int, NEW b \in Int, a * n <= x, x < (b + 1) * n
      PROVE  a <= b
  <2>1. SUFFICES ASSUME b + 1 <= a PROVE FALSE
    BY <1>3
  <2>2. (a - (b + 1)) * n >= 0
    BY <2>1
  <2>3. (a - (b + 1)) * n = a * n - (b + 1) * n
    OBVIOUS
  <2>4. a * n \in Int /\ (b + 1) * n \in Int
    OBVIOUS
  <2> QED
    BY <1>3, <2>2, <2>3, <2>4
<1>4. p <= q /\ q <= p
  BY <1>1, <1>2, <1>3
<1>5. p = q
  BY <1>1, <1>4
<1> QED
  BY <1>5 DEF p

LEMMA TimesMonotonic ==
  ASSUME NEW a \in Nat, NEW b \in Nat, NEW n \in Nat, a <= b
  PROVE  a * n <= b * n /\ a * n \in Nat /\ b * n \in Nat
<1>1. (b - a) * n >= 0 /\ (b - a) * n = b * n - a * n
  OBVIOUS
<1>2. a * n \in Nat /\ b * n \in Nat
  OBVIOUS
<1> QED
  BY <1>1, <1>2

(* The first tick falls due a whole interval after timer_init.              *)
LEMMA IntervalPositive ==
  ASSUME NEW frequency \in Frequencies
  PROVE  Interval(frequency) \in Nat \ {0}
<1> DEFINE q == frequency \div TicksPerSecond
           r == frequency % TicksPerSecond
<1>1. frequency \in Nat /\ TicksPerSecond \in Nat \ {0}
  BY TimerAssumption
<1>2. q \in Int /\ r \in 0 .. TicksPerSecond - 1 /\ frequency = TicksPerSecond * q + r
  BY <1>1
<1> HIDE DEF q, r
<1>3. CASE frequency < TicksPerSecond
  BY <1>3 DEF Interval
<1>4. CASE frequency >= TicksPerSecond
  <2>1. SUFFICES ASSUME q <= 0 PROVE FALSE
    BY <1>1, <1>2, <1>4 DEF Interval, q
  <2>2. TicksPerSecond * q <= 0
    BY <1>1, <1>2, <2>1
  <2>3. TicksPerSecond * q \in Int
    BY <1>1, <1>2
  <2> QED
    BY <1>1, <1>2, <1>4, <2>2, <2>3
<1> QED
  BY <1>1, <1>3, <1>4
-----------------------------------------------------------------------------
(* The grid of ticks, from timer_init on, before, while and after the        *)
(* handler runs, and that neither it nor a sleep comes before the timer.    *)
OnGrid ==
    kernel # "off" =>
        /\ next_deadline = TickTime(tick_count + 1)
        /\ TickTime(tick_count) <= counter
        /\ isr = "count" => TickTime(tick_count) <= now
        /\ isr = "exit" => tick_count = (now - booted) \div tick_interval

NotYet == kernel # "running" => tick_count = 0 /\ isr = "idle" /\ sleep = "idle"

IInv == TypeOK /\ OnGrid /\ NotYet

LEMMA InitHolds == Init => IInv
<1> SUFFICES ASSUME Init PROVE IInv
  OBVIOUS
<1>1. SleepMaxSeconds * TicksPerSecond \in Nat
  BY TimerAssumption
<1>2. TypeOK
  <2>1. 0 \in 0 .. 0 /\ 0 \in 0 .. SleepMaxSeconds * TicksPerSecond
    BY <1>1
  <2> QED
    BY <2>1 DEF Init, TypeOK
<1>3. OnGrid /\ NotYet
  BY DEF Init, OnGrid, NotYet
<1> QED
  BY <1>2, <1>3 DEF IInv

(* One run of the handler counts the intervals that have gone by.           *)
LEMMA CountIsExact ==
  ASSUME IInv, IsrCount
  PROVE  /\ tick_count' \in Nat /\ tick_count <= tick_count' /\ next_deadline' \in Nat
         /\ next_deadline' = booted + (tick_count' + 1) * tick_interval
         /\ booted + tick_count' * tick_interval <= now
         /\ tick_count' = (now - booted) \div tick_interval
<1>1. kernel = "running" /\ isr = "count"
  BY DEF IInv, IsrCount, NotYet
<1>2. /\ now \in Nat /\ booted \in Nat /\ tick_count \in Nat
      /\ tick_interval \in Nat \ {0} /\ next_deadline \in Nat
      /\ next_deadline = booted + (tick_count + 1) * tick_interval
      /\ booted + tick_count * tick_interval <= now
  BY <1>1 DEF IInv, TypeOK, OnGrid, TickTime
<1>3. CASE now >= next_deadline
  <2> DEFINE d == (now - next_deadline) \div tick_interval
             r == (now - next_deadline) % tick_interval
             n == tick_count + d + 1
  <2>1. d \in Int /\ r \in 0 .. tick_interval - 1 /\ now - next_deadline = d * tick_interval + r
    BY <1>2
  <2>2. tick_count' = tick_count + (d + 1) /\ next_deadline' = next_deadline + (d + 1) * tick_interval
    BY <1>3 DEF IsrCount, CountedTicks, NextDeadline, ElapsedTicks
  <2> HIDE DEF d, r
  <2>3. d \in Nat
    <3>1. SUFFICES ASSUME d + 1 <= 0 PROVE FALSE
      BY <2>1
    <3>2. (d + 1) * tick_interval <= 0 /\ (d + 1) * tick_interval = d * tick_interval + tick_interval
      BY <1>2, <2>1, <3>1
    <3>3. d * tick_interval \in Int
      BY <1>2, <2>1
    <3> QED
      BY <1>2, <1>3, <2>1, <3>2, <3>3
  <2>4. n \in Nat /\ tick_count' = n /\ tick_count <= n
    BY <1>2, <2>2, <2>3
  <2>5. /\ n * tick_interval = (tick_count + 1) * tick_interval + d * tick_interval
        /\ (n + 1) * tick_interval = (tick_count + 1) * tick_interval + (d + 1) * tick_interval
        /\ (n + 1) * tick_interval = n * tick_interval + tick_interval
    BY <1>2, <2>3
  <2> DEFINE g == (tick_count + 1) * tick_interval
             h == d * tick_interval
             k == (d + 1) * tick_interval
             u == n * tick_interval
             v == (n + 1) * tick_interval
  <2>6. g \in Nat /\ h \in Nat /\ k \in Nat /\ u \in Nat /\ v \in Nat
    BY <1>2, <2>3, <2>4
  <2>7. /\ next_deadline' = next_deadline + k /\ next_deadline = booted + g
        /\ now - next_deadline = h + r /\ u = g + h /\ v = g + k /\ v = u + tick_interval
    BY <1>2, <2>1, <2>2, <2>5
  <2> HIDE DEF g, h, k, u, v, n
  <2>8. next_deadline' = booted + v /\ next_deadline' \in Nat /\ booted + u <= now
        /\ u <= now - booted /\ now - booted < v /\ now - booted \in Int
    BY <1>2, <2>1, <2>6, <2>7
  <2>9. (now - booted) \div tick_interval = n
    BY <1>2, <2>4, <2>8, Quotient DEF u, v
  <2> QED
    BY <2>4, <2>8, <2>9 DEF u, v
<1>4. CASE ~(now >= next_deadline)
  <2>1. tick_count' = tick_count /\ next_deadline' = next_deadline
    BY <1>4 DEF IsrCount
  <2> DEFINE u == tick_count * tick_interval
             v == (tick_count + 1) * tick_interval
  <2>2. u \in Nat /\ v \in Nat
    BY <1>2
  <2>3. u <= now - booted /\ now - booted < v /\ now - booted \in Int
    BY <1>2, <1>4, <2>2
  <2>4. (now - booted) \div tick_interval = tick_count
    BY <1>2, <2>3, Quotient
  <2> QED
    BY <1>2, <2>1, <2>4
<1> QED
  BY <1>3, <1>4

LEMMA StepKeeps ==
  ASSUME IInv, [Next]_vars
  PROVE  IInv'
<1>1. /\ counter \in Nat /\ compare \in Nat /\ next_deadline \in Nat
      /\ now \in 0 .. counter /\ booted \in 0 .. counter /\ called \in 0 .. counter
      /\ kernel \in {"off", "arming", "running"}
      /\ tick_interval \in IF kernel = "off" THEN {0} ELSE Nat \ {0}
      /\ tick_count \in Nat /\ start \in 0 .. tick_count
      /\ duration_ticks \in 0 .. SleepMaxSeconds * TicksPerSecond
      /\ isr \in {"idle", "count", "exit"}
      /\ sleep \in {"idle", "check", "wfe", "asleep"}
      /\ line \in BOOLEAN /\ event \in BOOLEAN
  BY DEF IInv, TypeOK
<1>2. OnGrid /\ NotYet
  BY DEF IInv
<1> USE DEF tickVars, isrVars, sleepVars
<1>3. CASE TimePasses
  <2> USE <1>3 DEF TimePasses
  <2>1. counter' = counter + 1 /\ counter' \in Nat /\ 0 .. counter \subseteq 0 .. counter'
    BY <1>1
  <2>2. TypeOK'
    BY <1>1, <2>1 DEF TypeOK
  <2>3. OnGrid'
    <3>1. TickTime(tick_count) \in Int
      BY <1>1 DEF TickTime
    <3>2. TickTime(tick_count) <= counter => TickTime(tick_count) <= counter'
      BY <1>1, <2>1, <3>1
    <3> QED
      BY <1>2, <3>2 DEF OnGrid, TickTime
  <2> QED
    BY <1>2, <2>2, <2>3 DEF IInv, NotYet
<1>4. CASE LineFollows
  <2> USE <1>4 DEF LineFollows, Expired
  <2>1. TypeOK'
    BY <1>1 DEF TypeOK
  <2> QED
    BY <1>2, <2>1 DEF IInv, OnGrid, TickTime, NotYet
<1>5. CASE OtherEvent
  <2> USE <1>5 DEF OtherEvent
  <2>1. TypeOK'
    BY <1>1 DEF TypeOK
  <2> QED
    BY <1>2, <2>1 DEF IInv, OnGrid, TickTime, NotYet
<1>6. CASE timer_init
  <2> USE <1>6 DEF timer_init
  <2>1. tick_interval' \in Nat \ {0} /\ booted' = counter /\ kernel' = "arming"
    BY IntervalPositive
  <2>2. next_deadline' = counter + tick_interval' /\ next_deadline' \in Nat
    BY <1>1, <2>1
  <2>3. tick_count = 0 /\ isr = "idle" /\ sleep = "idle"
    BY <1>2 DEF NotYet
  <2>4. TypeOK'
    BY <1>1, <2>1, <2>2 DEF TypeOK
  <2>5. OnGrid'
    <3>1. counter + (0 + 1) * tick_interval' = counter + tick_interval'
          /\ counter + 0 * tick_interval' = counter
      BY <1>1, <2>1
    <3> QED
      BY <1>1, <2>1, <2>2, <2>3, <3>1 DEF OnGrid, TickTime
  <2> QED
    BY <2>3, <2>4, <2>5 DEF IInv, NotYet
<1>7. CASE timer_init_start
  <2> USE <1>7 DEF timer_init_start
  <2>1. TypeOK'
    BY <1>1 DEF TypeOK
  <2> QED
    BY <1>2, <2>1 DEF IInv, OnGrid, TickTime, NotYet
<1>8. CASE IsrEnter
  <2> USE <1>8 DEF IsrEnter
  <2>1. TypeOK'
    BY <1>1 DEF TypeOK
  <2> QED
    BY <1>2, <2>1 DEF IInv, OnGrid, TickTime, NotYet
<1>9. CASE IsrCount
  <2>1. /\ isr' = "exit" /\ compare' = next_deadline' /\ kernel = "running"
        /\ UNCHANGED <<counter, line, kernel, tick_interval, now, event, sleep, start,
                       duration_ticks, called, booted>>
    BY <1>2, <1>9 DEF IsrCount, NotYet
  <2>2. /\ tick_count' \in Nat /\ tick_count <= tick_count' /\ next_deadline' \in Nat
        /\ next_deadline' = booted + (tick_count' + 1) * tick_interval
        /\ booted + tick_count' * tick_interval <= now
        /\ tick_count' = (now - booted) \div tick_interval
    BY <1>9, CountIsExact
  <2>3. start' \in 0 .. tick_count'
    BY <1>1, <2>1, <2>2
  <2>4. TypeOK'
    BY <1>1, <2>1, <2>2, <2>3 DEF TypeOK
  <2>5. OnGrid'
    <3>1. booted + tick_count' * tick_interval \in Int /\ now <= counter /\ now \in Nat
      BY <1>1, <2>1, <2>2
    <3>2. booted + tick_count' * tick_interval <= counter
      BY <1>1, <2>2, <3>1
    <3> QED
      BY <2>1, <2>2, <3>2 DEF OnGrid, TickTime
  <2> QED
    BY <2>1, <2>4, <2>5 DEF IInv, NotYet
<1>10. CASE IsrExit
  <2> USE <1>10 DEF IsrExit, Sev
  <2>1. TypeOK'
    BY <1>1 DEF TypeOK
  <2> QED
    BY <1>2, <2>1 DEF IInv, OnGrid, TickTime, NotYet
<1>11. CASE SleepCall
  <2> USE <1>11 DEF SleepCall
  <2>1. duration_ticks' \in 0 .. SleepMaxSeconds * TicksPerSecond
    <3>1. PICK seconds \in 0 .. SleepMaxSeconds : duration_ticks' = seconds * TicksPerSecond
      OBVIOUS
    <3>2. seconds \in Nat /\ SleepMaxSeconds \in Nat /\ TicksPerSecond \in Nat /\ seconds <= SleepMaxSeconds
      BY TimerAssumption
    <3>3. /\ seconds * TicksPerSecond <= SleepMaxSeconds * TicksPerSecond
          /\ seconds * TicksPerSecond \in Nat /\ SleepMaxSeconds * TicksPerSecond \in Nat
      BY <3>2, TimesMonotonic
    <3> QED
      BY <3>1, <3>3
  <2>2. TypeOK'
    BY <1>1, <2>1 DEF TypeOK
  <2> QED
    BY <1>2, <2>2 DEF IInv, OnGrid, TickTime, NotYet
<1>12. CASE SleepCheck
  <2> USE <1>12 DEF SleepCheck, NoLocals
  <2>1. 0 \in 0 .. SleepMaxSeconds * TicksPerSecond
    BY TimerAssumption
  <2>2. TypeOK'
    BY <1>1, <2>1 DEF TypeOK
  <2> QED
    BY <1>2, <2>2 DEF IInv, OnGrid, TickTime, NotYet
<1>13. CASE SleepWfe
  <2> USE <1>13 DEF SleepWfe
  <2>1. TypeOK'
    BY <1>1 DEF TypeOK
  <2> QED
    BY <1>2, <2>1 DEF IInv, OnGrid, TickTime, NotYet
<1>14. CASE SleepWake
  <2> USE <1>14 DEF SleepWake, AfterWake
  <2>1. TypeOK'
    BY <1>1 DEF TypeOK
  <2> QED
    BY <1>2, <2>1 DEF IInv, OnGrid, TickTime, NotYet
<1>15. CASE UNCHANGED vars
  <2> USE <1>15 DEF vars
  <2>1. TypeOK'
    BY <1>1 DEF TypeOK
  <2> QED
    BY <1>2, <2>1 DEF IInv, OnGrid, TickTime, NotYet
<1> QED
  BY <1>3, <1>4, <1>5, <1>6, <1>7, <1>8, <1>9, <1>10, <1>11, <1>12, <1>13, <1>14, <1>15
     DEF Next, Isr, timer_sleep_ticks

(* IInv is inductive. *)
THEOREM InvariantHolds == Spec => []IInv
BY InitHolds, StepKeeps, PTL DEF Spec

(* The state is well typed, and a running timer has an interval to divide   *)
(* by, whatever the frequency of the counter (timer.c:29-32).               *)
THEOREM TypeCorrect == Spec => []TypeOK
BY InvariantHolds, PTL DEF IInv

(* The ticks stay on the grid timer_init laid, and a run of the handler     *)
(* counts every interval that has gone by once (timer.c:55-62).             *)
THEOREM TicksOnGrid == Spec => []TicksFollowTime
<1>1. IInv => TicksFollowTime
  BY DEF IInv, OnGrid, TicksFollowTime
<1> QED
  BY InvariantHolds, <1>1, PTL

(* The tick a sleep has waited for was due when it ends.                    *)
LEMMA SleepEndIsDue ==
  ASSUME IInv, [Next]_vars, SleepEnds
  PROVE  /\ SleepCheck /\ tick_count >= start + duration_ticks
         /\ TickTime(start + duration_ticks) <= counter
<1>1. SleepCheck
  BY DEF SleepEnds, Next, vars, sleepVars, isrVars, TimePasses, LineFollows, OtherEvent,
         timer_init, timer_init_start, Isr, IsrEnter, IsrCount, IsrExit, SleepCall,
         timer_sleep_ticks, SleepWfe, SleepWake, AfterWake
<1>2. kernel = "running"
  BY <1>1 DEF SleepCheck, IInv, NotYet
<1>3. /\ counter \in Nat /\ booted \in Nat /\ tick_count \in Nat /\ start \in Nat
      /\ duration_ticks \in Nat /\ tick_interval \in Nat \ {0}
      /\ booted + tick_count * tick_interval <= counter
  BY <1>2 DEF IInv, TypeOK, OnGrid, TickTime
<1>4. ~(tick_count - start < duration_ticks)
  BY <1>1 DEF SleepCheck, SleepEnds
<1>5. start + duration_ticks \in Nat /\ start + duration_ticks <= tick_count
  BY <1>3, <1>4
<1>6. (start + duration_ticks) * tick_interval <= tick_count * tick_interval
      /\ (start + duration_ticks) * tick_interval \in Nat
      /\ tick_count * tick_interval \in Nat
  BY <1>3, <1>5, TimesMonotonic
<1> QED
  BY <1>1, <1>3, <1>5, <1>6 DEF TickTime

(* A sleep ends no earlier than the tick it waits for (timer.c:83-87).      *)
THEOREM SleepEndsInTime == Spec => SleepEndsOnTick
<1>1. IInv /\ [Next]_vars
        => [SleepEnds => counter >= TickTime(start + duration_ticks)]_vars
  <2> SUFFICES ASSUME IInv, [Next]_vars, SleepEnds
               PROVE  counter >= TickTime(start + duration_ticks)
    OBVIOUS
  <2>1. TickTime(start + duration_ticks) <= counter
    BY SleepEndIsDue
  <2>2. TickTime(start + duration_ticks) \in Int /\ counter \in Int
    BY DEF IInv, TypeOK, TickTime
  <2> QED
    BY <2>1, <2>2
<1> QED
  BY InvariantHolds, <1>1, PTL DEF Spec, SleepEndsOnTick
================================================================================
