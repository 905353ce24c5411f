------------------------------ MODULE Numbers ----------------------------------
(***************************************************************************)
(* parse_uint64 of src/shell.c, and what its callers command_sleep and     *)
(* command_taskdemo make of its value and of the number of arguments; and   *)
(* uart_put_uint64, by which the info command prints counters of any size. *)
(* All arithmetic is modulo UintMax + 1.                                   *)
(***************************************************************************)
EXTENDS Naturals, Sequences, SequencesExt

CONSTANTS
    UintMax,           \* UINT64_MAX
    SleepMax,          \* SLEEP_MAX_SECONDS
    TicksPerSecond,    \* TIMER_TICKS_PER_SECOND
    MaxRounds,         \* TASK_DEMO_MAX_ROUNDS
    DefaultRounds,     \* TASK_DEMO_DEFAULT_ROUNDS
    DigitCapacity,     \* of the buffer digits[] of uart_put_uint64
    MaxDigits          \* bound: characters of the argument

NotADigit == 10        \* stands for every character that is no digit
DigitChar == 0 .. 9 \cup {NotADigit}

TenToThe[n \in Nat] == IF n = 0 THEN 1 ELSE 10 * TenToThe[n - 1]

(* The limits and what they become fit a uint64_t, whose numbers have at most *)
(* DigitCapacity digits.                                                    *)
ASSUME NumberAssumption ==
    /\ {UintMax, SleepMax, TicksPerSecond, MaxRounds, DefaultRounds,
        DigitCapacity, MaxDigits} \subseteq Nat
    /\ UintMax >= 10 /\ TicksPerSecond # 0
    /\ SleepMax * TicksPerSecond <= UintMax /\ MaxRounds <= UintMax
    /\ TenToThe[DigitCapacity] > UintMax

VARIABLES
    command,           \* "sleep", "taskdemo" or "info"
    argument_count,    \* the command itself included
    argument,          \* arguments[1], without its NUL
    text,              \* what is still to be read of it
    result,            \* the number read so far; for "info", the counter
    digits,            \* its digits, the last one first ...
    value,             \* ... and what is left of it
    shown,             \* what was printed
    outcome            \* of the command: Parsing, Rejected, or Accepted with
                       \* the number of ticks or rounds

printVars == <<digits, value, shown>>
numbersVars ==
    <<command, argument_count, argument, text, result, printVars, outcome>>

Wrap(n) == n % (UintMax + 1)

Rejected == [accepted |-> FALSE, number |-> 0]
Accepted(n) == [accepted |-> TRUE, number |-> n]
Parsing == [accepted |-> FALSE, number |-> UintMax + 1]

NumbersInit ==
    /\ \/ /\ command \in {"sleep", "taskdemo"} /\ argument_count \in 1 .. 3
          /\ IF argument_count = 2
             THEN argument \in UNION {[1 .. n -> DigitChar] : n \in 0 .. MaxDigits}
             ELSE argument = <<>>
          /\ result = 0
       \/ /\ command = "info" /\ argument_count = 1 /\ argument = <<>>
          /\ result \in 0 .. UintMax
    /\ digits = <<>> /\ value = result /\ shown = <<>>
    /\ text = argument
    /\ outcome = Parsing

(* Faulty variant: the digit is left out of the test. *)
Overflows_by_digit(digit) == result > UintMax \div 10

Overflows(digit) == result > (UintMax - digit) \div 10

(* require_argument_count(2) of sleep, and the test of taskdemo, which may   *)
(* also go without.                                                         *)
Usage ==
    /\ outcome = Parsing
    /\ command # "info" /\ argument_count # 2
    /\ outcome' = IF command = "taskdemo" /\ argument_count = 1
                  THEN Accepted(DefaultRounds) ELSE Rejected
    /\ UNCHANGED <<command, argument_count, argument, text, result, printVars>>

Reads == outcome = Parsing /\ argument_count = 2

(* An empty argument, a character that is no digit, or a value too large.   *)
Reject ==
    /\ Reads
    /\ \/ argument = <<>>
       \/ text # <<>> /\ Head(text) = NotADigit
       \/ text # <<>> /\ Head(text) # NotADigit /\ Overflows(Head(text))
    /\ outcome' = Rejected
    /\ UNCHANGED <<command, argument_count, argument, text, result, printVars>>

Digit ==
    /\ Reads
    /\ text # <<>> /\ Head(text) # NotADigit /\ ~Overflows(Head(text))
    /\ result' = Wrap(Wrap(result * 10) + Head(text))
    /\ text' = Tail(text)
    /\ UNCHANGED <<command, argument_count, argument, printVars, outcome>>

Read == Reads /\ text = <<>> /\ argument # <<>>

command_sleep ==
    /\ command = "sleep" /\ Read
    /\ outcome' = IF result > SleepMax THEN Rejected
                                       ELSE Accepted(Wrap(result * TicksPerSecond))
    /\ UNCHANGED <<command, argument_count, argument, text, result, printVars>>

(* Faulty variant: no rounds at all are accepted. *)
RoundsOK_zero == result <= MaxRounds

RoundsOK == result # 0 /\ result <= MaxRounds

command_taskdemo ==
    /\ command = "taskdemo" /\ Read
    /\ outcome' = IF RoundsOK THEN Accepted(result) ELSE Rejected
    /\ UNCHANGED <<command, argument_count, argument, text, result, printVars>>

(* uart_put_uint64: its loop over the digits, and the loop that sends them.  *)
PutDigit ==
    /\ command = "info" /\ value # 0
    /\ digits' = Append(digits, value % 10)
    /\ value' = value \div 10
    /\ UNCHANGED <<command, argument_count, argument, text, result, shown, outcome>>

Send ==
    /\ command = "info" /\ value = 0 /\ shown = <<>>
    /\ shown' = IF result = 0 THEN <<0>> ELSE Reverse(digits)
    /\ UNCHANGED <<command, argument_count, argument, text, result, digits, value, outcome>>

NumbersNext == PutDigit \/ Send \/ Usage \/ Reject \/ Digit \/ command_sleep \/ command_taskdemo

NumbersSpec == NumbersInit /\ [][NumbersNext]_numbersVars

-----------------------------------------------------------------------------
(* The number the first k of some digits stand for, however large. *)
Value(d) ==
    LET number[k \in 0 .. Len(d)] ==
            IF k = 0 THEN 0 ELSE 10 * number[k - 1] + d[k]
    IN  number

Decimal(d) == Value(d)[Len(d)]
Written == Decimal(argument)

(* A command is accepted exactly for the numbers its message names, and     *)
(* then works with the number written: no digit string wraps around to a    *)
(* small number (shell.c:153), and the seconds become ticks without loss.   *)
(* A number printed is the number, without leading zeros, and its digits    *)
(* fit their buffer (uart.c:185).                                           *)
NumbersExact ==
    /\ Len(digits) <= DigitCapacity
    /\ shown # <<>> => Decimal(shown) = result /\ (shown[1] = 0 => shown = <<0>>)
    /\ outcome # Parsing =>
        LET number == /\ argument_count = 2 /\ argument # <<>>
                      /\ \A i \in DOMAIN argument : argument[i] # NotADigit
        IN  outcome = CASE number /\ command = "sleep" /\ Written <= SleepMax ->
                               Accepted(Written * TicksPerSecond)
                        [] number /\ command = "taskdemo" /\ Written \in 1 .. MaxRounds ->
                               Accepted(Written)
                        [] command = "taskdemo" /\ argument_count = 1 ->
                               Accepted(DefaultRounds)
                        [] OTHER -> Rejected
=============================================================================
