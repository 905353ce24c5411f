-------------------------------- MODULE Console --------------------------------
(***************************************************************************)
(* The line editor of src/console.c: console_readline reads one key after  *)
(* the other from uart_getc, follows escape sequences, edits the caller's  *)
(* buffer, echoes every change to the terminal, and keeps the lines read   *)
(* in a ring.                                                              *)
(*                                                                         *)
(* A buffer and a history entry are the characters before their NUL.  The  *)
(* terminal is the row the cursor is in, up to the cursor, and wide enough *)
(* for the prompt and a full line: wrapping is left out.  Every call       *)
(* passes a buffer of CONSOLE_LINE_CAPACITY bytes, as shell_run does.      *)
(***************************************************************************)
EXTENDS Integers, Sequences

CONSTANTS
    Capacity,          \* CONSOLE_LINE_CAPACITY
    Depth,             \* HISTORY_DEPTH
    Printable,         \* characters that can be typed ...
    Unprintable,       \* ... and control characters without a meaning here
    Prompt             \* what shell_run prints before a line

Space == " "
Up == "A"
Down == "B"
Enter == "enter"       \* '\r' or '\n'
Escape == "esc"
Erase == "erase"       \* '\b' or 0x7f

ASSUME ConsoleAssumption ==
    /\ Capacity \in Nat /\ Capacity > 1
    /\ Depth \in Nat \ {0}
    /\ (Printable \cup Unprintable) \cap {Enter, Escape, Erase} = {}

Keys == Printable \cup Unprintable \cup {Enter, Escape, Erase}

VARIABLES
    history, history_count, history_next,
    reading,           \* console_readline is running; its locals:
    line,              \* buffer[0 .. length - 1]
    draft, history_offset,
    escape,            \* its escape_state
    screen

historyVars == <<history, history_count, history_next>>
browseVars == <<draft, history_offset>>
vars == <<historyVars, reading, line, browseVars, escape, screen>>

Init ==
    /\ history = [i \in 0 .. Depth - 1 |-> <<>>]
    /\ history_count = 0 /\ history_next = 0
    /\ reading = FALSE /\ line = <<>> /\ draft = <<>> /\ history_offset = 0
    /\ escape = "NORMAL" /\ screen = <<>>

-----------------------------------------------------------------------------
copy_string(source) ==
    SubSeq(source, 1, IF Len(source) < Capacity THEN Len(source) ELSE Capacity - 1)

(* Faulty variant: counts from the slot that is written next. *)
history_entry_shifted(offset) == history[(history_next + Depth - offset + 1) % Depth]

history_entry(offset) == history[(history_next + Depth - offset) % Depth]

is_blank_line(l) == \A i \in 1 .. Len(l) : l[i] = Space

history_add(l) ==
    IF is_blank_line(l) \/ (history_count # 0 /\ l = history_entry(1))
    THEN UNCHANGED historyVars
    ELSE /\ history' = [history EXCEPT ![history_next] = copy_string(l)]
         /\ history_next' = (history_next + 1) % Depth
         /\ history_count' = IF history_count < Depth THEN history_count + 1
                                                      ELSE history_count

(* n times "\b \b". *)
RubOut(n) == SubSeq(screen, 1, Len(screen) - n)

(* Faulty variant: the old line is rubbed out with the new line's length. *)
replace_line_late(replacement) ==
    /\ line' = copy_string(replacement)
    /\ screen' = RubOut(Len(line')) \o line'

replace_line(replacement) ==
    /\ line' = copy_string(replacement)
    /\ screen' = RubOut(Len(line)) \o line'

-----------------------------------------------------------------------------
(* console_readline: the call, with the prompt before it ...                *)
Call ==
    /\ ~reading /\ reading' = TRUE
    /\ line' = <<>> /\ screen' = <<Prompt>>
    /\ UNCHANGED <<historyVars, browseVars, escape>>

(* ... and one turn of its loop, for the key uart_getc returned.            *)

Introduces(c) == escape = "SEEN" /\ c \in {"[", "O"}

Introducer(c) ==
    /\ reading /\ Introduces(c)
    /\ escape' = IF c = "[" THEN "CSI" ELSE "SS3"
    /\ UNCHANGED <<historyVars, reading, line, browseVars, screen>>

(* Faulty variant: the line on the screen is saved again at every KEY_UP. *)
SavesDraft_always == TRUE

SavesDraft == history_offset = 0

KeyUp ==
    /\ draft' = IF SavesDraft THEN copy_string(line) ELSE draft
    /\ IF history_offset < history_count
       THEN /\ history_offset' = history_offset + 1
            /\ replace_line(history_entry(history_offset'))
       ELSE UNCHANGED <<history_offset, line, screen>>

KeyDown ==
    /\ history_offset' = history_offset - 1
    /\ replace_line(IF history_offset' = 0 THEN draft ELSE history_entry(history_offset'))
    /\ UNCHANGED draft

(* The third key of a sequence; one that is no arrow is swallowed.          *)
Arrow(c) ==
    /\ reading /\ escape \in {"CSI", "SS3"}
    /\ escape' = "NORMAL"
    /\ CASE c = Up /\ history_count # 0 -> KeyUp
         [] c = Down /\ history_offset # 0 -> KeyDown
         [] OTHER -> UNCHANGED <<line, browseVars, screen>>
    /\ UNCHANGED <<historyVars, reading>>

(* Any other key, also after an ESC that introduces nothing.                *)
Plain(c) ==
    /\ reading
    /\ escape = "NORMAL" \/ (escape = "SEEN" /\ ~Introduces(c))

(* The line is read; the locals are gone.                                   *)
ReadEnter ==
    /\ Plain(Enter)
    /\ reading' = FALSE
    /\ history_add(line)
    /\ screen' = <<>> /\ escape' = "NORMAL"
    /\ draft' = <<>> /\ history_offset' = 0
    /\ UNCHANGED line

ReadEscape ==
    /\ Plain(Escape)
    /\ escape' = "SEEN"
    /\ UNCHANGED <<historyVars, reading, line, browseVars, screen>>

ReadErase ==
    /\ Plain(Erase)
    /\ escape' = "NORMAL"
    /\ IF line # <<>>
       THEN /\ line' = SubSeq(line, 1, Len(line) - 1)
            /\ screen' = RubOut(1)
       ELSE UNCHANGED <<line, screen>>
    /\ UNCHANGED <<historyVars, reading, browseVars>>

(* Faulty variant: no place is kept for the NUL. *)
HasRoom_for_no_nul == Len(line) < Capacity

HasRoom == Len(line) + 1 < Capacity

ReadChar(c) ==
    /\ Plain(c) /\ c \in Printable \cup Unprintable
    /\ escape' = "NORMAL"
    /\ IF c \in Printable /\ HasRoom
       THEN line' = Append(line, c) /\ screen' = Append(screen, c)
       ELSE UNCHANGED <<line, screen>>
    /\ UNCHANGED <<historyVars, reading, browseVars>>

Next ==
    \/ Call
    \/ \E c \in Keys : Introducer(c) \/ Arrow(c) \/ ReadChar(c)
    \/ ReadEnter \/ ReadEscape \/ ReadErase

Spec == Init /\ [][Next]_vars

-----------------------------------------------------------------------------
(* Types and bounds: a line, its NUL included, fits its buffer, and so do   *)
(* the draft and the history; no entry that was never written is shown      *)
(* (console.c:156, 192).                                                    *)
Line == UNION {[1 .. n -> Printable] : n \in 0 .. Capacity - 1}

ConsoleTypeOK ==
    /\ history \in [0 .. Depth - 1 -> Line]
    /\ history_count \in 0 .. Depth /\ history_next \in 0 .. Depth - 1
    /\ history_count < Depth => history_next = history_count
    /\ reading \in BOOLEAN
    /\ line \in Line /\ draft \in Line
    /\ history_offset \in 0 .. history_count
    /\ escape \in {"NORMAL", "SEEN", "CSI", "SS3"}
    /\ screen \in Seq(Printable \cup {Prompt})

(* After every key the terminal shows the prompt and the line that Enter    *)
(* would return: what is rubbed out and echoed adds up (console.c:100).     *)
ScreenShowsLine == reading => screen = <<Prompt>> \o line

(* The ring is the abstract editor's list of lines, and the draft its       *)
(* user's own line: arrows, edits and Enter in any order show the lines in  *)
(* the order they were read and bring the draft back (console.c:113).       *)
Editor == INSTANCE LineEditor
    WITH Chars <- Printable, MaxLength <- Capacity - 1,
         recent <- [k \in 1 .. history_count |-> history_entry(k)],
         editing <- reading, text <- line, pick <- history_offset,
         own <- IF history_offset # 0 THEN draft ELSE <<>>

RefinesEditor == Editor!EditorSpec
=============================================================================
