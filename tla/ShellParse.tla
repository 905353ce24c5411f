------------------------------ MODULE ShellParse -------------------------------
(***************************************************************************)
(* parse_arguments of src/shell.c, which splits a line into arguments and  *)
(* writes them over the line it is still reading: quotes and backslashes   *)
(* make an argument shorter than its text.                                 *)
(*                                                                         *)
(* One action is one turn of one of its loops.                             *)
(***************************************************************************)
EXTENDS Naturals, Sequences

CONSTANTS
    MaxArguments,      \* SHELL_MAX_ARGUMENTS
    Ordinary,          \* the characters without a meaning
    MaxLength          \* bound: characters of a line

Space == " "
Backslash == "\\"
Quotes == {"'", "\""}
Nul == "nul"
Char == Ordinary \cup Quotes \cup {Space, Backslash}

ASSUME ParseAssumption ==
    /\ MaxArguments \in Nat \ {0} /\ MaxLength \in Nat
    /\ Ordinary \cap (Quotes \cup {Space, Backslash, Nul}) = {}

VARIABLES
    given,             \* the line as console_readline left it
    line,              \* the buffer; its last place holds the NUL
    read_cursor, write_cursor,
    arguments,         \* where each argument starts
    in_word,           \* in the inner loop
    quote,             \* the open quote, or Nul
    parse_result       \* what it returned, or "RUNNING"

vars == <<given, line, read_cursor, write_cursor, arguments, in_word, quote, parse_result>>

Init ==
    /\ given \in UNION {[1 .. n -> Char] : n \in 0 .. MaxLength}
    /\ line = Append(given, Nul)
    /\ read_cursor = 1 /\ write_cursor = 1 /\ arguments = <<>>
    /\ in_word = FALSE /\ quote = Nul /\ parse_result = "RUNNING"

Current == line[read_cursor]
Between == parse_result = "RUNNING" /\ ~in_word
Inside == parse_result = "RUNNING" /\ in_word

(* *write_cursor++ = c *)
Write(c) == /\ line' = [line EXCEPT ![write_cursor] = c]
            /\ write_cursor' = write_cursor + 1
Advance(n) == read_cursor' = read_cursor + n
WriteNothing == UNCHANGED <<line, write_cursor>>

(* Returns r, having terminated the last argument. *)
Terminate(r) == /\ line' = [line EXCEPT ![write_cursor] = Nul]
                /\ parse_result' = r
                /\ UNCHANGED <<given, read_cursor, write_cursor, arguments, in_word, quote>>

-----------------------------------------------------------------------------
(* Between arguments *)

SkipSpace ==
    /\ Between /\ Current = Space
    /\ Advance(1)
    /\ UNCHANGED <<given, line, write_cursor, arguments, in_word, quote, parse_result>>

AtEnd ==
    /\ Between /\ Current = Nul
    /\ parse_result' = "OK"
    /\ UNCHANGED <<given, line, read_cursor, write_cursor, arguments, in_word, quote>>

StartArgument ==
    /\ Between /\ Current \notin {Space, Nul}
    /\ IF Len(arguments) = MaxArguments
       THEN parse_result' = "TOO_MANY_ARGUMENTS" /\ UNCHANGED <<arguments, in_word>>
       ELSE /\ arguments' = Append(arguments, write_cursor)
            /\ in_word' = TRUE
            /\ UNCHANGED parse_result
    /\ quote' = Nul
    /\ UNCHANGED <<given, line, read_cursor, write_cursor>>

-----------------------------------------------------------------------------
(* Inside an argument *)

EndOfLine ==
    /\ Inside /\ Current = Nul
    /\ Terminate(CASE quote = "'" -> "UNTERMINATED_SINGLE_QUOTE"
                   [] quote = "\"" -> "UNTERMINATED_DOUBLE_QUOTE"
                   [] OTHER -> "OK")

TrailingBackslash ==
    /\ Inside /\ Current = Backslash /\ line[read_cursor + 1] = Nul
    /\ Terminate("TRAILING_BACKSLASH")

Escaped ==
    /\ Inside /\ Current = Backslash /\ line[read_cursor + 1] # Nul
    /\ Write(line[read_cursor + 1]) /\ Advance(2)
    /\ UNCHANGED <<given, arguments, in_word, quote, parse_result>>

(* Faulty variant: either quote closes the one that is open. *)
Closes_any == Current \in Quotes

Closes == Current = quote

Quoted ==
    /\ Inside /\ quote # Nul /\ Current \notin {Nul, Backslash}
    /\ Advance(1)
    /\ IF Closes THEN quote' = Nul /\ WriteNothing
                 ELSE Write(Current) /\ UNCHANGED quote
    /\ UNCHANGED <<given, arguments, in_word, parse_result>>

Bare == Inside /\ quote = Nul

OpenQuote ==
    /\ Bare /\ Current \in Quotes
    /\ quote' = Current
    /\ Advance(1) /\ WriteNothing
    /\ UNCHANGED <<given, arguments, in_word, parse_result>>

(* Faulty variant: the cursor moves before the NUL is written. *)
Separate_late == /\ line' = [line EXCEPT ![write_cursor + 1] = Nul]
                 /\ write_cursor' = write_cursor + 1

Separate == Write(Nul)

EndArgument ==
    /\ Bare /\ Current = Space
    /\ Separate /\ Advance(1)
    /\ in_word' = FALSE
    /\ UNCHANGED <<given, arguments, quote, parse_result>>

Copy ==
    /\ Bare /\ Current \in Ordinary
    /\ Write(Current) /\ Advance(1)
    /\ UNCHANGED <<given, arguments, in_word, quote, parse_result>>

Next ==
    \/ SkipSpace \/ AtEnd \/ StartArgument
    \/ EndOfLine \/ TrailingBackslash \/ Escaped
    \/ Quoted \/ OpenQuote \/ EndArgument \/ Copy

Spec == Init /\ [][Next]_vars

-----------------------------------------------------------------------------
(* What is still to be read is what the user typed: the write position      *)
(* never overtakes the read position, whatever quotes and backslashes took  *)
(* away before (shell.c:45).                                                *)
UnreadIntact ==
    /\ write_cursor <= read_cursor
    /\ parse_result = "RUNNING" =>
           \A i \in read_cursor .. Len(line) : line[i] = Append(given, Nul)[i]

(* The arguments, as their users see them: up to the next NUL.              *)
Argument(start) ==
    LET stop == CHOOSE i \in start .. Len(line) :
                    line[i] = Nul /\ \A j \in start .. i - 1 : line[j] # Nul
    IN  SubSeq(line, start, stop - 1)

(* The language of command lines, by a parser that copies: one character    *)
(* after the other joins the word that is open, or changes how the next one *)
(* is taken.                                                                *)
Parser(words, word, open, open_quote, escaped) ==
    [words |-> words, word |-> word, open |-> open, quote |-> open_quote,
     escaped |-> escaped]

Start == Parser(<<>>, <<>>, FALSE, Nul, FALSE)

Take(s, c) ==
    CASE s.escaped ->
             Parser(s.words, Append(s.word, c), TRUE, s.quote, FALSE)
      [] ~s.escaped /\ c = Backslash ->
             Parser(s.words, s.word, TRUE, s.quote, TRUE)
      [] ~s.escaped /\ c = s.quote ->
             Parser(s.words, s.word, TRUE, Nul, FALSE)
      [] ~s.escaped /\ s.quote = Nul /\ c \in Quotes ->
             Parser(s.words, s.word, TRUE, c, FALSE)
      [] ~s.escaped /\ s.quote = Nul /\ c = Space ->
             IF s.open THEN Parser(Append(s.words, s.word), <<>>, FALSE, Nul, FALSE) ELSE s
      [] OTHER ->
             Parser(s.words, Append(s.word, c), TRUE, s.quote, FALSE)

(* That parser after each number of characters of a text. *)
After(text) ==
    LET state[n \in 0 .. Len(text)] ==
            IF n = 0 THEN Start ELSE Take(state[n - 1], text[n])
    IN  state

Reference ==
    LET s == After(given)[Len(given)]
        words == IF s.open THEN Append(s.words, s.word) ELSE s.words
    IN  [result |-> CASE Len(words) > MaxArguments -> "TOO_MANY_ARGUMENTS"
                      [] Len(words) <= MaxArguments /\ s.escaped -> "TRAILING_BACKSLASH"
                      [] Len(words) <= MaxArguments /\ ~s.escaped /\ s.quote = "'" ->
                             "UNTERMINATED_SINGLE_QUOTE"
                      [] Len(words) <= MaxArguments /\ ~s.escaped /\ s.quote = "\"" ->
                             "UNTERMINATED_DOUBLE_QUOTE"
                      [] OTHER -> "OK",
         words |-> words]

(* What parse_arguments returns, and the arguments it leaves in the buffer, *)
(* are those of a parser that does not overwrite its input (shell.c:45).    *)
ParsesAsReference ==
    parse_result # "RUNNING" =>
        /\ parse_result = Reference.result
        /\ parse_result = "OK" => [i \in 1 .. Len(arguments) |-> Argument(arguments[i])] = Reference.words
=============================================================================
