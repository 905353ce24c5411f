------------------------------ MODULE ShellProofs ------------------------------
(***************************************************************************)
(* parse_arguments, for every line and every number of arguments, computes *)
(* in place what a parser that copies computes; and the numbers a command  *)
(* reads and prints are exact for every argument and every size of the     *)
(* machine's integers.                                                     *)
(*                                                                         *)
(* Both specify what a loop computes by a function that is recursive on    *)
(* the length of what was read.  Such a function exists (Recursion), which *)
(* is shown by an induction over sets of numbers, from their least member  *)
(* (LeastNumber, Induction).  Then come the parser, the reading of a       *)
(* number and the printing of one.                                         *)
(***************************************************************************)
EXTENDS ShellParse, Numbers, WellFoundedInduction, TLAPS

(* Every set of numbers has a least member. *)
LEMMA LeastNumber ==
  ASSUME NEW S \in SUBSET Nat, S # {}
  PROVE  \E x \in S : \A y \in S : x <= y
<1> DEFINE R == {ss \in Nat \X Nat : ss[1] < ss[2]}
<1>1. IsWellFoundedOn(R, Nat)
  BY NatLessThanWellFounded DEF OpToRel
<1> HIDE DEF R
<1>2. \E x \in S : \A y \in S : ~ (<<y, x>> \in R)
  BY <1>1, WFMin
<1>3. ASSUME NEW x \in S, NEW y \in S, ~ (<<y, x>> \in R)
      PROVE  x <= y
  <2>1. x \in Nat /\ y \in Nat
    OBVIOUS
  <2>2. ~(y < x)
    BY <1>3, <2>1 DEF R
  <2> QED
    BY <2>1, <2>2
<1> QED
  BY <1>2, <1>3

(* What holds of 0 and passes from each number to the next holds up to N.    *)
LEMMA Induction ==
  ASSUME NEW N \in Nat, NEW S, 0 \in S,
         \A n \in 0 .. N - 1 : n \in S => n + 1 \in S
  PROVE  \A n \in 0 .. N : n \in S
<1> SUFFICES ASSUME NEW m \in 0 .. N, m \notin S
             PROVE  FALSE
  OBVIOUS
<1> DEFINE Outside == {n \in 0 .. N : n \notin S}
<1>1. PICK n \in Outside : \A k \in Outside : n <= k
  <2>1. Outside \in SUBSET Nat /\ m \in Outside
    OBVIOUS
  <2> QED
    BY <2>1, LeastNumber
<1>2. n \in 1 .. N
  BY <1>1
<1>3. n - 1 \in 0 .. N - 1 /\ n - 1 \notin Outside
  BY <1>1, <1>2
<1> QED
  BY <1>1, <1>2, <1>3

(* f is a function on 0 .. N that starts with b, each value of which follows  *)
(* from the one before by F.                                                  *)
Recursion(f, N, T, b, F) ==
    /\ f \in [0 .. N -> T]
    /\ f[0] = b
    /\ \A n \in 1 .. N : f[n] = F[n][f[n - 1]]

LEMMA RecursionExists ==
  ASSUME NEW N \in Nat, NEW T, NEW b \in T, NEW F \in [1 .. N -> [T -> T]]
  PROVE  \E f : Recursion(f, N, T, b, F)
<1> DEFINE S == {m \in 0 .. N : \E f : Recursion(f, m, T, b, F)}
<1>1. 0 \in S
  <2>1. Recursion([i \in 0 .. 0 |-> b], 0, T, b, F)
    BY DEF Recursion
  <2> QED
    BY <2>1
<1>2. ASSUME NEW m \in 0 .. N - 1, m \in S
      PROVE  m + 1 \in S
  <2>1. PICK f : Recursion(f, m, T, b, F)
    BY <1>2
  <2> DEFINE g == [i \in 0 .. m + 1 |-> IF i = m + 1 THEN F[m + 1][f[m]] ELSE f[i]]
  <2>2. m \in 0 .. m /\ m + 1 \in 1 .. N /\ m + 1 \in 0 .. N
    OBVIOUS
  <2>3. f[m] \in T
    BY <2>1, <2>2 DEF Recursion
  <2>4. F[m + 1][f[m]] \in T
    BY <2>2, <2>3
  <2>5. g \in [0 .. m + 1 -> T]
    BY <2>1, <2>4 DEF Recursion
  <2>6. g[0] = b
    BY <2>1 DEF Recursion
  <2>7. ASSUME NEW n \in 1 .. m + 1
        PROVE  g[n] = F[n][g[n - 1]]
    <3>1. CASE n = m + 1
      BY <3>1
    <3>2. CASE n # m + 1
      <4>1. n \in 1 .. m /\ n - 1 \in 0 .. m + 1 /\ n - 1 # m + 1 /\ n \in 0 .. m + 1
        BY <3>2
      <4>2. g[n] = f[n] /\ g[n - 1] = f[n - 1]
        BY <4>1, <3>2
      <4> QED
        BY <4>1, <4>2, <2>1 DEF Recursion
    <3> QED
      BY <3>1, <3>2
  <2> HIDE DEF g
  <2>8. Recursion(g, m + 1, T, b, F)
    BY <2>5, <2>6, <2>7 DEF Recursion
  <2> QED
    BY <2>2, <2>8
<1>3. \A m \in 0 .. N - 1 : m \in S => m + 1 \in S
  BY <1>2
<1> HIDE DEF S
<1>4. \A n \in 0 .. N : n \in S
  BY <1>1, <1>3, Induction
<1>5. N \in S
  BY <1>4
<1> QED
  BY <1>5 DEF S

-----------------------------------------------------------------------------
(* The parser that copies *)

ParserState ==
    [words : Seq(Seq(Char)), word : Seq(Char), open : BOOLEAN,
     quote : Quotes \cup {Nul}, escaped : BOOLEAN]

LEMMA CharNotNul == Nul \notin Char
  BY ParseAssumption DEF Char, Quotes, Space, Backslash, Nul

LEMMA FieldTypes ==
  ASSUME NEW s \in ParserState, NEW c \in Char
  PROVE  /\ s.words \in Seq(Seq(Char)) /\ s.word \in Seq(Char)
         /\ s.open \in BOOLEAN /\ s.escaped \in BOOLEAN
         /\ s.quote \in Quotes \cup {Nul} /\ c # Nul
         /\ Append(s.word, c) \in Seq(Char)
         /\ Append(s.words, s.word) \in Seq(Seq(Char))
         /\ Len(s.words) \in Nat /\ Len(s.word) \in Nat
         /\ Len(Append(s.words, s.word)) = Len(s.words) + 1
         /\ Len(Append(s.word, c)) = Len(s.word) + 1
<1>1. /\ s.words \in Seq(Seq(Char)) /\ s.word \in Seq(Char)
      /\ s.open \in BOOLEAN /\ s.escaped \in BOOLEAN
      /\ s.quote \in Quotes \cup {Nul}
  BY DEF ParserState
<1> QED
  BY <1>1, CharNotNul

LEMMA StartType ==
  /\ Start \in ParserState
  /\ Start.words = <<>> /\ Start.word = <<>> /\ Start.open = FALSE
  /\ Start.quote = Nul /\ Start.escaped = FALSE
<1>1. <<>> \in Seq(Seq(Char)) /\ <<>> \in Seq(Char)
  OBVIOUS
<1> QED
  BY <1>1 DEF Start, Parser, ParserState

(* What each kind of character does. *)
LEMMA TakeIs ==
  ASSUME NEW s \in ParserState, NEW c \in Char
  PROVE  LET t == Take(s, c)
         IN  /\ t \in ParserState
             /\ s.escaped =>
                    /\ t.words = s.words /\ t.word = Append(s.word, c)
                    /\ t.open = TRUE /\ t.quote = s.quote /\ t.escaped = FALSE
             /\ ~s.escaped /\ c = Backslash =>
                    /\ t.words = s.words /\ t.word = s.word
                    /\ t.open = TRUE /\ t.quote = s.quote /\ t.escaped = TRUE
             /\ ~s.escaped /\ c # Backslash /\ c = s.quote =>
                    /\ t.words = s.words /\ t.word = s.word
                    /\ t.open = TRUE /\ t.quote = Nul /\ t.escaped = FALSE
             /\ ~s.escaped /\ s.quote = Nul /\ c \in Quotes =>
                    /\ t.words = s.words /\ t.word = s.word
                    /\ t.open = TRUE /\ t.quote = c /\ t.escaped = FALSE
             /\ ~s.escaped /\ s.quote = Nul /\ c = Space /\ s.open =>
                    /\ t.words = Append(s.words, s.word) /\ t.word = <<>>
                    /\ t.open = FALSE /\ t.quote = Nul /\ t.escaped = FALSE
             /\ ~s.escaped /\ s.quote = Nul /\ c = Space /\ ~s.open => t = s
             /\ ~s.escaped /\ c # Backslash /\ c # s.quote
                   /\ ~(s.quote = Nul /\ c \in Quotes \cup {Space}) =>
                    /\ t.words = s.words /\ t.word = Append(s.word, c)
                    /\ t.open = TRUE /\ t.quote = s.quote /\ t.escaped = FALSE
<1> DEFINE t == Take(s, c)
<1>1. /\ s.words \in Seq(Seq(Char)) /\ s.word \in Seq(Char)
      /\ s.open \in BOOLEAN /\ s.escaped \in BOOLEAN
      /\ s.quote \in Quotes \cup {Nul} /\ c # Nul
      /\ Append(s.word, c) \in Seq(Char) /\ <<>> \in Seq(Char)
      /\ Append(s.words, s.word) \in Seq(Seq(Char))
  BY FieldTypes
<1>2. Backslash \notin Quotes /\ Space \notin Quotes /\ Backslash # Space /\ Nul # Backslash
  BY DEF Backslash, Quotes, Nul, Space
<1>3. CASE s.escaped
  <2>1. t = Parser(s.words, Append(s.word, c), TRUE, s.quote, FALSE)
    BY <1>1, <1>2, <1>3 DEF Take
  <2>2. /\ t \in ParserState
        /\ t.words = s.words /\ t.word = Append(s.word, c)
        /\ t.open = TRUE /\ t.quote = s.quote /\ t.escaped = FALSE
    BY <1>1, <1>3, <2>1 DEF Parser, ParserState
  <2> QED
    BY <1>1, <1>2, <1>3, <2>2
<1>4. CASE ~s.escaped /\ c = Backslash
  <2>1. t = Parser(s.words, s.word, TRUE, s.quote, TRUE)
    BY <1>1, <1>2, <1>4 DEF Take
  <2>2. /\ t \in ParserState
        /\ t.words = s.words /\ t.word = s.word
        /\ t.open = TRUE /\ t.quote = s.quote /\ t.escaped = TRUE
    BY <1>1, <1>4, <2>1 DEF Parser, ParserState
  <2> QED
    BY <1>1, <1>2, <1>4, <2>2
<1>5. CASE ~s.escaped /\ c # Backslash /\ c = s.quote
  <2>1. t = Parser(s.words, s.word, TRUE, Nul, FALSE)
    BY <1>1, <1>2, <1>5 DEF Take
  <2>2. /\ t \in ParserState
        /\ t.words = s.words /\ t.word = s.word
        /\ t.open = TRUE /\ t.quote = Nul /\ t.escaped = FALSE
    BY <1>1, <1>5, <2>1 DEF Parser, ParserState
  <2> QED
    BY <1>1, <1>2, <1>5, <2>2
<1>6. CASE ~s.escaped /\ s.quote = Nul /\ c \in Quotes
  <2>1. t = Parser(s.words, s.word, TRUE, c, FALSE)
    BY <1>1, <1>2, <1>6 DEF Take
  <2>2. /\ t \in ParserState
        /\ t.words = s.words /\ t.word = s.word
        /\ t.open = TRUE /\ t.quote = c /\ t.escaped = FALSE
    BY <1>1, <1>6, <2>1 DEF Parser, ParserState
  <2> QED
    BY <1>1, <1>2, <1>6, <2>2
<1>7. CASE ~s.escaped /\ s.quote = Nul /\ c = Space /\ s.open
  <2>1. t = Parser(Append(s.words, s.word), <<>>, FALSE, Nul, FALSE)
    BY <1>1, <1>2, <1>7 DEF Take
  <2>2. /\ t \in ParserState
        /\ t.words = Append(s.words, s.word) /\ t.word = <<>>
        /\ t.open = FALSE /\ t.quote = Nul /\ t.escaped = FALSE
    BY <1>1, <1>7, <2>1 DEF Parser, ParserState
  <2> QED
    BY <1>1, <1>2, <1>7, <2>2
<1>8. CASE ~s.escaped /\ s.quote = Nul /\ c = Space /\ ~s.open
  <2>1. t = s
    BY <1>1, <1>2, <1>8 DEF Take
  <2> QED
    BY <1>1, <1>2, <1>8, <2>1
<1>9. CASE /\ ~s.escaped /\ c # Backslash /\ c # s.quote
           /\ ~(s.quote = Nul /\ c \in Quotes \cup {Space})
  <2>1. t = Parser(s.words, Append(s.word, c), TRUE, s.quote, FALSE)
    BY <1>1, <1>2, <1>9 DEF Take
  <2>2. /\ t \in ParserState
        /\ t.words = s.words /\ t.word = Append(s.word, c)
        /\ t.open = TRUE /\ t.quote = s.quote /\ t.escaped = FALSE
    BY <1>1, <1>9, <2>1 DEF Parser, ParserState
  <2> QED
    BY <1>1, <1>2, <1>9, <2>2
<1> HIDE DEF t
<1> QED
  BY <1>1, <1>3, <1>4, <1>5, <1>6, <1>7, <1>8, <1>9

(* The words the parser has begun. *)
Begun(s) == Len(s.words) + IF s.open THEN 1 ELSE 0

LEMMA BegunIs ==
  ASSUME NEW s \in ParserState
  PROVE  /\ Begun(s) \in Nat
         /\ s.open => Begun(s) = Len(s.words) + 1
         /\ ~s.open => Begun(s) = Len(s.words)
<1>1. s.words \in Seq(Seq(Char)) /\ s.open \in BOOLEAN
  BY DEF ParserState
<1>2. Len(s.words) \in Nat
  BY <1>1
<1>3. CASE s.open
  BY <1>2, <1>3 DEF Begun
<1>4. CASE ~s.open
  BY <1>2, <1>4 DEF Begun
<1> QED
  BY <1>1, <1>3, <1>4

(* A character keeps the state well formed, and ends no word without keeping *)
(* it; one that is no space begins a word if none is open.                    *)
LEMMA TakeType ==
  ASSUME NEW s \in ParserState, NEW c \in Char
  PROVE  /\ Take(s, c) \in ParserState
         /\ Begun(Take(s, c)) >= Begun(s)
         /\ ~s.escaped /\ ~s.open /\ s.quote = Nul /\ c # Space =>
                Begun(Take(s, c)) = Begun(s) + 1
<1>1. /\ s.open \in BOOLEAN /\ s.escaped \in BOOLEAN /\ c # Nul
      /\ s.quote \in Quotes \cup {Nul} /\ Len(s.words) \in Nat
      /\ Len(Append(s.words, s.word)) = Len(s.words) + 1
  BY FieldTypes
<1> DEFINE t == Take(s, c)
<1>2. t \in ParserState
  BY TakeIs
<1>3. CASE s.escaped
  <2>1. t.words = s.words /\ t.open = TRUE
    BY <1>3, TakeIs
  <2> QED
    BY <1>1, <1>2, <1>3, <2>1, BegunIs
<1>4. CASE ~s.escaped /\ s.quote = Nul /\ c = Space /\ s.open
  <2>1. t.words = Append(s.words, s.word) /\ t.open = FALSE
    BY <1>4, TakeIs
  <2> QED
    BY <1>1, <1>2, <1>4, <2>1, BegunIs
<1>5. CASE ~s.escaped /\ s.quote = Nul /\ c = Space /\ ~s.open
  <2>1. Take(s, c) = s
    BY <1>5, TakeIs
  <2>2. Begun(s) \in Nat /\ Begun(Take(s, c)) = Begun(s)
    BY <2>1, BegunIs
  <2> QED
    BY <1>2, <1>5, <2>2
<1>6. CASE ~s.escaped /\ ~(s.quote = Nul /\ c = Space)
  <2>1. t.words = s.words /\ t.open = TRUE
    BY <1>1, <1>6, TakeIs
  <2> QED
    BY <1>1, <1>2, <1>6, <2>1, BegunIs
<1> QED
  BY <1>1, <1>3, <1>4, <1>5, <1>6

LEMMA AfterDef ==
  ASSUME NEW t \in Seq(Char)
  PROVE  /\ After(t) \in [0 .. Len(t) -> ParserState]
         /\ After(t)[0] = Start
         /\ \A n \in 1 .. Len(t) : After(t)[n] = Take(After(t)[n - 1], t[n])
<1> DEFINE N == Len(t)
           F == [n \in 1 .. N |-> [s \in ParserState |-> Take(s, t[n])]]
           E(f) == [n \in 0 .. N |-> IF n = 0 THEN Start ELSE Take(f[n - 1], t[n])]
<1>0. N \in Nat
  OBVIOUS
<1>1. F \in [1 .. N -> [ParserState -> ParserState]]
  BY TakeType
<1>2. PICK f : Recursion(f, N, ParserState, Start, F)
  <2> HIDE DEF F, N
  <2> QED
    BY <1>0, <1>1, StartType, RecursionExists
<1>3. ASSUME NEW n \in 1 .. N
      PROVE  f[n] = Take(f[n - 1], t[n])
  <2>1. n - 1 \in 0 .. N /\ f[n - 1] \in ParserState
    BY <1>0, <1>2 DEF Recursion
  <2> QED
    BY <1>2, <2>1 DEF Recursion
<1>4. f = E(f)
  BY <1>2, <1>3 DEF Recursion
<1>5. After(t) = CHOOSE g : g = E(g)
  BY DEF After
<1>6. After(t) = E(After(t))
  <2> HIDE DEF E
  <2> QED
    BY <1>4, <1>5
<1>7. ASSUME NEW n \in 0 .. N, After(t)[n] = f[n], n # N
      PROVE  After(t)[n + 1] = f[n + 1]
  BY <1>3, <1>6, <1>7
<1>8. \A n \in 0 .. N : After(t)[n] = f[n]
  <2> DEFINE S == {n \in 0 .. N : After(t)[n] = f[n]}
  <2>1. 0 \in S
    BY <1>2, <1>6 DEF Recursion
  <2>2. \A n \in 0 .. N - 1 : n \in S => n + 1 \in S
    BY <1>7
  <2> HIDE DEF S
  <2>3. \A n \in 0 .. N : n \in S
    BY <1>0, <2>1, <2>2, Induction
  <2> QED
    BY <2>3 DEF S
<1>9. After(t) = f
  BY <1>6, <1>8
<1> QED
  BY <1>2, <1>3, <1>9 DEF Recursion

LEMMA BegunMonotone ==
  ASSUME NEW t \in Seq(Char), NEW m \in 0 .. Len(t), NEW n \in m .. Len(t)
  PROVE  Begun(After(t)[m]) <= Begun(After(t)[n])
<1> DEFINE S == {k \in 0 .. Len(t) : k >= m => Begun(After(t)[m]) <= Begun(After(t)[k])}
<1>1. \A k \in 0 .. Len(t) : After(t)[k] \in ParserState
  BY AfterDef
<1>2. \A k \in 0 .. Len(t) : Begun(After(t)[k]) \in Nat
  BY <1>1, BegunIs
<1>3. 0 \in S
  BY <1>2
<1>4. ASSUME NEW k \in 0 .. Len(t) - 1, k \in S
      PROVE  k + 1 \in S
  <2>1. k + 1 \in 1 .. Len(t) /\ t[k + 1] \in Char
    OBVIOUS
  <2>2. Begun(After(t)[k + 1]) >= Begun(After(t)[k])
    BY <1>1, <2>1, AfterDef, TakeType
  <2>3. CASE k + 1 = m
    BY <1>2, <2>1, <2>3
  <2>4. CASE k + 1 # m
    BY <1>2, <1>4, <2>1, <2>2, <2>4
  <2> QED
    BY <2>3, <2>4
<1>5. Len(t) \in Nat /\ \A k \in 0 .. Len(t) - 1 : k \in S => k + 1 \in S
  BY <1>4
<1> HIDE DEF S
<1>6. \A k \in 0 .. Len(t) : k \in S
  BY <1>3, <1>5, Induction
<1>7. n \in S
  BY <1>6
<1> QED
  BY <1>7 DEF S

-----------------------------------------------------------------------------
(* parse_arguments, in place *)

ParseTypeOK ==
    /\ given \in Seq(Char)
    /\ line \in Seq(Char \cup {Nul}) /\ Len(line) = Len(given) + 1
    /\ read_cursor \in 1 .. Len(line) /\ write_cursor \in 1 .. Len(line)
    /\ arguments \in Seq(1 .. Len(line)) /\ Len(arguments) <= MaxArguments
    /\ in_word \in BOOLEAN /\ quote \in Quotes \cup {Nul}
    /\ parse_result \in {"RUNNING", "OK", "TOO_MANY_ARGUMENTS", "TRAILING_BACKSLASH",
                         "UNTERMINATED_SINGLE_QUOTE", "UNTERMINATED_DOUBLE_QUOTE"}

(* The copying parser after what was read. *)
Seen == After(given)[read_cursor - 1]

(* The buffer b holds the word w from start on. *)
Holds(b, start, w) ==
    /\ start + Len(w) <= Len(b)
    /\ \A i \in 1 .. Len(w) : b[start + i - 1] = w[i]

Stored(b, start, w) == Holds(b, start, w) /\ b[start + Len(w)] = Nul

(* An argument may have started without the copying parser having seen its  *)
(* first character.                                                         *)
SameMode(s) ==
    /\ ~s.escaped /\ s.quote = quote
    /\ ~s.open => s.word = <<>> /\ quote = Nul
    /\ ~in_word => ~s.open
    /\ in_word /\ ~s.open => Current \notin {Space, Nul}

(* The words that parser has finished are in the buffer ...                 *)
WordsStored(s) ==
    /\ in_word => Len(arguments) = Len(s.words) + 1
    /\ ~in_word => Len(arguments) = Len(s.words)
    /\ \A k \in 1 .. Len(s.words) :
           /\ Stored(line, arguments[k], s.words[k])
           /\ arguments[k] + Len(s.words[k]) < write_cursor

(* ... and the one it has begun is being written.                           *)
WordBegun(s) ==
    in_word =>
        /\ Holds(line, arguments[Len(arguments)], s.word)
        /\ arguments[Len(arguments)] + Len(s.word) = write_cursor

Mirrors(s) == SameMode(s) /\ WordsStored(s) /\ WordBegun(s)

(* What it returned, and the words it left. *)
Returned ==
    /\ parse_result = Reference.result
    /\ parse_result = "OK" =>
           /\ Len(arguments) = Len(Reference.words)
           /\ \A k \in 1 .. Len(arguments) : Stored(line, arguments[k], Reference.words[k])

ParseInv ==
    /\ ParseTypeOK
    /\ UnreadIntact
    /\ parse_result = "RUNNING" => Mirrors(Seen)
    /\ parse_result # "RUNNING" => Returned

(* What read_cursor points at is what the user typed there. *)
LEMMA Reading ==
  ASSUME ParseTypeOK, UnreadIntact, parse_result = "RUNNING"
  PROVE  /\ \A i \in read_cursor .. Len(given) : line[i] = given[i]
         /\ line[Len(given) + 1] = Nul
         /\ Current = Nul => read_cursor = Len(given) + 1
         /\ Current # Nul =>
                /\ read_cursor \in 1 .. Len(given)
                /\ Current = given[read_cursor] /\ Current \in Char
<1>1. /\ given \in Seq(Char) /\ Len(given) \in Nat /\ Len(line) = Len(given) + 1
      /\ read_cursor \in 1 .. Len(given) + 1
  BY DEF ParseTypeOK
<1>2. \A i \in 1 .. Len(given) : Append(given, Nul)[i] = given[i] /\ given[i] \in Char
  BY <1>1
<1>3. Append(given, Nul)[Len(given) + 1] = Nul
  BY <1>1
<1>4. \A i \in read_cursor .. Len(given) + 1 : line[i] = Append(given, Nul)[i]
  BY <1>1 DEF UnreadIntact
<1>5. \A i \in read_cursor .. Len(given) : line[i] = given[i]
  BY <1>1, <1>2, <1>4
<1>6. line[Len(given) + 1] = Nul
  BY <1>1, <1>3, <1>4
<1>7. CASE read_cursor = Len(given) + 1
  BY <1>1, <1>5, <1>6, <1>7 DEF Current
<1>8. CASE read_cursor # Len(given) + 1
  <2>1. read_cursor \in 1 .. Len(given)
    BY <1>1, <1>8
  <2>2. line[read_cursor] = given[read_cursor] /\ given[read_cursor] \in Char
    BY <1>1, <1>2, <1>5, <2>1
  <2> QED
    BY <1>5, <1>6, <2>1, <2>2, CharNotNul DEF Current
<1> QED
  BY <1>7, <1>8

LEMMA SeenType ==
  ASSUME ParseTypeOK
  PROVE  Seen \in ParserState
<1>1. given \in Seq(Char) /\ read_cursor - 1 \in 0 .. Len(given)
  BY DEF ParseTypeOK
<1> QED
  BY <1>1, AfterDef DEF Seen

(* The copying parser takes the character that is read. *)
LEMMA SeenNext ==
  ASSUME ParseTypeOK, NEW n \in 1 .. Len(given)
  PROVE  After(given)[n] = Take(After(given)[n - 1], given[n])
<1>1. given \in Seq(Char)
  BY DEF ParseTypeOK
<1> QED
  BY <1>1, AfterDef

(* Nothing is written ahead of read_cursor.                                 *)
LEMMA WriteKeepsUnread ==
  ASSUME ParseTypeOK, UnreadIntact, parse_result = "RUNNING",
         NEW c \in Char \cup {Nul}, NEW n \in Nat \ {0},
         Write(c), Advance(n), given' = given, read_cursor + n <= Len(line)
  PROVE  /\ UnreadIntact'
         /\ line' \in Seq(Char \cup {Nul}) /\ Len(line') = Len(line)
         /\ read_cursor' \in 1 .. Len(line') /\ write_cursor' \in 1 .. Len(line')
<1>1. /\ line \in Seq(Char \cup {Nul}) /\ Len(line) \in Nat
      /\ read_cursor \in 1 .. Len(line) /\ write_cursor \in 1 .. Len(line)
      /\ write_cursor <= read_cursor
  BY DEF ParseTypeOK, UnreadIntact
<1>2. /\ line' = [line EXCEPT ![write_cursor] = c]
      /\ write_cursor' = write_cursor + 1 /\ read_cursor' = read_cursor + n
  BY DEF Write, Advance
<1>3. line' \in Seq(Char \cup {Nul}) /\ Len(line') = Len(line)
  BY <1>1, <1>2
<1>4. ASSUME NEW i \in read_cursor' .. Len(line')
      PROVE  line'[i] = Append(given, Nul)[i]
  <2>1. i \in read_cursor .. Len(line) /\ i # write_cursor /\ i \in 1 .. Len(line)
    BY <1>1, <1>2, <1>3
  <2>2. line'[i] = line[i]
    BY <1>1, <1>2, <2>1
  <2> QED
    BY <2>1, <2>2 DEF UnreadIntact
<1>5. write_cursor' <= read_cursor'
  BY <1>1, <1>2
<1>6. UnreadIntact'
  BY <1>4, <1>5, given' = given DEF UnreadIntact
<1> QED
  BY <1>1, <1>2, <1>3, <1>6

LEMMA ReadKeepsUnread ==
  ASSUME ParseTypeOK, UnreadIntact, parse_result = "RUNNING",
         NEW n \in Nat, WriteNothing, Advance(n), given' = given,
         read_cursor + n <= Len(line)
  PROVE  /\ UnreadIntact'
         /\ line' = line /\ write_cursor' = write_cursor
         /\ read_cursor' \in 1 .. Len(line')
<1>1. /\ read_cursor \in 1 .. Len(line) /\ write_cursor \in 1 .. Len(line)
      /\ write_cursor <= read_cursor /\ Len(line) \in Nat
  BY DEF ParseTypeOK, UnreadIntact
<1>2. /\ line' = line /\ write_cursor' = write_cursor /\ read_cursor' = read_cursor + n
  BY DEF WriteNothing, Advance
<1>3. ASSUME NEW i \in read_cursor' .. Len(line')
      PROVE  line'[i] = Append(given, Nul)[i]
  <2>1. i \in read_cursor .. Len(line)
    BY <1>1, <1>2
  <2> QED
    BY <1>2, <2>1 DEF UnreadIntact
<1>4. write_cursor' <= read_cursor'
  BY <1>1, <1>2
<1>5. UnreadIntact'
  BY <1>3, <1>4, given' = given DEF UnreadIntact
<1> QED
  BY <1>1, <1>2, <1>5

(* A backslash that is not the last character is followed by one. *)
LEMMA EscapedPair ==
  ASSUME ParseTypeOK, UnreadIntact, Escaped
  PROVE  /\ read_cursor \in 1 .. Len(given) - 1
         /\ given[read_cursor] = Backslash
         /\ line[read_cursor + 1] = given[read_cursor + 1]
         /\ given[read_cursor + 1] \in Char
<1>1. parse_result = "RUNNING" /\ Current = Backslash /\ line[read_cursor + 1] # Nul
  BY DEF Escaped, Inside
<1>2. given \in Seq(Char) /\ Len(given) \in Nat
  BY DEF ParseTypeOK
<1>3. Current # Nul
  BY <1>1 DEF Backslash, Nul
<1>4. read_cursor \in 1 .. Len(given) /\ given[read_cursor] = Backslash
  BY <1>1, <1>3, Reading
<1>5. read_cursor + 1 # Len(given) + 1
  BY <1>1, <1>2, <1>4, Reading
<1>6. read_cursor + 1 \in read_cursor .. Len(given) /\ read_cursor + 1 \in 1 .. Len(given)
  BY <1>2, <1>4, <1>5
<1> QED
  BY <1>1, <1>2, <1>4, <1>6, Reading

LEMMA CharactersDistinct ==
  /\ Space \in Char /\ Backslash \in Char /\ Quotes \subseteq Char /\ Ordinary \subseteq Char
  /\ Nul # Space /\ Nul # Backslash /\ Nul \notin Quotes /\ Nul \notin Ordinary
  /\ Backslash # Space /\ Backslash \notin Quotes /\ Space \notin Quotes
  /\ Ordinary \cap (Quotes \cup {Space, Backslash}) = {}
  BY ParseAssumption DEF Char, Quotes, Space, Backslash, Nul

(* The other steps that write pass over one character.                      *)
LEMMA OneCharacter ==
  ASSUME ParseTypeOK, UnreadIntact,
         SkipSpace \/ Quoted \/ OpenQuote \/ EndArgument \/ Copy
  PROVE  /\ parse_result = "RUNNING" /\ given' = given /\ Advance(1)
         /\ read_cursor \in 1 .. Len(given) /\ read_cursor + 1 <= Len(line)
         /\ Current = given[read_cursor] /\ Current \in Char /\ Current # Nul
<1>1. parse_result = "RUNNING" /\ Current # Nul /\ given' = given /\ Advance(1)
  BY CharactersDistinct
  DEF SkipSpace, Quoted, OpenQuote, EndArgument, Copy, Between, Inside, Bare
<1>2. Len(line) = Len(given) + 1 /\ Len(given) \in Nat
  BY DEF ParseTypeOK
<1> QED
  BY <1>1, <1>2, Reading

LEMMA TypesKept ==
  ASSUME ParseTypeOK, UnreadIntact, [Next]_vars
  PROVE  ParseTypeOK' /\ UnreadIntact'
<1> DEFINE Buffer == /\ line' \in Seq(Char \cup {Nul}) /\ Len(line') = Len(line)
                     /\ read_cursor' \in 1 .. Len(line') /\ write_cursor' \in 1 .. Len(line')
<1>1. /\ given \in Seq(Char) /\ Len(line) = Len(given) + 1 /\ Len(given) \in Nat
      /\ line \in Seq(Char \cup {Nul})
      /\ arguments \in Seq(1 .. Len(line)) /\ Len(arguments) <= MaxArguments
      /\ read_cursor \in 1 .. Len(line) /\ write_cursor \in 1 .. Len(line)
      /\ in_word \in BOOLEAN /\ quote \in Quotes \cup {Nul}
      /\ MaxArguments \in Nat /\ Len(arguments) \in Nat
  BY ParseAssumption DEF ParseTypeOK
<1>2. ASSUME given' = given, Buffer, arguments' = arguments,
             in_word' \in BOOLEAN, quote' \in Quotes \cup {Nul},
             parse_result' = parse_result
      PROVE  ParseTypeOK'
  BY <1>2 DEF ParseTypeOK
<1>3. CASE SkipSpace
  <2>1. UnreadIntact' /\ Buffer
    BY <1>1, <1>3, OneCharacter, ReadKeepsUnread DEF SkipSpace, WriteNothing
  <2> QED
    BY <1>1, <1>2, <1>3, <2>1 DEF SkipSpace
<1>4. CASE AtEnd
  BY <1>4 DEF AtEnd, Between, ParseTypeOK, UnreadIntact
<1>5. CASE StartArgument
  <2>1. UnreadIntact'
    BY <1>5 DEF StartArgument, Between, UnreadIntact
  <2>2. CASE Len(arguments) = MaxArguments
    BY <1>5, <2>1, <2>2 DEF StartArgument, Between, ParseTypeOK
  <2>3. CASE Len(arguments) # MaxArguments
    <3>1. /\ arguments' = Append(arguments, write_cursor)
          /\ UNCHANGED <<given, line, read_cursor, write_cursor, parse_result>>
          /\ in_word' = TRUE /\ quote' = Nul
      BY <1>5, <2>3 DEF StartArgument
    <3>2. /\ arguments' \in Seq(1 .. Len(line)) /\ Len(arguments') = Len(arguments) + 1
      BY <1>1, <3>1
    <3>3. Len(arguments') <= MaxArguments
      BY <1>1, <2>3, <3>2
    <3> QED
      BY <2>1, <3>1, <3>2, <3>3 DEF ParseTypeOK
  <2> QED
    BY <2>2, <2>3
<1>6. ASSUME NEW r \in {"OK", "TRAILING_BACKSLASH", "UNTERMINATED_SINGLE_QUOTE",
                        "UNTERMINATED_DOUBLE_QUOTE"},
             Terminate(r)
      PROVE  ParseTypeOK' /\ UnreadIntact'
  <2>1. /\ line' = [line EXCEPT ![write_cursor] = Nul]
        /\ parse_result' = r
        /\ UNCHANGED <<given, read_cursor, write_cursor, arguments, in_word, quote>>
    BY <1>6 DEF Terminate
  <2>2. line' \in Seq(Char \cup {Nul}) /\ Len(line') = Len(line)
    BY <1>1, <2>1
  <2> QED
    BY <1>6, <2>1, <2>2 DEF ParseTypeOK, UnreadIntact
<1>7. CASE EndOfLine
  BY <1>6, <1>7 DEF EndOfLine
<1>8. CASE TrailingBackslash
  BY <1>6, <1>8 DEF TrailingBackslash
<1>9. CASE Escaped
  <2>1. /\ Write(line[read_cursor + 1]) /\ Advance(2)
        /\ UNCHANGED <<given, arguments, in_word, quote, parse_result>>
        /\ parse_result = "RUNNING"
    BY <1>9 DEF Escaped, Inside
  <2>2. line[read_cursor + 1] \in Char \cup {Nul} /\ read_cursor + 2 <= Len(line)
    BY <1>1, <1>9, EscapedPair
  <2>3. UnreadIntact' /\ Buffer
    BY <2>1, <2>2, WriteKeepsUnread
  <2> QED
    BY <1>1, <1>2, <2>1, <2>3
<1>10. CASE Quoted
  <2>1. CASE Closes
    <3>1. WriteNothing /\ quote' = Nul /\ UNCHANGED <<arguments, in_word, parse_result>>
      BY <1>10, <2>1 DEF Quoted
    <3>2. UnreadIntact' /\ Buffer
      BY <1>1, <1>10, <3>1, OneCharacter, ReadKeepsUnread
    <3> QED
      BY <1>1, <1>2, <1>10, <3>1, <3>2, OneCharacter
  <2>2. CASE ~Closes
    <3>1. Write(Current) /\ UNCHANGED <<quote, arguments, in_word, parse_result>>
      BY <1>10, <2>2 DEF Quoted
    <3>2. UnreadIntact' /\ Buffer
      BY <1>10, <3>1, OneCharacter, WriteKeepsUnread
    <3> QED
      BY <1>1, <1>2, <1>10, <3>1, <3>2, OneCharacter
  <2> QED
    BY <2>1, <2>2
<1>11. CASE OpenQuote
  <2>1. WriteNothing /\ quote' = Current /\ Current \in Quotes
        /\ UNCHANGED <<arguments, in_word, parse_result>>
    BY <1>11 DEF OpenQuote
  <2>2. UnreadIntact' /\ Buffer
    BY <1>1, <1>11, <2>1, OneCharacter, ReadKeepsUnread
  <2> QED
    BY <1>1, <1>2, <1>11, <2>1, <2>2, OneCharacter
<1>12. CASE EndArgument
  <2>1. Write(Nul) /\ in_word' = FALSE /\ UNCHANGED <<arguments, quote, parse_result>>
    BY <1>12 DEF EndArgument, Separate
  <2>2. UnreadIntact' /\ Buffer
    BY <1>12, <2>1, OneCharacter, WriteKeepsUnread
  <2> QED
    BY <1>1, <1>2, <1>12, <2>1, <2>2, OneCharacter
<1>13. CASE Copy
  <2>1. Write(Current) /\ UNCHANGED <<arguments, in_word, quote, parse_result>>
    BY <1>13 DEF Copy
  <2>2. UnreadIntact' /\ Buffer
    BY <1>13, <2>1, OneCharacter, WriteKeepsUnread
  <2> QED
    BY <1>1, <1>2, <1>13, <2>1, <2>2, OneCharacter
<1>14. CASE UNCHANGED vars
  BY <1>14 DEF vars, ParseTypeOK, UnreadIntact
<1> QED
  BY <1>3, <1>4, <1>5, <1>7, <1>8, <1>9, <1>10, <1>11, <1>12, <1>13, <1>14 DEF Next

(* Writing at p does not disturb a word that ends before, and continues or   *)
(* ends one that ends there.                                                *)
LEMMA HoldsAfterWrite ==
  ASSUME NEW b \in Seq(Char \cup {Nul}), NEW p \in 1 .. Len(b), NEW c \in Char \cup {Nul},
         NEW start \in 1 .. Len(b), NEW w \in Seq(Char), Holds(b, start, w)
  PROVE  LET b2 == [b EXCEPT ![p] = c]
         IN  /\ start + Len(w) <= p => Holds(b2, start, w)
             /\ start + Len(w) < p /\ Stored(b, start, w) => Stored(b2, start, w)
             /\ start + Len(w) = p /\ c = Nul => Stored(b2, start, w)
             /\ start + Len(w) = p /\ p < Len(b) => Holds(b2, start, Append(w, c))
<1> DEFINE b2 == [b EXCEPT ![p] = c]
<1>1. Len(w) \in Nat /\ Len(b) \in Nat /\ Len(b2) = Len(b) /\ start \in Nat /\ p \in Nat
  OBVIOUS
<1>2. \A i \in 1 .. Len(b) : i # p => b2[i] = b[i]
  OBVIOUS
<1>3. b2[p] = c
  OBVIOUS
<1> HIDE DEF b2
<1>4. start + Len(w) <= Len(b) /\ \A i \in 1 .. Len(w) : b[start + i - 1] = w[i]
  BY DEF Holds
<1>5. ASSUME start + Len(w) <= p
      PROVE  \A i \in 1 .. Len(w) : b2[start + i - 1] = w[i]
  <2>1. \A i \in 1 .. Len(w) : start + i - 1 \in 1 .. Len(b) /\ start + i - 1 # p
    BY <1>1, <1>4, <1>5
  <2> QED
    BY <1>2, <1>4, <2>1
<1>6. start + Len(w) <= p => Holds(b2, start, w)
  BY <1>1, <1>4, <1>5 DEF Holds
<1>7. start + Len(w) < p /\ Stored(b, start, w) => Stored(b2, start, w)
  <2>1. start + Len(w) \in 1 .. Len(b)
    BY <1>1, <1>4
  <2> QED
    BY <1>1, <1>2, <1>6, <2>1 DEF Stored
<1>8. start + Len(w) = p /\ c = Nul => Stored(b2, start, w)
  BY <1>1, <1>3, <1>6 DEF Stored
<1>9. ASSUME start + Len(w) = p, p < Len(b)
      PROVE  Holds(b2, start, Append(w, c))
  <2>1. /\ Len(Append(w, c)) = Len(w) + 1
        /\ \A i \in 1 .. Len(w) : Append(w, c)[i] = w[i]
        /\ Append(w, c)[Len(w) + 1] = c
    OBVIOUS
  <2>2. \A i \in 1 .. Len(w) : b2[start + i - 1] = w[i]
    BY <1>1, <1>5, <1>9
  <2>3. b2[start + (Len(w) + 1) - 1] = c
    BY <1>1, <1>3, <1>9
  <2>4. ASSUME NEW i \in 1 .. Len(w) + 1
        PROVE  b2[start + i - 1] = Append(w, c)[i]
    <3>1. CASE i = Len(w) + 1
      BY <2>1, <2>3, <3>1
    <3>2. CASE i # Len(w) + 1
      <4>1. i \in 1 .. Len(w)
        BY <1>1, <3>2
      <4> QED
        BY <2>1, <2>2, <4>1
    <3> QED
      BY <3>1, <3>2
  <2> QED
    BY <1>1, <1>9, <2>1, <2>4 DEF Holds
<1> QED
  BY <1>6, <1>7, <1>8, <1>9 DEF b2

(* So the words that are finished stay, whatever is written next.           *)
LEMMA WordsKept ==
  ASSUME ParseTypeOK, NEW s \in ParserState, NEW c \in Char \cup {Nul},
         \A k \in 1 .. Len(s.words) :
             /\ Stored(line, arguments[k], s.words[k])
             /\ arguments[k] + Len(s.words[k]) < write_cursor,
         Len(s.words) <= Len(arguments),
         \A k \in 1 .. Len(s.words) : arguments'[k] = arguments[k],
         line' = line \/ line' = [line EXCEPT ![write_cursor] = c],
         write_cursor' \in {write_cursor, write_cursor + 1}
  PROVE  \A k \in 1 .. Len(s.words) :
             /\ Stored(line', arguments'[k], s.words[k])
             /\ arguments'[k] + Len(s.words[k]) < write_cursor'
<1> SUFFICES ASSUME NEW k \in 1 .. Len(s.words)
             PROVE  /\ Stored(line', arguments'[k], s.words[k])
                    /\ arguments'[k] + Len(s.words[k]) < write_cursor'
  OBVIOUS
<1>1. /\ line \in Seq(Char \cup {Nul}) /\ write_cursor \in 1 .. Len(line)
      /\ Len(line) \in Nat /\ arguments \in Seq(1 .. Len(line))
  BY DEF ParseTypeOK
<1>2. s.words \in Seq(Seq(Char)) /\ Len(s.words) \in Nat
  BY FieldTypes, CharactersDistinct
<1>3. k \in 1 .. Len(arguments)
  BY <1>1, <1>2
<1>4. arguments[k] \in 1 .. Len(line) /\ s.words[k] \in Seq(Char)
  BY <1>1, <1>2, <1>3
<1>5. /\ Stored(line, arguments[k], s.words[k])
      /\ arguments[k] + Len(s.words[k]) < write_cursor
      /\ arguments'[k] = arguments[k]
  OBVIOUS
<1>6. Len(s.words[k]) \in Nat /\ Holds(line, arguments[k], s.words[k])
  BY <1>4, <1>5 DEF Stored
<1>7. Stored([line EXCEPT ![write_cursor] = c], arguments[k], s.words[k])
  BY <1>1, <1>4, <1>5, <1>6, HoldsAfterWrite
<1>8. write_cursor <= write_cursor'
  BY <1>1
<1>9. arguments'[k] + Len(s.words[k]) < write_cursor'
  <2>1. write_cursor' \in Int /\ write_cursor \in Int /\ arguments[k] \in Int
    BY <1>1, <1>4
  <2> QED
    BY <1>5, <1>6, <1>8, <2>1
<1>10. Stored(line', arguments'[k], s.words[k])
  BY <1>5, <1>7
<1> QED
  BY <1>9, <1>10

(* A character that joins the word is written behind it.                    *)
LEMMA MirrorsWrite ==
  ASSUME ParseTypeOK, NEW s \in ParserState, NEW s2 \in ParserState, NEW c \in Char,
         Mirrors(s), in_word, write_cursor < Len(line),
         Write(c), UNCHANGED <<arguments, in_word, quote>>,
         s2.words = s.words, s2.word = Append(s.word, c), s2.open = TRUE,
         s2.quote = s.quote, s2.escaped = FALSE
  PROVE  Mirrors(s2)'
<1>1. /\ line' = [line EXCEPT ![write_cursor] = c] /\ write_cursor' = write_cursor + 1
      /\ arguments' = arguments /\ in_word' = in_word /\ quote' = quote
  BY DEF Write
<1>2. SameMode(s2)'
  BY <1>1 DEF Mirrors, SameMode
<1>3. WordsStored(s2)'
  <2>1. /\ Len(s.words) <= Len(arguments) /\ Len(arguments) = Len(s.words) + 1
        /\ \A k \in 1 .. Len(s.words) :
               /\ Stored(line, arguments[k], s.words[k])
               /\ arguments[k] + Len(s.words[k]) < write_cursor
    BY FieldTypes DEF Mirrors, WordsStored
  <2>2. \A k \in 1 .. Len(s.words) :
               /\ Stored(line', arguments'[k], s.words[k])
               /\ arguments'[k] + Len(s.words[k]) < write_cursor'
    BY <1>1, <2>1, WordsKept
  <2>3. \A k \in 1 .. Len(s2.words) :
               /\ Stored(line', arguments'[k], s2.words[k])
               /\ arguments'[k] + Len(s2.words[k]) < write_cursor'
    BY <2>2
  <2>4. in_word' = TRUE /\ Len(arguments') = Len(s2.words) + 1
    BY <1>1, <2>1
  <2> QED
    BY <2>3, <2>4 DEF WordsStored
<1>4. WordBegun(s2)'
  <2> DEFINE start == arguments[Len(arguments)]
  <2>1. Holds(line, start, s.word) /\ start + Len(s.word) = write_cursor
    BY DEF Mirrors, WordBegun
  <2>2. /\ line \in Seq(Char \cup {Nul}) /\ write_cursor \in 1 .. Len(line)
        /\ arguments \in Seq(1 .. Len(line)) /\ Len(line) \in Nat
    BY DEF ParseTypeOK
  <2>3. /\ s.word \in Seq(Char) /\ Len(s2.word) = Len(s.word) + 1 /\ Len(s.word) \in Nat
        /\ Len(s.words) \in Nat
    BY FieldTypes
  <2>4. Len(arguments) \in 1 .. Len(arguments) /\ start \in 1 .. Len(line)
    BY <2>2, <2>3 DEF Mirrors, WordsStored
  <2> HIDE DEF start
  <2>5. Holds(line', start, s2.word)
    BY <1>1, <2>1, <2>2, <2>3, <2>4, HoldsAfterWrite
  <2>6. start \in Nat /\ write_cursor \in Nat /\ Len(s2.word) = Len(s.word) + 1
    BY <2>2, <2>3, <2>4
  <2>7. start + Len(s2.word) = write_cursor'
    <3>1. write_cursor' = write_cursor + 1
      BY <1>1
    <3>2. start + Len(s.word) = write_cursor
      BY <2>1
    <3>3. start + Len(s2.word) = start + (Len(s.word) + 1)
      BY <2>6
    <3>4. start + (Len(s.word) + 1) = (start + Len(s.word)) + 1
      BY <2>3, <2>6
    <3> QED
      BY <3>1, <3>2, <3>3, <3>4
  <2> QED
    BY <1>1, <2>5, <2>7 DEF WordBegun, start
<1> QED
  BY <1>2, <1>3, <1>4 DEF Mirrors

(* A quote that opens or closes leaves the word as it is.                   *)
LEMMA MirrorsQuote ==
  ASSUME ParseTypeOK, NEW s \in ParserState, NEW s2 \in ParserState,
         Mirrors(s), in_word, WriteNothing, UNCHANGED <<arguments, in_word>>,
         s2.words = s.words, s2.word = s.word, s2.open = TRUE,
         s2.quote = quote', s2.escaped = FALSE
  PROVE  Mirrors(s2)'
<1>1. /\ line' = line /\ write_cursor' = write_cursor
      /\ arguments' = arguments /\ in_word' = in_word
  BY DEF WriteNothing
<1>2. SameMode(s2)'
  BY <1>1 DEF SameMode
<1>3. WordsStored(s2)'
  BY <1>1 DEF Mirrors, WordsStored
<1>4. WordBegun(s2)'
  BY <1>1 DEF Mirrors, WordBegun
<1> QED
  BY <1>2, <1>3, <1>4 DEF Mirrors

(* A space ends the word where it is.                                       *)
LEMMA MirrorsEnd ==
  ASSUME ParseTypeOK, NEW s \in ParserState, NEW s2 \in ParserState,
         Mirrors(s), in_word, quote = Nul,
         Write(Nul), in_word' = FALSE, UNCHANGED <<arguments, quote>>,
         s2.words = Append(s.words, s.word), s2.word = <<>>, s2.open = FALSE,
         s2.quote = Nul, s2.escaped = FALSE
  PROVE  Mirrors(s2)'
<1>1. /\ line' = [line EXCEPT ![write_cursor] = Nul] /\ write_cursor' = write_cursor + 1
      /\ arguments' = arguments /\ quote' = Nul
  BY DEF Write
<1>2. SameMode(s2)'
  BY <1>1 DEF SameMode
<1>3. WordBegun(s2)'
  BY DEF WordBegun
<1>4. WordsStored(s2)'
  <2> DEFINE start == arguments[Len(arguments)]
  <2>1. /\ line \in Seq(Char \cup {Nul}) /\ write_cursor \in 1 .. Len(line)
        /\ arguments \in Seq(1 .. Len(line)) /\ Len(line) \in Nat
    BY DEF ParseTypeOK
  <2>2. /\ s.words \in Seq(Seq(Char)) /\ s.word \in Seq(Char)
        /\ Len(s.words) \in Nat /\ Len(s.word) \in Nat
    BY FieldTypes, CharactersDistinct
  <2>3. /\ Len(s.words) <= Len(arguments) /\ Len(arguments) = Len(s.words) + 1
        /\ \A k \in 1 .. Len(s.words) :
               /\ Stored(line, arguments[k], s.words[k])
               /\ arguments[k] + Len(s.words[k]) < write_cursor
    BY <2>2 DEF Mirrors, WordsStored
  <2>4. Holds(line, start, s.word) /\ start + Len(s.word) = write_cursor
    BY DEF Mirrors, WordBegun
  <2>5. start \in 1 .. Len(line)
    BY <2>1, <2>2, <2>3
  <2>6. /\ Len(s2.words) = Len(s.words) + 1
        /\ \A k \in 1 .. Len(s.words) : s2.words[k] = s.words[k]
        /\ s2.words[Len(s.words) + 1] = s.word
    BY <2>2
  <2>7. \A k \in 1 .. Len(s.words) :
               /\ Stored(line', arguments'[k], s.words[k])
               /\ arguments'[k] + Len(s.words[k]) < write_cursor'
    BY <1>1, <2>3, WordsKept
  <2> HIDE DEF start
  <2>8. Stored(line', start, s.word)
    BY <1>1, <2>1, <2>2, <2>4, <2>5, HoldsAfterWrite
  <2>9. start + Len(s.word) < write_cursor'
    BY <1>1, <2>1, <2>2, <2>4, <2>5
  <2>10. ASSUME NEW k \in 1 .. Len(s2.words)
         PROVE  /\ Stored(line', arguments'[k], s2.words[k])
                /\ arguments'[k] + Len(s2.words[k]) < write_cursor'
    <3>1. CASE k = Len(s.words) + 1
      BY <1>1, <2>3, <2>6, <2>8, <2>9, <3>1 DEF start
    <3>2. CASE k # Len(s.words) + 1
      <4>1. k \in 1 .. Len(s.words)
        BY <2>2, <2>6, <3>2
      <4> QED
        BY <2>6, <2>7, <4>1
    <3> QED
      BY <3>1, <3>2
  <2> QED
    BY <1>1, <2>3, <2>6, <2>10 DEF WordsStored
<1> QED
  BY <1>2, <1>3, <1>4 DEF Mirrors

(* An argument starts where the next character will be written.             *)
LEMMA MirrorsStart ==
  ASSUME ParseTypeOK, NEW s \in ParserState, Mirrors(s), ~in_word,
         Current \notin {Space, Nul}, arguments' = Append(arguments, write_cursor),
         in_word' = TRUE, quote' = Nul,
         UNCHANGED <<line, read_cursor, write_cursor>>
  PROVE  Mirrors(s)'
<1>1. SameMode(s)'
  BY DEF Mirrors, SameMode, Current
<1>2. /\ write_cursor \in 1 .. Len(line)
      /\ arguments \in Seq(1 .. Len(line)) /\ Len(line) \in Nat
  BY DEF ParseTypeOK
<1>3. /\ Len(arguments') = Len(arguments) + 1
      /\ \A k \in 1 .. Len(arguments) : arguments'[k] = arguments[k]
      /\ arguments'[Len(arguments')] = write_cursor
  BY <1>2
<1>4. Len(arguments) = Len(s.words)
  BY DEF Mirrors, WordsStored
<1>5. WordsStored(s)'
  BY <1>3, <1>4 DEF Mirrors, WordsStored
<1>6. WordBegun(s)'
  <2>1. s.word = <<>>
    BY DEF Mirrors, SameMode
  <2> QED
    BY <1>2, <1>3, <2>1 DEF WordBegun, Holds
<1> QED
  BY <1>1, <1>5, <1>6 DEF Mirrors

LEMMA ReferenceIs ==
  ASSUME ParseTypeOK
  PROVE  LET s == After(given)[Len(given)]
         IN  /\ s \in ParserState
             /\ s.open => Reference.words = Append(s.words, s.word)
             /\ ~s.open => Reference.words = s.words
             /\ Begun(s) > MaxArguments => Reference.result = "TOO_MANY_ARGUMENTS"
             /\ Begun(s) <= MaxArguments /\ s.escaped =>
                    Reference.result = "TRAILING_BACKSLASH"
             /\ Begun(s) <= MaxArguments /\ ~s.escaped /\ s.quote = "'" =>
                    Reference.result = "UNTERMINATED_SINGLE_QUOTE"
             /\ Begun(s) <= MaxArguments /\ ~s.escaped /\ s.quote = "\"" =>
                    Reference.result = "UNTERMINATED_DOUBLE_QUOTE"
             /\ Begun(s) <= MaxArguments /\ ~s.escaped /\ s.quote = Nul =>
                    Reference.result = "OK"
<1> DEFINE s == After(given)[Len(given)]
           words == IF s.open THEN Append(s.words, s.word) ELSE s.words
           result_of == CASE Len(words) > MaxArguments -> "TOO_MANY_ARGUMENTS"
                   [] Len(words) <= MaxArguments /\ s.escaped -> "TRAILING_BACKSLASH"
                   [] Len(words) <= MaxArguments /\ ~s.escaped /\ s.quote = "'" ->
                             "UNTERMINATED_SINGLE_QUOTE"
                   [] Len(words) <= MaxArguments /\ ~s.escaped /\ s.quote = "\"" ->
                             "UNTERMINATED_DOUBLE_QUOTE"
                   [] OTHER -> "OK"
<1>1. s \in ParserState
  BY AfterDef DEF ParseTypeOK
<1>2. Reference.words = words /\ Reference.result = result_of
  BY DEF Reference
<1> HIDE DEF s
<1>3. s.open \in BOOLEAN /\ s.escaped \in BOOLEAN
  BY <1>1, FieldTypes, CharactersDistinct
<1>4. Len(words) = Begun(s) /\ Begun(s) \in Nat
  <2>1. Len(Append(s.words, s.word)) = Len(s.words) + 1
    BY <1>1, FieldTypes, CharactersDistinct
  <2>2. CASE s.open
    BY <1>1, <2>1, <2>2, BegunIs
  <2>3. CASE ~s.open
    BY <1>1, <2>3, BegunIs
  <2> QED
    BY <1>3, <2>2, <2>3
<1>5. (s.open => words = Append(s.words, s.word)) /\ (~s.open => words = s.words)
  OBVIOUS
<1> HIDE DEF words
<1>6. MaxArguments \in Nat
  BY ParseAssumption
<1>7. ASSUME Begun(s) > MaxArguments
      PROVE  result_of = "TOO_MANY_ARGUMENTS"
  <2>1. Len(words) > MaxArguments /\ ~(Len(words) <= MaxArguments)
    BY <1>4, <1>6, <1>7
  <2> QED
    BY <2>1
<1>8. Begun(s) <= MaxArguments => ~(Len(words) > MaxArguments) /\ Len(words) <= MaxArguments
  BY <1>4, <1>6
<1>9. Begun(s) <= MaxArguments /\ s.escaped => result_of = "TRAILING_BACKSLASH"
  BY <1>3, <1>8
<1>10. Begun(s) <= MaxArguments /\ ~s.escaped /\ s.quote = "'" =>
           result_of = "UNTERMINATED_SINGLE_QUOTE"
  BY <1>3, <1>8
<1>11. Begun(s) <= MaxArguments /\ ~s.escaped /\ s.quote = "\"" =>
           result_of = "UNTERMINATED_DOUBLE_QUOTE"
  BY <1>3, <1>8
<1>12. Begun(s) <= MaxArguments /\ ~s.escaped /\ s.quote = Nul => result_of = "OK"
  BY <1>3, <1>8 DEF Nul
<1> HIDE DEF result_of
<1> QED
  BY <1>1, <1>2, <1>5, <1>7, <1>9, <1>10, <1>11, <1>12 DEF s

(* At the end of the line the two parsers have seen the same.               *)
LEMMA ReturnsAtEnd ==
  ASSUME ParseInv, AtEnd
  PROVE  ParseInv'
<1> DEFINE s == Seen
<1>1. /\ parse_result = "RUNNING" /\ ~in_word /\ Current = Nul /\ parse_result' = "OK"
      /\ UNCHANGED <<given, line, read_cursor, write_cursor, arguments, in_word, quote>>
  BY DEF AtEnd, Between
<1>2. ParseTypeOK /\ UnreadIntact /\ Mirrors(s)
  BY <1>1 DEF ParseInv
<1>3. ParseTypeOK' /\ UnreadIntact'
  BY <1>2, TypesKept DEF Next
<1>4. s = After(given)[Len(given)] /\ s \in ParserState
  <2>1. read_cursor = Len(given) + 1 /\ Len(given) \in Nat
    BY <1>1, <1>2, Reading DEF ParseTypeOK
  <2> QED
    BY <1>2, <2>1, SeenType DEF Seen
<1> HIDE DEF s
<1>5. ~s.escaped /\ ~s.open /\ s.quote = Nul /\ Len(arguments) = Len(s.words)
  BY <1>1, <1>2 DEF Mirrors, SameMode, WordsStored
<1>6. Begun(s) <= MaxArguments
  BY <1>2, <1>4, <1>5, BegunIs DEF ParseTypeOK
<1>7. Reference.result = "OK" /\ Reference.words = s.words
  BY <1>2, <1>4, <1>5, <1>6, ReferenceIs
<1>8. Reference' = Reference
  BY <1>1 DEF Reference
<1>9. \A k \in 1 .. Len(arguments) : Stored(line, arguments[k], Reference.words[k])
  BY <1>2, <1>5, <1>7 DEF Mirrors, WordsStored
<1>10. Returned'
  BY <1>1, <1>5, <1>7, <1>8, <1>9 DEF Returned
<1> QED
  BY <1>1, <1>3, <1>10 DEF ParseInv

(* An argument too many: the copying parser will have begun one more word.  *)
LEMMA ReturnsTooMany ==
  ASSUME ParseInv, StartArgument, Len(arguments) = MaxArguments
  PROVE  ParseInv'
<1> DEFINE s == Seen
<1>1. /\ parse_result = "RUNNING" /\ ~in_word /\ Current \notin {Space, Nul}
      /\ parse_result' = "TOO_MANY_ARGUMENTS"
      /\ UNCHANGED <<given, line, read_cursor, write_cursor>>
  BY DEF StartArgument, Between
<1>2. ParseTypeOK /\ UnreadIntact /\ Mirrors(s)
  BY <1>1 DEF ParseInv
<1>3. ParseTypeOK' /\ UnreadIntact'
  BY <1>2, TypesKept DEF Next
<1>4. /\ read_cursor \in 1 .. Len(given) /\ Current = given[read_cursor]
      /\ Current \in Char /\ given \in Seq(Char) /\ Len(given) \in Nat
  BY <1>1, <1>2, Reading DEF ParseTypeOK
<1>5. s \in ParserState /\ s = After(given)[read_cursor - 1]
  BY <1>2, SeenType DEF Seen
<1> HIDE DEF s
<1>6. After(given)[read_cursor] = Take(s, Current)
  BY <1>2, <1>4, <1>5, SeenNext
<1>7. ~s.escaped /\ ~s.open /\ s.quote = Nul /\ Len(arguments) = Len(s.words)
  <2>1. SameMode(s) /\ WordsStored(s)
    BY <1>2 DEF Mirrors
  <2> QED
    BY <1>1, <2>1 DEF SameMode, WordsStored
<1>8. Begun(After(given)[read_cursor]) = MaxArguments + 1
  BY <1>1, <1>4, <1>5, <1>6, <1>7, TakeType, BegunIs
<1>9. Begun(After(given)[Len(given)]) > MaxArguments
  <2>1. /\ read_cursor \in 0 .. Len(given) /\ Len(given) \in read_cursor .. Len(given)
        /\ Len(given) \in 0 .. Len(given)
    BY <1>4
  <2>2. Begun(After(given)[read_cursor]) <= Begun(After(given)[Len(given)])
    BY <1>4, <2>1, BegunMonotone
  <2>3. Begun(After(given)[Len(given)]) \in Nat
    BY <1>4, <2>1, AfterDef, BegunIs
  <2> QED
    BY <1>8, <2>2, <2>3, ParseAssumption
<1>10. Reference.result = "TOO_MANY_ARGUMENTS"
  BY <1>2, <1>9, ReferenceIs
<1>11. Reference' = Reference
  BY <1>1 DEF Reference
<1>12. Returned'
  BY <1>1, <1>10, <1>11 DEF Returned
<1> QED
  BY <1>1, <1>3, <1>12 DEF ParseInv

(* The line ends inside an argument, perhaps in a quote.                    *)
LEMMA ReturnsInWord ==
  ASSUME ParseInv, EndOfLine
  PROVE  ParseInv'
<1> DEFINE s == Seen
           start == arguments[Len(arguments)]
<1>1. /\ parse_result = "RUNNING" /\ in_word /\ Current = Nul
      /\ line' = [line EXCEPT ![write_cursor] = Nul]
      /\ UNCHANGED <<given, read_cursor, write_cursor, arguments, in_word, quote>>
  BY DEF EndOfLine, Inside, Terminate
<1>0. parse_result' = CASE quote = "'" -> "UNTERMINATED_SINGLE_QUOTE"
                        [] quote = "\"" -> "UNTERMINATED_DOUBLE_QUOTE"
                        [] OTHER -> "OK"
  BY DEF EndOfLine, Terminate
<1>2. ParseTypeOK /\ UnreadIntact /\ Mirrors(s)
  BY <1>1 DEF ParseInv
<1>3. ParseTypeOK' /\ UnreadIntact'
  BY <1>2, TypesKept DEF Next
<1>4. s = After(given)[Len(given)] /\ s \in ParserState
  <2>1. read_cursor = Len(given) + 1 /\ Len(given) \in Nat
    BY <1>1, <1>2, Reading DEF ParseTypeOK
  <2> QED
    BY <1>2, <2>1, SeenType DEF Seen
<1> HIDE DEF s
<1>5. /\ ~s.escaped /\ s.open /\ s.quote = quote /\ Len(arguments) = Len(s.words) + 1
      /\ quote \in Quotes \cup {Nul}
  <2>1. SameMode(s) /\ WordsStored(s) /\ s.open \in BOOLEAN
    BY <1>2, <1>4, FieldTypes, CharactersDistinct DEF Mirrors
  <2> QED
    BY <1>1, <1>2, <2>1 DEF SameMode, WordsStored, ParseTypeOK
<1>6. Begun(s) <= MaxArguments
  BY <1>2, <1>4, <1>5, BegunIs DEF ParseTypeOK
<1>7. Reference.words = Append(s.words, s.word)
  BY <1>2, <1>4, <1>5, ReferenceIs
<1>8. parse_result' = Reference.result /\ parse_result' # "RUNNING"
  <2>1. CASE quote = "'"
    <3>1. parse_result' = "UNTERMINATED_SINGLE_QUOTE"
      BY <1>0, <2>1
    <3> QED
      BY <1>2, <1>4, <1>5, <1>6, <2>1, <3>1, ReferenceIs
  <2>2. CASE quote = "\""
    <3>1. parse_result' = "UNTERMINATED_DOUBLE_QUOTE"
      BY <1>0, <2>2
    <3> QED
      BY <1>2, <1>4, <1>5, <1>6, <2>2, <3>1, ReferenceIs
  <2>3. CASE quote = Nul
    <3>1. parse_result' = "OK"
      BY <1>0, <2>3 DEF Nul
    <3> QED
      BY <1>2, <1>4, <1>5, <1>6, <2>3, <3>1, ReferenceIs
  <2> QED
    BY <1>5, <2>1, <2>2, <2>3 DEF Quotes
<1>9. Reference' = Reference
  BY <1>1 DEF Reference
<1>10. /\ line \in Seq(Char \cup {Nul}) /\ write_cursor \in 1 .. Len(line)
       /\ arguments \in Seq(1 .. Len(line)) /\ Len(line) \in Nat
  BY <1>2 DEF ParseTypeOK
<1>11. /\ s.words \in Seq(Seq(Char)) /\ s.word \in Seq(Char)
       /\ Len(s.words) \in Nat /\ Len(s.word) \in Nat
  BY <1>4, FieldTypes, CharactersDistinct
<1>12. /\ Len(s.words) <= Len(arguments)
       /\ \A k \in 1 .. Len(s.words) :
              /\ Stored(line, arguments[k], s.words[k])
              /\ arguments[k] + Len(s.words[k]) < write_cursor
  BY <1>2, <1>5, <1>11 DEF Mirrors, WordsStored
<1>13. \A k \in 1 .. Len(s.words) : Stored(line', arguments'[k], s.words[k])
  BY <1>1, <1>2, <1>4, <1>12, WordsKept
<1>14. Holds(line, start, s.word) /\ start + Len(s.word) = write_cursor
  BY <1>1, <1>2 DEF Mirrors, WordBegun
<1>15. start \in 1 .. Len(line)
  BY <1>5, <1>10, <1>11
<1> HIDE DEF start
<1>16. Stored(line', start, s.word)
  BY <1>1, <1>10, <1>11, <1>14, <1>15, HoldsAfterWrite
<1>17. /\ Len(Append(s.words, s.word)) = Len(s.words) + 1
       /\ \A k \in 1 .. Len(s.words) : Append(s.words, s.word)[k] = s.words[k]
       /\ Append(s.words, s.word)[Len(s.words) + 1] = s.word
  BY <1>11
<1>18. ASSUME NEW k \in 1 .. Len(arguments)
       PROVE  Stored(line', arguments'[k], Reference.words[k])
  <2>1. CASE k = Len(s.words) + 1
    BY <1>1, <1>5, <1>7, <1>16, <1>17, <2>1 DEF start
  <2>2. CASE k # Len(s.words) + 1
    <3>1. k \in 1 .. Len(s.words)
      BY <1>5, <1>11, <2>2
    <3> QED
      BY <1>7, <1>13, <1>17, <3>1
  <2> QED
    BY <2>1, <2>2
<1>19. Len(arguments) = Len(Reference.words)
  BY <1>5, <1>7, <1>17
<1>20. Returned'
  BY <1>1, <1>8, <1>9, <1>18, <1>19 DEF Returned
<1> QED
  BY <1>3, <1>8, <1>20 DEF ParseInv

(* A backslash with nothing behind it.                                      *)
LEMMA ReturnsOnBackslash ==
  ASSUME ParseInv, TrailingBackslash
  PROVE  ParseInv'
<1> DEFINE s == Seen
<1>1. /\ parse_result = "RUNNING" /\ in_word /\ Current = Backslash
      /\ line[read_cursor + 1] = Nul /\ parse_result' = "TRAILING_BACKSLASH"
      /\ given' = given
  BY DEF TrailingBackslash, Inside, Terminate
<1>2. ParseTypeOK /\ UnreadIntact /\ Mirrors(s)
  BY <1>1 DEF ParseInv
<1>3. ParseTypeOK' /\ UnreadIntact'
  BY <1>2, TypesKept DEF Next
<1>4. /\ read_cursor \in 1 .. Len(given) /\ given[read_cursor] = Backslash
      /\ given \in Seq(Char) /\ Len(given) \in Nat
  BY <1>1, <1>2, Reading, CharactersDistinct DEF ParseTypeOK
<1>5. read_cursor = Len(given)
  <2>1. SUFFICES ASSUME read_cursor + 1 \in 1 .. Len(given)
                 PROVE  FALSE
    BY <1>4
  <2>2. line[read_cursor + 1] = given[read_cursor + 1]
    BY <1>1, <1>2, <1>4, <2>1, Reading
  <2>3. given[read_cursor + 1] \in Char
    BY <1>4, <2>1
  <2> QED
    BY <1>1, <2>2, <2>3, CharNotNul
<1>6. s \in ParserState /\ s = After(given)[Len(given) - 1]
  BY <1>2, <1>5, SeenType DEF Seen
<1> HIDE DEF s
<1> DEFINE s2 == After(given)[Len(given)]
<1>7. s2 = Take(s, Backslash)
  BY <1>2, <1>4, <1>5, <1>6, SeenNext
<1>8. ~s.escaped /\ Len(arguments) = Len(s.words) + 1 /\ Len(arguments) <= MaxArguments
  BY <1>1, <1>2 DEF Mirrors, SameMode, WordsStored, ParseTypeOK
<1> HIDE DEF s2
<1>9. s2 \in ParserState /\ s2.words = s.words /\ s2.open = TRUE /\ s2.escaped = TRUE
  BY <1>6, <1>7, <1>8, TakeIs, CharactersDistinct
<1>10. Begun(s2) <= MaxArguments
  BY <1>8, <1>9, BegunIs
<1>11. Reference.result = "TRAILING_BACKSLASH"
  BY <1>2, <1>9, <1>10, ReferenceIs DEF s2
<1>12. Reference' = Reference
  BY <1>1 DEF Reference
<1>13. Returned'
  BY <1>1, <1>11, <1>12 DEF Returned
<1> QED
  BY <1>1, <1>3, <1>13 DEF ParseInv

-----------------------------------------------------------------------------
(* The steps that go on                                                     *)

LEMMA MirrorsSeen ==
  ASSUME NEW s, Seen' = s, Mirrors(s)'
  PROVE  Mirrors(Seen)'
BY DEF Mirrors, SameMode, WordsStored, WordBegun

(* Reading one character, the copying parser takes it too.                  *)
LEMMA SeenAdvances ==
  ASSUME ParseTypeOK, UnreadIntact,
         SkipSpace \/ Quoted \/ OpenQuote \/ EndArgument \/ Copy
  PROVE  /\ Seen \in ParserState /\ Take(Seen, Current) \in ParserState
         /\ Seen' = Take(Seen, Current)
<1>1. /\ given' = given /\ read_cursor' = read_cursor + 1
      /\ read_cursor \in 1 .. Len(given) /\ Current = given[read_cursor]
      /\ Current \in Char
  BY OneCharacter DEF Advance
<1>2. Seen \in ParserState
  BY SeenType
<1>3. Take(Seen, Current) \in ParserState
  BY <1>1, <1>2, TakeType
<1>4. After(given)[read_cursor] = Take(After(given)[read_cursor - 1], Current)
  BY <1>1, SeenNext
<1>5. Seen' = After(given)[read_cursor]
  <2>1. read_cursor' - 1 = read_cursor
    BY <1>1
  <2> QED
    BY <1>1, <2>1 DEF Seen
<1> QED
  BY <1>2, <1>3, <1>4, <1>5 DEF Seen

LEMMA SkipSpaceMirrors ==
  ASSUME ParseInv, SkipSpace
  PROVE  Mirrors(Seen)'
<1>1. /\ parse_result = "RUNNING" /\ ~in_word /\ Current = Space
      /\ UNCHANGED <<line, write_cursor, arguments, in_word, quote>>
  BY DEF SkipSpace, Between
<1>2. ParseTypeOK /\ UnreadIntact /\ Mirrors(Seen)
  BY <1>1 DEF ParseInv
<1>3. PICK s : s = Seen
  OBVIOUS
<1>4. s \in ParserState /\ Seen' = Take(s, Space)
  BY <1>1, <1>2, <1>3, SeenAdvances
<1>5. Mirrors(s)
  BY <1>2, <1>3
<1>6. ~s.escaped /\ ~s.open /\ s.quote = Nul
  BY <1>1, <1>5 DEF Mirrors, SameMode
<1>7. Seen' = s
  BY <1>4, <1>6, TakeIs, CharactersDistinct
<1>8. Mirrors(s)'
  BY <1>1, <1>5 DEF Mirrors, SameMode, WordsStored, WordBegun
<1> QED
  BY <1>7, <1>8, MirrorsSeen

LEMMA StartArgumentMirrors ==
  ASSUME ParseInv, StartArgument, Len(arguments) # MaxArguments
  PROVE  Mirrors(Seen)'
<1>1. /\ parse_result = "RUNNING" /\ ~in_word /\ Current \notin {Space, Nul}
      /\ arguments' = Append(arguments, write_cursor) /\ in_word' = TRUE /\ quote' = Nul
      /\ UNCHANGED <<given, line, read_cursor, write_cursor>>
  BY DEF StartArgument, Between
<1>2. ParseTypeOK /\ UnreadIntact /\ Mirrors(Seen)
  BY <1>1 DEF ParseInv
<1>3. PICK s : s = Seen
  OBVIOUS
<1>4. s \in ParserState /\ Mirrors(s)
  BY <1>2, <1>3, SeenType
<1>5. Mirrors(s)'
  BY <1>1, <1>2, <1>4, MirrorsStart
<1>6. Seen' = s
  BY <1>1, <1>3 DEF Seen
<1> QED
  BY <1>5, <1>6, MirrorsSeen

LEMMA OpenQuoteMirrors ==
  ASSUME ParseInv, OpenQuote
  PROVE  Mirrors(Seen)'
<1>1. /\ parse_result = "RUNNING" /\ in_word /\ quote = Nul /\ Current \in Quotes
      /\ quote' = Current /\ WriteNothing /\ UNCHANGED <<arguments, in_word>>
  BY DEF OpenQuote, Bare, Inside
<1>2. ParseTypeOK /\ UnreadIntact /\ Mirrors(Seen)
  BY <1>1 DEF ParseInv
<1>3. PICK s, c, s2 : s = Seen /\ c = Current /\ s2 = Take(s, c)
  OBVIOUS
<1>4. s \in ParserState /\ s2 \in ParserState /\ Seen' = s2 /\ c \in Char
  BY <1>1, <1>2, <1>3, SeenAdvances, OneCharacter
<1>5. Mirrors(s)
  BY <1>2, <1>3
<1>6. ~s.escaped /\ s.quote = Nul
  BY <1>1, <1>5 DEF Mirrors, SameMode
<1>7. /\ s2.words = s.words /\ s2.word = s.word /\ s2.open = TRUE
      /\ s2.quote = quote' /\ s2.escaped = FALSE
  BY <1>1, <1>3, <1>4, <1>6, TakeIs
<1>8. Mirrors(s2)'
  BY <1>1, <1>2, <1>4, <1>5, <1>7, MirrorsQuote
<1> QED
  BY <1>4, <1>8, MirrorsSeen

LEMMA EndArgumentMirrors ==
  ASSUME ParseInv, EndArgument
  PROVE  Mirrors(Seen)'
<1>1. /\ parse_result = "RUNNING" /\ in_word /\ quote = Nul /\ Current = Space
      /\ Write(Nul) /\ in_word' = FALSE /\ UNCHANGED <<arguments, quote>>
  BY DEF EndArgument, Bare, Inside, Separate
<1>2. ParseTypeOK /\ UnreadIntact /\ Mirrors(Seen)
  BY <1>1 DEF ParseInv
<1>3. PICK s, s2 : s = Seen /\ s2 = Take(s, Space)
  OBVIOUS
<1>4. s \in ParserState /\ s2 \in ParserState /\ Seen' = s2
  BY <1>1, <1>2, <1>3, SeenAdvances
<1>5. Mirrors(s)
  BY <1>2, <1>3
<1>6. ~s.escaped /\ s.open /\ s.quote = Nul
  <2>1. s.open \in BOOLEAN
    BY <1>4, FieldTypes, CharactersDistinct
  <2> QED
    BY <1>1, <1>5, <2>1 DEF Mirrors, SameMode
<1>7. /\ s2.words = Append(s.words, s.word) /\ s2.word = <<>> /\ s2.open = FALSE
      /\ s2.quote = Nul /\ s2.escaped = FALSE
  BY <1>3, <1>4, <1>6, TakeIs, CharactersDistinct
<1>8. Mirrors(s2)'
  BY <1>1, <1>2, <1>4, <1>5, <1>7, MirrorsEnd
<1> QED
  BY <1>4, <1>8, MirrorsSeen

(* There is room for a character as long as one is left to be read.         *)
LEMMA RoomToWrite ==
  ASSUME ParseTypeOK, UnreadIntact, read_cursor \in 1 .. Len(given)
  PROVE  write_cursor < Len(line)
BY DEF ParseTypeOK, UnreadIntact

LEMMA CopyMirrors ==
  ASSUME ParseInv, Copy
  PROVE  Mirrors(Seen)'
<1>1. /\ parse_result = "RUNNING" /\ in_word /\ quote = Nul /\ Current \in Ordinary
      /\ Write(Current) /\ UNCHANGED <<arguments, in_word, quote>>
  BY DEF Copy, Bare, Inside
<1>2. ParseTypeOK /\ UnreadIntact /\ Mirrors(Seen)
  BY <1>1 DEF ParseInv
<1>3. PICK s, c, s2 : s = Seen /\ c = Current /\ s2 = Take(s, c)
  OBVIOUS
<1>4. /\ s \in ParserState /\ s2 \in ParserState /\ Seen' = s2 /\ c \in Char
      /\ write_cursor < Len(line)
  BY <1>2, <1>3, SeenAdvances, OneCharacter, RoomToWrite
<1>5. Mirrors(s)
  BY <1>2, <1>3
<1>6. ~s.escaped /\ s.quote = Nul
  BY <1>1, <1>5 DEF Mirrors, SameMode
<1>7. c # Backslash /\ c # s.quote /\ ~(s.quote = Nul /\ c \in Quotes \cup {Space})
  BY <1>1, <1>3, <1>6, CharactersDistinct
<1>8. /\ s2.words = s.words /\ s2.word = Append(s.word, c) /\ s2.open = TRUE
      /\ s2.quote = s.quote /\ s2.escaped = FALSE
  BY <1>3, <1>4, <1>6, <1>7, TakeIs
<1>9. Write(c)
  BY <1>1, <1>3
<1>10. Mirrors(s2)'
  BY <1>1, <1>2, <1>4, <1>5, <1>8, <1>9, MirrorsWrite
<1> QED
  BY <1>4, <1>10, MirrorsSeen

LEMMA QuotedMirrors ==
  ASSUME ParseInv, Quoted
  PROVE  Mirrors(Seen)'
<1>1. /\ parse_result = "RUNNING" /\ in_word /\ quote # Nul /\ Current \notin {Nul, Backslash}
      /\ UNCHANGED <<arguments, in_word>>
  BY DEF Quoted, Inside
<1>2. ParseTypeOK /\ UnreadIntact /\ Mirrors(Seen)
  BY <1>1 DEF ParseInv
<1>3. PICK s, c, s2 : s = Seen /\ c = Current /\ s2 = Take(s, c)
  OBVIOUS
<1>4. /\ s \in ParserState /\ s2 \in ParserState /\ Seen' = s2 /\ c \in Char
      /\ write_cursor < Len(line)
  BY <1>2, <1>3, SeenAdvances, OneCharacter, RoomToWrite
<1>5. Mirrors(s)
  BY <1>2, <1>3
<1>6. ~s.escaped /\ s.quote = quote
  BY <1>1, <1>5 DEF Mirrors, SameMode
<1>7. CASE Closes
  <2>1. WriteNothing /\ quote' = Nul /\ c = s.quote /\ c # Backslash
    BY <1>1, <1>3, <1>6, <1>7 DEF Quoted, Closes
  <2>2. /\ s2.words = s.words /\ s2.word = s.word /\ s2.open = TRUE
        /\ s2.quote = quote' /\ s2.escaped = FALSE
    BY <1>3, <1>4, <1>6, <2>1, TakeIs
  <2>3. Mirrors(s2)'
    BY <1>1, <1>2, <1>4, <1>5, <2>1, <2>2, MirrorsQuote
  <2> QED
    BY <1>4, <2>3, MirrorsSeen
<1>8. CASE ~Closes
  <2>1. Write(c) /\ quote' = quote /\ c # s.quote /\ c # Backslash /\ s.quote # Nul
    BY <1>1, <1>3, <1>6, <1>8 DEF Quoted, Closes
  <2>2. /\ s2.words = s.words /\ s2.word = Append(s.word, c) /\ s2.open = TRUE
        /\ s2.quote = s.quote /\ s2.escaped = FALSE
    BY <1>3, <1>4, <1>6, <2>1, TakeIs
  <2>3. Mirrors(s2)'
    BY <1>1, <1>2, <1>4, <1>5, <2>1, <2>2, MirrorsWrite
  <2> QED
    BY <1>4, <2>3, MirrorsSeen
<1> QED
  BY <1>7, <1>8

(* The copying parser takes the backslash and the character in two steps.   *)
LEMMA EscapedMirrors ==
  ASSUME ParseInv, Escaped
  PROVE  Mirrors(Seen)'
<1>1. /\ parse_result = "RUNNING" /\ in_word /\ given' = given
      /\ Write(line[read_cursor + 1]) /\ read_cursor' = read_cursor + 2
      /\ UNCHANGED <<arguments, in_word, quote>>
  BY DEF Escaped, Inside, Advance
<1>2. ParseTypeOK /\ UnreadIntact /\ Mirrors(Seen)
  BY <1>1 DEF ParseInv
<1>3. /\ read_cursor \in 1 .. Len(given) - 1 /\ given[read_cursor] = Backslash
      /\ line[read_cursor + 1] = given[read_cursor + 1]
      /\ given[read_cursor + 1] \in Char /\ Len(given) \in Nat
  BY <1>2, EscapedPair DEF ParseTypeOK
<1>4. PICK c, s, s1, s2 :
          /\ c = given[read_cursor + 1] /\ s = Seen
          /\ s1 = Take(s, Backslash) /\ s2 = Take(s1, c)
  OBVIOUS
<1>5. s \in ParserState /\ s1 \in ParserState /\ s2 \in ParserState /\ c \in Char
  BY <1>2, <1>3, <1>4, SeenType, TakeType, CharactersDistinct
<1>6. Mirrors(s)
  BY <1>2, <1>4
<1>7. Seen' = s2
  <2>1. read_cursor \in 1 .. Len(given) /\ read_cursor + 1 \in 1 .. Len(given)
    BY <1>3
  <2>2. After(given)[read_cursor] = s1
    BY <1>2, <1>3, <1>4, <2>1, SeenNext DEF Seen
  <2>3. After(given)[read_cursor + 1] = Take(After(given)[read_cursor + 1 - 1], c)
    BY <1>2, <1>4, <2>1, SeenNext
  <2>4. read_cursor + 1 - 1 = read_cursor /\ read_cursor' - 1 = read_cursor + 1
    BY <1>1, <1>3
  <2>5. After(given)[read_cursor + 1] = s2
    BY <1>4, <2>2, <2>3, <2>4
  <2> QED
    BY <1>1, <2>4, <2>5 DEF Seen
<1>8. ~s.escaped
  BY <1>6 DEF Mirrors, SameMode
<1>9. /\ s1.words = s.words /\ s1.word = s.word /\ s1.quote = s.quote /\ s1.escaped = TRUE
  <2>1. s1 = Take(s, Backslash) /\ s \in ParserState /\ Backslash \in Char
    BY <1>4, <1>5, CharactersDistinct
  <2> QED
    BY <1>8, <2>1, TakeIs
<1>10. /\ s2.words = s.words /\ s2.word = Append(s.word, c) /\ s2.open = TRUE
       /\ s2.quote = s.quote /\ s2.escaped = FALSE
  <2>1. s2 = Take(s1, c) /\ s1 \in ParserState /\ c \in Char
    BY <1>4, <1>5
  <2>2. /\ s2.words = s1.words /\ s2.word = Append(s1.word, c) /\ s2.open = TRUE
        /\ s2.quote = s1.quote /\ s2.escaped = FALSE
    BY <1>9, <2>1, TakeIs
  <2> QED
    BY <1>9, <2>2
<1>11. Write(c) /\ write_cursor < Len(line)
  <2>1. read_cursor \in 1 .. Len(given)
    BY <1>3
  <2> QED
    BY <1>1, <1>2, <1>3, <1>4, <2>1, RoomToWrite
<1>12. Mirrors(s2)'
  BY <1>1, <1>2, <1>5, <1>6, <1>10, <1>11, MirrorsWrite
<1> QED
  BY <1>7, <1>12, MirrorsSeen

-----------------------------------------------------------------------------
(* The invariant holds, and the properties follow from it                   *)

LEMMA ParseInvInit == Init => ParseInv
<1> SUFFICES ASSUME Init
             PROVE  ParseInv
  OBVIOUS
<1>1. given \in Seq(Char) /\ Len(given) \in Nat
  BY DEF Init
<1>2. /\ line = Append(given, Nul) /\ read_cursor = 1 /\ write_cursor = 1
      /\ arguments = <<>> /\ in_word = FALSE /\ quote = Nul /\ parse_result = "RUNNING"
  BY DEF Init
<1>3. line \in Seq(Char \cup {Nul}) /\ Len(line) = Len(given) + 1
  BY <1>1, <1>2
<1>4. ParseTypeOK
  <2>1. arguments \in Seq(1 .. Len(line)) /\ Len(arguments) <= MaxArguments
    BY <1>2, ParseAssumption
  <2>2. read_cursor \in 1 .. Len(line) /\ write_cursor \in 1 .. Len(line)
    BY <1>1, <1>2, <1>3
  <2> QED
    BY <1>1, <1>2, <1>3, <2>1, <2>2 DEF ParseTypeOK
<1>5. UnreadIntact
  BY <1>2 DEF UnreadIntact
<1>6. Seen = Start
  BY <1>1, <1>2, AfterDef DEF Seen
<1>7. Mirrors(Start)
  BY <1>2, StartType DEF Mirrors, SameMode, WordsStored, WordBegun
<1>8. Mirrors(Seen)
  BY <1>6, <1>7
<1> QED
  BY <1>2, <1>4, <1>5, <1>8 DEF ParseInv

LEMMA ParseInvStep == ParseInv /\ [Next]_vars => ParseInv'
<1> SUFFICES ASSUME ParseInv, [Next]_vars
             PROVE  ParseInv'
  OBVIOUS
<1>1. ParseTypeOK' /\ UnreadIntact'
  BY TypesKept DEF ParseInv
<1>2. ASSUME Mirrors(Seen)', parse_result' = "RUNNING"
      PROVE  ParseInv'
  BY <1>1, <1>2 DEF ParseInv
<1>3. CASE SkipSpace
  BY <1>2, <1>3, SkipSpaceMirrors DEF SkipSpace, Between
<1>4. CASE AtEnd
  BY <1>4, ReturnsAtEnd
<1>5. CASE StartArgument
  <2>1. CASE Len(arguments) = MaxArguments
    BY <1>5, <2>1, ReturnsTooMany
  <2>2. CASE Len(arguments) # MaxArguments
    BY <1>2, <1>5, <2>2, StartArgumentMirrors DEF StartArgument, Between
  <2> QED
    BY <2>1, <2>2
<1>6. CASE EndOfLine
  BY <1>6, ReturnsInWord
<1>7. CASE TrailingBackslash
  BY <1>7, ReturnsOnBackslash
<1>8. CASE Escaped
  BY <1>2, <1>8, EscapedMirrors DEF Escaped, Inside
<1>9. CASE Quoted
  BY <1>2, <1>9, QuotedMirrors DEF Quoted, Inside
<1>10. CASE OpenQuote
  BY <1>2, <1>10, OpenQuoteMirrors DEF OpenQuote, Bare, Inside
<1>11. CASE EndArgument
  BY <1>2, <1>11, EndArgumentMirrors DEF EndArgument, Bare, Inside
<1>12. CASE Copy
  BY <1>2, <1>12, CopyMirrors DEF Copy, Bare, Inside
<1>13. CASE UNCHANGED vars
  <2>1. UNCHANGED <<given, line, read_cursor, write_cursor, arguments, in_word, quote, parse_result>>
    BY <1>13 DEF vars
  <2>2. PICK s : s = Seen
    OBVIOUS
  <2>3. Seen' = s
    BY <2>1, <2>2 DEF Seen
  <2>4. Mirrors(s) => Mirrors(Seen)'
    <3>1. Mirrors(s) => Mirrors(s)'
      BY <2>1 DEF Mirrors, SameMode, WordsStored, WordBegun, Current
    <3> QED
      BY <2>3, <3>1, MirrorsSeen
  <2>5. Returned => Returned'
    <3>1. Reference' = Reference
      BY <2>1 DEF Reference
    <3> QED
      BY <2>1, <3>1 DEF Returned
  <2> QED
    BY <1>1, <2>1, <2>2, <2>4, <2>5 DEF ParseInv
<1> QED
  BY <1>3, <1>4, <1>5, <1>6, <1>7, <1>8, <1>9, <1>10, <1>11, <1>12, <1>13 DEF Next

(* ParseInv is inductive: while parse_arguments runs, the words it has      *)
(* stored are those the copying parser has found in what was read.          *)
THEOREM ParseInvHolds == Spec => []ParseInv
<1> QED
  BY ParseInvInit, ParseInvStep, PTL DEF Spec

(* The cursors stay inside the line and its NUL, no argument starts outside *)
(* it, and there are never more of them than the array of main holds: a     *)
(* write behind a long line or a further argument would be out of bounds    *)
(* (shell.c:45).                                                            *)
THEOREM ParseStaysInBounds == Spec => []ParseTypeOK
<1>1. ParseInv => ParseTypeOK
  BY DEF ParseInv
<1> QED
  BY <1>1, ParseInvHolds, PTL

(* Whatever quotes and backslashes took away, nothing is written over what  *)
(* is still to be read.                                                     *)
THEOREM UnreadStaysIntact == Spec => []UnreadIntact
<1>1. ParseInv => UnreadIntact
  BY DEF ParseInv
<1> QED
  BY <1>1, ParseInvHolds, PTL

(* A word stored at start is the argument that is found there.              *)
LEMMA StoredArgument ==
  ASSUME line \in Seq(Char \cup {Nul}), NEW start \in 1 .. Len(line),
         NEW w \in Seq(Char), Stored(line, start, w)
  PROVE  Argument(start) = w
<1> DEFINE End(i) == line[i] = Nul /\ \A j \in start .. i - 1 : line[j] # Nul
           stop == CHOOSE i \in start .. Len(line) : End(i)
<1>1. /\ Len(line) \in Nat /\ start \in 1 .. Len(line) /\ Len(w) \in Nat
      /\ start + Len(w) <= Len(line)
      /\ \A i \in 1 .. Len(w) : line[start + i - 1] = w[i]
      /\ line[start + Len(w)] = Nul
  BY DEF Stored, Holds
<1>2. ASSUME NEW j \in start .. start + Len(w) - 1
      PROVE  line[j] # Nul
  <2>1. j - start + 1 \in 1 .. Len(w) /\ start + (j - start + 1) - 1 = j
    BY <1>1
  <2>2. line[j] = w[j - start + 1]
    BY <1>1, <2>1
  <2>3. w[j - start + 1] \in Char
    BY <2>1
  <2> QED
    BY <2>2, <2>3, CharNotNul
<1>3. start + Len(w) \in start .. Len(line) /\ End(start + Len(w))
  BY <1>1, <1>2
<1>4. stop \in start .. Len(line) /\ End(stop)
  <2> HIDE DEF End
  <2> QED
    BY <1>3
<1>5. stop = start + Len(w)
  <2>1. stop \in Nat /\ start \in Nat
    BY <1>1, <1>4
  <2>2. CASE stop < start + Len(w)
    <3>1. stop \in start .. start + Len(w) - 1
      BY <1>1, <1>4, <2>1, <2>2
    <3> QED
      BY <1>2, <1>4, <3>1
  <2>3. CASE start + Len(w) < stop
    <3>1. start + Len(w) \in start .. stop - 1
      BY <1>1, <2>1, <2>3
    <3> QED
      BY <1>1, <1>4, <3>1
  <2> HIDE DEF stop
  <2> QED
    BY <1>1, <2>1, <2>2, <2>3
<1>6. Argument(start) = SubSeq(line, start, stop - 1)
  BY DEF Argument
<1> HIDE DEF stop
<1>7. Argument(start) = SubSeq(line, start, start + Len(w) - 1)
  BY <1>5, <1>6
<1>8. SubSeq(line, start, start + Len(w) - 1) = w
  <2> DEFINE part == SubSeq(line, start, start + Len(w) - 1)
  <2>1. /\ part \in Seq(Char \cup {Nul}) /\ Len(part) = Len(w)
        /\ \A i \in 1 .. Len(w) : part[i] = line[start + i - 1]
    BY <1>1
  <2> HIDE DEF part
  <2>2. \A i \in 1 .. Len(w) : part[i] = w[i]
    BY <1>1, <2>1
  <2>3. part = w
    BY <2>1, <2>2
  <2> QED
    BY <2>3 DEF part
<1> QED
  BY <1>7, <1>8

(* parse_arguments returns the error or the arguments that a parser would    *)
(* that copies its input, for every line and every number of arguments.     *)
THEOREM ParsesInPlace == Spec => []ParsesAsReference
<1>1. ASSUME ParseInv
      PROVE  ParsesAsReference
  <2> SUFFICES ASSUME parse_result # "RUNNING"
               PROVE  /\ parse_result = Reference.result
                      /\ parse_result = "OK" =>
                             [i \in 1 .. Len(arguments) |-> Argument(arguments[i])]
                                 = Reference.words
    BY DEF ParsesAsReference
  <2>1. ParseTypeOK /\ Returned
    BY <1>1 DEF ParseInv
  <2>2. Reference.words \in Seq(Seq(Char))
    <3> DEFINE s == After(given)[Len(given)]
    <3>1. s \in ParserState
      BY <2>1, ReferenceIs
    <3> HIDE DEF s
    <3>2. /\ s.words \in Seq(Seq(Char)) /\ Append(s.words, s.word) \in Seq(Seq(Char))
          /\ s.open \in BOOLEAN
      BY <3>1, FieldTypes, CharactersDistinct
    <3>3. (s.open => Reference.words = Append(s.words, s.word))
          /\ (~s.open => Reference.words = s.words)
      BY <2>1, ReferenceIs DEF s
    <3> QED
      BY <3>2, <3>3
  <2>3. ASSUME parse_result = "OK"
        PROVE  [i \in 1 .. Len(arguments) |-> Argument(arguments[i])] = Reference.words
    <3> DEFINE words == Reference.words
    <3>1. /\ Len(arguments) = Len(words) /\ words \in Seq(Seq(Char))
          /\ \A k \in 1 .. Len(arguments) : Stored(line, arguments[k], words[k])
      BY <2>1, <2>2, <2>3 DEF Returned
    <3> HIDE DEF words
    <3>2. line \in Seq(Char \cup {Nul}) /\ arguments \in Seq(1 .. Len(line))
      BY <2>1 DEF ParseTypeOK
    <3>3. ASSUME NEW k \in 1 .. Len(arguments)
          PROVE  Argument(arguments[k]) = words[k]
      <4>1. arguments[k] \in 1 .. Len(line) /\ words[k] \in Seq(Char)
        BY <3>1, <3>2
      <4> QED
        BY <3>1, <3>2, <4>1, StoredArgument
    <3>4. words = [i \in 1 .. Len(words) |-> words[i]]
      BY <3>1
    <3>5. [i \in 1 .. Len(arguments) |-> Argument(arguments[i])]
            = [i \in 1 .. Len(words) |-> words[i]]
      BY <3>1, <3>3
    <3> QED
      BY <3>4, <3>5 DEF words
  <2> QED
    BY <2>1, <2>3 DEF Returned
<1> QED
  BY <1>1, ParseInvHolds, PTL

-----------------------------------------------------------------------------
(* The numbers digits stand for                                              *)

Powers(f, N) ==
    f \in [0 .. N -> Nat] /\ f[0] = 1 /\ \A n \in 1 .. N : f[n] = 10 * f[n - 1]

LEMMA PowersExist ==
  ASSUME NEW N \in Nat
  PROVE  \E f : Powers(f, N)
<1> DEFINE F == [n \in 1 .. N |-> [v \in Nat |-> 10 * v]]
<1>1. F \in [1 .. N -> [Nat -> Nat]] /\ 1 \in Nat
  OBVIOUS
<1>2. PICK f : Recursion(f, N, Nat, 1, F)
  <2> HIDE DEF F
  <2> QED
    BY <1>1, RecursionExists
<1>3. ASSUME NEW n \in 1 .. N
      PROVE  f[n] = 10 * f[n - 1]
  <2>1. n - 1 \in 0 .. N /\ f[n - 1] \in Nat
    BY <1>2 DEF Recursion
  <2>2. f[n] = F[n][f[n - 1]]
    BY <1>2 DEF Recursion
  <2> QED
    BY <2>1, <2>2
<1>4. Powers(f, N)
  BY <1>2, <1>3 DEF Powers, Recursion
<1> QED
  BY <1>4

LEMMA PowersAgree ==
  ASSUME NEW N \in Nat, NEW M \in Nat, NEW f, NEW g, Powers(f, N), Powers(g, M),
         N <= M, NEW n \in 0 .. N
  PROVE  f[n] = g[n]
<1> DEFINE S == {k \in 0 .. N : f[k] = g[k]}
<1>1. 0 \in S
  BY DEF Powers
<1>2. ASSUME NEW k \in 0 .. N - 1, k \in S
      PROVE  k + 1 \in S
  <2>1. k + 1 \in 1 .. N /\ k + 1 \in 1 .. M /\ (k + 1) - 1 = k /\ f[k] = g[k]
    BY <1>2
  <2>2. f[k + 1] = 10 * f[k] /\ g[k + 1] = 10 * g[k]
    BY <2>1 DEF Powers
  <2> QED
    BY <2>1, <2>2
<1>3. \A k \in 0 .. N - 1 : k \in S => k + 1 \in S
  BY <1>2
<1> HIDE DEF S
<1>4. n \in S
  BY <1>1, <1>3, Induction
<1> QED
  BY <1>4 DEF S

LEMMA TenToTheDef ==
  /\ TenToThe \in [Nat -> Nat] /\ TenToThe[0] = 1
  /\ \A n \in Nat : TenToThe[n + 1] = 10 * TenToThe[n]
<1> DEFINE P(n) == CHOOSE f : Powers(f, n)
           h == [n \in Nat |-> P(n)[n]]
           E(f) == [n \in Nat |-> IF n = 0 THEN 1 ELSE 10 * f[n - 1]]
<1>1. \A n \in Nat : Powers(P(n), n)
  BY PowersExist
<1> HIDE DEF P
<1>2. \A n \in Nat : P(n)[n] \in Nat
  BY <1>1 DEF Powers
<1>3. h \in [Nat -> Nat] /\ \A n \in Nat : h[n] = P(n)[n]
  BY <1>2
<1>4. h[0] = 1
  BY <1>1, <1>3 DEF Powers
<1>5. ASSUME NEW n \in Nat
      PROVE  h[n + 1] = 10 * h[n]
  <2>1. n + 1 \in Nat /\ n + 1 \in 1 .. n + 1 /\ (n + 1) - 1 = n /\ n \in 0 .. n /\ n <= n + 1
    OBVIOUS
  <2>2. P(n + 1)[n + 1] = 10 * P(n + 1)[n]
    BY <1>1, <2>1 DEF Powers
  <2>3. P(n)[n] = P(n + 1)[n]
    BY <1>1, <2>1, PowersAgree
  <2> QED
    BY <1>3, <2>1, <2>2, <2>3
<1> HIDE DEF h
<1>6. ASSUME NEW n \in Nat, n # 0
      PROVE  h[n] = 10 * h[n - 1]
  <2>1. n - 1 \in Nat /\ (n - 1) + 1 = n
    BY <1>6
  <2> QED
    BY <1>5, <2>1
<1>7. h = E(h)
  BY <1>3, <1>4, <1>6
<1>8. TenToThe = CHOOSE f : f = E(f)
  BY DEF TenToThe
<1>9. TenToThe = E(TenToThe)
  <2> HIDE DEF E
  <2> QED
    BY <1>7, <1>8
<1>10. TenToThe[0] = 1
  BY <1>9
<1>11. ASSUME NEW n \in Nat
       PROVE  TenToThe[n + 1] = 10 * TenToThe[n]
  <2>1. n + 1 \in Nat /\ n + 1 # 0 /\ (n + 1) - 1 = n
    OBVIOUS
  <2> QED
    BY <1>9, <2>1
<1>12. \A n \in Nat : TenToThe[n] = h[n]
  <2> SUFFICES ASSUME NEW N \in Nat
               PROVE  TenToThe[N] = h[N]
    OBVIOUS
  <2> DEFINE S == {n \in 0 .. N : TenToThe[n] = h[n]}
  <2>1. 0 \in S
    BY <1>4, <1>10
  <2>2. \A n \in 0 .. N - 1 : n \in S => n + 1 \in S
    BY <1>5, <1>11
  <2> HIDE DEF S
  <2>3. N \in S
    BY <2>1, <2>2, Induction
  <2> QED
    BY <2>3 DEF S
<1>13. TenToThe = h
  BY <1>3, <1>9, <1>12
<1> QED
  BY <1>3, <1>10, <1>11, <1>13

LEMMA TenToTheMonotone ==
  ASSUME NEW m \in Nat, NEW n \in Nat, m <= n
  PROVE  1 <= TenToThe[m] /\ TenToThe[m] <= TenToThe[n]
<1> DEFINE S == {k \in 0 .. n :
                    1 <= TenToThe[k] /\ (m <= k => TenToThe[m] <= TenToThe[k])}
<1>0. TenToThe[m] \in Nat /\ TenToThe[n] \in Nat /\ m \in 0 .. n /\ n \in 0 .. n
  <2>1. TenToThe \in [Nat -> Nat]
    BY TenToTheDef
  <2> QED
    BY <2>1
<1>1. 0 \in S
  BY TenToTheDef
<1>2. ASSUME NEW k \in 0 .. n - 1, k \in S
      PROVE  k + 1 \in S
  <2>1. k \in Nat /\ TenToThe[k] \in Nat /\ TenToThe[m] \in Nat
        /\ TenToThe[k + 1] = 10 * TenToThe[k]
    BY TenToTheDef
  <2>2. CASE m <= k
    BY <1>2, <2>1, <2>2
  <2>3. CASE ~(m <= k)
    <3>1. m <= k + 1 => m = k + 1
      BY <2>3
    <3> QED
      BY <1>2, <2>1, <3>1
  <2> QED
    BY <2>2, <2>3
<1>3. \A k \in 0 .. n - 1 : k \in S => k + 1 \in S
  BY <1>2
<1> HIDE DEF S
<1>4. \A k \in 0 .. n : k \in S
  BY <1>1, <1>3, Induction
<1>5. n \in S /\ m \in S
  BY <1>4
<1>6. m <= n => TenToThe[m] <= TenToThe[n]
  BY <1>5 DEF S
<1>7. 1 <= TenToThe[m]
  BY <1>5 DEF S
<1> QED
  BY <1>6, <1>7

LEMMA ValueDef ==
  ASSUME NEW d \in Seq(Nat)
  PROVE  /\ Value(d) \in [0 .. Len(d) -> Nat] /\ Value(d)[0] = 0
         /\ \A n \in 1 .. Len(d) : Value(d)[n] = 10 * Value(d)[n - 1] + d[n]
<1> DEFINE N == Len(d)
           F == [n \in 1 .. N |-> [v \in Nat |-> 10 * v + d[n]]]
           E(f) == [n \in 0 .. N |-> IF n = 0 THEN 0 ELSE 10 * f[n - 1] + d[n]]
<1>0. N \in Nat /\ 0 \in Nat
  OBVIOUS
<1>1. F \in [1 .. N -> [Nat -> Nat]]
  <2>1. ASSUME NEW n \in 1 .. N, NEW v \in Nat
        PROVE  10 * v + d[n] \in Nat
    <3>1. d[n] \in Nat
      OBVIOUS
    <3> QED
      BY <3>1
  <2> QED
    BY <2>1
<1>2. PICK f : Recursion(f, N, Nat, 0, F)
  <2> HIDE DEF F, N
  <2> QED
    BY <1>0, <1>1, RecursionExists
<1>3. ASSUME NEW n \in 1 .. N
      PROVE  f[n] = 10 * f[n - 1] + d[n]
  <2>1. n - 1 \in 0 .. N /\ f[n - 1] \in Nat
    BY <1>0, <1>2 DEF Recursion
  <2>2. f[n] = F[n][f[n - 1]]
    BY <1>2 DEF Recursion
  <2> QED
    BY <2>1, <2>2
<1>4. f = E(f)
  BY <1>2, <1>3 DEF Recursion
<1>5. Value(d) = CHOOSE g : g = E(g)
  BY DEF Value
<1>6. Value(d) = E(Value(d))
  <2> HIDE DEF E
  <2> QED
    BY <1>4, <1>5
<1>7. ASSUME NEW n \in 0 .. N, Value(d)[n] = f[n], n # N
      PROVE  Value(d)[n + 1] = f[n + 1]
  BY <1>3, <1>6, <1>7
<1>8. \A n \in 0 .. N : Value(d)[n] = f[n]
  <2> DEFINE S == {n \in 0 .. N : Value(d)[n] = f[n]}
  <2>1. 0 \in S
    BY <1>2, <1>6 DEF Recursion
  <2>2. \A n \in 0 .. N - 1 : n \in S => n + 1 \in S
    BY <1>7
  <2> HIDE DEF S
  <2>3. \A n \in 0 .. N : n \in S
    BY <1>0, <2>1, <2>2, Induction
  <2> QED
    BY <2>3 DEF S
<1>9. Value(d) = f
  BY <1>6, <1>8
<1> QED
  BY <1>2, <1>3, <1>9 DEF Recursion

(* Every further digit makes a number larger, or keeps it zero.              *)
LEMMA ValueMonotone ==
  ASSUME NEW d \in Seq(Nat), NEW m \in 0 .. Len(d)
  PROVE  Value(d)[m] <= Value(d)[Len(d)]
<1> DEFINE S == {k \in 0 .. Len(d) : m <= k => Value(d)[m] <= Value(d)[k]}
<1>0. Len(d) \in Nat /\ \A k \in 0 .. Len(d) : Value(d)[k] \in Nat
  <2>1. Value(d) \in [0 .. Len(d) -> Nat] /\ Len(d) \in Nat
    BY ValueDef
  <2> QED
    BY <2>1
<1>1. 0 \in S
  BY <1>0
<1>2. ASSUME NEW k \in 0 .. Len(d) - 1, k \in S
      PROVE  k + 1 \in S
  <2>1. k + 1 \in 1 .. Len(d) /\ (k + 1) - 1 = k /\ k \in 0 .. Len(d) /\ d[k + 1] \in Nat
    OBVIOUS
  <2>2. Value(d)[k + 1] = 10 * Value(d)[k] + d[k + 1]
    BY <2>1, ValueDef
  <2>3. Value(d)[k] <= Value(d)[k + 1]
    BY <1>0, <2>1, <2>2
  <2>4. CASE m <= k
    BY <1>0, <1>2, <2>1, <2>3, <2>4
  <2>5. CASE ~(m <= k)
    <3>1. m <= k + 1 => m = k + 1
      BY <2>5
    <3> QED
      BY <1>0, <2>1, <3>1
  <2> QED
    BY <2>4, <2>5
<1>3. \A k \in 0 .. Len(d) - 1 : k \in S => k + 1 \in S
  BY <1>2
<1> HIDE DEF S
<1>4. Len(d) \in S
  <2>1. \A k \in 0 .. Len(d) : k \in S
    BY <1>0, <1>1, <1>3, Induction
  <2>2. Len(d) \in 0 .. Len(d)
    BY <1>0
  <2> QED
    BY <2>1, <2>2
<1>5. m <= Len(d)
  BY <1>0
<1> QED
  BY <1>4, <1>5 DEF S

LEMMA ReverseAppend ==
  ASSUME NEW s \in Seq(0 .. 9), NEW x \in 0 .. 9
  PROVE  /\ Reverse(s) \in Seq(0 .. 9) /\ Len(Reverse(s)) = Len(s)
         /\ Reverse(Append(s, x)) \in Seq(0 .. 9)
         /\ Len(Reverse(Append(s, x))) = Len(s) + 1
         /\ Reverse(Append(s, x))[1] = x
         /\ \A i \in 1 .. Len(s) : Reverse(Append(s, x))[i + 1] = Reverse(s)[i]
<1> DEFINE n == Len(s)
           a == Append(s, x)
<1>1. /\ n \in Nat /\ Len(a) = n + 1 /\ a \in Seq(0 .. 9) /\ a[n + 1] = x
      /\ \A i \in 1 .. n : a[i] = s[i] /\ s[i] \in 0 .. 9
      /\ \A i \in 1 .. n + 1 : a[i] \in 0 .. 9
  OBVIOUS
<1>2. Reverse(s) = [i \in 1 .. n |-> s[(n - i) + 1]]
  BY DEF Reverse
<1>3. Reverse(a) = [i \in 1 .. n + 1 |-> a[((n + 1) - i) + 1]]
  BY <1>1 DEF Reverse
<1> HIDE DEF n, a
<1>4. \A i \in 1 .. n : (n - i) + 1 \in 1 .. n
  BY <1>1
<1>5. \A i \in 1 .. n + 1 : ((n + 1) - i) + 1 \in 1 .. n + 1
  BY <1>1
<1>6. Reverse(s) \in [1 .. n -> 0 .. 9]
  BY <1>1, <1>2, <1>4
<1>7. Reverse(a) \in [1 .. n + 1 -> 0 .. 9]
  BY <1>1, <1>3, <1>5
<1>8. Reverse(s) \in Seq(0 .. 9) /\ Len(Reverse(s)) = n
  BY <1>1, <1>6
<1>9. Reverse(a) \in Seq(0 .. 9) /\ Len(Reverse(a)) = n + 1
  BY <1>1, <1>7
<1>10. Reverse(a)[1] = x
  <2>1. 1 \in 1 .. n + 1 /\ ((n + 1) - 1) + 1 = n + 1
    BY <1>1
  <2> QED
    BY <1>1, <1>3, <2>1
<1>11. ASSUME NEW i \in 1 .. n
       PROVE  Reverse(a)[i + 1] = Reverse(s)[i]
  <2>1. i + 1 \in 1 .. n + 1 /\ ((n + 1) - (i + 1)) + 1 = (n - i) + 1 /\ (n - i) + 1 \in 1 .. n
    BY <1>1
  <2>2. Reverse(a)[i + 1] = a[(n - i) + 1]
    BY <1>3, <2>1
  <2> QED
    BY <1>1, <1>2, <2>1, <2>2
<1> QED
  BY <1>8, <1>9, <1>10, <1>11 DEF n, a

(* A digit in front of n others counts ten to the n times as much.           *)
LEMMA DigitInFront ==
  ASSUME NEW d \in Seq(Nat), NEW e \in Seq(Nat), NEW x \in Nat,
         Len(e) = Len(d) + 1, e[1] = x, \A i \in 1 .. Len(d) : e[i + 1] = d[i]
  PROVE  Decimal(e) = x * TenToThe[Len(d)] + Decimal(d)
<1> DEFINE S == {k \in 0 .. Len(d) : Value(e)[k + 1] = x * TenToThe[k] + Value(d)[k]}
<1>0. Len(d) \in Nat /\ Len(e) \in Nat
  OBVIOUS
<1>5. \A i \in 1 .. Len(d) : d[i] \in Nat
  OBVIOUS
<1>1. 0 \in S
  <2>1. 1 \in 1 .. Len(e) /\ 1 - 1 = 0
    BY <1>0
  <2>2. Value(e)[1] = 10 * Value(e)[0] + e[1] /\ Value(e)[0] = 0 /\ Value(d)[0] = 0
    BY <2>1, ValueDef
  <2>3. 0 + 1 = 1 /\ x * TenToThe[0] = x
    BY TenToTheDef
  <2> QED
    BY <1>0, <2>2, <2>3
<1>2. ASSUME NEW k \in 0 .. Len(d) - 1, k \in S
      PROVE  k + 1 \in S
  <2>1. /\ k + 1 \in 1 .. Len(d) /\ (k + 1) - 1 = k /\ k \in 0 .. Len(d)
        /\ (k + 1) + 1 \in 1 .. Len(e) /\ ((k + 1) + 1) - 1 = k + 1
        /\ k + 1 \in 0 .. Len(e)
    BY <1>0
  <2>2. Value(d)[k + 1] = 10 * Value(d)[k] + d[k + 1]
    BY <2>1, ValueDef
  <2>3. Value(e)[(k + 1) + 1] = 10 * Value(e)[k + 1] + e[(k + 1) + 1]
    BY <2>1, ValueDef
  <2>4. e[(k + 1) + 1] = d[k + 1]
    BY <2>1
  <2>5. Value(e)[k + 1] = x * TenToThe[k] + Value(d)[k]
    BY <1>2
  <2>6. TenToThe[k + 1] = 10 * TenToThe[k] /\ TenToThe[k] \in Nat
    <3>1. k \in Nat
      BY <2>1, <1>0
    <3>2. TenToThe \in [Nat -> Nat]
      BY TenToTheDef
    <3>3. TenToThe[k] \in Nat
      BY <3>1, <3>2
    <3> QED
      BY <3>1, <3>3, TenToTheDef
  <2>7. Value(d)[k] \in Nat /\ Value(e)[k + 1] \in Nat /\ d[k + 1] \in Nat
    <3>1. Value(d) \in [0 .. Len(d) -> Nat] /\ Value(e) \in [0 .. Len(e) -> Nat]
      BY ValueDef
    <3>2. Value(d)[k] \in Nat
      BY <2>1, <3>1
    <3>3. Value(e)[k + 1] \in Nat
      BY <2>1, <3>1
    <3>4. d[k + 1] \in Nat
      BY <1>5, <2>1
    <3> QED
      BY <3>2, <3>3, <3>4
  <2>8. \A t, v, y \in Nat : 10 * (x * t + v) + y = x * (10 * t) + (10 * v + y)
    OBVIOUS
  <2>9. 10 * (x * TenToThe[k] + Value(d)[k]) + d[k + 1]
            = x * (10 * TenToThe[k]) + (10 * Value(d)[k] + d[k + 1])
    BY <2>6, <2>7, <2>8
  <2>10. Value(e)[(k + 1) + 1] = x * TenToThe[k + 1] + Value(d)[k + 1]
    BY <2>2, <2>3, <2>4, <2>5, <2>6, <2>9
  <2> QED
    BY <2>1, <2>10
<1>3. \A k \in 0 .. Len(d) - 1 : k \in S => k + 1 \in S
  BY <1>2
<1> HIDE DEF S
<1>4. Len(d) \in S
  <2>1. \A k \in 0 .. Len(d) : k \in S
    BY <1>0, <1>1, <1>3, Induction
  <2>2. Len(d) \in 0 .. Len(d)
    BY <1>0
  <2> QED
    BY <2>1, <2>2
<1> QED
  BY <1>4 DEF S, Decimal

(* The number that has been read grows by the next digit.                    *)
LEMMA DecimalReverse ==
  ASSUME NEW s \in Seq(0 .. 9), NEW x \in 0 .. 9
  PROVE  /\ Decimal(Reverse(s)) \in Nat
         /\ Decimal(Reverse(Append(s, x))) = x * TenToThe[Len(s)] + Decimal(Reverse(s))
<1> DEFINE d == Reverse(s)
           e == Reverse(Append(s, x))
<1>1. /\ d \in Seq(0 .. 9) /\ Len(d) = Len(s) /\ e \in Seq(0 .. 9) /\ Len(e) = Len(s) + 1
      /\ e[1] = x /\ \A i \in 1 .. Len(s) : e[i + 1] = d[i]
  BY ReverseAppend
<1> HIDE DEF d, e
<1>2. d \in Seq(Nat) /\ e \in Seq(Nat) /\ x \in Nat
  <2>1. \A q : q \in Seq(0 .. 9) => q \in Seq(Nat)
    OBVIOUS
  <2> QED
    BY <1>1, <2>1
<1>3. Decimal(e) = x * TenToThe[Len(d)] + Decimal(d)
  BY <1>1, <1>2, DigitInFront
<1>4. Decimal(d) \in Nat
  <2>1. Len(d) \in 0 .. Len(d)
    BY <1>2
  <2> QED
    BY <1>2, <2>1, ValueDef DEF Decimal
<1> QED
  BY <1>1, <1>3, <1>4 DEF d, e

-----------------------------------------------------------------------------
(* The commands and their numbers                                           *)

(* How many characters of the argument have been read. *)
Consumed == Len(argument) - Len(text)

(* parse_uint64 has read the characters before text: they are digits, and    *)
(* result is their number.                                                   *)
ReadingInv ==
    /\ argument \in Seq(DigitChar) /\ text \in Seq(DigitChar)
    /\ Len(text) <= Len(argument)
    /\ \A i \in 1 .. Len(text) : text[i] = argument[Consumed + i]
    /\ \A i \in 1 .. Consumed : argument[i] # NotADigit
    /\ command # "info" => result = Value(argument)[Consumed]

(* uart_put_uint64 has taken the last digits of result away from value.      *)
PrintingInv ==
    /\ digits \in Seq(0 .. 9) /\ value \in Nat
    /\ result = value * TenToThe[Len(digits)] + Decimal(Reverse(digits))
    /\ Len(digits) # 0 => TenToThe[Len(digits) - 1] <= result
    /\ value = 0 /\ Len(digits) # 0 => digits[Len(digits)] # 0
    /\ shown # <<>> =>
           value = 0 /\ shown = IF result = 0 THEN <<0>> ELSE Reverse(digits)

NumbersTypeOK ==
    /\ command \in {"sleep", "taskdemo", "info"} /\ argument_count \in 1 .. 3
    /\ argument_count # 2 => argument = <<>>
    /\ result \in 0 .. UintMax
    /\ command # "info" => digits = <<>> /\ shown = <<>>
    /\ command = "info" => argument_count = 1 /\ outcome = Parsing

(* The argument is a number. *)
IsNumber == /\ argument_count = 2 /\ argument # <<>>
            /\ \A i \in DOMAIN argument : argument[i] # NotADigit

OutcomeExact ==
    outcome = CASE IsNumber /\ command = "sleep" /\ Written <= SleepMax ->
                       Accepted(Written * TicksPerSecond)
                [] IsNumber /\ command = "taskdemo" /\ Written \in 1 .. MaxRounds ->
                       Accepted(Written)
                [] command = "taskdemo" /\ argument_count = 1 ->
                       Accepted(DefaultRounds)
                [] OTHER -> Rejected

NumbersInv ==
    /\ NumbersTypeOK /\ ReadingInv
    /\ command = "info" => PrintingInv
    /\ outcome # Parsing => OutcomeExact

LEMMA Limits ==
  /\ UintMax \in Nat /\ UintMax >= 10
  /\ SleepMax \in Nat /\ TicksPerSecond \in Nat /\ MaxRounds \in Nat /\ DigitCapacity \in Nat
  /\ SleepMax <= UintMax /\ MaxRounds <= UintMax
  /\ \A n \in 0 .. SleepMax : n * TicksPerSecond \in 0 .. UintMax
<1>1. /\ UintMax \in Nat /\ UintMax >= 10
      /\ SleepMax \in Nat /\ TicksPerSecond \in Nat /\ MaxRounds \in Nat /\ DigitCapacity \in Nat
      /\ TicksPerSecond # 0 /\ SleepMax * TicksPerSecond <= UintMax /\ MaxRounds <= UintMax
  BY NumberAssumption
<1>2. \A n, m, t \in Nat : n <= m => n * t \in Nat /\ n * t <= m * t
  <2> SUFFICES ASSUME NEW n \in Nat, NEW m \in Nat, NEW t \in Nat, n <= m
               PROVE  n * t \in Nat /\ n * t <= m * t
    OBVIOUS
  <2>1. m - n \in Nat /\ m = n + (m - n)
    OBVIOUS
  <2>2. m * t = n * t + (m - n) * t
    BY <2>1
  <2>3. (m - n) * t \in Nat /\ n * t \in Nat
    BY <2>1
  <2> QED
    BY <2>2, <2>3
<1>3. \A n \in 0 .. SleepMax : n * TicksPerSecond \in 0 .. UintMax
  <2> SUFFICES ASSUME NEW n \in 0 .. SleepMax
               PROVE  n * TicksPerSecond \in 0 .. UintMax
    OBVIOUS
  <2>1. n * TicksPerSecond \in Nat /\ n * TicksPerSecond <= SleepMax * TicksPerSecond
    BY <1>1, <1>2
  <2>2. SleepMax * TicksPerSecond \in Nat
    BY <1>1
  <2> QED
    BY <1>1, <2>1, <2>2
<1>4. SleepMax <= UintMax
  <2>1. \A n, t \in Nat : t # 0 => n <= n * t
    <3> SUFFICES ASSUME NEW n \in Nat, NEW t \in Nat, t # 0
                 PROVE  n <= n * t
      OBVIOUS
    <3>1. t - 1 \in Nat /\ n * t = n + n * (t - 1) /\ n * (t - 1) \in Nat /\ n * t \in Nat
      OBVIOUS
    <3> QED
      BY <3>1
  <2>2. SleepMax <= SleepMax * TicksPerSecond /\ SleepMax * TicksPerSecond \in Nat
    BY <1>1, <2>1
  <2> QED
    BY <1>1, <2>2
<1> QED
  BY <1>1, <1>3, <1>4

(* The division by ten tells exactly when the next digit does not fit.       *)
LEMMA OverflowsIs ==
  ASSUME result \in 0 .. UintMax, NEW d \in 0 .. 9
  PROVE  /\ Overflows(d) <=> 10 * result + d > UintMax
         /\ ~Overflows(d) => Wrap(Wrap(result * 10) + d) = 10 * result + d
<1>1. UintMax \in Nat /\ UintMax >= 10
  BY Limits
<1>2. Overflows(d) <=> 10 * result + d > UintMax
  BY <1>1 DEF Overflows
<1>3. ASSUME ~Overflows(d)
      PROVE  Wrap(Wrap(result * 10) + d) = 10 * result + d
  <2>1. 10 * result + d <= UintMax /\ 10 * result \in 0 .. UintMax
        /\ 10 * result + d \in 0 .. UintMax /\ result * 10 = 10 * result
    BY <1>1, <1>2, <1>3
  <2>2. \A n \in 0 .. UintMax : n % (UintMax + 1) = n
    BY <1>1
  <2> QED
    BY <2>1, <2>2 DEF Wrap
<1> QED
  BY <1>2, <1>3

LEMMA ReadingIs ==
  ASSUME ReadingInv
  PROVE  /\ argument \in Seq(Nat) /\ Len(argument) \in Nat /\ Len(text) \in Nat
         /\ Consumed \in 0 .. Len(argument) /\ Value(argument)[Consumed] \in Nat
         /\ Written \in Nat
         /\ text = <<>> => Consumed = Len(argument)
         /\ text # <<>> =>
                /\ Consumed + 1 \in 1 .. Len(argument)
                /\ Head(text) = argument[Consumed + 1]
                /\ Head(text) # NotADigit => Head(text) \in 0 .. 9
                /\ Value(argument)[Consumed + 1]
                       = 10 * Value(argument)[Consumed] + Head(text)
                /\ Value(argument)[Consumed + 1] <= Written
<1>1. /\ argument \in Seq(DigitChar) /\ text \in Seq(DigitChar)
      /\ Len(text) <= Len(argument) /\ Len(text) \in Nat /\ Len(argument) \in Nat
  BY DEF ReadingInv
<1>2. argument \in Seq(Nat)
  <2>1. \A q : q \in Seq(DigitChar) => q \in Seq(Nat)
    BY DEF DigitChar, NotADigit
  <2> QED
    BY <1>1, <2>1
<1>3. Consumed \in 0 .. Len(argument)
  BY <1>1 DEF Consumed
<1>4. Value(argument) \in [0 .. Len(argument) -> Nat]
  BY <1>2, ValueDef
<1>5. Value(argument)[Consumed] \in Nat
  BY <1>3, <1>4
<1>6. Written \in Nat
  <2>1. Len(argument) \in 0 .. Len(argument)
    BY <1>1
  <2> QED
    BY <1>4, <2>1 DEF Written, Decimal
<1>7. text = <<>> => Consumed = Len(argument)
  BY <1>1 DEF Consumed
<1>8. ASSUME text # <<>>
      PROVE  /\ Consumed + 1 \in 1 .. Len(argument)
             /\ Head(text) = argument[Consumed + 1]
             /\ Head(text) # NotADigit => Head(text) \in 0 .. 9
             /\ Value(argument)[Consumed + 1]
                    = 10 * Value(argument)[Consumed] + Head(text)
             /\ Value(argument)[Consumed + 1] <= Written
  <2>1. 1 \in 1 .. Len(text) /\ Head(text) = text[1]
    BY <1>1, <1>8
  <2>2. Consumed + 1 \in 1 .. Len(argument) /\ (Consumed + 1) - 1 = Consumed
    BY <1>1, <2>1 DEF Consumed
  <2>3. Head(text) = argument[Consumed + 1]
    BY <2>1 DEF ReadingInv
  <2>4. Head(text) # NotADigit => Head(text) \in 0 .. 9
    <3>1. Head(text) \in DigitChar
      BY <1>1, <1>8
    <3> QED
      BY <3>1 DEF DigitChar
  <2>5. Value(argument)[Consumed + 1] = 10 * Value(argument)[Consumed] + Head(text)
    BY <1>2, <2>2, <2>3, ValueDef
  <2>6. Value(argument)[Consumed + 1] <= Written
    <3>1. Consumed + 1 \in 0 .. Len(argument)
      BY <2>2
    <3> QED
      BY <1>2, <3>1, ValueMonotone DEF Written, Decimal
  <2> QED
    BY <2>2, <2>3, <2>4, <2>5, <2>6
<1> QED
  BY <1>1, <1>2, <1>3, <1>5, <1>6, <1>7, <1>8

LEMMA NumbersInvInit == NumbersInit => NumbersInv
<1> SUFFICES ASSUME NumbersInit
             PROVE  NumbersInv
  OBVIOUS
<1>1. /\ command \in {"sleep", "taskdemo", "info"} /\ argument_count \in 1 .. 3
      /\ argument_count # 2 => argument = <<>>
      /\ argument \in Seq(DigitChar) /\ result \in 0 .. UintMax
      /\ command # "info" => result = 0
      /\ command = "info" => argument_count = 1
  <2>1. 0 \in 0 .. UintMax /\ <<>> \in Seq(DigitChar)
    BY Limits
  <2>2. \A a \in UNION {[1 .. n -> DigitChar] : n \in 0 .. MaxDigits} : a \in Seq(DigitChar)
    BY NumberAssumption
  <2>3. CASE /\ command \in {"sleep", "taskdemo"} /\ argument_count \in 1 .. 3
             /\ IF argument_count = 2
                THEN argument \in UNION {[1 .. n -> DigitChar] : n \in 0 .. MaxDigits}
                ELSE argument = <<>>
             /\ result = 0
    <3>1. CASE argument_count = 2
      BY <2>1, <2>2, <2>3, <3>1
    <3>2. CASE argument_count # 2
      BY <2>1, <2>3, <3>2
    <3> QED
      BY <3>1, <3>2
  <2>4. CASE /\ command = "info" /\ argument_count = 1 /\ argument = <<>>
             /\ result \in 0 .. UintMax
    BY <2>1, <2>4
  <2> QED
    BY <2>3, <2>4 DEF NumbersInit
<1>2. digits = <<>> /\ value = result /\ shown = <<>> /\ text = argument /\ outcome = Parsing
  BY DEF NumbersInit
<1>3. NumbersTypeOK
  BY <1>1, <1>2 DEF NumbersTypeOK
<1>4. ReadingInv
  <2>1. Consumed = 0 /\ Len(argument) \in Nat
    BY <1>1, <1>2 DEF Consumed
  <2>2. Value(argument)[0] = 0
    <3>1. \A q : q \in Seq(DigitChar) => q \in Seq(Nat)
      BY DEF DigitChar, NotADigit
    <3>2. argument \in Seq(Nat)
      BY <1>1, <3>1
    <3> QED
      BY <3>2, ValueDef
  <2>3. \A i \in 1 .. Len(text) : text[i] = argument[0 + i]
    BY <1>2
  <2>4. \A i \in 1 .. 0 : argument[i] # NotADigit
    OBVIOUS
  <2> QED
    BY <1>1, <1>2, <2>1, <2>2, <2>3, <2>4 DEF ReadingInv
<1>5. PrintingInv
  <2>1. /\ Len(digits) = 0 /\ digits \in Seq(0 .. 9) /\ value \in Nat /\ shown = <<>>
        /\ result = value /\ TenToThe[0] = 1
    BY <1>1, <1>2, Limits, TenToTheDef
  <2>2. Decimal(Reverse(digits)) = 0
    <3>1. Reverse(digits) = <<>>
      BY <1>2 DEF Reverse
    <3>2. Value(<<>>)[0] = 0 /\ Len(<<>>) = 0
      <4>1. <<>> \in Seq(Nat) /\ Len(<<>>) = 0
        OBVIOUS
      <4> QED
        BY <4>1, ValueDef
    <3> QED
      BY <3>1, <3>2 DEF Decimal
  <2>3. result = value * TenToThe[Len(digits)] + Decimal(Reverse(digits))
    BY <2>1, <2>2
  <2> QED
    BY <2>1, <2>3 DEF PrintingInv
<1> QED
  BY <1>2, <1>3, <1>4, <1>5 DEF NumbersInv

(* uart_put_uint64 takes the last digit of value away.                       *)
LEMMA PutDigitKeeps ==
  ASSUME NumbersInv, PutDigit
  PROVE  NumbersInv'
<1>1. /\ command = "info" /\ value # 0
      /\ digits' = Append(digits, value % 10) /\ value' = value \div 10
      /\ UNCHANGED <<command, argument_count, argument, text, result, shown, outcome>>
  BY DEF PutDigit
<1>2. /\ NumbersTypeOK /\ ReadingInv /\ PrintingInv /\ outcome = Parsing
      /\ result \in Nat
  BY <1>1, Limits DEF NumbersInv, NumbersTypeOK
<1>3. NumbersTypeOK'
  BY <1>1, <1>2 DEF NumbersTypeOK
<1>4. ReadingInv'
  BY <1>1, <1>2 DEF ReadingInv, Consumed
<1>5. PrintingInv'
  <2> DEFINE n == Len(digits)
             x == value % 10
             q == value \div 10
             old == Decimal(Reverse(digits))
  <2>1. digits \in Seq(0 .. 9) /\ value \in Nat /\ shown = <<>> /\ n \in Nat
    BY <1>1, <1>2 DEF PrintingInv
  <2>2. x \in 0 .. 9 /\ q \in Nat /\ value = q * 10 + x /\ (q = 0 => x # 0)
    BY <1>1, <2>1
  <2>3. digits' = Append(digits, x) /\ value' = q
    BY <1>1
  <2>4. result = value * TenToThe[n] + old
    BY <1>2 DEF PrintingInv
  <2> HIDE DEF x, q
  <2>5. /\ digits' \in Seq(0 .. 9) /\ Len(digits') = n + 1 /\ digits'[n + 1] = x
    BY <2>1, <2>2, <2>3
  <2>6. /\ old \in Nat /\ Decimal(Reverse(Append(digits, x))) = x * TenToThe[n] + old
    BY <2>1, <2>2, DecimalReverse
  <2> HIDE DEF n, old
  <2>7. TenToThe[n] \in Nat /\ TenToThe[n + 1] = 10 * TenToThe[n]
    <3>1. TenToThe \in [Nat -> Nat]
      BY TenToTheDef
    <3>2. TenToThe[n] \in Nat
      BY <2>1, <3>1
    <3> QED
      BY <2>1, <3>2, TenToTheDef
  <2>8. result = q * TenToThe[n + 1] + Decimal(Reverse(digits'))
    <3>1. \A a, b, t, d \in Nat : (a * 10 + b) * t + d = a * (10 * t) + (b * t + d)
      OBVIOUS
    <3>2. (q * 10 + x) * TenToThe[n] + old = q * (10 * TenToThe[n]) + (x * TenToThe[n] + old)
      <4>1. x \in Nat
        BY <2>2
      <4> QED
        BY <2>2, <2>6, <2>7, <3>1, <4>1
    <3>3. result = (q * 10 + x) * TenToThe[n] + old
      BY <2>2, <2>4
    <3>4. Decimal(Reverse(digits')) = x * TenToThe[n] + old
      BY <2>3, <2>6
    <3> QED
      BY <2>7, <3>2, <3>3, <3>4
  <2>9. TenToThe[n] <= result
    <3>1. \A v, t, d \in Nat : v # 0 => t <= v * t + d
      <4> SUFFICES ASSUME NEW v \in Nat, NEW t \in Nat, NEW d \in Nat, v # 0
                   PROVE  t <= v * t + d
        OBVIOUS
      <4>1. v - 1 \in Nat /\ v * t = (v - 1) * t + t /\ (v - 1) * t \in Nat
        OBVIOUS
      <4> QED
        BY <4>1
    <3> QED
      BY <1>1, <2>1, <2>4, <2>6, <2>7, <3>1
  <2>10. (n + 1) - 1 = n
    BY <2>1
  <2>11. shown' = <<>> /\ result' = result
    BY <1>1, <2>1
  <2>12. result' = value' * TenToThe[Len(digits')] + Decimal(Reverse(digits'))
    BY <2>3, <2>5, <2>8, <2>11
  <2>13. TenToThe[Len(digits') - 1] <= result'
    BY <2>5, <2>9, <2>10, <2>11
  <2>14. value' = 0 => digits'[Len(digits')] # 0
    BY <2>2, <2>3, <2>5
  <2> QED
    BY <2>2, <2>3, <2>5, <2>11, <2>12, <2>13, <2>14 DEF PrintingInv
<1> QED
  BY <1>1, <1>2, <1>3, <1>4, <1>5 DEF NumbersInv

LEMMA SendKeeps ==
  ASSUME NumbersInv, Send
  PROVE  NumbersInv'
<1>1. /\ command = "info" /\ value = 0
      /\ shown' = IF result = 0 THEN <<0>> ELSE Reverse(digits)
      /\ UNCHANGED <<command, argument_count, argument, text, result, digits, value, outcome>>
  BY DEF Send
<1>2. NumbersTypeOK /\ ReadingInv /\ PrintingInv /\ outcome = Parsing
  BY <1>1 DEF NumbersInv, NumbersTypeOK
<1>3. NumbersTypeOK'
  BY <1>1, <1>2 DEF NumbersTypeOK
<1>4. ReadingInv'
  BY <1>1, <1>2 DEF ReadingInv, Consumed
<1>5. PrintingInv'
  BY <1>1, <1>2 DEF PrintingInv
<1> QED
  BY <1>1, <1>2, <1>3, <1>4, <1>5 DEF NumbersInv

(* parse_uint64 takes the next digit.                                        *)
LEMMA DigitKeeps ==
  ASSUME NumbersInv, Digit
  PROVE  NumbersInv'
<1>1. /\ outcome = Parsing /\ argument_count = 2
      /\ text # <<>> /\ Head(text) # NotADigit /\ ~Overflows(Head(text))
      /\ result' = Wrap(Wrap(result * 10) + Head(text)) /\ text' = Tail(text)
      /\ UNCHANGED <<command, argument_count, argument, digits, value, shown, outcome>>
  BY DEF Digit, Reads, printVars
<1>2. NumbersTypeOK /\ ReadingInv /\ command # "info"
  BY <1>1 DEF NumbersInv, NumbersTypeOK
<1>3. /\ Consumed + 1 \in 1 .. Len(argument) /\ Consumed \in Nat
      /\ Head(text) = argument[Consumed + 1] /\ Head(text) \in 0 .. 9
      /\ Value(argument)[Consumed + 1] = 10 * Value(argument)[Consumed] + Head(text)
      /\ Len(argument) \in Nat /\ Len(text) \in Nat
  BY <1>1, <1>2, ReadingIs
<1>4. result = Value(argument)[Consumed] /\ result \in 0 .. UintMax
  BY <1>2 DEF ReadingInv, NumbersTypeOK
<1>5. result' = 10 * result + Head(text) /\ result' <= UintMax /\ result' \in 0 .. UintMax
  <2>1. result' = 10 * result + Head(text) /\ ~(10 * result + Head(text) > UintMax)
    BY <1>1, <1>3, <1>4, OverflowsIs
  <2>2. result \in Nat /\ Head(text) \in Nat /\ UintMax \in Nat
    BY <1>3, <1>4, Limits
  <2>3. 10 * result + Head(text) \in 0 .. UintMax
    BY <2>1, <2>2
  <2> QED
    BY <2>1, <2>2, <2>3
<1>6. NumbersTypeOK'
  BY <1>1, <1>2, <1>5 DEF NumbersTypeOK
<1>7. /\ text' \in Seq(DigitChar) /\ Len(text') = Len(text) - 1
      /\ \A i \in 1 .. Len(text) - 1 : text'[i] = text[i + 1]
  <2>1. text \in Seq(DigitChar)
    BY <1>2 DEF ReadingInv
  <2> QED
    BY <1>1, <2>1
<1>8. Consumed' = Consumed + 1
  BY <1>1, <1>3, <1>7 DEF Consumed
<1>9. ReadingInv'
  <2>1. /\ argument \in Seq(DigitChar) /\ Len(text) <= Len(argument)
        /\ \A i \in 1 .. Len(text) : text[i] = argument[Consumed + i]
        /\ \A i \in 1 .. Consumed : argument[i] # NotADigit
    BY <1>2 DEF ReadingInv
  <2>2. Len(text') <= Len(argument')
    BY <1>1, <1>3, <1>7, <2>1
  <2>3. ASSUME NEW i \in 1 .. Len(text')
        PROVE  text'[i] = argument'[Consumed' + i]
    <3>1. i \in 1 .. Len(text) - 1 /\ i + 1 \in 1 .. Len(text)
      BY <1>3, <1>7
    <3>2. Consumed' + i = Consumed + (i + 1)
      BY <1>3, <1>8, <3>1
    <3> QED
      BY <1>1, <1>7, <2>1, <3>1, <3>2
  <2>4. ASSUME NEW i \in 1 .. Consumed'
        PROVE  argument'[i] # NotADigit
    <3>1. CASE i = Consumed + 1
      BY <1>1, <1>3, <3>1
    <3>2. CASE i # Consumed + 1
      <4>1. i \in 1 .. Consumed
        BY <1>3, <1>8, <3>2
      <4> QED
        BY <1>1, <2>1, <4>1
    <3> QED
      BY <3>1, <3>2
  <2>5. result' = Value(argument')[Consumed']
    BY <1>1, <1>3, <1>4, <1>5, <1>8
  <2> QED
    BY <1>1, <1>7, <2>1, <2>2, <2>3, <2>4, <2>5 DEF ReadingInv
<1> QED
  BY <1>1, <1>2, <1>6, <1>9 DEF NumbersInv

(* What the outcome has to be, case by case.                                 *)
LEMMA OutcomeIs ==
  ASSUME UNCHANGED <<command, argument_count, argument>>, argument_count \in 1 .. 3
  PROVE  /\ IsNumber /\ command = "sleep" /\ Written <= SleepMax
               /\ outcome' = Accepted(Written * TicksPerSecond) => OutcomeExact'
         /\ IsNumber /\ command = "taskdemo" /\ Written \in 1 .. MaxRounds
               /\ outcome' = Accepted(Written) => OutcomeExact'
         /\ ~IsNumber /\ command = "taskdemo" /\ argument_count = 1
               /\ outcome' = Accepted(DefaultRounds) => OutcomeExact'
         /\ ~(IsNumber /\ command = "sleep" /\ Written <= SleepMax)
               /\ ~(IsNumber /\ command = "taskdemo" /\ Written \in 1 .. MaxRounds)
               /\ ~(command = "taskdemo" /\ argument_count = 1)
               /\ outcome' = Rejected => OutcomeExact'
<1> DEFINE A == IsNumber /\ command = "sleep" /\ Written <= SleepMax
           B == IsNumber /\ command = "taskdemo" /\ Written \in 1 .. MaxRounds
           C == command = "taskdemo" /\ argument_count = 1
           v == CASE A -> Accepted(Written * TicksPerSecond)
                  [] B -> Accepted(Written)
                  [] C -> Accepted(DefaultRounds)
                  [] OTHER -> Rejected
<1>1. IsNumber' = IsNumber /\ Written' = Written
  BY DEF IsNumber, Written
<1>2. (outcome' = v) => OutcomeExact'
  BY <1>1 DEF OutcomeExact
<1>3. ~(A /\ B) /\ ~(B /\ C) /\ ~(A /\ C)
  BY DEF IsNumber
<1> HIDE DEF A, B, C
<1>4. A => v = Accepted(Written * TicksPerSecond)
  BY <1>3
<1>5. B => v = Accepted(Written)
  BY <1>3
<1>6. C => v = Accepted(DefaultRounds)
  BY <1>3
<1>7. ~A /\ ~B /\ ~C => v = Rejected
  OBVIOUS
<1> HIDE DEF v
<1>8. A /\ outcome' = Accepted(Written * TicksPerSecond) => OutcomeExact'
  BY <1>2, <1>4
<1>9. B /\ outcome' = Accepted(Written) => OutcomeExact'
  BY <1>2, <1>5
<1>10. C /\ outcome' = Accepted(DefaultRounds) => OutcomeExact'
  BY <1>2, <1>6
<1>11. ~A /\ ~B /\ ~C /\ outcome' = Rejected => OutcomeExact'
  BY <1>2, <1>7
<1> QED
  BY <1>8, <1>9, <1>10, <1>11 DEF A, B, C

(* The steps that decide the outcome change nothing else.                    *)
LEMMA Decided ==
  ASSUME NumbersInv, OutcomeExact',
         UNCHANGED <<command, argument_count, argument, text, result, printVars>>,
         command # "info"
  PROVE  NumbersInv'
<1>1. UNCHANGED <<command, argument_count, argument, text, result, digits, value, shown>>
  BY DEF printVars
<1>2. NumbersTypeOK /\ ReadingInv
  BY DEF NumbersInv
<1>3. NumbersTypeOK'
  BY <1>1, <1>2 DEF NumbersTypeOK
<1>4. ReadingInv'
  BY <1>1, <1>2 DEF ReadingInv, Consumed
<1> QED
  BY <1>1, <1>3, <1>4 DEF NumbersInv

LEMMA UsageKeeps ==
  ASSUME NumbersInv, Usage
  PROVE  NumbersInv'
<1>1. /\ command # "info" /\ argument_count # 2
      /\ UNCHANGED <<command, argument_count, argument, text, result, printVars>>
      /\ argument_count \in 1 .. 3 /\ ~IsNumber
  BY DEF Usage, NumbersInv, NumbersTypeOK, IsNumber
<1>2. outcome' = IF command = "taskdemo" /\ argument_count = 1
                 THEN Accepted(DefaultRounds) ELSE Rejected
  BY DEF Usage
<1>3. OutcomeExact'
  <2>1. CASE command = "taskdemo" /\ argument_count = 1
    <3>1. outcome' = Accepted(DefaultRounds)
      BY <1>2, <2>1
    <3> QED
      BY <1>1, <2>1, <3>1, OutcomeIs
  <2>2. CASE ~(command = "taskdemo" /\ argument_count = 1)
    <3>1. outcome' = Rejected
      BY <1>2, <2>2
    <3> QED
      BY <1>1, <2>2, <3>1, OutcomeIs
  <2> QED
    BY <2>1, <2>2
<1> QED
  BY <1>1, <1>3, Decided

(* What is rejected while it is read is no number, or larger than a uint64_t.*)
LEMMA RejectKeeps ==
  ASSUME NumbersInv, Reject
  PROVE  NumbersInv'
<1>1. /\ argument_count = 2 /\ outcome' = Rejected
      /\ UNCHANGED <<command, argument_count, argument, text, result, printVars>>
  BY DEF Reject, Reads
<1>2. NumbersTypeOK /\ ReadingInv /\ command # "info"
  BY <1>1 DEF NumbersInv, NumbersTypeOK
<1>3. ~IsNumber \/ Written > UintMax
  <2>1. CASE argument = <<>>
    BY <2>1 DEF IsNumber
  <2>2. CASE text # <<>> /\ Head(text) = NotADigit
    <3>1. /\ Consumed + 1 \in 1 .. Len(argument) /\ argument[Consumed + 1] = NotADigit
          /\ argument \in Seq(Nat)
      BY <1>2, <2>2, ReadingIs
    <3>2. Consumed + 1 \in DOMAIN argument
      BY <3>1
    <3> QED
      BY <3>1, <3>2 DEF IsNumber
  <2>3. CASE text # <<>> /\ Head(text) # NotADigit /\ Overflows(Head(text))
    <3>1. /\ Head(text) \in 0 .. 9 /\ Written \in Nat
          /\ Value(argument)[Consumed + 1] = 10 * Value(argument)[Consumed] + Head(text)
          /\ Value(argument)[Consumed + 1] <= Written
      BY <1>2, <2>3, ReadingIs
    <3>2. result = Value(argument)[Consumed] /\ result \in 0 .. UintMax
      BY <1>2 DEF ReadingInv, NumbersTypeOK
    <3>3. 10 * result + Head(text) > UintMax
      BY <2>3, <3>1, <3>2, OverflowsIs
    <3>4. 10 * result + Head(text) <= Written
      BY <3>1, <3>2
    <3>5. 10 * result + Head(text) \in Nat /\ UintMax \in Nat
      BY <3>1, <3>2, Limits
    <3> QED
      BY <3>1, <3>3, <3>4, <3>5
  <2> QED
    BY <2>1, <2>2, <2>3 DEF Reject
<1>4. Written > UintMax => ~(Written <= SleepMax) /\ Written \notin 1 .. MaxRounds
  <2>1. Written \in Nat
    BY <1>2, ReadingIs
  <2> QED
    BY <2>1, Limits
<1>5. OutcomeExact'
  <2>1. /\ ~(IsNumber /\ command = "sleep" /\ Written <= SleepMax)
        /\ ~(IsNumber /\ command = "taskdemo" /\ Written \in 1 .. MaxRounds)
        /\ ~(command = "taskdemo" /\ argument_count = 1)
        /\ argument_count \in 1 .. 3
    BY <1>1, <1>3, <1>4
  <2> QED
    BY <1>1, <2>1, OutcomeIs
<1> QED
  BY <1>1, <1>2, <1>5, Decided

(* When the argument has been read, result is the number written.            *)
LEMMA ReadIs ==
  ASSUME NumbersInv, Read
  PROVE  /\ IsNumber /\ result = Written /\ Written \in Nat /\ argument_count = 2
         /\ command # "info"
<1>1. /\ argument_count = 2 /\ text = <<>> /\ argument # <<>>
      /\ ReadingInv /\ command # "info"
  BY DEF Read, Reads, NumbersInv, NumbersTypeOK
<1>2. Consumed = Len(argument) /\ Written \in Nat /\ argument \in Seq(Nat)
  BY <1>1, ReadingIs
<1>3. result = Written
  BY <1>1, <1>2 DEF ReadingInv, Written, Decimal
<1>4. IsNumber
  <2>1. \A i \in 1 .. Len(argument) : argument[i] # NotADigit
    BY <1>1, <1>2 DEF ReadingInv
  <2>2. DOMAIN argument = 1 .. Len(argument)
    BY <1>2
  <2> QED
    BY <1>1, <2>1, <2>2 DEF IsNumber
<1> QED
  BY <1>1, <1>2, <1>3, <1>4

LEMMA SleepKeeps ==
  ASSUME NumbersInv, command_sleep
  PROVE  NumbersInv'
<1>1. /\ command = "sleep" /\ Read
      /\ outcome' = IF result > SleepMax THEN Rejected
                                         ELSE Accepted(Wrap(result * TicksPerSecond))
      /\ UNCHANGED <<command, argument_count, argument, text, result, printVars>>
  BY DEF command_sleep
<1>2. IsNumber /\ result = Written /\ Written \in Nat /\ argument_count = 2
  BY <1>1, ReadIs
<1>3. CASE Written > SleepMax
  <2>1. outcome' = Rejected /\ ~(Written <= SleepMax)
    BY <1>1, <1>2, <1>3, Limits
  <2> QED
    BY <1>1, <1>2, <2>1, OutcomeIs, Decided
<1>4. CASE ~(Written > SleepMax)
  <2>1. Written \in 0 .. SleepMax
    BY <1>2, <1>4, Limits
  <2>2. Written * TicksPerSecond \in 0 .. UintMax
    BY <2>1, Limits
  <2>3. Wrap(Written * TicksPerSecond) = Written * TicksPerSecond
    <3>1. \A n \in 0 .. UintMax : n % (UintMax + 1) = n
      BY Limits
    <3> QED
      BY <2>2, <3>1 DEF Wrap
  <2>4. outcome' = Accepted(Written * TicksPerSecond) /\ Written <= SleepMax
    BY <1>1, <1>2, <1>4, <2>1, <2>3
  <2> QED
    BY <1>1, <1>2, <2>4, OutcomeIs, Decided
<1> QED
  BY <1>3, <1>4

LEMMA TaskdemoKeeps ==
  ASSUME NumbersInv, command_taskdemo
  PROVE  NumbersInv'
<1>1. /\ command = "taskdemo" /\ Read
      /\ outcome' = IF RoundsOK THEN Accepted(result) ELSE Rejected
      /\ UNCHANGED <<command, argument_count, argument, text, result, printVars>>
  BY DEF command_taskdemo
<1>2. IsNumber /\ result = Written /\ Written \in Nat /\ argument_count = 2
  BY <1>1, ReadIs
<1>3. RoundsOK <=> Written \in 1 .. MaxRounds
  BY <1>2, Limits DEF RoundsOK
<1>4. CASE RoundsOK
  <2>1. outcome' = Accepted(Written)
    BY <1>1, <1>2, <1>4
  <2> QED
    BY <1>1, <1>2, <1>3, <1>4, <2>1, OutcomeIs, Decided
<1>5. CASE ~RoundsOK
  <2>1. outcome' = Rejected
    BY <1>1, <1>5
  <2> QED
    BY <1>1, <1>2, <1>3, <1>5, <2>1, OutcomeIs, Decided
<1> QED
  BY <1>4, <1>5

LEMMA NumbersInvStep == NumbersInv /\ [NumbersNext]_numbersVars => NumbersInv'
<1> SUFFICES ASSUME NumbersInv, [NumbersNext]_numbersVars
             PROVE  NumbersInv'
  OBVIOUS
<1>1. CASE UNCHANGED numbersVars
  <2>1. UNCHANGED <<command, argument_count, argument, text, result, digits, value,
                    shown, outcome>>
    BY <1>1 DEF numbersVars, printVars
  <2>2. NumbersTypeOK'
    BY <2>1 DEF NumbersInv, NumbersTypeOK
  <2>3. ReadingInv'
    BY <2>1 DEF NumbersInv, ReadingInv, Consumed
  <2>4. command' = "info" => PrintingInv'
    BY <2>1 DEF NumbersInv, PrintingInv
  <2>5. outcome' # Parsing => OutcomeExact'
    <3>1. OutcomeExact => OutcomeExact'
      BY <2>1 DEF OutcomeExact, IsNumber, Written
    <3> QED
      BY <2>1, <3>1 DEF NumbersInv
  <2> QED
    BY <2>2, <2>3, <2>4, <2>5 DEF NumbersInv, Parsing
<1> QED
  BY <1>1, PutDigitKeeps, SendKeeps, UsageKeeps, RejectKeeps, DigitKeeps,
     SleepKeeps, TaskdemoKeeps DEF NumbersNext

(* NumbersInv is inductive: the value read is that of the digits read, and  *)
(* the digits printed are the last ones of the number.                      *)
THEOREM NumbersInvHolds == NumbersSpec => []NumbersInv
<1> QED
  BY NumbersInvInit, NumbersInvStep, PTL DEF NumbersSpec

(* What is printed is the counter, in digits that fit their buffer.          *)
LEMMA PrintedExact ==
  ASSUME PrintingInv, result \in 0 .. UintMax
  PROVE  /\ Len(digits) <= DigitCapacity
         /\ shown # <<>> =>
                Decimal(shown) = result /\ (shown[1] = 0 => shown = <<0>>)
<1>1. /\ digits \in Seq(0 .. 9) /\ Len(digits) \in Nat
      /\ result \in Nat /\ UintMax \in Nat /\ result <= UintMax /\ DigitCapacity \in Nat
  BY Limits DEF PrintingInv
<1>2. Len(digits) <= DigitCapacity
  <2> SUFFICES ASSUME Len(digits) > DigitCapacity
               PROVE  FALSE
    BY <1>1
  <2> DEFINE n == Len(digits) - 1
  <2>1. n \in Nat /\ DigitCapacity <= n /\ Len(digits) # 0
    BY <1>1
  <2>2. TenToThe[n] <= result
    BY <2>1 DEF PrintingInv
  <2> HIDE DEF n
  <2>3. TenToThe[DigitCapacity] <= TenToThe[n]
    BY <1>1, <2>1, TenToTheMonotone
  <2>4. TenToThe[DigitCapacity] > UintMax
    BY NumberAssumption
  <2>5. TenToThe[n] \in Nat /\ TenToThe[DigitCapacity] \in Nat
    <3>1. TenToThe \in [Nat -> Nat]
      BY TenToTheDef
    <3> QED
      BY <1>1, <2>1, <3>1
  <2> QED
    BY <1>1, <2>2, <2>3, <2>4, <2>5
<1>3. ASSUME shown # <<>>, result = 0
      PROVE  Decimal(shown) = result /\ (shown[1] = 0 => shown = <<0>>)
  <2>1. shown = <<0>>
    BY <1>3 DEF PrintingInv
  <2>2. Decimal(<<0>>) = 0
    <3>1. <<0>> \in Seq(Nat) /\ Len(<<0>>) = 1 /\ <<0>>[1] = 0 /\ 1 \in 1 .. 1 /\ 1 - 1 = 0
      OBVIOUS
    <3>2. Value(<<0>>)[0] = 0 /\ Value(<<0>>)[1] = 10 * Value(<<0>>)[0] + 0
      BY <3>1, ValueDef
    <3> QED
      BY <3>1, <3>2 DEF Decimal
  <2> QED
    BY <1>3, <2>1, <2>2
<1>4. ASSUME shown # <<>>, result # 0
      PROVE  Decimal(shown) = result /\ (shown[1] = 0 => shown = <<0>>)
  <2>1. /\ shown = Reverse(digits) /\ value = 0
        /\ result = value * TenToThe[Len(digits)] + Decimal(Reverse(digits))
        /\ Len(digits) # 0 => digits[Len(digits)] # 0
    BY <1>4 DEF PrintingInv
  <2>2. TenToThe[Len(digits)] \in Nat /\ Decimal(Reverse(digits)) \in Nat
    <3>1. TenToThe \in [Nat -> Nat]
      BY TenToTheDef
    <3>2. 0 \in 0 .. 9
      OBVIOUS
    <3> QED
      BY <1>1, <3>1, <3>2, DecimalReverse
  <2>3. result = Decimal(Reverse(digits))
    BY <2>1, <2>2
  <2>4. Len(digits) # 0
    <3> SUFFICES ASSUME Len(digits) = 0
                 PROVE  FALSE
      OBVIOUS
    <3>1. Reverse(digits) = <<>>
      BY <1>1 DEF Reverse
    <3>2. Decimal(<<>>) = 0
      <4>1. <<>> \in Seq(Nat) /\ Len(<<>>) = 0
        OBVIOUS
      <4> QED
        BY <4>1, ValueDef DEF Decimal
    <3> QED
      BY <1>4, <2>3, <3>1, <3>2
  <2>5. shown[1] # 0
    <3>1. 1 \in 1 .. Len(digits) /\ (Len(digits) - 1) + 1 = Len(digits)
      BY <1>1, <2>4
    <3>2. Reverse(digits)[1] = digits[Len(digits)]
      BY <3>1 DEF Reverse
    <3> QED
      BY <2>1, <2>4, <3>2
  <2> QED
    BY <2>1, <2>3, <2>5
<1> QED
  BY <1>2, <1>3, <1>4

(* sleep and taskdemo accept exactly the numbers their messages name and     *)
(* work with the number written, however long the argument is, and info      *)
(* prints every counter as the number it is: no digit string wraps around,   *)
(* and digits[] never overflows (shell.c:153, uart.c:185).                   *)
THEOREM NumbersAreExact == NumbersSpec => []NumbersExact
<1>1. ASSUME NumbersInv
      PROVE  NumbersExact
  <2>1. NumbersTypeOK
    BY <1>1 DEF NumbersInv
  <2>2. /\ Len(digits) <= DigitCapacity
        /\ shown # <<>> =>
               Decimal(shown) = result /\ (shown[1] = 0 => shown = <<0>>)
    <3>1. CASE command = "info"
      BY <1>1, <2>1, <3>1, PrintedExact DEF NumbersInv, NumbersTypeOK
    <3>2. CASE command # "info"
      <4>1. digits = <<>> /\ shown = <<>>
        BY <2>1, <3>2 DEF NumbersTypeOK
      <4>2. Len(digits) = 0
        BY <4>1
      <4> QED
        BY <4>1, <4>2, Limits
    <3> QED
      BY <3>1, <3>2
  <2>3. outcome # Parsing => OutcomeExact
    BY <1>1 DEF NumbersInv
  <2> QED
    BY <2>2, <2>3 DEF NumbersExact, OutcomeExact, IsNumber
<1> QED
  BY <1>1, NumbersInvHolds, PTL
=============================================================================
