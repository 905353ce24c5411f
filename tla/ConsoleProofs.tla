----------------------------- MODULE ConsoleProofs -----------------------------
(***************************************************************************)
(* The line editor shows the line it will return and implements the        *)
(* abstract editor of LineEditor, for every length of a line, every depth  *)
(* of the history and every alphabet.                                      *)
(*                                                                         *)
(* Lines are sequences, the terminal is the prompt followed by one, and    *)
(* the history is addressed modulo Depth; lemmas about these come first.   *)
(***************************************************************************)
EXTENDS Console, SequenceTheorems, TLAPS

LEMMA Sizes == Capacity \in Nat /\ Capacity > 1 /\ Depth \in Nat \ {0}
BY ConsoleAssumption

(* A line is a sequence that leaves room for its NUL. *)
LEMMA LineIsSeq ==
  ASSUME NEW l
  PROVE  l \in Line <=> l \in Seq(Printable) /\ Len(l) < Capacity
<1>1. ASSUME l \in Line
      PROVE  l \in Seq(Printable) /\ Len(l) < Capacity
  <2>1. PICK n \in 0 .. Capacity - 1 : l \in [1 .. n -> Printable]
    BY <1>1 DEF Line
  <2>2. l \in Seq(Printable) /\ Len(l) = n
    BY <2>1, ConsoleAssumption
  <2> QED
    BY <2>1, <2>2, ConsoleAssumption
<1>2. ASSUME l \in Seq(Printable), Len(l) < Capacity
      PROVE  l \in Line
  <2>1. Len(l) \in 0 .. Capacity - 1 /\ l \in [1 .. Len(l) -> Printable]
    BY <1>2, LenProperties, ConsoleAssumption
  <2> QED
    BY <2>1 DEF Line
<1> QED
  BY <1>1, <1>2

LEMMA EmptyIsLine == <<>> \in Line
<1>1. <<>> \in Seq(Printable) /\ Len(<<>>) = 0
  BY EmptySeq
<1>2. Len(<<>>) < Capacity
  BY <1>1, Sizes
<1> QED
  BY <1>1, <1>2, LineIsSeq, Zenon

(* copy_string copies a line whole: it fits. *)
LEMMA CopyIsWhole ==
  ASSUME NEW l \in Line
  PROVE  copy_string(l) = l
BY LineIsSeq, SubSeqFull DEF copy_string

LEMMA AppendIsLine ==
  ASSUME NEW l \in Line, NEW c \in Printable, Len(l) + 1 < Capacity
  PROVE  Append(l, c) \in Line
BY LineIsSeq, AppendProperties

LEMMA ShortenedIsLine ==
  ASSUME NEW l \in Line, l # <<>>
  PROVE  /\ Len(l) \in Nat \ {0}
         /\ SubSeq(l, 1, Len(l) - 1) \in Line
<1>1. l \in Seq(Printable) /\ Len(l) < Capacity /\ Len(l) \in Nat \ {0}
  BY LineIsSeq, EmptySeq
<1>2. \A i \in 1 .. Len(l) - 1 : l[i] \in Printable
  BY <1>1, ElementOfSeq
<1>3. /\ SubSeq(l, 1, Len(l) - 1) \in Seq(Printable)
      /\ Len(SubSeq(l, 1, Len(l) - 1)) <= Len(l) - 1
  BY <1>1, <1>2, SubSeqProperties
<1>4. Len(SubSeq(l, 1, Len(l) - 1)) \in Nat
  BY <1>3, LenProperties
<1>5. Len(SubSeq(l, 1, Len(l) - 1)) < Capacity
  BY <1>1, <1>3, <1>4, Sizes
<1> QED
  BY <1>1, <1>3, <1>5, LineIsSeq, Zenon

(* The terminal *)

Shown == Printable \cup {Prompt}

LEMMA PromptAndLine ==
  ASSUME NEW l \in Line
  PROVE  /\ <<Prompt>> \o l \in Seq(Shown)
         /\ Len(<<Prompt>> \o l) = Len(l) + 1
         /\ (<<Prompt>> \o l)[1] = Prompt
         /\ \A i \in 1 .. Len(l) : (<<Prompt>> \o l)[i + 1] = l[i]
<1>1. <<Prompt>> \in Seq(Shown) /\ Len(<<Prompt>>) = 1 /\ <<Prompt>>[1] = Prompt
  BY DEF Shown
<1>2. l \in Seq(Shown) /\ Len(l) \in Nat
  BY LineIsSeq, SeqMonotonic, LenProperties DEF Shown
<1>3. /\ <<Prompt>> \o l \in Seq(Shown)
      /\ Len(<<Prompt>> \o l) = 1 + Len(l)
      /\ \A i \in 1 .. 1 + Len(l) :
             (<<Prompt>> \o l)[i] = IF i <= 1 THEN <<Prompt>>[i] ELSE l[i - 1]
  BY <1>1, <1>2, ConcatProperties
<1> QED
  BY <1>1, <1>2, <1>3

(* Rubbing out n characters leaves the line without its last n. *)
LEMMA RubbedOut ==
  ASSUME NEW l \in Line, NEW n \in 0 .. Len(l),
         screen = <<Prompt>> \o l
  PROVE  /\ SubSeq(l, 1, Len(l) - n) \in Line
         /\ RubOut(n) = <<Prompt>> \o SubSeq(l, 1, Len(l) - n)
<1> DEFINE k == Len(l) - n
           kept == SubSeq(l, 1, k)
           left == SubSeq(<<Prompt>> \o l, 1, k + 1)
<1>1. l \in Seq(Printable) /\ Len(l) < Capacity /\ Len(l) \in Nat
  BY LineIsSeq, LenProperties
<1>2. k \in Nat /\ k <= Len(l)
  BY <1>1
<1> HIDE DEF k
<1>3. /\ kept \in Seq(Printable) /\ Len(kept) = k
      /\ \A i \in 1 .. k : kept[i] = l[i]
  <2>1. \A i \in 1 .. k : l[i] \in Printable
    BY <1>1, <1>2, ElementOfSeq
  <2> QED
    BY <1>2, <2>1, SubSeqProperties
<1>4. kept \in Line
  <2>1. k < Capacity
    BY <1>1, <1>2, Sizes
  <2> HIDE DEF kept
  <2> QED
    BY <1>3, <2>1, LineIsSeq
<1>5. /\ left \in Seq(Shown) /\ Len(left) = k + 1
      /\ \A i \in 1 .. k + 1 : left[i] = (<<Prompt>> \o l)[i]
  <2>1. \A i \in 1 .. k + 1 : (<<Prompt>> \o l)[i] \in Shown
    BY <1>1, <1>2, PromptAndLine, ElementOfSeq
  <2> QED
    BY <1>2, <2>1, SubSeqProperties
<1>6. /\ <<Prompt>> \o kept \in Seq(Shown)
      /\ Len(<<Prompt>> \o kept) = k + 1
      /\ (<<Prompt>> \o kept)[1] = Prompt
      /\ \A i \in 1 .. k : (<<Prompt>> \o kept)[i + 1] = kept[i]
  BY <1>3, <1>4, PromptAndLine
<1>7. left = <<Prompt>> \o kept
  <2>1. ASSUME NEW i \in 1 .. k + 1
        PROVE  left[i] = (<<Prompt>> \o kept)[i]
    <3>1. CASE i = 1
      BY <1>2, <1>5, <1>6, <3>1, PromptAndLine
    <3>2. CASE i # 1
      <4> DEFINE j == i - 1
      <4>1. j \in 1 .. k /\ i = j + 1 /\ j \in 1 .. Len(l)
        BY <1>1, <1>2, <3>2
      <4> HIDE DEF j
      <4>2. left[j + 1] = l[j]
        BY <1>5, <4>1, PromptAndLine
      <4>3. (<<Prompt>> \o kept)[j + 1] = l[j]
        BY <1>3, <1>6, <4>1
      <4> QED
        BY <4>1, <4>2, <4>3
    <3> QED BY <3>1, <3>2
  <2> HIDE DEF left, kept
  <2> QED
    BY <1>5, <1>6, <2>1, SeqEqual
<1>8. Len(screen) - n = k + 1
  BY <1>1, PromptAndLine DEF k
<1> QED
  BY <1>4, <1>7, <1>8 DEF RubOut, k

(* Rubbing out the whole line leaves the prompt. *)
LEMMA RubbedOutWhole ==
  ASSUME NEW l \in Line, screen = <<Prompt>> \o l
  PROVE  RubOut(Len(l)) = <<Prompt>>
<1>1. Len(l) \in 0 .. Len(l)
  BY LineIsSeq, LenProperties
<1>2. Len(l) - Len(l) = 0
  BY <1>1
<1>3. SubSeq(l, 1, 0) = <<>>
  BY SubSeqEmpty
<1>4. RubOut(Len(l)) = <<Prompt>> \o <<>>
  BY <1>1, <1>2, <1>3, RubbedOut
<1>5. <<Prompt>> \in Seq(Shown)
  BY DEF Shown
<1> QED
  BY <1>4, <1>5, ConcatEmptySeq

LEMMA EchoedChar ==
  ASSUME NEW l \in Line, NEW c \in Printable
  PROVE  Append(<<Prompt>> \o l, c) = <<Prompt>> \o Append(l, c)
<1>1. /\ <<Prompt>> \in Seq(Shown) /\ <<c>> \in Seq(Shown)
      /\ l \in Seq(Printable) /\ l \in Seq(Shown) /\ c \in Shown
  BY LineIsSeq, SeqMonotonic DEF Shown
<1>2. Append(<<Prompt>> \o l, c) = (<<Prompt>> \o l) \o <<c>>
  BY <1>1, PromptAndLine, AppendIsConcat
<1>3. Append(l, c) = l \o <<c>>
  BY <1>1, AppendIsConcat
<1> QED
  BY <1>1, <1>2, <1>3, ConcatAssociative

-----------------------------------------------------------------------------
(* The ring *)

(* One lap at most: what the modulo does to the sums of this module. *)
LEMMA Wraps ==
  ASSUME NEW n \in Nat \ {0}, NEW x \in 0 .. 2 * n - 1
  PROVE  x % n = IF x < n THEN x ELSE x - n
<1> DEFINE q == x \div n
           r == x % n
<1>1. r \in 0 .. n - 1 /\ q \in Int /\ x = n * q + r
  OBVIOUS
<1> HIDE DEF q, r
<1>2. q < 2
  <2>1. ASSUME q >= 2 PROVE FALSE
    <3>1. n * q >= n * 2
      BY <1>1, <2>1
    <3> QED BY <1>1, <3>1
  <2> QED BY <1>1, <2>1
<1>3. q > -1
  <2>1. ASSUME q <= -1 PROVE FALSE
    <3>1. n * q <= n * (-1)
      BY <1>1, <2>1
    <3> QED BY <1>1, <3>1
  <2> QED BY <1>1, <2>1
<1>4. CASE q = 0
  BY <1>1, <1>4 DEF r
<1>5. CASE q = 1
  BY <1>1, <1>5 DEF r
<1> QED
  BY <1>1, <1>2, <1>3, <1>4, <1>5

(* The slot of the k-th newest line when slot next is written next. *)
Slot(next, k) == IF k <= next THEN next - k ELSE next + Depth - k

LEMMA SlotOfEntry ==
  ASSUME NEW next \in 0 .. Depth - 1, NEW k \in 1 .. Depth
  PROVE  /\ (next + Depth - k) % Depth = Slot(next, k)
         /\ Slot(next, k) \in 0 .. Depth - 1
<1> DEFINE x == next + Depth - k
<1>1. x \in 0 .. 2 * Depth - 1 /\ (x < Depth <=> k > next)
  BY Sizes
<1> HIDE DEF x
<1>2. x % Depth = IF x < Depth THEN x ELSE x - Depth
  BY <1>1, Sizes, Wraps
<1> QED
  BY <1>1, <1>2, Sizes DEF x, Slot

LEMMA NextSlot ==
  ASSUME NEW next \in 0 .. Depth - 1
  PROVE  (next + 1) % Depth = IF next + 1 < Depth THEN next + 1 ELSE 0
<1> DEFINE x == next + 1
<1>1. x \in 0 .. 2 * Depth - 1 /\ x <= Depth
  BY Sizes
<1> HIDE DEF x
<1>2. x % Depth = IF x < Depth THEN x ELSE x - Depth
  BY <1>1, Sizes, Wraps
<1>3. x % Depth = IF x < Depth THEN x ELSE 0
  BY <1>1, <1>2, Sizes
<1> QED
  BY <1>3 DEF x

(* Writing a slot moves every other line one place back. *)
LEMMA SlotsMoveBack ==
  ASSUME NEW next \in 0 .. Depth - 1, NEW then \in Int,
         then = IF next + 1 < Depth THEN next + 1 ELSE 0,
         NEW k \in 1 .. Depth
  PROVE  /\ k = 1 => Slot(then, k) = next
         /\ k > 1 => /\ Slot(then, k) = Slot(next, k - 1)
                     /\ Slot(then, k) # next
BY Sizes DEF Slot

-----------------------------------------------------------------------------
IInv == ConsoleTypeOK /\ ScreenShowsLine

LEMMA EntryIsLine ==
  ASSUME ConsoleTypeOK, NEW k \in 1 .. Depth
  PROVE  /\ history_entry(k) = history[Slot(history_next, k)]
         /\ history_entry(k) \in Line
BY SlotOfEntry DEF ConsoleTypeOK, history_entry

LEMMA InitHolds == Init => IInv
<1> SUFFICES ASSUME Init PROVE IInv
  OBVIOUS
<1>1. history \in [0 .. Depth - 1 -> Line] /\ line \in Line /\ draft \in Line
  BY EmptyIsLine DEF Init
<1>2. screen \in Seq(Printable \cup {Prompt})
  BY EmptySeq DEF Init
<1> QED
  BY <1>1, <1>2, Sizes DEF Init, IInv, ConsoleTypeOK, ScreenShowsLine

(* What a step that shows another line establishes. *)
LEMMA Replaced ==
  ASSUME IInv, reading, NEW l \in Line, replace_line(l)
  PROVE  line' = l /\ screen' = <<Prompt>> \o l
<1>1. line' = l
  BY CopyIsWhole DEF replace_line
<1>2. line \in Line /\ screen = <<Prompt>> \o line
  BY DEF IInv, ConsoleTypeOK, ScreenShowsLine
<1>3. RubOut(Len(line)) = <<Prompt>>
  BY <1>2, RubbedOutWhole
<1> QED
  BY <1>1, <1>3 DEF replace_line

(* The part of the invariant that is about the line and the screen. *)
LEMMA StillShown ==
  ASSUME IInv,
         /\ line' \in Line
         /\ \/ reading' = reading /\ line' = line /\ screen' = screen
            \/ reading' = TRUE /\ screen' = <<Prompt>> \o line'
            \/ reading' = FALSE /\ screen' = <<>>
  PROVE  /\ reading' \in BOOLEAN
         /\ screen' \in Seq(Printable \cup {Prompt})
         /\ ScreenShowsLine'
<1>1. <<Prompt>> \o line' \in Seq(Printable \cup {Prompt})
  BY PromptAndLine DEF Shown
<1>2. <<>> \in Seq(Printable \cup {Prompt})
  BY EmptySeq
<1>3. CASE reading' = reading /\ line' = line /\ screen' = screen
  BY <1>3 DEF IInv, ConsoleTypeOK, ScreenShowsLine
<1>4. CASE reading' = TRUE /\ screen' = <<Prompt>> \o line'
  BY <1>1, <1>4 DEF ScreenShowsLine
<1>5. CASE reading' = FALSE /\ screen' = <<>>
  BY <1>2, <1>5 DEF ScreenShowsLine
<1> QED
  BY <1>3, <1>4, <1>5

(* What the abstract editor remembers. *)
Recent == [k \in 1 .. history_count |-> history_entry(k)]

LEMMA RecentIsSeq ==
  ASSUME ConsoleTypeOK
  PROVE  /\ Recent \in Seq(Line)
         /\ Len(Recent) = history_count
         /\ history_count \in Nat /\ history_count <= Depth
         /\ \A k \in 1 .. history_count :
                Recent[k] = history[Slot(history_next, k)]
<1>1. history_count \in Nat /\ history_count <= Depth
  BY Sizes DEF ConsoleTypeOK
<1>2. \A k \in 1 .. history_count :
          history_entry(k) = history[Slot(history_next, k)] /\ history_entry(k) \in Line
  BY <1>1, EntryIsLine, Sizes
<1>3. Recent \in [1 .. history_count -> Line]
  BY <1>2 DEF Recent
<1>4. Recent \in Seq(Line) /\ Len(Recent) = history_count
  BY <1>1, <1>3
<1> QED
  BY <1>1, <1>2, <1>4 DEF Recent

(* history_add writes the slot after the newest and moves on, or leaves the  *)
(* ring alone.                                                               *)
LEMMA Added ==
  ASSUME ConsoleTypeOK, history_add(line)
  PROVE  \/ UNCHANGED historyVars
         \/ /\ history' = [history EXCEPT ![history_next] = line]
            /\ history_next' = IF history_next + 1 < Depth THEN history_next + 1 ELSE 0
            /\ history_count' = IF history_count < Depth THEN history_count + 1
                                                        ELSE history_count
<1>1. copy_string(line) = line
  BY CopyIsWhole DEF ConsoleTypeOK
<1>2. (history_next + 1) % Depth = IF history_next + 1 < Depth THEN history_next + 1 ELSE 0
  BY NextSlot DEF ConsoleTypeOK
<1> QED
  BY <1>1, <1>2 DEF history_add

RingOK ==
    /\ history \in [0 .. Depth - 1 -> Line]
    /\ history_count \in 0 .. Depth /\ history_next \in 0 .. Depth - 1
    /\ history_count < Depth => history_next = history_count

LEMMA AddedKeepsRing ==
  ASSUME ConsoleTypeOK, history_add(line)
  PROVE  RingOK'
<1>1. CASE UNCHANGED historyVars
  BY <1>1 DEF historyVars, ConsoleTypeOK, RingOK
<1>2. CASE ~UNCHANGED historyVars
  <2>1. /\ history' = [history EXCEPT ![history_next] = line]
        /\ history_next' = IF history_next + 1 < Depth THEN history_next + 1 ELSE 0
        /\ history_count' = IF history_count < Depth THEN history_count + 1
                                                    ELSE history_count
    BY <1>2, Added
  <2>2. history' \in [0 .. Depth - 1 -> Line]
    BY <2>1 DEF ConsoleTypeOK
  <2>3. /\ history_count' \in 0 .. Depth /\ history_next' \in 0 .. Depth - 1
        /\ history_count' < Depth => history_next' = history_count'
    BY <2>1, Sizes DEF ConsoleTypeOK
  <2> QED
    BY <2>2, <2>3 DEF RingOK
<1> QED
  BY <1>1, <1>2

LEMMA StepHolds == IInv /\ [Next]_vars => IInv'
<1> SUFFICES ASSUME IInv, [Next]_vars PROVE IInv'
  OBVIOUS
<1>0. ConsoleTypeOK /\ RingOK
  BY DEF IInv, ConsoleTypeOK, RingOK
<1>1. CASE Call
  <2>1. /\ UNCHANGED <<history, history_count, history_next, draft, history_offset, escape>>
        /\ line' = <<>> /\ reading' = TRUE /\ screen' = <<Prompt>>
    BY <1>1 DEF Call, historyVars, browseVars
  <2>2. line' \in Line
    BY <2>1, EmptyIsLine
  <2>3. screen' = <<Prompt>> \o line'
    BY <2>1, ConcatEmptySeq
  <2>4. reading' \in BOOLEAN /\ screen' \in Seq(Printable \cup {Prompt}) /\ ScreenShowsLine'
    BY <2>1, <2>2, <2>3, StillShown
  <2> QED
    BY <1>0, <2>1, <2>2, <2>4 DEF IInv, ConsoleTypeOK
<1>2. ASSUME NEW c \in Keys, Introducer(c) PROVE IInv'
  BY <1>0, <1>2 DEF Introducer, historyVars, browseVars, IInv, ConsoleTypeOK, ScreenShowsLine
<1>3. ASSUME NEW c \in Keys, Arrow(c) PROVE IInv'
  <2>1. /\ UNCHANGED <<history, history_count, history_next, reading>>
        /\ escape' = "NORMAL" /\ reading
    BY <1>3 DEF Arrow, historyVars
  <2>2. CASE UNCHANGED <<line, browseVars, screen>>
    BY <1>0, <2>1, <2>2 DEF browseVars, IInv, ConsoleTypeOK, ScreenShowsLine
  <2>3. CASE history_count # 0 /\ KeyUp
    <3>1. draft' \in Line
      BY <2>3, <1>0, CopyIsWhole DEF KeyUp, ConsoleTypeOK
    <3>2. CASE history_offset < history_count
      <4>1. history_offset' = history_offset + 1 /\ history_offset' \in 1 .. history_count
        BY <1>0, <2>3, <3>2 DEF KeyUp, ConsoleTypeOK
      <4>2. history_entry(history_offset') \in Line
        BY <1>0, <4>1, EntryIsLine, Sizes DEF ConsoleTypeOK
      <4>3. replace_line(history_entry(history_offset'))
        BY <2>3, <3>2 DEF KeyUp
      <4>4. line' \in Line /\ screen' = <<Prompt>> \o line'
        BY <2>1, <4>2, <4>3, Replaced
      <4>5. reading' \in BOOLEAN /\ screen' \in Seq(Printable \cup {Prompt}) /\ ScreenShowsLine'
        BY <2>1, <4>4, StillShown
      <4>6. history_offset' \in 0 .. history_count'
        BY <1>0, <2>1, <4>1 DEF ConsoleTypeOK
      <4> QED
        BY <1>0, <2>1, <3>1, <4>4, <4>5, <4>6 DEF IInv, ConsoleTypeOK
    <3>3. CASE ~(history_offset < history_count)
      <4>1. UNCHANGED <<history_offset, line, screen>>
        BY <2>3, <3>3 DEF KeyUp
      <4> QED
        BY <1>0, <2>1, <3>1, <4>1 DEF IInv, ConsoleTypeOK, ScreenShowsLine
    <3> QED BY <3>2, <3>3
  <2>4. CASE history_offset # 0 /\ KeyDown
    <3>1. /\ history_offset' = history_offset - 1 /\ history_offset' \in 0 .. history_count
          /\ UNCHANGED draft
      BY <1>0, <2>4 DEF KeyDown, ConsoleTypeOK
    <3> DEFINE l == IF history_offset' = 0 THEN draft ELSE history_entry(history_offset')
    <3>2. l \in Line
      BY <1>0, <3>1, EntryIsLine, Sizes DEF ConsoleTypeOK
    <3>3. replace_line(l)
      BY <2>4 DEF KeyDown
    <3> HIDE DEF l
    <3>4. line' \in Line /\ screen' = <<Prompt>> \o line'
      BY <2>1, <3>2, <3>3, Replaced
    <3>5. reading' \in BOOLEAN /\ screen' \in Seq(Printable \cup {Prompt}) /\ ScreenShowsLine'
      BY <2>1, <3>4, StillShown
    <3> QED
      BY <1>0, <2>1, <3>1, <3>4, <3>5 DEF IInv, ConsoleTypeOK
  <2> QED
    BY <1>3, <2>2, <2>3, <2>4 DEF Arrow
<1>4. ASSUME NEW c \in Keys, ReadChar(c) PROVE IInv'
  <2>1. /\ UNCHANGED <<history, history_count, history_next, reading, draft, history_offset>>
        /\ escape' = "NORMAL" /\ reading
    BY <1>4 DEF ReadChar, Plain, historyVars, browseVars
  <2>2. CASE c \in Printable /\ HasRoom
    <3>1. line' = Append(line, c) /\ screen' = Append(screen, c)
      BY <1>4, <2>2 DEF ReadChar
    <3>2. line' \in Line
      BY <1>0, <2>2, <3>1, AppendIsLine DEF HasRoom, ConsoleTypeOK
    <3>3. screen' = <<Prompt>> \o line'
      BY <1>0, <2>1, <2>2, <3>1, EchoedChar DEF IInv, ConsoleTypeOK, ScreenShowsLine
    <3>4. reading' \in BOOLEAN /\ screen' \in Seq(Printable \cup {Prompt}) /\ ScreenShowsLine'
      BY <2>1, <3>2, <3>3, StillShown
    <3> QED
      BY <1>0, <2>1, <3>2, <3>4 DEF IInv, ConsoleTypeOK
  <2>3. CASE UNCHANGED <<line, screen>>
    BY <1>0, <2>1, <2>3 DEF IInv, ConsoleTypeOK, ScreenShowsLine
  <2> QED
    BY <1>4, <2>2, <2>3 DEF ReadChar
<1>5. CASE ReadEnter
  <2>1. /\ history_add(line) /\ UNCHANGED line /\ reading' = FALSE /\ screen' = <<>>
        /\ escape' = "NORMAL" /\ draft' = <<>> /\ history_offset' = 0
    BY <1>5 DEF ReadEnter
  <2>2. RingOK'
    BY <1>0, <2>1, AddedKeepsRing
  <2>3. line' \in Line
    BY <1>0, <2>1 DEF ConsoleTypeOK
  <2>4. reading' \in BOOLEAN /\ screen' \in Seq(Printable \cup {Prompt}) /\ ScreenShowsLine'
    BY <2>1, <2>3, StillShown
  <2>5. draft' \in Line
    BY <2>1, EmptyIsLine
  <2>6. history_offset' \in 0 .. history_count'
    BY <2>1, <2>2 DEF RingOK
  <2> QED
    BY <2>1, <2>2, <2>3, <2>4, <2>5, <2>6 DEF IInv, ConsoleTypeOK, RingOK
<1>6. CASE ReadEscape
  BY <1>0, <1>6 DEF ReadEscape, historyVars, browseVars, IInv, ConsoleTypeOK, ScreenShowsLine
<1>7. CASE ReadErase
  <2>1. /\ UNCHANGED <<history, history_count, history_next, reading, draft, history_offset>>
        /\ escape' = "NORMAL" /\ reading
    BY <1>7 DEF ReadErase, Plain, historyVars, browseVars
  <2>2. CASE line # <<>>
    <3>1. line' = SubSeq(line, 1, Len(line) - 1) /\ screen' = RubOut(1)
      BY <1>7, <2>2 DEF ReadErase
    <3>2. line' \in Line /\ 1 \in 0 .. Len(line)
      BY <1>0, <2>2, <3>1, ShortenedIsLine DEF ConsoleTypeOK
    <3>3. screen' = <<Prompt>> \o line'
      BY <1>0, <2>1, <3>1, <3>2, RubbedOut DEF IInv, ConsoleTypeOK, ScreenShowsLine
    <3>4. reading' \in BOOLEAN /\ screen' \in Seq(Printable \cup {Prompt}) /\ ScreenShowsLine'
      BY <2>1, <3>2, <3>3, StillShown
    <3> QED
      BY <1>0, <2>1, <3>2, <3>4 DEF IInv, ConsoleTypeOK
  <2>3. CASE ~(line # <<>>)
    <3>1. UNCHANGED <<line, screen>>
      BY <1>7, <2>3 DEF ReadErase
    <3> QED
      BY <1>0, <2>1, <3>1 DEF IInv, ConsoleTypeOK, ScreenShowsLine
  <2> QED BY <2>2, <2>3
<1>8. CASE UNCHANGED vars
  BY <1>0, <1>8 DEF vars, historyVars, browseVars, IInv, ConsoleTypeOK, ScreenShowsLine
<1> QED
  BY <1>1, <1>2, <1>3, <1>4, <1>5, <1>6, <1>7, <1>8 DEF Next

(* IInv is inductive. *)
THEOREM InvariantHolds == Spec => []IInv
BY InitHolds, StepHolds, PTL DEF Spec

(* A line, the draft and every line of the history fit their buffers with    *)
(* their NUL, and the history that can be recalled is the one that was       *)
(* written (console.c:156, 192).                                             *)
THEOREM TypeCorrect == Spec => []ConsoleTypeOK
<1>1. IInv => ConsoleTypeOK
  BY DEF IInv
<1> QED BY <1>1, InvariantHolds, PTL

(* After every key the terminal shows the line that Enter would return       *)
(* (console.c:100).                                                          *)
THEOREM ScreenIsLine == Spec => []ScreenShowsLine
<1>1. IInv => ScreenShowsLine
  BY DEF IInv
<1> QED BY <1>1, InvariantHolds, PTL

-----------------------------------------------------------------------------
(* The refinement *)

Own == IF history_offset # 0 THEN draft ELSE <<>>

(* The list of remembered lines after a line was put in front. *)
LEMMA Fronted ==
  ASSUME NEW l \in Line, NEW old \in Seq(Line),
         NEW n \in Nat, n <= Len(old) + 1, n >= 1
  PROVE  LET all == SubSeq(<<l>> \o old, 1, n)
         IN  /\ all \in Seq(Line) /\ Len(all) = n
             /\ all[1] = l
             /\ \A k \in 2 .. n : all[k] = old[k - 1]
<1> DEFINE both == <<l>> \o old
<1>1. <<l>> \in Seq(Line) /\ Len(<<l>>) = 1 /\ <<l>>[1] = l /\ Len(old) \in Nat
  BY LenProperties
<1>2. /\ both \in Seq(Line) /\ Len(both) = 1 + Len(old)
      /\ \A i \in 1 .. 1 + Len(old) : both[i] = IF i <= 1 THEN <<l>>[i] ELSE old[i - 1]
  BY <1>1, ConcatProperties
<1> HIDE DEF both
<1>3. \A i \in 1 .. n : both[i] \in Line
  BY <1>1, <1>2, ElementOfSeq
<1> DEFINE all == SubSeq(both, 1, n)
<1>4. /\ all \in Seq(Line) /\ Len(all) = n
      /\ \A i \in 1 .. n : all[i] = both[i]
  BY <1>3, SubSeqProperties
<1> HIDE DEF all
<1>5. /\ all[1] = l
      /\ \A k \in 2 .. n : all[k] = old[k - 1]
  BY <1>1, <1>2, <1>4
<1> QED
  BY <1>4, <1>5 DEF all, both

(* history_add is the abstract editor's Enter for the list of lines. *)
LEMMA AddsToFront ==
  ASSUME ConsoleTypeOK, RingOK', history_add(line)
  PROVE  Recent' = IF Editor!Remembered(line)
                   THEN LET all == <<line>> \o Recent
                        IN  SubSeq(all, 1, IF Len(all) > Depth THEN Depth ELSE Len(all))
                   ELSE Recent
<1>0. /\ Recent \in Seq(Line) /\ Len(Recent) = history_count
      /\ history_count \in Nat /\ history_count <= Depth
      /\ \A k \in 1 .. history_count : Recent[k] = history[Slot(history_next, k)]
  BY RecentIsSeq
<1>1. line \in Line
  BY DEF ConsoleTypeOK
<1>2. Editor!Remembered(line) <=>
          ~(is_blank_line(line) \/ (history_count # 0 /\ line = history_entry(1)))
  <2>1. Recent # <<>> <=> history_count # 0
    BY <1>0, EmptySeq
  <2>2. history_count # 0 => Recent[1] = history_entry(1)
    BY <1>0, EntryIsLine, Sizes
  <2>3. is_blank_line(line) <=> ~(\E i \in 1 .. Len(line) : line[i] # Space)
    BY DEF is_blank_line
  <2> QED
    BY <2>1, <2>2, <2>3 DEF Editor!Remembered, Recent
<1>3. CASE ~Editor!Remembered(line)
  <2>1. UNCHANGED historyVars
    BY <1>2, <1>3 DEF history_add
  <2>2. Recent' = Recent
    BY <2>1 DEF Recent, historyVars, history_entry
  <2> QED
    BY <1>3, <2>2
<1>4. CASE Editor!Remembered(line)
  <2> DEFINE both == <<line>> \o Recent
             n == IF Len(both) > Depth THEN Depth ELSE Len(both)
             all == SubSeq(both, 1, n)
  <2>1. /\ history' = [history EXCEPT ![history_next] = line]
        /\ history_next' = IF history_next + 1 < Depth THEN history_next + 1 ELSE 0
        /\ history_count' = IF history_count < Depth THEN history_count + 1
                                                    ELSE history_count
    BY <1>1, <1>2, <1>4, CopyIsWhole, NextSlot DEF history_add, ConsoleTypeOK
  <2>2. both \in Seq(Line) /\ Len(both) = history_count + 1
    <3>1. <<line>> \in Seq(Line) /\ Len(<<line>>) = 1
      BY <1>1
    <3> QED
      BY <1>0, <3>1, ConcatProperties
  <2>3. n = history_count' /\ n \in Nat /\ n >= 1 /\ n <= Len(Recent) + 1 /\ n <= Depth
    BY <1>0, <2>1, <2>2, Sizes
  <2>5. /\ all \in Seq(Line) /\ Len(all) = n /\ all[1] = line
        /\ \A k \in 2 .. n : all[k] = Recent[k - 1]
    <3> HIDE DEF n, both, all
    <3>1. Recent \in Seq(Line) /\ n \in Nat /\ n <= Len(Recent) + 1 /\ n >= 1
      BY <1>0, <2>3
    <3>2. LET rest == SubSeq(<<line>> \o Recent, 1, n)
          IN  /\ rest \in Seq(Line) /\ Len(rest) = n
              /\ rest[1] = line
              /\ \A k \in 2 .. n : rest[k] = Recent[k - 1]
      BY <1>1, <3>1, Fronted
    <3> QED
      BY <3>2 DEF both, all
  <2> HIDE DEF n, both
  <2>6. /\ Recent' \in [1 .. n -> Line]
        /\ \A k \in 1 .. n : Recent'[k] = history'[Slot(history_next', k)]
    <3>1. ASSUME NEW k \in 1 .. n
          PROVE  /\ history_entry(k)' = history'[Slot(history_next', k)]
                 /\ history_entry(k)' \in Line
      <4>1. k \in 1 .. Depth
        BY <2>3, Sizes
      <4>2. history_next' \in 0 .. Depth - 1 /\ history' \in [0 .. Depth - 1 -> Line]
        BY DEF RingOK
      <4>3. /\ (history_next' + Depth - k) % Depth = Slot(history_next', k)
            /\ Slot(history_next', k) \in 0 .. Depth - 1
        BY <4>1, <4>2, SlotOfEntry
      <4> QED
        BY <4>2, <4>3 DEF history_entry
    <3>2. Recent' = [k \in 1 .. n |-> history_entry(k)']
      BY <2>3 DEF Recent, history_entry
    <3> QED
      BY <3>1, <3>2
  <2>7. ASSUME NEW k \in 1 .. n
        PROVE  Recent'[k] = all[k]
    <3>0. /\ history_next \in 0 .. Depth - 1 /\ history_next' \in Int /\ k \in 1 .. Depth
          /\ history \in [0 .. Depth - 1 -> Line]
      BY <2>3, Sizes DEF ConsoleTypeOK, RingOK
    <3>1. CASE k = 1
      <4>1. Slot(history_next', k) = history_next
        BY <2>1, <3>0, <3>1, SlotsMoveBack
      <4> QED
        BY <2>1, <2>5, <2>6, <3>0, <3>1, <4>1
    <3>2. CASE k # 1
      <4>1. /\ Slot(history_next', k) = Slot(history_next, k - 1)
            /\ Slot(history_next', k) # history_next
        BY <2>1, <3>0, <3>2, SlotsMoveBack
      <4>2. k - 1 \in 1 .. history_count /\ k \in 2 .. n /\ k - 1 \in 1 .. Depth
        BY <1>0, <2>3, <3>2, Sizes
      <4>3. Slot(history_next, k - 1) \in 0 .. Depth - 1
        BY <3>0, <4>2, SlotOfEntry
      <4>4. history'[Slot(history_next', k)] = history[Slot(history_next, k - 1)]
        BY <2>1, <3>0, <4>1, <4>3
      <4> QED
        BY <1>0, <2>5, <2>6, <4>2, <4>4
    <3> QED BY <3>1, <3>2
  <2>8. Recent' \in Seq(Line) /\ Len(Recent') = n
    BY <2>3, <2>6
  <2>9. Recent' = all
    <3> HIDE DEF all
    <3> QED
      BY <2>5, <2>7, <2>8, SeqEqual
  <2> QED
    BY <1>4, <2>9 DEF n, both
<1> QED
  BY <1>3, <1>4

(* A step that leaves the ring and the user's line alone in these respects   *)
(* leaves the abstract list and the abstract own line alone.                 *)
LEMMA SameRecent == UNCHANGED historyVars => UNCHANGED Recent
BY DEF historyVars, Recent, history_entry

LEMMA SameOwn == UNCHANGED browseVars => UNCHANGED Own
BY DEF browseVars, Own

LEMMA KeyUpIsOlder ==
  ASSUME IInv, reading, UNCHANGED <<historyVars, reading>>, history_count # 0, KeyUp
  PROVE  Editor!Older \/ UNCHANGED Editor!editorVars
<1>0. ConsoleTypeOK /\ UNCHANGED Recent
  BY SameRecent DEF IInv
<1>1. history_count \in Nat /\ history_offset \in Nat /\ history_offset <= history_count
  BY <1>0, RecentIsSeq DEF ConsoleTypeOK
<1>2. draft' = IF history_offset = 0 THEN line ELSE draft
  BY <1>0, CopyIsWhole DEF KeyUp, SavesDraft, ConsoleTypeOK
<1>3. CASE history_offset < history_count
  <2>1. /\ history_offset' = history_offset + 1 /\ history_offset' \in 1 .. history_count
        /\ history_offset' \in 1 .. Depth
    BY <1>0, <1>1, <1>3, RecentIsSeq, Sizes DEF KeyUp
  <2>2. /\ history_entry(history_offset') \in Line
        /\ Recent[history_offset'] = history_entry(history_offset')
    BY <1>0, <2>1, EntryIsLine DEF Recent
  <2>3. line' = Recent[history_offset']
    BY <1>3, <2>2, Replaced DEF KeyUp
  <2>4. Own' = IF history_offset = 0 THEN line ELSE Own
    BY <1>1, <1>2, <2>1 DEF Own
  <2>5. history_offset < Len(Recent)
    BY <1>0, <1>3, RecentIsSeq
  <2> QED
    BY <1>0, <2>1, <2>3, <2>4, <2>5 DEF Editor!Older, Recent, Own
<1>4. CASE ~(history_offset < history_count)
  <2>1. UNCHANGED <<history_offset, line>> /\ history_offset # 0
    BY <1>1, <1>4 DEF KeyUp
  <2>2. Own' = Own
    BY <1>2, <2>1 DEF Own
  <2> QED
    BY <1>0, <2>1, <2>2 DEF Editor!editorVars, Recent, Own
<1> QED
  BY <1>3, <1>4

LEMMA KeyDownIsNewer ==
  ASSUME IInv, reading, UNCHANGED <<historyVars, reading>>, history_offset # 0, KeyDown
  PROVE  Editor!Newer
<1>0. ConsoleTypeOK /\ UNCHANGED Recent
  BY SameRecent DEF IInv
<1>1. /\ history_offset' = history_offset - 1 /\ history_offset > 0
      /\ history_offset' \in 0 .. history_count /\ history_offset' \in 0 .. Depth
      /\ draft' = draft
  BY <1>0, RecentIsSeq, Sizes DEF ConsoleTypeOK, KeyDown
<1> DEFINE l == IF history_offset' = 0 THEN draft ELSE history_entry(history_offset')
<1>2. l \in Line
  BY <1>0, <1>1, EntryIsLine, Sizes DEF ConsoleTypeOK
<1>3. l = IF history_offset' = 0 THEN Own ELSE Recent[history_offset']
  <2>1. history_offset' # 0 => history_offset' \in 1 .. history_count
    <3>1. history_count \in Nat
      BY <1>0, RecentIsSeq
    <3>2. history_offset' \in 0 .. history_count
      BY <1>1
    <3> QED
      BY ONLY <3>1, <3>2
  <2>2. Own = draft
    BY DEF Own
  <2> QED
    BY <2>1, <2>2 DEF Recent
<1>4. replace_line(l)
  BY DEF KeyDown
<1> HIDE DEF l
<1>5. line' = l
  BY <1>2, <1>4, Replaced
<1>6. Own' = IF history_offset' = 0 THEN <<>> ELSE Own
  BY <1>1 DEF Own
<1> QED
  BY <1>0, <1>1, <1>3, <1>5, <1>6 DEF Editor!Newer, Recent, Own

(* The line editor implements the abstract one: arrows, edits and Enter in   *)
(* any order, over a ring that wraps, show the remembered lines in order and *)
(* bring the user's own line back (console.c:113, 133).                      *)
THEOREM ImplementsEditor == Spec => RefinesEditor
<1>1. Init => Editor!EditorInit
  <2> SUFFICES ASSUME Init PROVE Editor!EditorInit
    OBVIOUS
  <2>1. Recent = <<>>
    <3>1. history_count = 0 /\ ConsoleTypeOK
      BY InitHolds DEF Init, IInv
    <3> QED
      BY <3>1, RecentIsSeq, EmptySeq
  <2> QED
    BY <2>1 DEF Init, Editor!EditorInit, Recent
<1>2. IInv /\ IInv' /\ [Next]_vars => [Editor!EditorNext]_(Editor!editorVars)
  <2> SUFFICES ASSUME IInv, IInv', [Next]_vars
               PROVE  Editor!EditorNext \/ UNCHANGED Editor!editorVars
    OBVIOUS
  <2>0. ConsoleTypeOK /\ RingOK'
    BY DEF IInv, ConsoleTypeOK, RingOK
  <2>1. CASE UNCHANGED <<historyVars, reading, line, browseVars>>
    BY <2>1, SameRecent, SameOwn DEF Editor!editorVars, Recent, Own, browseVars
  <2>2. CASE Call
    BY <2>2, SameRecent, SameOwn
    DEF Call, Editor!EditorNext, Editor!Start, Recent, Own, browseVars
  <2>3. ASSUME NEW c \in Keys, Introducer(c) \/ Arrow(c) \/ ReadChar(c)
        PROVE  Editor!EditorNext \/ UNCHANGED Editor!editorVars
    <3>1. CASE Introducer(c)
      BY <2>1, <3>1 DEF Introducer
    <3>2. CASE Arrow(c)
      <4>1. reading /\ UNCHANGED <<historyVars, reading>>
        BY <3>2 DEF Arrow
      <4>2. CASE history_count # 0 /\ KeyUp
        BY <4>1, <4>2, KeyUpIsOlder DEF Editor!EditorNext
      <4>3. CASE history_offset # 0 /\ KeyDown
        BY <4>1, <4>3, KeyDownIsNewer DEF Editor!EditorNext
      <4>4. CASE UNCHANGED <<line, browseVars, screen>>
        BY <2>1, <4>1, <4>4
      <4> QED
        BY <3>2, <4>2, <4>3, <4>4 DEF Arrow
    <3>3. CASE ReadChar(c)
      <4>1. reading /\ UNCHANGED <<historyVars, reading, browseVars>>
        BY <3>3 DEF ReadChar, Plain
      <4>2. CASE c \in Printable /\ HasRoom
        <5>1. line' = Append(line, c)
          BY <3>3, <4>2 DEF ReadChar
        <5>2. Len(line) < Capacity - 1
          BY <2>0, <4>2, LineIsSeq, LenProperties, Sizes DEF HasRoom, ConsoleTypeOK
        <5>3. Editor!Type
          BY <4>1, <4>2, <5>1, <5>2, SameRecent, SameOwn
          DEF Editor!Type, Recent, Own, browseVars
        <5> QED
          BY <5>3 DEF Editor!EditorNext
      <4>3. CASE UNCHANGED <<line, screen>>
        BY <2>1, <4>1, <4>3
      <4> QED
        BY <3>3, <4>2, <4>3 DEF ReadChar
    <3> QED
      BY <2>3, <3>1, <3>2, <3>3
  <2>4. CASE ReadEnter
    <3>1. /\ reading /\ reading' = FALSE /\ history_add(line)
          /\ draft' = <<>> /\ history_offset' = 0 /\ UNCHANGED line
      BY <2>4 DEF ReadEnter, Plain
    <3>2. Recent' = IF Editor!Remembered(line)
                    THEN LET all == <<line>> \o Recent
                         IN  SubSeq(all, 1, IF Len(all) > Depth THEN Depth ELSE Len(all))
                    ELSE Recent
      BY <2>0, <3>1, AddsToFront
    <3>3. Own' = <<>>
      BY <3>1 DEF Own
    <3>4. Editor!Enter
      BY <3>1, <3>2, <3>3 DEF Editor!Enter, Recent, Own
    <3> QED
      BY <3>4 DEF Editor!EditorNext
  <2>5. CASE ReadEscape
    BY <2>1, <2>5 DEF ReadEscape
  <2>6. CASE ReadErase
    <3>1. reading /\ UNCHANGED <<historyVars, reading, browseVars>>
      BY <2>6 DEF ReadErase, Plain
    <3>2. CASE line # <<>>
      <4>1. Editor!EraseLast
        BY <2>6, <3>1, <3>2, SameRecent, SameOwn
        DEF ReadErase, Editor!EraseLast, Recent, Own, browseVars
      <4> QED
        BY <4>1 DEF Editor!EditorNext
    <3>3. CASE ~(line # <<>>)
      <4>1. UNCHANGED line
        BY <2>6, <3>3 DEF ReadErase
      <4> QED
        BY <2>1, <3>1, <4>1
    <3> QED BY <3>2, <3>3
  <2>7. CASE UNCHANGED vars
    BY <2>1, <2>7 DEF vars
  <2> QED
    BY <2>2, <2>3, <2>4, <2>5, <2>6, <2>7 DEF Next
<1> QED
  BY <1>1, <1>2, InvariantHolds, PTL DEF Spec, RefinesEditor, Editor!EditorSpec
=============================================================================
