------------------------------ MODULE LineEditor ------------------------------
(***************************************************************************)
(* What src/console.c promises the shell: one line is edited at its end,   *)
(* the arrow keys show remembered lines in its place, and the user's own   *)
(* line comes back after them.  The Depth newest lines are remembered,     *)
(* except blank lines and a line equal to the newest.                      *)
(***************************************************************************)
EXTENDS Naturals, Sequences

CONSTANTS Chars, Space, MaxLength, Depth

VARIABLES
    recent,        \* the remembered lines, newest first
    editing,       \* a line is being read
    text,          \* the line shown; the line read, once editing is over
    pick,          \* 0: the user's own line, k: the k-th newest
    own            \* the user's own line while another is shown

editorVars == <<recent, editing, text, pick, own>>

EditorInit ==
    /\ recent = <<>> /\ ~editing /\ text = <<>> /\ pick = 0 /\ own = <<>>

Start ==
    /\ ~editing /\ editing' = TRUE
    /\ text' = <<>>
    /\ UNCHANGED <<recent, pick, own>>

Type ==
    /\ editing /\ Len(text) < MaxLength
    /\ \E c \in Chars : text' = Append(text, c)
    /\ UNCHANGED <<recent, editing, pick, own>>

EraseLast ==
    /\ editing /\ text # <<>>
    /\ text' = SubSeq(text, 1, Len(text) - 1)
    /\ UNCHANGED <<recent, editing, pick, own>>

Older ==
    /\ editing /\ pick < Len(recent)
    /\ pick' = pick + 1
    /\ own' = IF pick = 0 THEN text ELSE own
    /\ text' = recent[pick']
    /\ UNCHANGED <<recent, editing>>

Newer ==
    /\ editing /\ pick > 0
    /\ pick' = pick - 1
    /\ text' = IF pick' = 0 THEN own ELSE recent[pick']
    /\ own' = IF pick' = 0 THEN <<>> ELSE own
    /\ UNCHANGED <<recent, editing>>

Remembered(l) == (\E i \in 1 .. Len(l) : l[i] # Space) /\ (recent # <<>> => l # recent[1])

Enter ==
    /\ editing /\ editing' = FALSE
    /\ recent' = IF Remembered(text)
                 THEN LET all == <<text>> \o recent
                      IN  SubSeq(all, 1, IF Len(all) > Depth THEN Depth ELSE Len(all))
                 ELSE recent
    /\ pick' = 0 /\ own' = <<>>
    /\ UNCHANGED text

EditorNext == Start \/ Type \/ EraseLast \/ Older \/ Newer \/ Enter

EditorSpec == EditorInit /\ [][EditorNext]_editorVars
=============================================================================
