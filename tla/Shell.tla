------------------------------- MODULE Shell --------------------------------
(***************************************************************************)
(* The shell thread of src/lib/shell.c: the line editor, the history, the  *)
(* escape sequences and the completion, with the terminal at the other end *)
(* of the serial line.                                                     *)
(*                                                                         *)
(* An action handles one character read by shell_run.  The terminal is the *)
(* text after the prompt and the column of its cursor there; a message of  *)
(* the shell in the middle of a line leaves it in disorder (shown) until   *)
(* the next prompt.  Running a command changes nothing here.               *)
(***************************************************************************)
EXTENDS ShellTable, ShellArgs

CONSTANTS
  Char,         \* the characters typed, among them Separator
  Param,        \* bytes of escape sequences below '@'
  LineMax,      \* SHELL_LINE_MAX_SIZE
  HistorySize,  \* SHELL_HISTORY_SIZE
  EscMax,       \* SHELL_ESC_SEQ_MAX_SIZE
  SizeRange,    \* 2^32, the number of values of an unsigned long
  MaxLines      \* bound on the lines that enter the history

ASSUME ShellAssumption ==
  /\ Char \subseteq Nat /\ Separator \in Char
  /\ LineMax \in Nat \ {0} /\ HistorySize \in Nat \ {0} /\ EscMax \in Nat \ {0}
  /\ MaxLines \in Nat
  /\ SizeRange \in Nat /\ LineMax < SizeRange
  /\ \A n \in Name : /\ n \in Seq(Char \ {Separator})
                      /\ Len(n) < SizeRange - LineMax

VARIABLES
  shell_history,
  shell_history_newest,
  shell_history_oldest,
  shell_history_index,
  shell_cursor,
  escape,               \* "none", "start" or "csi"
  seq,                  \* the escape sequence so far
  screen,               \* [cells, col]: what the terminal shows
  shown,                \* does it show the line?
  mode                  \* "boot", "read", or "loop": a loop that never ends

historyVars == <<shell_history_newest, shell_history_oldest, shell_history_index>>
vars == <<tableVars, shell_history, historyVars, shell_cursor, escape, seq,
          screen, shown, mode>>

Line == UNION {[1 .. n -> Char] : n \in 0 .. LineMax - 1}

Slot(index) == index % HistorySize       \* shell_history_get
Current == shell_history[Slot(shell_history_newest)]

TypeOK ==
  /\ shell_history \in [0 .. HistorySize - 1 -> Line]
  /\ shell_history_newest - shell_history_oldest \in 0 .. HistorySize - 1
  /\ shell_history_index \in shell_history_oldest .. shell_history_newest
  /\ shell_cursor \in 0 .. Len(Current)
  /\ Len(seq) < EscMax
  /\ screen \in [cells : [1 .. LineMax -> Char], col : 0 .. LineMax]

-----------------------------------------------------------------------------
(* The terminal.                                                           *)

Blanks(n) == [i \in 1 .. n |-> Separator]

Prompt == [cells |-> Blanks(LineMax), col |-> 0]

\* printf of the string s.
Put(scr, s) ==
  [cells |-> [i \in 1 .. LineMax |->
                IF i \in scr.col + 1 .. scr.col + Len(s) THEN s[i - scr.col]
                ELSE scr.cells[i]],
   col   |-> scr.col + Len(s)]

\* n backspaces, or moves to the left.
Left(scr, n) == [scr EXCEPT !.col = @ - n]

-----------------------------------------------------------------------------
(* The line editor: operations on the current line, the cursor and the     *)
(* terminal together.                                                      *)

Editor == [line |-> Current, cursor |-> shell_cursor, screen |-> screen, error |-> FALSE]

\* shell_line_insert and shell_line_erase
LineInsert(line, index, c) == Insert(line, index, c)
LineErase(line, index) ==
  SubSeq(line, 1, index) \o SubSeq(line, index + 2, Len(line))

\* Faulty variant: the rest of the line is not printed again.
RawCharAtEnd(e, c) ==
  IF e.error \/ Len(e.line) + 1 = LineMax THEN [e EXCEPT !.error = TRUE]
  ELSE [e EXCEPT !.line = LineInsert(@, e.cursor, c), !.cursor = @ + 1,
                 !.screen = Put(@, <<c>>)]

\* shell_process_raw_char; error is sticky, for the loop of the completion.
RawChar(e, c) ==
  LET line == LineInsert(e.line, e.cursor, c)
      rest == SubSeq(line, e.cursor + 1, Len(line))
  IN  IF e.error \/ Len(e.line) + 1 = LineMax THEN [e EXCEPT !.error = TRUE]
      ELSE [e EXCEPT !.line = line, !.cursor = @ + 1,
                     !.screen = Left(Put(@, rest), Len(rest) - 1)]

\* shell_process_backspace
Backspace(e) ==
  LET line == LineErase(e.line, e.cursor - 1)
      rest == SubSeq(line, e.cursor, Len(line)) \o <<Separator>>
  IN  IF e.cursor = 0 THEN e
      ELSE [e EXCEPT !.line = line, !.cursor = @ - 1,
                     !.screen = Left(Put(Left(@, 1), rest), Len(rest))]

\* The loops of the completion: n backspaces, and the characters of s typed.
Backspaces(e, n) ==
  LET after[k \in 0 .. n] == IF k = 0 THEN e ELSE Backspace(after[k - 1])
  IN  after[n]
RawChars(e, s) ==
  LET after[k \in 0 .. Len(s)] == IF k = 0 THEN e ELSE RawChar(after[k - 1], s[k])
  IN  after[Len(s)]

\* Calls of shell_process_left and shell_process_right up to a cursor.
MoveTo(e, cursor) ==
  [e EXCEPT !.cursor = cursor, !.screen = Left(@, e.cursor - cursor)]

\* shell_process_right and shell_process_backspace, unless at the end.
Delete(e) ==
  IF e.cursor = Len(e.line) THEN e ELSE Backspace(MoveTo(e, e.cursor + 1))

\* shell_erase and, for the new line, shell_restore.
Replace(e, line) ==
  LET size   == Len(e.line)
      erased == Left(Put(Left(Put(e.screen, Blanks(size - e.cursor)), size),
                         Blanks(size)), size)
  IN  [e EXCEPT !.line = line, !.cursor = Len(line), !.screen = Put(erased, line)]

\* The end of a handler: the line too long, after which shell_run starts over
\* with shell_reset, or the new state of the editor.
Becomes(e) ==
  LET f == IF e.error THEN [e EXCEPT !.line = <<>>, !.cursor = 0, !.screen = Prompt]
           ELSE e
  IN  /\ shell_history' = [shell_history EXCEPT ![Slot(shell_history_newest)] = f.line]
      /\ shell_cursor' = f.cursor
      /\ screen' = f.screen

-----------------------------------------------------------------------------
(* Completion.                                                             *)

\* shell_find_word, as an offset in the line.
WordStart(line) ==
  Least({i \in 0 .. Len(line) : i = Len(line) \/ line[i + 1] # Separator})

\* The size that shell_process_tabulation passes to shell_cmd_complete.
WordSize == (shell_cursor - WordStart(Current)) % SizeRange

Word == SubSeq(Current, WordStart(Current) + 1, Len(Current))

\* Faulty variant: the whole command name replaces the line.
CompletedWhole(e, c) == RawChars(Backspaces(MoveTo(e, Len(e.line)), Len(e.line)),
                                 SubSeq(c.name, 1, c.size))

\* The beginning of the word is erased and replaced.  With several matches
\* they were printed first, and the line again under a new prompt.
Completed(e, c) ==
  LET redrawn == IF c.again
                 THEN [e EXCEPT !.screen = Left(Put(Prompt, e.line), Len(e.line) - e.cursor)]
                 ELSE e
  IN  RawChars(Backspaces(redrawn, e.cursor - WordStart(e.line)),
               SubSeq(c.name, 1, c.size))

\* shell_process_tabulation.  With a cursor in front of the word, the loop
\* that erases back to the start of the word never gets there.
Tabulation ==
  LET c == Complete(Word, WordSize)
      e == Completed(Editor, c)
  IN  /\ c.found
      /\ IF shell_cursor < WordStart(Current)
         THEN /\ Becomes(Backspaces(Editor, shell_cursor))
              /\ mode' = "loop"
              /\ UNCHANGED shown
         ELSE /\ Becomes(e)
              /\ shown' = (shown \/ c.again \/ e.error)
              /\ UNCHANGED mode
      /\ UNCHANGED <<tableVars, historyVars, escape, seq>>

-----------------------------------------------------------------------------
(* History.                                                                *)

\* shell_history_same_newest
SameNewest ==
  /\ shell_history_newest # shell_history_oldest
  /\ Current = shell_history[Slot(shell_history_newest - 1)]

\* The oldest entry kept when newest becomes the current one.
Oldest(newest) ==
  IF newest - shell_history_oldest >= HistorySize
  THEN newest - HistorySize + 1 ELSE shell_history_oldest

\* The end of a line: shell_process_line, with shell_history_push, and then
\* shell_reset.
Enter ==
  LET newest == IF Current = <<>> \/ SameNewest THEN shell_history_newest
                ELSE shell_history_newest + 1
  IN  /\ newest <= MaxLines
      /\ shell_history_newest' = newest
      /\ shell_history_index' = newest
      /\ shell_history_oldest' = Oldest(newest)
      /\ shell_history' = [shell_history EXCEPT ![Slot(newest)] = <<>>]
      /\ shell_cursor' = 0
      /\ screen' = Prompt
      /\ shown' = TRUE
      /\ UNCHANGED <<tableVars, escape, seq, mode>>

\* shell_process_up, with shell_history_back.
Up ==
  /\ IF shell_history_index = shell_history_oldest
     THEN Becomes(Replace(Editor, Current)) /\ UNCHANGED shell_history_index
     ELSE /\ shell_history_index' = shell_history_index - 1
          /\ Becomes(Replace(Editor, shell_history[Slot(shell_history_index - 1)]))
  /\ UNCHANGED <<shell_history_newest, shell_history_oldest>>

\* Faulty variant: the line below the last one is not empty.
DownKeepsLine ==
  /\ shell_history_index # shell_history_newest
  /\ shell_history_index' = shell_history_index + 1
  /\ Becomes(Replace(Editor, shell_history[Slot(shell_history_index + 1)]))
  /\ UNCHANGED <<shell_history_newest, shell_history_oldest>>

\* shell_process_down, with shell_history_forward.
Down ==
  /\ IF shell_history_index = shell_history_newest
     THEN Becomes(Replace(Editor, Current)) /\ UNCHANGED shell_history_index
     ELSE LET index == shell_history_index + 1
          IN  /\ shell_history_index' = index
              /\ Becomes(Replace(Editor, IF index = shell_history_newest THEN <<>>
                                         ELSE shell_history[Slot(index)]))
  /\ UNCHANGED <<shell_history_newest, shell_history_oldest>>

-----------------------------------------------------------------------------
(* Escape sequences.                                                       *)

Final == {"A", "B", "C", "D", "F", "H", "~"}

Moves(e) == Becomes(e) /\ UNCHANGED historyVars

\* shell_esc_seq_lookup, and the function of the sequence found.
EscSeq(s) ==
  \/ s = <<"A">> /\ Up
  \/ s = <<"B">> /\ Down
  \/ s = <<"C">> /\ Moves(IF shell_cursor = Len(Current) THEN Editor
                          ELSE MoveTo(Editor, shell_cursor + 1))
  \/ s = <<"D">> /\ Moves(IF shell_cursor = 0 THEN Editor
                          ELSE MoveTo(Editor, shell_cursor - 1))
  \/ s \in {<<"H">>, <<"1", "~">>} /\ Moves(MoveTo(Editor, 0))
  \/ s = <<"3", "~">> /\ Moves(Delete(Editor))
  \/ s \in {<<"F">>, <<"4", "~">>} /\ Moves(MoveTo(Editor, Len(Current)))

Known == {<<"A">>, <<"B">>, <<"C">>, <<"D">>, <<"H">>, <<"F">>,
          <<"1", "~">>, <<"3", "~">>, <<"4", "~">>}

\* One character in an escape sequence: shell_process_esc_sequence.
EscChar(c) ==
  LET s    == Append(seq, c)
      long == Len(seq) >= EscMax - 1
  IN  /\ escape = "csi"
      /\ IF ~long /\ s \in Known THEN EscSeq(s)
         ELSE UNCHANGED <<shell_history, historyVars, shell_cursor, screen>>
      /\ seq' = IF long \/ c \in Final THEN <<>> ELSE s
      /\ escape' = IF long \/ c \in Final THEN "none" ELSE "csi"
      /\ shown' = (shown /\ ~long)
      /\ UNCHANGED <<tableVars, mode>>

\* The escape character, and the one after it: '[' or 'O', or another.
Escape(to) ==
  /\ \/ escape = "none" /\ to = "start"
     \/ escape = "start" /\ to \in {"csi", "none"}
  /\ escape' = to
  /\ UNCHANGED <<tableVars, shell_history, historyVars, shell_cursor, seq, screen,
                 shown, mode>>

-----------------------------------------------------------------------------
\* shell_process_raw_char and shell_process_backspace, called by shell_run.
Type(e) ==
  /\ Moves(e)
  /\ shown' = (shown \/ e.error)
  /\ UNCHANGED <<tableVars, escape, seq, mode>>

Read ==
  /\ mode = "read"
  /\ \/ \E c \in Final \cup Param : EscChar(c)
     \/ \E to \in {"start", "csi", "none"} : Escape(to)
     \/ /\ escape = "none"
        /\ \/ \E c \in Char : Type(RawChar(Editor, c))
           \/ Type(Backspace(Editor))
           \/ Tabulation
           \/ Enter

\* Before the shell thread runs: the setup functions register commands.
Boot ==
  /\ mode = "boot"
  /\ \/ \E n \in Name : Register(n) /\ UNCHANGED mode
     \/ /\ \A n \in Name : Lookup(n)
        /\ mode' = "read"
        /\ UNCHANGED tableVars
  /\ UNCHANGED <<shell_history, historyVars, shell_cursor, escape, seq, screen, shown>>

\* Turns of the loop of shell_process_tabulation that change nothing.
Loop == mode = "loop" /\ UNCHANGED vars

Init ==
  /\ TableInit
  /\ shell_history = [i \in 0 .. HistorySize - 1 |-> <<>>]
  /\ shell_history_newest = 0
  /\ shell_history_oldest = 0
  /\ shell_history_index = 0
  /\ shell_cursor = 0
  /\ escape = "none" /\ seq = <<>>
  /\ screen = Prompt /\ shown = TRUE
  /\ mode = "boot"

Next == Boot \/ Read \/ Loop

Spec == Init /\ [][Next]_vars

-----------------------------------------------------------------------------
\* The user sees the line being edited: the characters that the handlers print
\* make the terminal show the current line, nothing after it, and the cursor
\* at shell_cursor. Left out is the time from the message about a too long
\* escape sequence, printed inside the line, to the next prompt (shown).
ScreenShowsLine ==
  shown /\ mode = "read" =>
    screen = Left(Put(Prompt, Current), Len(Current) - shell_cursor)

Past == [i \in 1 .. shell_history_newest - shell_history_oldest |->
           shell_history[Slot(shell_history_oldest + i - 1)]]

History == INSTANCE LineHistory WITH
  Kept <- HistorySize - 1, past <- Past, line <- Current,
  at <- shell_history_index - shell_history_oldest + 1

\* The ring of entries with its three indexes keeps the lines that were
\* entered, in order: browsing and editing never change an older entry, and
\* only the oldest ones are lost.
ImplementsHistory == History!Spec

\* The line with the command c instead of the beginning of the word: what
\* is in front of the word, and the text from the cursor on, stay.
Beginning(c) == SubSeq(Current, 1, WordStart(Current)) \o SubSeq(c.name, 1, c.size)
Rest == SubSeq(Current, shell_cursor + 1, Len(Current))

\* A completion leaves the text to the right of the cursor alone, as the
\* comment in shell_process_tabulation says of the arguments: the backspaces
\* and the characters it types put the command in front of that text, and the
\* cursor between them.  The text is lost only with the whole line, and only
\* when the completed line has no room: shell_process_raw_char then fails
\* halfway and shell_run starts a new line.  The loop that never ends has
\* erased what is in front of the cursor, and nothing else.
CompletionKeepsRest ==
  [][mode = "read" /\ escape = "none" /\ Tabulation =>
       LET before == Beginning(Complete(Word, WordSize))
       IN  IF mode' = "loop" THEN Current' = Rest /\ shell_cursor' = 0
           ELSE IF Len(before) + Len(Rest) < LineMax
           THEN Current' = before \o Rest /\ shell_cursor' = Len(before)
           ELSE Current' = <<>> /\ shell_cursor' = 0]_vars

\* The comment of shell_cmd_complete says that the size it is given is that of
\* the string: wherever the cursor is when the tabulation is typed, the part
\* to complete is no longer than the word.
CompletesWord == mode = "read" => WordSize <= Len(Word)
=============================================================================
