----------------------------- MODULE ShellInput -----------------------------
(***************************************************************************)
(* The line editor of the Host runtime shell: _read_terminal_command and   *)
(* _apply_input_character (console.py), CommandHistory and the completion  *)
(* (shell_commands.py), and the part of the session loop that uses them,   *)
(* on a POSIX terminal and on a Windows console.                           *)
(*                                                                         *)
(* An arrow or editing key sends several characters, and the editor polls  *)
(* for each of them.  Any poll may come up empty although characters are   *)
(* to come: a key that arrives in pieces is one reason, and on POSIX       *)
(* another is that sys.stdin.read(1) takes every character that is there   *)
(* into its text layer, while select polls the descriptor below.  So the   *)
(* model keeps the keys that are not read yet, however far they got, and   *)
(* leaves the outcome of a poll open.                                      *)
(***************************************************************************)
EXTENDS Naturals, Sequences

CONSTANTS
    Inputs,     \* the inputs: the keys in use and the number of keys typed
    Names       \* what the first word, or a path, completes to

\* The keys.  One that sends a single character is named as that character.
Plain == {"x", " ", "nl", "etx", "ff", "tab", "bs", "escape"}
Controls == Plain \ {"x", " "}
\* The keys that POSIX terminals send with a final "~"; Home and End have both
\* forms.
Suffixed == {"delete", "home~", "end~"}
Arrows == {"up", "down", "right", "left", "home", "end"} \cup Suffixed
Keyboard == Plain \cup Arrows
\* What the codes of the arrow and editing keys go on with is printable; the
\* character that tells the keys apart is named as its key.
Marks == {"[", "~"} \cup Arrows

ASSUME InputAssumption ==
    /\ Inputs \subseteq [keys : SUBSET Keyboard, count : Nat]
    /\ Names \subseteq Seq(STRING)

VARIABLES
    nt,                 \* os.name = "nt": the console of Windows
    input,              \* the input at hand
    typed,              \* number of keys typed
    term,               \* the keys that are not read to their end
    got,                \* characters of the first of them that are read
    cut,                \* history: its sequence was not read as one
    reading,            \* inside the loop of _read_terminal_command
    buffer, cursor,     \* command_buffer, command_cursor
    changed, history_delta, tab, command,   \* what the call returns; <<>> is no command
    entries, at, draft, \* CommandHistory: _entries, _cursor, _draft
    origin              \* history: the line that the navigation started from

history == <<entries, at, draft, origin>>
edited == <<buffer, cursor, changed>>
inputVars == <<nt, input, typed, term, got, cut, reading, edited, history_delta, tab, command,
               history>>

\* Definitions named X_Y are X with the fault Y planted in it; no module uses them.

InputInit ==
    /\ nt \in BOOLEAN /\ input \in Inputs
    /\ typed = 0 /\ term = <<>> /\ got = 0 /\ cut = FALSE /\ reading = FALSE
    /\ buffer = <<>> /\ cursor = 0
    /\ changed = FALSE /\ history_delta = 0 /\ tab = FALSE /\ command = <<>>
    /\ entries = <<>> /\ at = 0 /\ draft = <<>> /\ origin = <<>>

Type(key) ==
    /\ typed < input.count /\ typed' = typed + 1
    /\ term' = Append(term, key)
    /\ UNCHANGED <<got, cut, reading, edited, history_delta, tab, command, history>>

-----------------------------------------------------------------------------
(***************************************************************************)
(* The terminal: what a key sends, and the read of n of its characters.    *)
(***************************************************************************)
Sent(key) ==
    CASE key \in Arrows /\ nt -> <<"prefix", key>>         \* "\x00" or "\xe0", and a letter
      [] key \in Arrows \ Suffixed /\ ~nt -> <<"esc", "[", key>>   \* or ESC O
      [] key \in Suffixed /\ ~nt -> <<"esc", "[", key, "~">>
      [] OTHER -> <<key>>

Consume(n) ==
    IF got + n = Len(Sent(Head(term)))
    THEN term' = Tail(term) /\ got' = 0
    ELSE term' = term /\ got' = got + n

Begin ==
    /\ ~reading /\ term # <<>>
    /\ reading' = TRUE
    /\ changed' = FALSE /\ history_delta' = 0 /\ tab' = FALSE /\ command' = <<>>
    /\ UNCHANGED <<typed, term, got, cut, buffer, cursor, history>>

-----------------------------------------------------------------------------
(***************************************************************************)
(* _apply_input_character.  `command` holds the line as its one element.   *)
(***************************************************************************)
Strip(line) ==
    LET solid == {i \in 1 .. Len(line) : line[i] # " "}
        first == CHOOSE i \in solid : \A j \in solid : i <= j
        final == CHOOSE i \in solid : \A j \in solid : i >= j
    IN  IF solid = {} THEN <<>> ELSE SubSeq(line, first, final)

\* The line up to a position of the cursor, and from there on.
Upto(line, i) == SubSeq(line, 1, i)
From(line, i) == SubSeq(line, i + 1, Len(line))

Apply(c) ==
    \/ /\ c = "nl"
       /\ command' = <<Strip(buffer)>> /\ buffer' = <<>> /\ cursor' = 0 /\ changed' = TRUE
    \/ /\ c = "etx"
       /\ buffer' = <<>> /\ cursor' = 0 /\ changed' = TRUE /\ UNCHANGED command
    \/ /\ c = "ff" /\ changed' = TRUE /\ UNCHANGED <<buffer, cursor, command>>
    \/ /\ c \in {"tab", "escape"} /\ UNCHANGED <<buffer, cursor, command, changed>>
    \/ /\ c = "bs" /\ cursor = 0 /\ UNCHANGED <<buffer, cursor, command, changed>>
    \/ /\ c = "bs" /\ cursor > 0
       /\ buffer' = Upto(buffer, cursor - 1) \o From(buffer, cursor) /\ cursor' = cursor - 1
       /\ changed' = TRUE /\ UNCHANGED command
    \/ /\ c \notin Controls
       /\ buffer' = Upto(buffer, cursor) \o <<c>> \o From(buffer, cursor) /\ cursor' = cursor + 1
       /\ changed' = TRUE /\ UNCHANGED command

\* What an arrow or editing key does once it is recognised.
Act(key) ==
    /\ \/ /\ key \in {"up", "down"}
          /\ history_delta' = (IF key = "up" THEN 1 ELSE 2)     \* -1, +1
          /\ UNCHANGED edited
       \/ /\ key \in Arrows \ {"up", "down"}
          /\ cursor' = CASE key = "right" -> (IF cursor < Len(buffer) THEN cursor + 1 ELSE cursor)
                         [] key = "left" -> (IF cursor > 0 THEN cursor - 1 ELSE 0)
                         [] key \in {"home", "home~"} -> 0
                         [] key \in {"end", "end~"} -> Len(buffer)
                         [] key = "delete" -> cursor
          /\ buffer' = IF key = "delete" /\ cursor < Len(buffer)
                       THEN Upto(buffer, cursor) \o From(buffer, cursor + 1) ELSE buffer
          \* Windows: Delete at the end of the line changes nothing
          /\ changed' = (changed \/ ~(nt /\ key = "delete" /\ cursor = Len(buffer)))
          /\ UNCHANGED history_delta
    /\ UNCHANGED <<command, tab>>

\* How many characters of a sequence the loop reads if no poll comes up empty,
\* and with how many of them it knows the key.
Reads_SuffixLeft(key) == IF nt THEN 2 ELSE 3
Reads(key) == IF nt THEN 2 ELSE IF key \in Suffixed THEN 4 ELSE 3
Tells == IF nt THEN 2 ELSE 3

\* A sequence is read up to its end or to the first poll that comes up empty.
ReadSequence(n) ==
    /\ got = 0 /\ Head(term) \in Arrows /\ n <= Reads(Head(term))
    /\ Consume(n) /\ cut' = (n < Reads(Head(term)))
    /\ IF n >= Tells THEN Act(Head(term))
       ELSE UNCHANGED <<edited, history_delta, command, tab>>

\* POSIX: the Escape key begins a sequence, so the next character is swallowed.
Swallow ==
    /\ ~nt /\ Head(term) = "escape" /\ Len(term) > 1
    /\ IF Len(Sent(term[2])) = 1
       THEN term' = Tail(Tail(term)) /\ got' = 0 /\ cut' = FALSE
       ELSE term' = Tail(term) /\ got' = 1 /\ cut' = TRUE
    /\ UNCHANGED <<edited, history_delta, command, tab>>

\* A character by itself, of a plain key or of what is left of a sequence.
ReadCharacter ==
    LET c == Sent(Head(term))[got + 1]
    IN  /\ got > 0 \/ Head(term) \in Plain
        /\ Consume(1) /\ cut' = (cut /\ got' > 0)
        /\ Apply(c) /\ tab' = (c = "tab") /\ UNCHANGED history_delta

\* One turn of the loop; an arrow, a completed line or Tab leaves the loop.
Stopped == history_delta # 0 \/ command # <<>> \/ tab
ReadKey ==
    /\ reading /\ term # <<>> /\ ~Stopped
    /\ (\E n \in 1 .. 4 : ReadSequence(n)) \/ Swallow \/ ReadCharacter
    /\ UNCHANGED <<typed, reading, history>>

-----------------------------------------------------------------------------
(***************************************************************************)
(* The session: history, completion, and a line that is complete.          *)
(***************************************************************************)
\* CommandHistory.move: the position and the line it returns.
Older == history_delta = 1 /\ at > 0
Newer == history_delta = 2 /\ at < Len(entries)

Draft_Kept(line) == draft
Draft(line) == IF at = Len(entries) THEN line ELSE draft

Recalled(line) ==
    CASE Older -> entries[at]           \* _entries[_cursor - 1], counted from 0
      [] Newer /\ at + 1 < Len(entries) -> entries[at + 2]
      [] Newer /\ at + 1 = Len(entries) -> Draft(line)
      [] OTHER -> line

CursorAfter(line) == Len(line)

Move ==
    /\ history_delta # 0
    /\ IF entries = <<>> THEN UNCHANGED <<buffer, history>> ELSE
       /\ draft' = Draft(buffer)
       /\ origin' = IF at = Len(entries) THEN buffer ELSE origin
       /\ at' = CASE Older -> at - 1 [] Newer -> at + 1 [] OTHER -> at
       /\ buffer' = Recalled(buffer)
       /\ UNCHANGED entries
    /\ cursor' = CursorAfter(buffer')

\* CommandHistory.edit
Edit(line) == at' = Len(entries) /\ draft' = line /\ UNCHANGED entries

\* complete_shell_input: the last word of what stands before the cursor.
LastBlank(line) ==
    LET blanks == {i \in 1 .. Len(line) : line[i] = " "}
    IN  IF blanks = {} THEN 0 ELSE CHOOSE i \in blanks : \A j \in blanks : i >= j
StartsWith(line, token) == Len(token) <= Len(line) /\ Upto(line, Len(token)) = token
Matches(line) == {n \in Names : StartsWith(n, From(line, LastBlank(line)))}
Completed(line) ==
    IF \E n \in Names : Matches(line) = {n}
    THEN Upto(line, LastBlank(line)) \o (CHOOSE n \in Matches(line) : TRUE)
             \o (IF LastBlank(line) = 0 THEN <<" ">> ELSE <<>>)
    ELSE line

Complete ==
    /\ tab
    /\ LET before == Completed(Upto(buffer, cursor))
       IN  /\ buffer' = before \o From(buffer, cursor)
           /\ cursor' = Len(before)
    /\ Edit(buffer') /\ UNCHANGED origin

\* CommandHistory.remember
Remember(line) ==
    /\ entries' = IF line # <<>> /\ (entries = <<>> \/ entries[Len(entries)] # line)
                  THEN Append(entries, line) ELSE entries
    /\ at' = Len(entries') /\ draft' = <<>>

Return ==
    /\ reading          \* the loop was left, or a poll came up empty
    /\ reading' = FALSE
    /\ \/ Move
       \/ history_delta = 0 /\ Complete
       \/ /\ history_delta = 0 /\ ~tab /\ command # <<>>
          /\ Remember(command[1]) /\ UNCHANGED <<buffer, cursor, origin>>
       \/ /\ history_delta = 0 /\ ~tab /\ command = <<>> /\ changed
          /\ Edit(buffer) /\ UNCHANGED <<buffer, cursor, origin>>
       \/ /\ history_delta = 0 /\ ~tab /\ command = <<>> /\ ~changed
          /\ UNCHANGED <<buffer, cursor, history>>
    /\ UNCHANGED <<typed, term, got, cut, changed, history_delta, tab, command>>

-----------------------------------------------------------------------------
Done == typed = input.count /\ ~reading /\ UNCHANGED inputVars

InputNext ==
    \/ /\ (\E key \in input.keys : Type(key)) \/ Begin \/ ReadKey \/ Return
       /\ UNCHANGED <<nt, input>>
    \/ Done

InputSpec == InputInit /\ [][InputNext]_inputVars

-----------------------------------------------------------------------------
(***************************************************************************)
(* Properties.                                                             *)
(***************************************************************************)

CursorIsWithin ==
    /\ cursor \in 0 .. Len(buffer)
    /\ at \in 0 .. Len(entries)
    /\ history_delta \in 0 .. 2

\* A character of an arrow or editing key becomes text only if its sequence
\* was not read as one: a poll in it came up empty, or Escape was before it.
KeysAreNotText ==
    (reading' /\ Len(buffer') > Len(buffer) /\ buffer'[cursor'] \in Marks) => cut

\* The cursor stays within the line, whatever replaces the line: a recalled
\* entry, a completion, a cancelled or completed line (session.py slices the
\* line at the cursor).  And an arrow or editing key acts as a key, on both
\* terminals: no character becomes text of a key that is read as one, and the
\* editor is back in step with the keys behind what is left of a cut one.
LineIsSound == [][CursorIsWithin' /\ KeysAreNotText]_inputVars

\* Moving past the newest entry restores the line that was there before the
\* navigation began (CommandHistory.move), in whatever bursts the keys come.
RestoresDraft ==
    (reading /\ ~reading' /\ entries # <<>> /\ Newer /\ at + 1 = Len(entries))
        => buffer' = origin

\* Completion keeps what was typed, before the cursor and behind it.
KeepsText ==
    (reading /\ ~reading' /\ tab) =>
        /\ StartsWith(Upto(buffer', cursor'), Upto(buffer, cursor))
        /\ From(buffer', cursor') = From(buffer, cursor)

\* What the user typed is not lost.
TextIsKept == [][RestoresDraft /\ KeepsText]_inputVars
=============================================================================
