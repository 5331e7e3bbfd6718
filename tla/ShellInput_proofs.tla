------------------------- MODULE ShellInput_proofs -------------------------
(***************************************************************************)
(* Proofs about ShellInput, on both terminals and for every outcome of a   *)
(* poll: no key that is read as one becomes text, the cursor stays within  *)
(* the line, and what the user typed is kept.                              *)
(***************************************************************************)
EXTENDS ShellInput, SequenceTheorems, WellFoundedInduction, TLAPS

-----------------------------------------------------------------------------
(***************************************************************************)
(* What the slices of a line are.                                          *)
(***************************************************************************)
LEMMA Slices ==
    ASSUME NEW T, NEW s \in Seq(T), NEW i \in 0 .. Len(s)
    PROVE  /\ Upto(s, i) \in Seq(T) /\ Len(Upto(s, i)) = i
           /\ \A k \in 1 .. i : Upto(s, i)[k] = s[k]
           /\ From(s, i) \in Seq(T) /\ Len(From(s, i)) = Len(s) - i
           /\ \A k \in 1 .. Len(s) - i : From(s, i)[k] = s[k + i]
<1>1. Len(s) \in Nat
  OBVIOUS
<1>2. \A m, n \in Nat : m <= n + 1 /\ 1 <= m /\ n <= Len(s) =>
          /\ SubSeq(s, m, n) \in Seq(T) /\ Len(SubSeq(s, m, n)) = n + 1 - m
          /\ \A k \in 1 .. n + 1 - m : SubSeq(s, m, n)[k] = s[m + k - 1]
  BY <1>1
<1>3. QED
  BY <1>1, <1>2 DEF Upto, From

LEMMA Joins ==
    ASSUME NEW T, NEW s \in Seq(T), NEW t \in Seq(T)
    PROVE  /\ s \o t \in Seq(T) /\ Len(s \o t) = Len(s) + Len(t)
           /\ \A k \in 1 .. Len(s) : (s \o t)[k] = s[k]
           /\ \A k \in 1 .. Len(t) : (s \o t)[Len(s) + k] = t[k]
OBVIOUS

\* A line that was put together is taken apart at the seam.
LEMMA Seam ==
    ASSUME NEW T, NEW s \in Seq(T), NEW t \in Seq(T)
    PROVE  Upto(s \o t, Len(s)) = s /\ From(s \o t, Len(s)) = t
<1>1. Len(s) \in 0 .. Len(s \o t) /\ s \o t \in Seq(T) /\ Len(s) \in Nat /\ Len(t) \in Nat
  BY Joins
<1> DEFINE u == Upto(s \o t, Len(s))
           f == From(s \o t, Len(s))
<1>2. /\ u \in Seq(T) /\ Len(u) = Len(s) /\ \A k \in 1 .. Len(s) : u[k] = (s \o t)[k]
      /\ f \in Seq(T) /\ Len(f) = Len(s \o t) - Len(s)
      /\ \A k \in 1 .. Len(s \o t) - Len(s) : f[k] = (s \o t)[k + Len(s)]
  BY <1>1, Slices, ZenonT(40)
<1>3. Len(f) = Len(t) /\ \A k \in 1 .. Len(t) : f[k] = t[k]
  BY <1>1, <1>2, Joins
<1>4. \A k \in 1 .. Len(s) : u[k] = s[k]
  BY <1>2, Joins
<1> HIDE DEF u, f
<1>5. u = s
  BY <1>2, <1>4, SeqEqual, Zenon
<1>6. f = t
  BY <1>2, <1>3, SeqEqual, Zenon
<1>7. QED
  BY <1>5, <1>6, Zenon DEF u, f

\* A set of positions has a first and a last one.
LEMMA Least == \A S \in SUBSET Nat : S # {} => \E i \in S : \A j \in S : i <= j
<1>1. SUFFICES ASSUME NEW S \in SUBSET Nat, S # {} PROVE \E i \in S : \A j \in S : i <= j
  OBVIOUS
<1>2. PICK i \in S : \A j \in S : ~(<<j, i>> \in OpToRel(<, Nat))
  BY <1>1, NatLessThanWellFounded, WFMin, Zenon
<1>3. \A j \in S : ~(j < i)
  BY <1>2, Zenon DEF OpToRel
<1>4. QED
  BY <1>3

LEMMA Greatest ==
    \A n \in Nat : \A S \in SUBSET (1 .. n) : S # {} => \E i \in S : \A j \in S : i >= j
<1>1. SUFFICES ASSUME NEW n \in Nat, NEW S \in SUBSET (1 .. n), S # {}
               PROVE  \E i \in S : \A j \in S : i >= j
  BY Zenon
<1> DEFINE D == {n - i : i \in S}
<1>2. D \in SUBSET Nat /\ D # {}
  <2>1. \A i \in S : n - i \in Nat
    BY <1>1
  <2>2. QED
    BY <1>1, <2>1, Zenon
<1>3. PICK d \in D : \A e \in D : d <= e
  BY <1>2, Least, Zenon
<1>4. PICK i \in S : d = n - i
  BY <1>3, Zenon
<1>5. \A j \in S : n - i <= n - j
  BY <1>3, <1>4, Zenon
<1>6. QED
  BY <1>4, <1>5

-----------------------------------------------------------------------------
(***************************************************************************)
(* The terminal: between two turns of the loop the first key is whole, or  *)
(* its sequence was not read as one.                                       *)
(***************************************************************************)
TerminalInv ==
    /\ nt \in BOOLEAN
    /\ term \in Seq(Keyboard)
    /\ got \in Nat
    /\ got > 0 => /\ cut /\ term # <<>> /\ Head(term) \in Arrows
                  /\ got < Len(Sent(Head(term)))

LEMMA Single ==
    ASSUME NEW T, NEW c \in T
    PROVE  <<c>> \in Seq(T) /\ Len(<<c>>) = 1 /\ \A i \in 1 .. Len(<<c>>) : <<c>>[i] = c
OBVIOUS

\* A plain key sends itself; what a sequence goes on with are marks, and the
\* loop reads it to its end if no poll comes up empty.
LEMMA PlainSends ==
    ASSUME NEW key \in Plain
    PROVE  Sent(key) = <<key>> /\ key \notin Marks /\ key \notin Arrows
<1>1. key \notin Marks /\ key \notin Arrows
  BY Zenon DEF Plain, Marks, Arrows, Suffixed
<1>2. key \notin Arrows \ Suffixed /\ key \notin Suffixed
  BY <1>1, Zenon DEF Arrows
<1>3. QED
  BY <1>1, <1>2, Zenon DEF Sent

LEMMA ArrowSends ==
    ASSUME NEW key \in Arrows, nt \in BOOLEAN
    PROVE  /\ Len(Sent(key)) = Reads(key) /\ Reads(key) \in 2 .. 4
           /\ \A i \in 2 .. Len(Sent(key)) : Sent(key)[i] \in Marks
<1>1. key \in Marks /\ "[" \in Marks /\ "~" \in Marks
  BY Zenon DEF Marks
<1>2. CASE nt
  <2>1. Sent(key) = <<"prefix", key>> /\ Reads(key) = 2
    BY <1>2, Zenon DEF Sent, Reads
  <2>2. QED
    BY <1>1, <2>1
<1>3. CASE ~nt /\ key \in Suffixed
  <2>1. Sent(key) = <<"esc", "[", key, "~">> /\ Reads(key) = 4
    BY <1>3, Zenon DEF Sent, Reads
  <2>2. QED
    BY <1>1, <2>1
<1>4. CASE ~nt /\ key \notin Suffixed
  <2>1. Sent(key) = <<"esc", "[", key>> /\ Reads(key) = 3
    BY <1>4, Zenon DEF Sent, Reads
  <2>2. QED
    BY <1>1, <2>1
<1>5. QED
  BY <1>2, <1>3, <1>4, Zenon

\* Lines of text.
Text == STRING \cup Keyboard \cup Marks
Lines == Seq(Text)

LineTypes ==
    /\ buffer \in Lines /\ entries \in Seq(Lines) /\ draft \in Lines /\ origin \in Lines
    /\ command = <<>> \/ (command = <<command[1]>> /\ command[1] \in Lines)

DraftIsOrigin == at < Len(entries) => draft = origin

\* A call of _read_terminal_command reports an arrow or Tab, not both.
OneOutcome == tab \in BOOLEAN /\ (tab => history_delta = 0)

LineInv == LineTypes /\ CursorIsWithin /\ DraftIsOrigin /\ OneOutcome
InputInv == TerminalInv /\ LineInv

\* The edits of a line: a character is removed or inserted.
LEMMA RemovesOne ==
    ASSUME NEW b \in Lines, NEW i \in 0 .. Len(b), NEW j \in 0 .. Len(b), j = i + 1
    PROVE  /\ Upto(b, i) \o From(b, j) \in Lines
           /\ Len(Upto(b, i) \o From(b, j)) = Len(b) - 1
<1>1. Len(b) \in Nat /\ i + (Len(b) - j) = Len(b) - 1
  BY DEF Lines
<1>2. /\ Upto(b, i) \in Lines /\ Len(Upto(b, i)) = i
      /\ From(b, j) \in Lines /\ Len(From(b, j)) = Len(b) - j
  BY Slices, Zenon DEF Lines
<1> DEFINE u == Upto(b, i)
           f == From(b, j)
<1>3. u \o f \in Lines /\ Len(u \o f) = Len(u) + Len(f)
  BY <1>2, Joins, Zenon DEF Lines
<1>4. Len(u) = i /\ Len(f) = Len(b) - j
  BY <1>2, Zenon
<1> HIDE DEF u, f
<1>5. u \o f \in Lines /\ Len(u \o f) = Len(b) - 1
  BY <1>1, <1>3, <1>4, Zenon
<1>6. QED
  BY <1>5, Zenon DEF u, f

LEMMA InsertsOne ==
    ASSUME NEW b \in Lines, NEW i \in 0 .. Len(b), NEW c \in Text
    PROVE  /\ Upto(b, i) \o <<c>> \o From(b, i) \in Lines
           /\ Len(Upto(b, i) \o <<c>> \o From(b, i)) = Len(b) + 1
           /\ (Upto(b, i) \o <<c>> \o From(b, i))[i + 1] = c
<1>1. Len(b) \in Nat /\ (i + 1) + (Len(b) - i) = Len(b) + 1
  BY DEF Lines
<1>2. /\ Upto(b, i) \in Lines /\ Len(Upto(b, i)) = i
      /\ From(b, i) \in Lines /\ Len(From(b, i)) = Len(b) - i
  BY Slices, Zenon DEF Lines
<1>3. <<c>> \in Lines /\ Len(<<c>>) = 1
  BY Single, Zenon DEF Lines
<1> DEFINE u == Upto(b, i)
           f == From(b, i)
           o == <<c>>
<1>4. u \in Lines /\ Len(u) = i /\ f \in Lines /\ Len(f) = Len(b) - i /\ o \in Lines /\ Len(o) = 1
  BY <1>2, <1>3, Zenon
<1> HIDE DEF u, f, o
<1>5. u \o o \in Lines /\ Len(u \o o) = Len(u) + Len(o)
  BY <1>4, Joins, Zenon DEF Lines
<1>6. u \o o \o f \in Lines /\ Len(u \o o \o f) = Len(u \o o) + Len(f)
  BY <1>4, <1>5, Joins, Zenon DEF Lines
<1>7. u \o o \o f \in Lines /\ Len(u \o o \o f) = Len(b) + 1
  BY <1>1, <1>4, <1>5, <1>6, Zenon
<1>8. (u \o o \o f)[i + 1] = c
  <2>1. o[1] = c
    BY DEF o
  <2>2. (u \o o)[i + 1] = o[1] /\ i + 1 \in 1 .. Len(u \o o)
    BY <1>1, <1>4, <1>5 DEF Lines
  <2>3. (u \o o \o f)[i + 1] = (u \o o)[i + 1]
    BY <1>4, <1>5, <2>2, Joins, Zenon DEF Lines
  <2>4. QED
    BY <2>1, <2>2, <2>3, Zenon
<1>9. QED
  BY <1>7, <1>8, Zenon DEF u, f, o

\* str.strip
LEMMA StripIsLine == \A line \in Lines : Strip(line) \in Lines
<1>1. SUFFICES ASSUME NEW line \in Lines PROVE Strip(line) \in Lines
  OBVIOUS
<1> DEFINE solid == {i \in 1 .. Len(line) : line[i] # " "}
           first == CHOOSE i \in solid : \A j \in solid : i <= j
           final == CHOOSE i \in solid : \A j \in solid : i >= j
<1>2. Len(line) \in Nat /\ solid \in SUBSET (1 .. Len(line)) /\ solid \in SUBSET Nat
  <2>1. Len(line) \in Nat /\ \A i \in 1 .. Len(line) : i \in Nat
    BY DEF Lines
  <2>2. QED
    BY <2>1, Zenon
<1>3. CASE solid = {}
  <2>1. Strip(line) = <<>>
    BY <1>3, Zenon DEF Strip
  <2>2. QED
    BY <2>1 DEF Lines
<1>4. CASE solid # {}
  <2>1. \E i \in solid : \A j \in solid : i <= j
    BY <1>2, <1>4, Least, Zenon
  <2>2. \E i \in solid : \A j \in solid : i >= j
    BY <1>2, <1>4, Greatest, Zenon
  <2> HIDE DEF solid
  <2>3. first \in solid /\ final \in solid /\ first <= final
    BY <2>1, <2>2, Zenon
  <2>4. first \in 1 .. Len(line) /\ final \in 1 .. Len(line)
    BY <1>2, <2>3, Zenon
  <2>5. Strip(line) = SubSeq(line, first, final)
    BY <1>4, Zenon DEF Strip, solid
  <2> HIDE DEF first, final
  <2>6. QED
    BY <1>2, <2>3, <2>4, <2>5 DEF Lines
<1>5. QED
  BY <1>3, <1>4, Zenon

LEMMA BlankIsWithin == \A line \in Lines : LastBlank(line) \in 0 .. Len(line)
<1>1. SUFFICES ASSUME NEW line \in Lines PROVE LastBlank(line) \in 0 .. Len(line)
  OBVIOUS
<1> DEFINE blanks == {i \in 1 .. Len(line) : line[i] = " "}
<1>2. Len(line) \in Nat /\ blanks \in SUBSET (1 .. Len(line))
  <2>1. Len(line) \in Nat
    BY DEF Lines
  <2>2. QED
    BY <2>1, Zenon
<1>3. CASE blanks = {}
  <2>1. LastBlank(line) = 0
    BY <1>3, Zenon DEF LastBlank
  <2>2. 0 \in 0 .. Len(line)
    BY DEF Lines
  <2>3. QED
    BY <2>1, <2>2, Zenon
<1>4. CASE blanks # {}
  <2>1. \E i \in blanks : \A j \in blanks : i >= j
    BY <1>2, <1>4, Greatest, Zenon
  <2>2. LastBlank(line) = CHOOSE i \in blanks : \A j \in blanks : i >= j
    BY <1>4, Zenon DEF LastBlank
  <2> HIDE DEF blanks
  <2>3. LastBlank(line) \in blanks
    BY <2>1, <2>2, Zenon
  <2>4. \A i \in 1 .. Len(line) : i \in 0 .. Len(line)
    BY <1>2
  <2>5. QED
    BY <1>2, <2>3, <2>4, Zenon
<1>5. QED
  BY <1>3, <1>4, Zenon

\* Completion extends what stands before the cursor.
LEMMA CompletionExtends ==
    ASSUME NEW line \in Lines
    PROVE  Completed(line) \in Lines /\ StartsWith(Completed(line), line)
<1> DEFINE at0 == LastBlank(line)
           word == From(line, at0)
           found == CHOOSE n \in Matches(line) : TRUE
           more == IF at0 = 0 THEN <<" ">> ELSE <<>>
<1>1. Len(line) \in Nat /\ at0 \in 0 .. Len(line)
  BY BlankIsWithin DEF Lines
<1>2. CASE Completed(line) = line
  <2>1. Len(line) \in 0 .. Len(line) /\ Len(line) <= Len(line)
    BY <1>1
  <2>2. Upto(line, Len(line)) \in Lines /\ Len(Upto(line, Len(line))) = Len(line)
        /\ \A k \in 1 .. Len(line) : Upto(line, Len(line))[k] = line[k]
    BY <2>1, Slices, Zenon DEF Lines
  <2>3. Upto(line, Len(line)) = line
    BY <2>2, SeqEqual, Zenon DEF Lines
  <2>4. QED
    BY <1>2, <2>1, <2>3, Zenon DEF StartsWith
<1>3. CASE \E n \in Names : Matches(line) = {n}
  <2>1. Completed(line) = Upto(line, at0) \o found \o more
    BY <1>3, Zenon DEF Completed
  <2>2. Matches(line) # {}
    BY <1>3, Zenon
  <2>3. found \in Names /\ StartsWith(found, word)
    BY <2>2, Zenon DEF Matches
  <2>4. found \in Lines
    <3>1. Names \subseteq Seq(STRING)
      BY InputAssumption, Zenon DEF InputAssumption
    <3>2. STRING \subseteq Text
      BY Zenon DEF Text
    <3>3. QED
      BY <2>3, <3>1, <3>2, SeqMonotonic, Zenon DEF Lines
  <2>5. more \in Lines
    <3>1. " " \in Text
      BY Zenon DEF Text, Keyboard, Plain
    <3>2. <<" ">> \in Lines /\ <<>> \in Lines
      BY <3>1, Single, EmptySeq, Zenon DEF Lines
    <3>3. QED
      BY <3>2, Zenon
  <2> HIDE DEF found, more
  <2> DEFINE u == Upto(line, at0)
             all == u \o found \o more
  <2>6. /\ u \in Lines /\ Len(u) = at0 /\ (\A k \in 1 .. at0 : u[k] = line[k])
        /\ word \in Lines /\ Len(word) = Len(line) - at0
        /\ \A k \in 1 .. Len(line) - at0 : word[k] = line[k + at0]
    BY <1>1, Slices, Zenon DEF Lines
  <2>7. Len(word) <= Len(found) /\ \A k \in 1 .. Len(word) : found[k] = word[k]
    <3>1. Len(word) <= Len(found) /\ Upto(found, Len(word)) = word
      BY <2>3, Zenon DEF StartsWith
    <3>2. Len(word) \in 0 .. Len(found)
      BY <2>4, <2>6, <3>1 DEF Lines
    <3>3. \A k \in 1 .. Len(word) : Upto(found, Len(word))[k] = found[k]
      BY <2>4, <3>2, Slices, Zenon DEF Lines
    <3>4. QED
      BY <3>1, <3>3, Zenon
  <2> HIDE DEF u, word
  <2>8. /\ u \o found \in Lines /\ Len(u \o found) = Len(u) + Len(found)
        /\ \A k \in 1 .. Len(u) : (u \o found)[k] = u[k]
        /\ \A k \in 1 .. Len(found) : (u \o found)[Len(u) + k] = found[k]
    <3>1. u \in Lines
      BY <2>6, Zenon
    <3>2. QED
      BY <2>4, <3>1, Joins DEF Lines
  <2>9. /\ all \in Lines /\ Len(all) = Len(u \o found) + Len(more)
        /\ \A k \in 1 .. Len(u \o found) : all[k] = (u \o found)[k]
    <3>1. u \o found \in Lines
      BY <2>8, Zenon
    <3>2. QED
      BY <2>5, <3>1, Joins, Zenon DEF Lines
  <2>10. Len(found) \in Nat /\ Len(more) \in Nat /\ Len(all) \in Nat /\ at0 \in Nat
    BY <1>1, <2>4, <2>5, <2>9 DEF Lines
  <2> DEFINE both == u \o found
  <2> HIDE DEF at0, all, both
  <2>11. Len(line) <= Len(all) /\ Len(line) <= Len(both)
    BY <1>1, <2>6, <2>7, <2>8, <2>9, <2>10 DEF both
  <2>12. ASSUME NEW k \in 1 .. Len(line) PROVE all[k] = line[k]
    <3>1. k \in 1 .. Len(both) /\ all[k] = both[k]
      BY <1>1, <2>8, <2>9, <2>10, <2>11 DEF both
    <3>2. CASE k <= at0
      <4>1. k \in 1 .. at0 /\ k \in 1 .. Len(u)
        BY <1>1, <2>6, <3>2
      <4>2. QED
        BY <2>6, <2>8, <3>1, <4>1, Zenon DEF both
    <3>3. CASE k > at0
      <4> DEFINE j == k - at0
      <4>1. /\ j \in 1 .. Len(word) /\ j \in 1 .. Len(found) /\ Len(u) + j = k
            /\ j \in 1 .. Len(line) - at0 /\ j + at0 = k
        BY <1>1, <2>6, <2>7, <2>10, <3>3
      <4> HIDE DEF j
      <4>2. both[Len(u) + j] = found[j] /\ found[j] = word[j] /\ word[j] = line[j + at0]
        BY <2>6, <2>7, <2>8, <4>1, Zenon DEF both
      <4>3. QED
        BY <3>1, <4>1, <4>2, Zenon
    <3>4. QED
      BY <1>1, <2>10, <3>2, <3>3
  <2>13. Len(line) \in 0 .. Len(all)
    BY <1>1, <2>10, <2>11
  <2> DEFINE b == Upto(all, Len(line))
  <2>14. b \in Lines /\ Len(b) = Len(line) /\ \A k \in 1 .. Len(line) : b[k] = all[k]
    BY <2>9, <2>13, Slices, Zenon DEF Lines
  <2> HIDE DEF b
  <2>15. b = line
    BY <2>12, <2>14, SeqEqual, Zenon DEF Lines
  <2>16. StartsWith(all, line)
    BY <2>11, <2>15, Zenon DEF StartsWith, b
  <2>17. Completed(line) = all
    BY <2>1, Zenon DEF all, u
  <2>18. QED
    BY <2>9, <2>16, <2>17, Zenon
<1>4. QED
  BY <1>2, <1>3, Zenon DEF Completed

\* A key is typed: the first one is as it was.
LEMMA TypeStep ==
    ASSUME InputInv, NEW key \in Keyboard, Type(key), nt' = nt
    PROVE  TerminalInv'
<1>1. term \in Seq(Keyboard) /\ term' = Append(term, key) /\ got' = got /\ cut' = cut
  BY Zenon DEF InputInv, TerminalInv, Type
<1>2. term' \in Seq(Keyboard) /\ (term # <<>> => term' # <<>> /\ Head(term') = Head(term))
  BY <1>1
<1>3. QED
  BY <1>1, <1>2, Zenon DEF InputInv, TerminalInv, Sent

\* A character of text or a control character acts on the line.
LEMMA ApplyStep ==
    ASSUME LineInv, ~Stopped, NEW c \in Text,
           Apply(c), tab' = (c = "tab"),
           UNCHANGED <<history_delta, entries, at, draft, origin>>
    PROVE  LineInv' /\ (Len(buffer') > Len(buffer) => buffer'[cursor'] = c)
<1>1. /\ buffer \in Lines /\ Len(buffer) \in Nat /\ cursor \in 0 .. Len(buffer)
      /\ history_delta = 0 /\ command = <<>>
  BY DEF LineInv, LineTypes, Lines, CursorIsWithin, Stopped
<1>2. OneOutcome' /\ DraftIsOrigin' /\ history_delta' \in 0 .. 2 /\ (at \in 0 .. Len(entries))'
  BY <1>1, Zenon DEF LineInv, OneOutcome, DraftIsOrigin, CursorIsWithin
<1>3. ASSUME buffer' \in Lines, cursor' \in 0 .. Len(buffer'),
             command' = <<>> \/ (\E l \in Lines : command' = <<l>>),
             Len(buffer') > Len(buffer) => buffer'[cursor'] = c
      PROVE  LineInv' /\ (Len(buffer') > Len(buffer) => buffer'[cursor'] = c)
  <2>1. command' = <<>> \/ (command' = <<command'[1]>> /\ command'[1] \in Lines)
    BY <1>3
  <2>2. entries' \in Seq(Lines) /\ draft' \in Lines /\ origin' \in Lines
    BY Zenon DEF LineInv, LineTypes
  <2>3. LineTypes'
    BY <1>3, <2>1, <2>2, Zenon DEF LineTypes, Lines, Text, Marks
  <2>4. QED
    BY <1>2, <1>3, <2>3, Zenon DEF LineInv, CursorIsWithin
<1>4. CASE c = "nl"
  <2>1. command' = <<Strip(buffer)>> /\ buffer' = <<>> /\ cursor' = 0
    BY <1>4, Zenon DEF Apply, Controls, Plain
  <2>2. <<>> \in Lines /\ 0 \in 0 .. Len(<<>>) /\ ~(Len(<<>>) > Len(buffer))
    BY <1>1 DEF Lines
  <2>3. \E l \in Lines : command' = <<l>>
    BY <1>1, <2>1, StripIsLine, Zenon
  <2>4. QED
    BY <1>3, <2>1, <2>2, <2>3, Zenon
<1>5. CASE c = "etx"
  <2>1. command' = command /\ buffer' = <<>> /\ cursor' = 0
    BY <1>5, Zenon DEF Apply, Controls, Plain
  <2>2. <<>> \in Lines /\ 0 \in 0 .. Len(<<>>) /\ ~(Len(<<>>) > Len(buffer))
    BY <1>1 DEF Lines
  <2>3. QED
    BY <1>1, <1>3, <2>1, <2>2, Zenon
<1>6. CASE UNCHANGED <<buffer, cursor, command>>
  <2>1. ~(Len(buffer) > Len(buffer))
    BY <1>1
  <2>2. QED
    BY <1>1, <1>3, <1>6, <2>1, Zenon
<1>7. CASE c = "bs" /\ cursor > 0
  <2>1. /\ buffer' = Upto(buffer, cursor - 1) \o From(buffer, cursor)
        /\ cursor' = cursor - 1 /\ command' = command
    BY <1>7 DEF Apply, Controls, Plain
  <2>2. cursor - 1 \in 0 .. Len(buffer) /\ cursor = (cursor - 1) + 1
    BY <1>1, <1>7
  <2>3. buffer' \in Lines /\ Len(buffer') = Len(buffer) - 1
    BY <1>1, <2>1, <2>2, RemovesOne, Zenon
  <2>4. cursor' \in 0 .. Len(buffer') /\ ~(Len(buffer') > Len(buffer))
    BY <1>1, <1>7, <2>1, <2>3
  <2>5. QED
    BY <1>1, <1>3, <2>1, <2>3, <2>4, Zenon
<1>8. CASE c \notin Controls
  <2>1. /\ buffer' = Upto(buffer, cursor) \o <<c>> \o From(buffer, cursor)
        /\ cursor' = cursor + 1 /\ command' = command
    BY <1>8, Zenon DEF Apply, Controls, Plain
  <2>3. buffer' \in Lines /\ Len(buffer') = Len(buffer) + 1 /\ buffer'[cursor'] = c
    BY <1>1, <2>1, InsertsOne, Zenon
  <2>4. cursor' \in 0 .. Len(buffer')
    BY <1>1, <2>1, <2>3
  <2>5. QED
    BY <1>1, <1>3, <2>1, <2>3, <2>4, Zenon
<1>9. QED
  BY <1>4, <1>5, <1>6, <1>7, <1>8, Zenon DEF Apply

\* What leaves the types of the history and of the outcome alone.
LEMMA LineKept ==
    ASSUME LineInv, UNCHANGED <<entries, at, draft, origin, command>>,
           buffer' \in Lines, cursor' \in 0 .. Len(buffer'),
           history_delta' \in 0 .. 2, OneOutcome'
    PROVE  LineInv'
<1>1. LineTypes'
  BY Zenon DEF LineInv, LineTypes, Lines, Text, Marks
<1>2. QED
  BY <1>1, Zenon DEF LineInv, DraftIsOrigin, CursorIsWithin

\* An arrow or editing key: the cursor stays within the line, which gets no
\* longer.
LEMMA ActStep ==
    ASSUME LineInv, ~Stopped, NEW key \in Arrows, Act(key),
           UNCHANGED <<entries, at, draft, origin>>
    PROVE  LineInv' /\ ~(Len(buffer') > Len(buffer))
<1>1. /\ buffer \in Lines /\ Len(buffer) \in Nat /\ cursor \in 0 .. Len(buffer)
      /\ history_delta = 0 /\ tab = FALSE
  BY DEF LineInv, LineTypes, Lines, OneOutcome, CursorIsWithin, Stopped
<1>2. UNCHANGED <<command, tab>>
  BY Zenon DEF Act
<1>3. CASE key \in {"up", "down"}
  <2>1. history_delta' \in {1, 2} /\ UNCHANGED <<buffer, cursor>>
    BY <1>3, Zenon DEF Act, edited
  <2>2. history_delta' \in 0 .. 2 /\ ~(Len(buffer') > Len(buffer))
    BY <1>1, <2>1
  <2>3. OneOutcome'
    BY <1>1, <1>2, Zenon DEF OneOutcome
  <2>4. QED
    BY <1>1, <1>2, <2>1, <2>2, <2>3, LineKept, Zenon
<1>4. CASE key \notin {"up", "down"}
  <2>1. /\ history_delta' = history_delta
        /\ buffer' = IF key = "delete" /\ cursor < Len(buffer)
                     THEN Upto(buffer, cursor) \o From(buffer, cursor + 1)
                     ELSE buffer
        /\ cursor' = CASE key = "right" -> (IF cursor < Len(buffer) THEN cursor + 1 ELSE cursor)
                       [] key = "left" -> (IF cursor > 0 THEN cursor - 1 ELSE 0)
                       [] key \in {"home", "home~"} -> 0
                       [] key \in {"end", "end~"} -> Len(buffer)
                       [] key = "delete" -> cursor
    BY <1>4, Zenon DEF Act
  <2>2. OneOutcome' /\ history_delta' \in 0 .. 2
    <3>1. history_delta' = 0 /\ tab' = FALSE
      BY <1>1, <1>2, <2>1, Zenon
    <3>2. 0 \in 0 .. 2
      OBVIOUS
    <3>3. QED
      BY <3>1, <3>2, Zenon DEF OneOutcome
  <2>3. CASE key = "delete" /\ cursor < Len(buffer)
    <3>1. cursor + 1 \in 0 .. Len(buffer)
      BY <1>1, <2>3
    <3>2. buffer' \in Lines /\ Len(buffer') = Len(buffer) - 1
      BY <1>1, <2>1, <2>3, <3>1, RemovesOne, Zenon
    <3>3. cursor' = cursor
      BY <2>1, <2>3, Zenon
    <3>4. cursor' \in 0 .. Len(buffer') /\ ~(Len(buffer') > Len(buffer))
      BY <1>1, <2>3, <3>2, <3>3
    <3>5. QED
      BY <1>2, <2>2, <3>2, <3>4, LineKept, Zenon
  <2>4. CASE ~(key = "delete" /\ cursor < Len(buffer))
    <3>1. buffer' = buffer /\ ~(Len(buffer) > Len(buffer))
      BY <1>1, <2>1, <2>4
    <3>2. key \in {"right", "left", "home", "home~", "end", "end~", "delete"}
      BY <1>4, Zenon DEF Arrows, Suffixed
    <3>3. cursor' \in 0 .. Len(buffer)
      BY <1>1, <2>1, <3>2
    <3>4. QED
      BY <1>1, <1>2, <2>2, <3>1, <3>3, LineKept, Zenon
  <2>5. QED
    BY <2>3, <2>4, Zenon
<1>5. QED
  BY <1>3, <1>4, Zenon

\* CommandHistory.move: entries and the draft are recalled as they were.
LEMMA MoveStep ==
    ASSUME LineInv, Move, UNCHANGED <<history_delta, tab, command>>
    PROVE  /\ LineInv'
           /\ entries # <<>> /\ Newer /\ at + 1 = Len(entries) => buffer' = origin
<1>1. /\ buffer \in Lines /\ entries \in Seq(Lines) /\ Len(entries) \in Nat
      /\ at \in 0 .. Len(entries) /\ draft \in Lines /\ origin \in Lines
  BY DEF LineInv, LineTypes, CursorIsWithin
<1>2. ASSUME buffer' \in Lines, entries' = entries, draft' \in Lines, origin' \in Lines,
             at' \in 0 .. Len(entries), DraftIsOrigin'
      PROVE  LineInv'
  <2>1. cursor' = Len(buffer') /\ Len(buffer') \in Nat
    BY <1>2 DEF Move, CursorAfter, Lines
  <2>2. cursor' \in 0 .. Len(buffer') /\ (at \in 0 .. Len(entries))'
    BY <1>2, <2>1
  <2>3. LineTypes'
    BY <1>2, Zenon DEF LineInv, LineTypes, Lines, Text, Marks
  <2>4. QED
    BY <1>2, <2>2, <2>3, Zenon DEF LineInv, OneOutcome, CursorIsWithin
<1>3. CASE entries = <<>>
  <2>1. UNCHANGED <<buffer, entries, at, draft, origin>>
    BY <1>3, Zenon DEF Move, history
  <2>2. DraftIsOrigin'
    BY <2>1, Zenon DEF LineInv, DraftIsOrigin
  <2>3. QED
    BY <1>1, <1>2, <1>3, <2>1, <2>2, Zenon
<1>4. CASE entries # <<>>
  <2>1. /\ draft' = Draft(buffer) /\ entries' = entries
        /\ origin' = IF at = Len(entries) THEN buffer ELSE origin
        /\ at' = CASE Older -> at - 1 [] Newer -> at + 1 [] OTHER -> at
        /\ buffer' = Recalled(buffer)
    BY <1>4, Zenon DEF Move
  <2>2. /\ Draft(buffer) = IF at = Len(entries) THEN buffer ELSE draft
        /\ Draft(buffer) \in Lines
    BY <1>1, Zenon DEF Draft
  <2>3. draft' = origin' /\ draft' \in Lines /\ DraftIsOrigin'
    <3>1. at < Len(entries) => draft = origin
      BY Zenon DEF LineInv, DraftIsOrigin
    <3>2. at # Len(entries) => at < Len(entries)
      BY <1>1
    <3>3. QED
      BY <1>1, <2>1, <2>2, <3>1, <3>2, Zenon DEF DraftIsOrigin
  <2>4. at' \in 0 .. Len(entries)
    BY <1>1, <2>1 DEF Older, Newer
  <2>5. buffer' \in Lines
    <3>1. CASE Older
      <4>1. at \in 1 .. Len(entries) /\ buffer' = entries[at]
        BY <1>1, <2>1, <3>1 DEF Recalled, Older, Newer
      <4>2. QED
        BY <1>1, <4>1, ElementOfSeq, Zenon
    <3>2. CASE Newer /\ at + 1 < Len(entries)
      <4>1. at + 2 \in 1 .. Len(entries) /\ buffer' = entries[at + 2]
        BY <1>1, <2>1, <3>2 DEF Recalled, Older, Newer
      <4>2. QED
        BY <1>1, <4>1, ElementOfSeq, Zenon
    <3>3. CASE Newer /\ at + 1 = Len(entries)
      BY <1>1, <2>1, <2>2, <3>3 DEF Recalled, Older, Newer
    <3>4. CASE ~Older /\ ~Newer
      BY <1>1, <2>1, <3>4, Zenon DEF Recalled
    <3>5. QED
      BY <1>1, <3>1, <3>2, <3>3, <3>4 DEF Newer
  <2>6. ASSUME Newer, at + 1 = Len(entries) PROVE buffer' = origin
    <3>1. buffer' = Draft(buffer)
      BY <1>1, <2>1, <2>6 DEF Recalled, Older, Newer
    <3>2. at # Len(entries) /\ draft = origin
      BY <1>1, <2>6 DEF LineInv, DraftIsOrigin
    <3>3. QED
      BY <2>2, <3>1, <3>2, Zenon
  <2>7. QED
    BY <1>1, <1>2, <2>1, <2>2, <2>3, <2>4, <2>5, <2>6, Zenon
<1>5. QED
  BY <1>3, <1>4, Zenon

\* Tab: the text before the cursor and behind it is kept.
LEMMA CompleteStep ==
    ASSUME LineInv, Complete, UNCHANGED <<history_delta, tab, command>>
    PROVE  LineInv' /\ StartsWith(Upto(buffer', cursor'), Upto(buffer, cursor))
                    /\ From(buffer', cursor') = From(buffer, cursor)
<1> DEFINE u == Upto(buffer, cursor)
           f == From(buffer, cursor)
           b == Completed(u)
<1>1. /\ buffer \in Lines /\ cursor \in 0 .. Len(buffer)
      /\ entries \in Seq(Lines) /\ Len(entries) \in Nat
  BY DEF LineInv, LineTypes, CursorIsWithin
<1>2. u \in Lines /\ f \in Lines
  BY <1>1, Slices, Zenon DEF Lines
<1>3. /\ buffer' = b \o f /\ cursor' = Len(b) /\ at' = Len(entries) /\ draft' = buffer'
      /\ UNCHANGED <<entries, origin>>
  BY Zenon DEF Complete, Edit
<1> HIDE DEF u, f
<1>4. b \in Lines /\ StartsWith(b, u)
  BY <1>2, CompletionExtends, Zenon
<1> HIDE DEF b
<1>5. buffer' \in Lines /\ Len(buffer') = Len(b) + Len(f) /\ Len(b) \in Nat /\ Len(f) \in Nat
  BY <1>2, <1>3, <1>4, Joins DEF Lines
<1>6. Upto(buffer', cursor') = b /\ From(buffer', cursor') = f
  BY <1>2, <1>3, <1>4, Seam, Zenon DEF Lines
<1>7. cursor' \in 0 .. Len(buffer') /\ (at \in 0 .. Len(entries))' /\ DraftIsOrigin'
  BY <1>1, <1>3, <1>5 DEF DraftIsOrigin
<1>8. LineTypes'
  BY <1>1, <1>3, <1>5, Zenon DEF LineInv, LineTypes, Lines, Text, Marks
<1>9. LineInv'
  BY <1>7, <1>8, Zenon DEF LineInv, OneOutcome, CursorIsWithin
<1>10. QED
  BY <1>4, <1>6, <1>9, Zenon DEF u, f

\* A line that is complete enters the history; one that was edited ends the
\* navigation.
LEMMA HistoryStep ==
    ASSUME LineInv, UNCHANGED <<buffer, cursor, history_delta, tab, command, origin>>,
           \/ command # <<>> /\ Remember(command[1])
           \/ Edit(buffer)
           \/ UNCHANGED <<entries, at, draft>>
    PROVE  LineInv'
<1>1. /\ buffer \in Lines /\ entries \in Seq(Lines) /\ Len(entries) \in Nat
      /\ at \in 0 .. Len(entries) /\ draft \in Lines /\ origin \in Lines
      /\ command # <<>> => command[1] \in Lines
  BY DEF LineInv, LineTypes, CursorIsWithin
<1>2. ASSUME entries' \in Seq(Lines), at' \in 0 .. Len(entries'), draft' \in Lines, DraftIsOrigin'
      PROVE  LineInv'
  <2>1. LineTypes'
    BY <1>1, <1>2, Zenon DEF LineInv, LineTypes, Lines, Text, Marks
  <2>2. QED
    BY <1>2, <2>1, Zenon DEF LineInv, OneOutcome, CursorIsWithin
<1>3. CASE command # <<>> /\ Remember(command[1])
  <2> DEFINE l == command[1]
  <2>1. /\ entries' \in {entries, Append(entries, l)} /\ at' = Len(entries') /\ draft' = <<>>
        /\ l \in Lines
    BY <1>1, <1>3, Zenon DEF Remember
  <2> HIDE DEF l
  <2>2. entries' \in Seq(Lines) /\ Len(entries') \in Nat /\ <<>> \in Lines
    <3>1. \A e \in Seq(Lines) : \A x \in Lines : Append(e, x) \in Seq(Lines) /\ Len(e) \in Nat
      OBVIOUS
    <3>2. <<>> \in Lines
      BY DEF Lines
    <3>3. QED
      BY <1>1, <2>1, <3>1, <3>2, Zenon
  <2>3. at' \in 0 .. Len(entries') /\ DraftIsOrigin'
    BY <2>1, <2>2 DEF DraftIsOrigin
  <2>4. QED
    BY <1>2, <2>1, <2>2, <2>3, Zenon
<1>4. CASE Edit(buffer)
  <2>1. at' = Len(entries) /\ draft' = buffer /\ entries' = entries
    BY <1>4, Zenon DEF Edit
  <2>2. at' \in 0 .. Len(entries') /\ DraftIsOrigin'
    BY <1>1, <2>1 DEF DraftIsOrigin
  <2>3. QED
    BY <1>1, <1>2, <2>1, <2>2, Zenon
<1>5. CASE UNCHANGED <<entries, at, draft>>
  <2>1. DraftIsOrigin'
    BY <1>5, Zenon DEF LineInv, DraftIsOrigin
  <2>2. QED
    BY <1>1, <1>2, <1>5, <2>1, Zenon
<1>6. QED
  BY <1>3, <1>4, <1>5, Zenon

LEMMA InputInitial == InputInit => InputInv
<1>1. SUFFICES ASSUME InputInit PROVE InputInv
  OBVIOUS
<1>2. /\ nt \in BOOLEAN /\ term = <<>> /\ got = 0 /\ buffer = <<>> /\ cursor = 0
      /\ history_delta = 0 /\ tab = FALSE /\ command = <<>> /\ entries = <<>> /\ at = 0
      /\ draft = <<>> /\ origin = <<>>
  BY <1>1, Zenon DEF InputInit
<1>3. TerminalInv
  <2>1. <<>> \in Seq(Keyboard) /\ 0 \in Nat /\ ~(0 > 0)
    OBVIOUS
  <2>2. QED
    BY <1>2, <2>1, Zenon DEF TerminalInv
<1>4. <<>> \in Lines /\ <<>> \in Seq(Lines) /\ Len(<<>>) = 0
  BY DEF Lines
<1>5. LineTypes /\ DraftIsOrigin
  BY <1>2, <1>4, Zenon DEF LineTypes, DraftIsOrigin
<1>6. CursorIsWithin
  BY <1>2, <1>4 DEF CursorIsWithin
<1>7. OneOutcome
  BY <1>2, Zenon DEF OneOutcome
<1>8. QED
  BY <1>3, <1>5, <1>6, <1>7, Zenon DEF InputInv, LineInv

\* Nothing of a terminal changes by standing still.
LEMMA TerminalRests == ASSUME TerminalInv, UNCHANGED <<nt, term, got, cut>> PROVE TerminalInv'
BY Zenon DEF TerminalInv, Sent

\* What is behind the first key.
LEMMA Behind ==
    ASSUME NEW s \in Seq(Keyboard), s # <<>>
    PROVE  Tail(s) \in Seq(Keyboard) /\ Head(s) \in Keyboard
OBVIOUS

\* A sequence that is read to its end is gone, one that is not is cut.
LEMMA SequenceStep ==
    ASSUME InputInv, ~Stopped, term # <<>>, NEW n \in 1 .. 4, ReadSequence(n),
           UNCHANGED <<nt, entries, at, draft, origin>>
    PROVE  InputInv' /\ ~(Len(buffer') > Len(buffer))
<1> DEFINE key == Head(term)
<1>1. /\ TerminalInv /\ LineInv /\ nt \in BOOLEAN /\ term \in Seq(Keyboard)
      /\ got = 0 /\ key \in Arrows /\ n <= Reads(key) /\ Consume(n) /\ cut' = (n < Reads(key))
  BY Zenon DEF InputInv, TerminalInv, ReadSequence
<1>2. Len(Sent(key)) = Reads(key) /\ Reads(key) \in 2 .. 4
  BY <1>1, ArrowSends, Zenon
<1>3. Tail(term) \in Seq(Keyboard)
  BY <1>1, Behind, Zenon
<1> HIDE DEF key
<1>4. 0 + n = n
  OBVIOUS
<1>5. TerminalInv'
  <2>1. CASE n = Reads(key)
    <3>1. term' = Tail(term) /\ got' = 0
      BY <1>1, <1>2, <1>4, <2>1, Zenon DEF Consume, key
    <3>2. 0 \in Nat /\ ~(0 > 0)
      OBVIOUS
    <3>3. QED
      BY <1>1, <1>3, <3>1, <3>2, Zenon DEF TerminalInv
  <2>2. CASE n # Reads(key)
    <3>1. term' = term /\ got' = n /\ n < Reads(key) /\ n \in Nat
      <4>1. term' = term /\ got' = got + n
        BY <1>1, <1>2, <1>4, <2>2, Zenon DEF Consume, key
      <4>2. QED
        BY <1>1, <1>2, <2>2, <4>1
    <3>2. cut' /\ got' \in Nat /\ got' < Len(Sent(key))
      BY <1>1, <1>2, <3>1, Zenon
    <3>3. Sent(Head(term))' = Sent(key)
      BY <3>1, Zenon DEF Sent, key
    <3>4. QED
      BY <1>1, <3>1, <3>2, <3>3, Zenon DEF TerminalInv, key
  <2>3. QED
    BY <2>1, <2>2, Zenon
<1>6. CASE n >= Tells
  <2>1. Act(key)
    BY <1>6, Zenon DEF ReadSequence, key
  <2>2. QED
    BY <1>1, <1>5, <2>1, ActStep, Zenon DEF InputInv
<1>7. CASE ~(n >= Tells)
  <2>1. UNCHANGED <<buffer, cursor, history_delta, command, tab>>
    BY <1>7, Zenon DEF ReadSequence, edited
  <2>2. buffer \in Lines /\ cursor \in 0 .. Len(buffer) /\ history_delta \in 0 .. 2 /\ OneOutcome
    BY <1>1, Zenon DEF LineInv, LineTypes, CursorIsWithin
  <2>3. ~(Len(buffer) > Len(buffer)) /\ OneOutcome'
    <3>1. ~(Len(buffer) > Len(buffer))
      BY <2>2 DEF Lines
    <3>2. OneOutcome'
      BY <2>1, <2>2, Zenon DEF OneOutcome
    <3>3. QED
      BY <3>1, <3>2
  <2>4. LineInv'
    BY <1>1, <2>1, <2>2, <2>3, LineKept, Zenon
  <2>5. QED
    BY <1>5, <2>1, <2>3, <2>4, Zenon DEF InputInv
<1>8. QED
  BY <1>6, <1>7, Zenon

\* The Escape key takes a character of the next key with it.
LEMMA SwallowStep ==
    ASSUME InputInv, term # <<>>, Swallow, UNCHANGED <<nt, entries, at, draft, origin>>
    PROVE  InputInv' /\ ~(Len(buffer') > Len(buffer))
<1>1. /\ TerminalInv /\ LineInv /\ nt \in BOOLEAN /\ term \in Seq(Keyboard)
      /\ UNCHANGED <<buffer, cursor, history_delta, command, tab>>
      /\ Len(term) > 1
  BY Zenon DEF InputInv, TerminalInv, Swallow, edited
<1>2. /\ Tail(term) \in Seq(Keyboard) /\ Tail(term) # <<>> /\ Head(Tail(term)) = term[2]
      /\ Tail(Tail(term)) \in Seq(Keyboard) /\ term[2] \in Keyboard
  BY <1>1
<1>3. TerminalInv'
  <2>1. CASE Len(Sent(term[2])) = 1
    <3>1. term' = Tail(Tail(term)) /\ got' = 0
      BY <2>1, Zenon DEF Swallow
    <3>2. 0 \in Nat /\ ~(0 > 0)
      OBVIOUS
    <3>3. QED
      BY <1>1, <1>2, <3>1, <3>2, Zenon DEF TerminalInv
  <2>2. CASE Len(Sent(term[2])) # 1
    <3>1. term' = Tail(term) /\ got' = 1 /\ cut'
      BY <2>2, Zenon DEF Swallow
    <3>2. term[2] \in Arrows
      <4>1. term[2] \in Plain => Sent(term[2]) = <<term[2]>>
        BY PlainSends, Zenon
      <4>2. Len(<<term[2]>>) = 1
        OBVIOUS
      <4>3. QED
        BY <1>2, <2>2, <4>1, <4>2, Zenon DEF Keyboard
    <3>3. 1 < Len(Sent(term[2]))
      <4>1. Len(Sent(term[2])) = Reads(term[2]) /\ Reads(term[2]) \in 2 .. 4
        BY <1>1, <3>2, ArrowSends, Zenon
      <4>2. QED
        BY <4>1
    <3>4. Sent(Head(term))' = Sent(term[2])
      BY <1>2, <3>1, Zenon DEF Sent
    <3>5. 1 \in Nat
      OBVIOUS
    <3>6. QED
      BY <1>1, <1>2, <3>1, <3>2, <3>3, <3>4, <3>5, Zenon DEF TerminalInv
  <2>3. QED
    BY <2>1, <2>2, Zenon
<1>4. /\ buffer \in Lines /\ cursor \in 0 .. Len(buffer) /\ history_delta \in 0 .. 2
      /\ OneOutcome
  BY <1>1, Zenon DEF LineInv, LineTypes, CursorIsWithin
<1>5. ~(Len(buffer) > Len(buffer))
  BY <1>4 DEF Lines
<1>6. OneOutcome'
  BY <1>1, <1>4, Zenon DEF OneOutcome
<1>7. LineInv'
  BY <1>1, <1>4, <1>6, LineKept, Zenon
<1>8. QED
  BY <1>1, <1>3, <1>5, <1>7, Zenon DEF InputInv

\* A character by itself is a mark only if it is left of a sequence that was cut.
LEMMA CharacterStep ==
    ASSUME InputInv, ~Stopped, term # <<>>, ReadCharacter,
           UNCHANGED <<nt, entries, at, draft, origin>>
    PROVE  /\ InputInv'
           /\ Len(buffer') > Len(buffer) /\ buffer'[cursor'] \in Marks => cut
<1> DEFINE key == Head(term)
           c == Sent(key)[got + 1]
<1>1. /\ TerminalInv /\ LineInv /\ nt \in BOOLEAN /\ term \in Seq(Keyboard) /\ got \in Nat
      /\ got > 0 \/ key \in Plain
      /\ Consume(1) /\ cut' = (cut /\ got' > 0)
      /\ Apply(c) /\ tab' = (c = "tab") /\ history_delta' = history_delta
  BY Zenon DEF InputInv, TerminalInv, ReadCharacter
<1>2. Tail(term) \in Seq(Keyboard)
  BY <1>1, Behind, Zenon
<1>3. got > 0 => cut /\ key \in Arrows /\ got < Len(Sent(key))
  BY <1>1, Zenon DEF TerminalInv
<1> HIDE DEF key
<1>4. c \in Text /\ (c \in Marks => cut)
  <2>1. CASE got > 0
    <3>1. \A i \in 2 .. Len(Sent(key)) : Sent(key)[i] \in Marks
      BY <1>1, <1>3, <2>1, ArrowSends, Zenon
    <3>2. Len(Sent(key)) \in 2 .. 4
      BY <1>1, <1>3, <2>1, ArrowSends, Zenon
    <3>3. got + 1 \in 2 .. Len(Sent(key))
      BY <1>1, <1>3, <2>1, <3>2
    <3>4. QED
      BY <1>3, <2>1, <3>1, <3>3, Zenon DEF Text
  <2>2. CASE ~(got > 0)
    <3>1. got + 1 = 1 /\ key \in Plain
      BY <1>1, <2>2
    <3>2. Sent(key) = <<key>> /\ key \notin Marks
      BY <3>1, PlainSends, Zenon
    <3>3. c = key
      BY <3>1, <3>2
    <3>4. QED
      BY <3>1, <3>2, <3>3, Zenon DEF Text, Keyboard
  <2>3. QED
    BY <2>1, <2>2, Zenon
<1>5. TerminalInv'
  <2>1. CASE got + 1 = Len(Sent(key))
    <3>1. term' = Tail(term) /\ got' = 0
      BY <1>1, <2>1, Zenon DEF Consume, key
    <3>2. 0 \in Nat /\ ~(0 > 0)
      OBVIOUS
    <3>3. QED
      BY <1>1, <1>2, <3>1, <3>2, Zenon DEF TerminalInv
  <2>2. CASE got + 1 # Len(Sent(key))
    <3>1. term' = term /\ got' = got + 1
      BY <1>1, <2>2, Zenon DEF Consume, key
    <3>2. got > 0
      <4>1. SUFFICES ASSUME ~(got > 0) PROVE FALSE
        OBVIOUS
      <4>2. Sent(key) = <<key>>
        BY <1>1, <4>1, PlainSends, Zenon
      <4>3. QED
        BY <1>1, <2>2, <4>1, <4>2
    <3>3. Len(Sent(key)) \in 2 .. 4
      BY <1>1, <1>3, <3>2, ArrowSends, Zenon
    <3>4. got' \in Nat /\ got' > 0 /\ got' < Len(Sent(key))
      BY <1>1, <1>3, <2>2, <3>1, <3>2, <3>3
    <3>5. Sent(Head(term))' = Sent(key)
      BY <1>1, <3>1, Zenon DEF Sent, key
    <3>6. QED
      BY <1>1, <1>3, <3>1, <3>2, <3>4, <3>5, Zenon DEF TerminalInv, key
  <2>3. QED
    BY <2>1, <2>2, Zenon
<1> HIDE DEF c
<1>6. LineInv' /\ (Len(buffer') > Len(buffer) => buffer'[cursor'] = c)
  BY <1>1, <1>4, ApplyStep, Zenon
<1>7. QED
  BY <1>4, <1>5, <1>6, Zenon DEF InputInv

LEMMA ReadKeyStep ==
    ASSUME InputInv, ReadKey, nt' = nt
    PROVE  InputInv' /\ reading' = reading /\ KeysAreNotText
<1>1. term # <<>> /\ ~Stopped /\ UNCHANGED <<reading, entries, at, draft, origin>>
  BY Zenon DEF ReadKey, history
<1>2. ASSUME NEW n \in 1 .. 4, ReadSequence(n) PROVE InputInv' /\ KeysAreNotText
  BY <1>1, <1>2, SequenceStep, Zenon DEF KeysAreNotText
<1>3. CASE Swallow
  BY <1>1, <1>3, SwallowStep, Zenon DEF KeysAreNotText
<1>4. CASE ReadCharacter
  BY <1>1, <1>4, CharacterStep, Zenon DEF KeysAreNotText
<1>5. QED
  BY <1>1, <1>2, <1>3, <1>4, Zenon DEF ReadKey

\* The session acts on what a call returned.
LEMMA ReturnStep ==
    ASSUME InputInv, Return, nt' = nt
    PROVE  InputInv' /\ RestoresDraft /\ KeepsText
<1>1. /\ TerminalInv /\ LineInv /\ UNCHANGED <<nt, term, got, cut, history_delta, tab, command>>
      /\ tab => history_delta = 0
  BY Zenon DEF InputInv, LineInv, OneOutcome, Return
<1>2. TerminalInv'
  BY <1>1, TerminalRests, Zenon
<1>3. CASE Move
  <2>1. ~tab
    BY <1>1, <1>3, Zenon DEF Move
  <2>2. QED
    BY <1>1, <1>2, <1>3, <2>1, MoveStep, Zenon
       DEF InputInv, RestoresDraft, KeepsText
<1>4. CASE history_delta = 0 /\ Complete
  BY <1>1, <1>2, <1>4, CompleteStep
     DEF InputInv, RestoresDraft, KeepsText, Newer
<1>5. CASE /\ history_delta = 0 /\ ~tab /\ UNCHANGED <<buffer, cursor, origin>>
           /\ \/ command # <<>> /\ Remember(command[1])
              \/ Edit(buffer)
              \/ UNCHANGED <<entries, at, draft>>
  BY <1>1, <1>2, <1>5, HistoryStep
     DEF InputInv, RestoresDraft, KeepsText, Newer
<1>6. QED
  BY <1>3, <1>4, <1>5, Zenon DEF Return, history

\* A call of _read_terminal_command starts with nothing to return.
LEMMA BeginStep ==
    ASSUME InputInv, Begin, nt' = nt
    PROVE  InputInv'
<1>1. /\ TerminalInv /\ LineInv /\ history_delta' = 0 /\ tab' = FALSE /\ command' = <<>>
      /\ UNCHANGED <<nt, term, got, cut, buffer, cursor, entries, at, draft, origin>>
  BY Zenon DEF InputInv, Begin, history
<1>2. TerminalInv'
  BY <1>1, TerminalRests, Zenon
<1>3. <<>> \in Seq(Lines) /\ Len(<<>>) = 0
  OBVIOUS
<1>4. LineTypes' /\ DraftIsOrigin'
  BY <1>1, <1>3, Zenon DEF LineInv, LineTypes, DraftIsOrigin, Lines, Text
<1>5. CursorIsWithin'
  BY <1>1 DEF LineInv, CursorIsWithin
<1>6. OneOutcome'
  BY <1>1, Zenon DEF OneOutcome
<1>7. QED
  BY <1>2, <1>4, <1>5, <1>6, Zenon DEF InputInv, LineInv

\* The keys at hand are keys of the terminal.
EditorInv == input \in Inputs /\ InputInv

LEMMA InputStep ==
    ASSUME EditorInv, [InputNext]_inputVars
    PROVE  EditorInv' /\ RestoresDraft /\ KeepsText /\ KeysAreNotText
<1>1. InputInv /\ input \in Inputs /\ UNCHANGED <<nt, input>>
  BY Zenon DEF EditorInv, InputNext, Done, inputVars
<1>2. SUFFICES /\ InputInv'
               /\ reading /\ ~reading' => RestoresDraft /\ KeepsText
               /\ KeysAreNotText
  BY <1>1, Zenon DEF EditorInv, RestoresDraft, KeepsText
<1>3. buffer' = buffer => ~(Len(buffer') > Len(buffer))
  BY <1>1 DEF InputInv, LineInv, LineTypes, Lines
<1>4. ASSUME NEW key \in input.keys, Type(key)
      PROVE  InputInv' /\ reading' = reading /\ KeysAreNotText
  <2>1. key \in Keyboard
    <3>1. Inputs \subseteq [keys : SUBSET Keyboard, count : Nat]
      BY InputAssumption, Zenon DEF InputAssumption
    <3>2. QED
      BY <1>1, <1>4, <3>1, Zenon
  <2>2. TerminalInv'
    BY <1>1, <1>4, <2>1, TypeStep, Zenon
  <2>3. UNCHANGED <<reading, buffer, cursor, history_delta, tab, command, entries, at, draft,
                    origin>>
    BY <1>4, Zenon DEF Type, history, edited
  <2>4. LineInv'
    BY <1>1, <2>3, Zenon DEF InputInv, LineInv, LineTypes, DraftIsOrigin, OneOutcome, CursorIsWithin,
                      Lines, Text
  <2>5. QED
    BY <1>3, <2>2, <2>3, <2>4, Zenon DEF InputInv, KeysAreNotText
<1>5. CASE Begin
  <2>1. InputInv'
    BY <1>1, <1>5, BeginStep, Zenon
  <2>2. QED
    BY <1>3, <1>5, <2>1, Zenon DEF Begin, KeysAreNotText
<1>6. CASE ReadKey
  <2>1. InputInv' /\ reading' = reading /\ KeysAreNotText
    BY <1>1, <1>6, ReadKeyStep, Zenon
  <2>2. QED
    BY <2>1, Zenon
<1>7. CASE Return
  <2>1. InputInv' /\ RestoresDraft /\ KeepsText
    BY <1>1, <1>7, ReturnStep, Zenon
  <2>2. QED
    BY <1>7, <2>1, Zenon DEF Return, KeysAreNotText
<1>8. CASE UNCHANGED inputVars
  <2>1. UNCHANGED <<nt, term, got, cut, reading, buffer, cursor, history_delta, tab, command,
                    entries, at, draft, origin>>
    BY <1>8, Zenon DEF inputVars, history, edited
  <2>2. TerminalInv'
    BY <1>1, <2>1, TerminalRests, Zenon DEF InputInv
  <2>3. LineInv'
    BY <1>1, <2>1, Zenon DEF InputInv, LineInv, LineTypes, DraftIsOrigin, OneOutcome, CursorIsWithin,
                      Lines, Text
  <2>4. QED
    BY <1>3, <2>1, <2>2, <2>3, Zenon DEF InputInv, KeysAreNotText
<1>9. Done => UNCHANGED inputVars
  BY Zenon DEF Done
<1>10. QED
  BY <1>4, <1>5, <1>6, <1>7, <1>8, <1>9, Zenon DEF InputNext

\* Whatever keys are typed, on either terminal and however the polls come out:
\* between two turns of the loop the first key is whole, or its sequence was
\* not read as one; the cursor is within the line; and the draft that the
\* history keeps is the line that the navigation began with
\* (_read_terminal_command, CommandHistory).
THEOREM InputInvariant == InputSpec => []EditorInv
<1>1. InputInit => EditorInv
  BY InputInitial, Zenon DEF EditorInv, InputInit
<1>2. EditorInv /\ [InputNext]_inputVars => EditorInv'
  BY InputStep, Zenon
<1>3. QED
  BY <1>1, <1>2, PTL DEF InputSpec

\* The cursor stays within the line, and no character of an arrow or editing
\* key becomes text unless a poll in its sequence came up empty or Escape was
\* before it, on a POSIX terminal and on a Windows console, for any names, any
\* keys and any number of them (_apply_input_character and the sequences of
\* _read_terminal_command).
THEOREM LineIsSoundTheorem == InputSpec => LineIsSound
<1>1. EditorInv /\ [InputNext]_inputVars => [CursorIsWithin' /\ KeysAreNotText]_inputVars
  BY InputStep, Zenon DEF EditorInv, InputInv, LineInv
<1>2. QED
  BY <1>1, InputInvariant, PTL DEF InputSpec, LineIsSound

\* What the user typed is not lost: Down past the newest entry restores the
\* line the navigation began with (CommandHistory.move), and Tab keeps what
\* stands before and behind the cursor (complete_shell_input).
THEOREM TextIsKeptTheorem == InputSpec => TextIsKept
<1>1. EditorInv /\ [InputNext]_inputVars
          => [RestoresDraft /\ KeepsText]_inputVars
  BY InputStep, Zenon
<1>2. QED
  BY <1>1, InputInvariant, PTL DEF InputSpec, TextIsKept
=============================================================================
