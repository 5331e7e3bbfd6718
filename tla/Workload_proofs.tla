--------------------------- MODULE Workload_proofs ---------------------------
(***************************************************************************)
(* Proofs about a workload on the device: the counters that it shows while *)
(* it runs (Telemetry), for every width of the sequence and any number of  *)
(* samples, and its life cycle (CanonicalRuntime), for every set of        *)
(* manifests, every calculator image, every size of the backing and every  *)
(* width of the ids.                                                       *)
(***************************************************************************)
EXTENDS Telemetry, CanonicalRuntime, TLAPS

(***************************************************************************)
(* The counters of a running workload.                                     *)
(***************************************************************************)
Record == [toggles : Nat, sent : Nat, received : Nat, sequence : 0 .. Modulus - 1, errors : Nat]

TelemetryTypes ==
    /\ telemetry \in Record /\ published \in Record /\ basis \in Record /\ raw \in Record
    /\ updating \in Counters \cup {"none", "commit"}
    /\ clear \in 0 .. 5 /\ life \in Nat /\ during \in Nat
    /\ step \in {"before", "record", "after", "ended"}
    /\ word \in 1 .. 6 /\ (step = "record" => word # 6) /\ (step = "after" => word = 6)
    /\ before \in 0 .. Modulus - 1
    /\ since \in Nat /\ (step = "before" => since = 0 /\ word = 1)
    /\ samples \in Seq(Record) /\ bases \in Seq(Record) /\ lives \in Seq(Nat)
    /\ Len(samples) = Len(bases) /\ Len(lives) = Len(bases)
    /\ verdict \in {"none", "pass", "fail", "error"}

(* The sequence is odd while a task is in its critical section, and what   *)
(* it last published stands in memory while none is; the startup code has  *)
(* cleared the words before the next one.                                  *)
OddWhileUpdating ==
    /\ clear = 0 => /\ telemetry.sequence % 2 = IF updating = "none" THEN 0 ELSE 1
                    /\ updating = "none" => published = telemetry
    /\ clear # 0 => updating = "none" /\ \A i \in 1 .. clear - 1 : telemetry[Words[i]] = 0

(* A life is one more than the restarts; the samples belong to lives that  *)
(* have begun, and to earlier ones while the startup code clears.          *)
LivesAreCounted ==
    /\ life > 0
    /\ during # 0 => during = life /\ clear = 0
    /\ \A i \in DOMAIN lives : lives[i] <= life /\ (clear # 0 => lives[i] < life)

(* How far the sequence has moved since the reader read it.                *)
Moved ==
    IF telemetry.sequence >= before THEN telemetry.sequence - before
                                 ELSE telemetry.sequence + Modulus - before

(* In an attempt the sequence moves by two for each update, and while no   *)
(* update has begun the words read are those of the record published.      *)
AttemptInStep ==
    InAttempt /\ during # 0 =>
        /\ 2 * since < Modulus
        /\ Moved = 2 * since - (IF updating = "none" THEN 0 ELSE 1)
        /\ since = 0 => updating = "none" /\ telemetry = basis
        /\ since = 0 => \A i \in 1 .. word - 1 :
               raw[Words[i]] = Stored(basis)[Words[i]]

(* In one life counters only grow, so an older record has the smaller ones. *)
Older(r, s) == \A c \in {"toggles", "sent", "received"} : r[c] <= s[c]
CountersGrow ==
    /\ clear = 0 => Older(published, telemetry)
    /\ \A i \in DOMAIN bases : lives[i] = life => Older(bases[i], published)
    /\ InAttempt /\ during # 0 =>
           /\ Older(basis, published)
           /\ \A i \in DOMAIN bases : lives[i] = life => Older(bases[i], basis)

VerdictIsLast == verdict # "none" <=> step = "ended"

TelemetryInv ==
    /\ TelemetryTypes /\ OddWhileUpdating /\ LivesAreCounted
    /\ AttemptInStep /\ CountersGrow /\ VerdictIsLast
    /\ PassMeansProgress

(* The constants of the reader.                                            *)
LEMMA TelemetryConstants ==
    /\ Modulus \in Nat /\ Modulus % 2 = 0 /\ Modulus > 2
    /\ Samples \in Nat \ {0} /\ Attempts \in Nat \ {0} /\ MaxUpdates \in Nat
BY TelemetryAssumption, Zenon

(* What a word holds is below the modulus, and small numbers are as they are. *)
LEMMA RemainderRange == \A n \in Nat : n % Modulus \in 0 .. Modulus - 1
BY TelemetryConstants

(* A number below the modulus is its own remainder.                        *)
LEMMA RemainderSmall == \A n \in 0 .. Modulus - 1 : n % Modulus = n
<1> SUFFICES ASSUME NEW n \in 0 .. Modulus - 1 PROVE n % Modulus = n
  OBVIOUS
<1>1. n = Modulus * (n \div Modulus) + (n % Modulus)
  BY TelemetryConstants
<1>2. n % Modulus \in 0 .. Modulus - 1 /\ n \div Modulus \in Int
  BY TelemetryConstants
<1>3. \A q, r \in Int : n = Modulus * q + r /\ 0 <= r /\ r < Modulus => q = 0
  BY TelemetryConstants
<1> QED BY <1>1, <1>2, <1>3, TelemetryConstants

(* The next sequence is one more, or 0 after the last one.                 *)
LEMMA AdvanceWraps ==
    ASSUME NEW s \in 0 .. Modulus - 1
    PROVE  /\ Advance(s) = IF s = Modulus - 1 THEN 0 ELSE s + 1
           /\ Advance(s) \in 0 .. Modulus - 1
<1>1. CASE s = Modulus - 1
  <2>1. Modulus % Modulus = 0
    BY TelemetryConstants
  <2> QED BY <1>1, <2>1, TelemetryConstants DEF Advance
<1>2. CASE s # Modulus - 1
  BY <1>2, TelemetryConstants, RemainderSmall DEF Advance
<1> QED BY <1>1, <1>2, Zenon

(* The next sequence is odd after an even one and even after an odd one.   *)
LEMMA AdvanceFlips ==
    ASSUME NEW s \in 0 .. Modulus - 1
    PROVE  /\ s % 2 = 0 => Advance(s) = s + 1 /\ Advance(s) % 2 = 1
           /\ s % 2 = 1 => Advance(s) % 2 = 0
BY AdvanceWraps, TelemetryConstants

(* A record with one word replaced.                                        *)
LEMMA SequenceReplaced ==
    ASSUME NEW r \in Record, NEW s \in 0 .. Modulus - 1
    PROVE  /\ [r EXCEPT !.sequence = s] \in Record
           /\ [r EXCEPT !.sequence = s].sequence = s
           /\ \A c \in Counters : [r EXCEPT !.sequence = s][c] = r[c]
BY Zenon DEF Record, Counters

(* A record with one counter replaced.                                     *)
LEMMA CounterReplaced ==
    ASSUME NEW r \in Record, NEW c \in Counters, NEW n \in Nat
    PROVE  /\ [r EXCEPT ![c] = n] \in Record
           /\ [r EXCEPT ![c] = n].sequence = r.sequence
           /\ [r EXCEPT ![c] = n][c] = n
           /\ \A d \in Counters : d # c => [r EXCEPT ![c] = n][d] = r[d]
BY Zenon DEF Record, Counters

(* The words of a record are numbers, and what is stored of them a record. *)
LEMMA RecordWords ==
    ASSUME NEW r \in Record
    PROVE  /\ r.sequence \in 0 .. Modulus - 1
           /\ \A c \in Counters : r[c] \in Nat
           /\ DOMAIN r = Counters \cup {"sequence"}
BY Zenon DEF Record, Counters

(* The record a workload starts from.                                      *)
LEMMA ZerosAreRecord == Zeros \in Record
BY TelemetryConstants DEF Record, Zeros

(* The order of the words names every field of the record once.            *)
LEMMA WordsAre ==
    /\ Len(Words) = 5
    /\ \A i \in 1 .. 5 : Words[i] \in Counters \cup {"sequence"}
    /\ \A c \in Counters \cup {"sequence"} : \E i \in 1 .. 5 : Words[i] = c
    /\ \A i, j \in 1 .. 5 : Words[i] = Words[j] => i = j
BY DEF Words, Counters

(* Reading one word into a record gives a record.                          *)
LEMMA WordRead ==
    ASSUME NEW r \in Record, NEW m \in Record, NEW w \in Counters \cup {"sequence"}
    PROVE  /\ [r EXCEPT ![w] = Stored(m)[w]] \in Record
           /\ Stored(m)[w] = m[w] % Modulus
<1>1. Stored(m)[w] = m[w] % Modulus /\ m[w] \in Nat
  BY RecordWords, TelemetryConstants DEF Stored
<1>2. m[w] % Modulus \in 0 .. Modulus - 1
  BY <1>1, RemainderRange, Zenon
<1>3. CASE w = "sequence"
  BY <1>1, <1>2, <1>3, SequenceReplaced, Zenon
<1>4. CASE w \in Counters
  BY <1>1, <1>2, <1>4, CounterReplaced, TelemetryConstants
<1> QED BY <1>1, <1>3, <1>4, Zenon

(* Clearing a word of a record gives a record.                             *)
LEMMA WordCleared ==
    ASSUME NEW r \in Record, NEW w \in Counters \cup {"sequence"}
    PROVE  [r EXCEPT ![w] = 0] \in Record
<1>1. CASE w = "sequence"
  BY <1>1, SequenceReplaced, TelemetryConstants
<1>2. CASE w \in Counters
  BY <1>2, CounterReplaced
<1> QED BY <1>1, <1>2, Zenon

(* Clearing the words in their order, the startup code ends with zeros.    *)
LEMMA ClearedInOrder ==
    ASSUME NEW r \in Record, NEW n \in 1 .. 5, \A i \in 1 .. n - 1 : r[Words[i]] = 0
    PROVE  /\ \A i \in 1 .. n : [r EXCEPT ![Words[n]] = 0][Words[i]] = 0
           /\ n = 5 => [r EXCEPT ![Words[n]] = 0] = Zeros
<1> DEFINE c == [r EXCEPT ![Words[n]] = 0]
<1>1. c \in Record /\ \A i \in 1 .. 5 : Words[i] \in DOMAIN r
  BY WordsAre, WordCleared, RecordWords, Zenon
<1>2. ASSUME NEW i \in 1 .. n PROVE c[Words[i]] = 0
  <2>1. Words[i] \in DOMAIN r /\ (i # n => i \in 1 .. n - 1)
    BY <1>1
  <2> QED BY <2>1, Zenon
<1>3. ASSUME n = 5 PROVE c = Zeros
  <2>1. ASSUME NEW w \in Counters \cup {"sequence"} PROVE c[w] = 0
    <3>1. PICK i \in 1 .. 5 : Words[i] = w
      BY WordsAre, Zenon
    <3> QED BY <1>2, <1>3, <3>1, Zenon
  <2> HIDE DEF c
  <2> QED BY <1>1, <2>1 DEF Zeros, Counters, Record
<1> QED BY <1>1, <1>2, <1>3, Zenon

(* Every step keeps the types.                                             *)
LEMMA TypesStep == TelemetryTypes /\ TelemetryNext => TelemetryTypes'
<1> SUFFICES ASSUME TelemetryTypes, TelemetryNext PROVE TelemetryTypes'
  OBVIOUS
<1> USE DEF TelemetryTypes
<1>1. ASSUME NEW counter \in Counters \cup {"stage"}, BeginUpdate(counter)
      PROVE  TelemetryTypes'
  <2>1. telemetry' \in Record
    BY <1>1, AdvanceWraps, SequenceReplaced, RecordWords, Zenon DEF BeginUpdate
  <2> QED BY <1>1, <2>1 DEF BeginUpdate, InAttempt, readerVars, Counters
<1>2. CASE Increment
  <2>1. /\ updating \in Counters /\ telemetry[updating] + 1 \in Nat
        /\ telemetry' = [telemetry EXCEPT ![updating] = telemetry[updating] + 1]
    BY <1>2, RecordWords DEF Increment
  <2>2. telemetry' \in Record
    BY <2>1, CounterReplaced, Zenon
  <2> QED BY <1>2, <2>2, Zenon DEF Increment, readerVars
<1>3. CASE CommitEvent
  <2>1. telemetry' \in Record
    BY <1>3, AdvanceWraps, SequenceReplaced, RecordWords, Zenon DEF CommitEvent
  <2> QED BY <1>3, <2>1, Zenon DEF CommitEvent, readerVars
<1>r. CASE Relaunch
  BY <1>r DEF Relaunch, readerVars
<1>c. CASE ClearWord
  <2>1. clear \in 1 .. 5 /\ Words[clear] \in Counters \cup {"sequence"} /\ Len(Words) = 5
    BY <1>c, WordsAre DEF ClearWord
  <2>a. telemetry' \in Record /\ published' \in Record
    BY <1>c, <2>1, WordCleared, ZerosAreRecord, Zenon DEF ClearWord
  <2>2. telemetry' \in Record /\ published' \in Record /\ clear' \in 0 .. 5
    BY <1>c, <2>1, <2>a DEF ClearWord
  <2> QED BY <1>c, <2>2, Zenon DEF ClearWord, readerVars
<1>4. CASE ReadBefore
  <2>1. before' \in 0 .. Modulus - 1 /\ basis' \in Record /\ during' \in Nat
    BY <1>4, RecordWords, TelemetryConstants DEF ReadBefore
  <2> QED BY <1>4, <2>1 DEF ReadBefore, NextAttempt, writerVars
<1>5. CASE ReadWord
  <2>1. /\ Words[word] \in Counters \cup {"sequence"}
        /\ raw' = [raw EXCEPT ![Words[word]]
                       = Stored(telemetry)[Words[word]]]
    BY <1>5, WordsAre DEF ReadWord
  <2>2. raw' \in Record
    BY <2>1, WordRead, Zenon
  <2> QED BY <1>5, <2>2, WordsAre DEF ReadWord, writerVars
<1>6. CASE ReadAfter
  <2>0. /\ word' = 1 /\ before' = 0 /\ raw' \in Record /\ basis' \in Record
        /\ during' = 0 /\ since' = 0
    BY <1>6, ZerosAreRecord, Zenon DEF ReadAfter, Forget
  <2>1. CASE Accepts(telemetry.sequence)
    <3>1. /\ samples' = Append(samples, raw) /\ bases' = Append(bases, basis)
          /\ lives' = Append(lives, during)
      BY <1>6, <2>1, Zenon DEF ReadAfter
    <3>2. /\ samples' \in Seq(Record) /\ bases' \in Seq(Record) /\ lives' \in Seq(Nat)
          /\ Len(samples') = Len(bases') /\ Len(lives') = Len(bases')
      BY <3>1
    <3>3. verdict' \in {"none", "pass", "fail", "error"} /\ step' \in {"before", "ended"}
      BY <1>6, <2>1, Zenon DEF ReadAfter
    <3> QED BY <1>6, <2>0, <3>2, <3>3, TelemetryConstants DEF ReadAfter, writerVars
  <2>2. CASE ~Accepts(telemetry.sequence)
    BY <1>6, <2>0, <2>2, TelemetryConstants DEF ReadAfter, NextAttempt, writerVars
  <2> QED BY <2>1, <2>2, Zenon
<1>7. CASE UNCHANGED telemetryVars
  BY <1>7, Zenon DEF telemetryVars, readerVars, writerVars
<1> QED BY <1>1, <1>2, <1>3, <1>r, <1>c, <1>4, <1>5, <1>6, <1>7, Zenon DEF TelemetryNext

(* Every step keeps the parity of the sequence: BeginUpdate makes it odd,  *)
(* CommitEvent makes it even again, and a cleared record has a zero.       *)
LEMMA OddStep == TelemetryTypes /\ OddWhileUpdating /\ TelemetryNext => OddWhileUpdating'
<1> SUFFICES ASSUME TelemetryTypes, OddWhileUpdating, TelemetryNext PROVE OddWhileUpdating'
  OBVIOUS
<1> USE TelemetryConstants DEF TelemetryTypes, OddWhileUpdating
<1>1. ASSUME NEW counter \in Counters \cup {"stage"}, BeginUpdate(counter)
      PROVE  OddWhileUpdating'
  BY <1>1, AdvanceFlips, Zenon DEF BeginUpdate, Counters, Record
<1>2. CASE Increment
  BY <1>2, Zenon DEF Increment, Counters, Record
<1>3. CASE CommitEvent
  BY <1>3, AdvanceFlips, Zenon DEF CommitEvent, Record
<1>r. CASE Relaunch
  BY <1>r DEF Relaunch
<1>c. CASE ClearWord
  <2>1. /\ clear \in 1 .. 5 /\ updating = "none" /\ updating' = updating /\ Len(Words) = 5
        /\ telemetry' = [telemetry EXCEPT ![Words[clear]] = 0]
        /\ \A i \in 1 .. clear - 1 : telemetry[Words[i]] = 0
    BY <1>c, WordsAre DEF ClearWord
  <2>2. /\ \A i \in 1 .. clear : telemetry'[Words[i]] = 0
        /\ clear = 5 => telemetry' = Zeros
    <3>1. telemetry \in Record
      OBVIOUS
    <3> HIDE TelemetryConstants DEF OddWhileUpdating, TelemetryTypes
    <3>2. /\ \A i \in 1 .. clear : [telemetry EXCEPT ![Words[clear]] = 0][Words[i]] = 0
          /\ clear = 5 => [telemetry EXCEPT ![Words[clear]] = 0] = Zeros
      BY <2>1, <3>1, ClearedInOrder, Zenon
    <3> QED BY <2>1, <3>2, Zenon
  <2>3. CASE clear # 5
    <3>1. clear' = clear + 1
      BY <1>c, <2>1, <2>3, Zenon DEF ClearWord
    <3> QED BY <2>1, <2>2, <3>1
  <2>4. CASE clear = 5
    <3>1. clear' = 0 /\ published' = Zeros /\ telemetry' = Zeros
      BY <1>c, <2>1, <2>2, <2>4, Zenon DEF ClearWord
    <3>2. Zeros.sequence % 2 = 0
      BY DEF Zeros
    <3> QED BY <2>1, <3>1, <3>2, Zenon
  <2> QED BY <2>3, <2>4, Zenon
<1>4. CASE UNCHANGED writerVars
  BY <1>4, Zenon DEF writerVars
<1> QED BY <1>1, <1>2, <1>3, <1>r, <1>c, <1>4, Zenon
        DEF TelemetryNext, ReadBefore, ReadWord, ReadAfter, telemetryVars

(* Every step keeps the count of the lives.                                *)
LEMMA LivesStep == TelemetryTypes /\ LivesAreCounted /\ TelemetryNext => LivesAreCounted'
<1> SUFFICES ASSUME TelemetryTypes, LivesAreCounted, TelemetryNext PROVE LivesAreCounted'
  OBVIOUS
<1> USE DEF TelemetryTypes, LivesAreCounted
<1>1. CASE UNCHANGED <<life, during, lives, clear>>
  BY <1>1, Zenon
<1>2. CASE Relaunch
  BY <1>2 DEF Relaunch, readerVars
<1>3. CASE ClearWord
  <2>1. during = 0 /\ UNCHANGED <<life, during, lives>>
    BY <1>3, Zenon DEF ClearWord, readerVars
  <2>2. clear # 0
    BY <1>3, Zenon DEF ClearWord
  <2> QED BY <2>1, <2>2, Zenon
<1>4. CASE ReadBefore
  BY <1>4 DEF ReadBefore, writerVars
<1>5. CASE ReadAfter
  <2>1. UNCHANGED <<life, clear>> /\ during' = 0 /\ lives' \in {lives, Append(lives, during)}
    BY <1>5, Zenon DEF ReadAfter, Forget, writerVars
  <2>2. during <= life /\ (clear # 0 => during < life)
    OBVIOUS
  <2> QED BY <2>1, <2>2
<1> QED BY <1>1, <1>2, <1>3, <1>4, <1>5, Zenon
        DEF TelemetryNext, BeginUpdate, Increment, CommitEvent, ReadWord,
            telemetryVars, readerVars, writerVars

(* Every step keeps the distance the sequence has moved in an attempt, and *)
(* the words read as long as no update has begun.                          *)
LEMMA SampleStep ==
    TelemetryTypes /\ OddWhileUpdating /\ LivesAreCounted /\ AttemptInStep /\ TelemetryNext
        => AttemptInStep'
<1> SUFFICES ASSUME TelemetryTypes, OddWhileUpdating, LivesAreCounted, AttemptInStep,
                    TelemetryNext, InAttempt', during' # 0
             PROVE  AttemptInStep'
  BY Zenon DEF AttemptInStep
<1> USE DEF TelemetryTypes
<1>0. telemetry.sequence \in 0 .. Modulus - 1
  BY RecordWords, Zenon
<1>1. ASSUME NEW counter \in Counters \cup {"stage"}, BeginUpdate(counter)
      PROVE  AttemptInStep'
  <2>0. step' = step /\ InAttempt /\ during = during'
    BY <1>1, Zenon DEF BeginUpdate, readerVars, InAttempt
  <2>a. /\ updating = "none" /\ updating' # "none" /\ before' = before /\ clear = 0
        /\ since' = since + 1 /\ since + 1 < Modulus \div 2
        /\ telemetry' = [telemetry EXCEPT !.sequence = Advance(telemetry.sequence)]
    BY <1>1, <2>0, Zenon DEF BeginUpdate, Counters, readerVars
  <2>b. Advance(telemetry.sequence) = telemetry.sequence + 1
        /\ Advance(telemetry.sequence) \in 0 .. Modulus - 1
    BY <1>0, <2>a, AdvanceWraps, AdvanceFlips, Zenon DEF OddWhileUpdating
  <2>c. telemetry'.sequence = Advance(telemetry.sequence)
    BY <2>a, <2>b, SequenceReplaced
  <2>1. /\ telemetry'.sequence = telemetry.sequence + 1 /\ updating = "none" /\ updating' # "none"
        /\ since' = since + 1 /\ since + 1 < Modulus \div 2 /\ before' = before
        /\ InAttempt /\ during # 0 /\ telemetry'.sequence <= Modulus - 1
    BY <2>0, <2>a, <2>b, <2>c
  <2>2. 2 * since' < Modulus
    BY <2>1, TelemetryConstants
  <2>3. Moved = 2 * since /\ Moved + 1 < Modulus
    BY <2>1, <2>2, TelemetryConstants DEF AttemptInStep
  <2>4. Moved' = Moved + 1
    BY <1>0, <2>1, <2>3, TelemetryConstants DEF Moved
  <2> QED BY <2>1, <2>2, <2>3, <2>4 DEF AttemptInStep
<1>2. CASE Increment
  <2>1. /\ updating \in Counters /\ updating # "none" /\ updating' # "none"
        /\ since' = since /\ before' = before /\ InAttempt /\ during # 0
        /\ telemetry' = [telemetry EXCEPT ![updating] = telemetry[updating] + 1]
    BY <1>2, Zenon DEF Increment, Counters, readerVars, InAttempt
  <2>2. telemetry[updating] + 1 \in Nat
    BY <2>1, RecordWords
  <2>3. telemetry'.sequence = telemetry.sequence
    BY <2>1, <2>2, CounterReplaced
  <2> QED BY <2>1, <2>3, Zenon DEF AttemptInStep, Moved
<1>3. CASE CommitEvent
  <2>1. /\ telemetry'.sequence = Advance(telemetry.sequence)
        /\ updating # "none" /\ updating' = "none"
        /\ since' = since /\ before' = before /\ InAttempt /\ during # 0
    BY <1>0, <1>3, AdvanceWraps, SequenceReplaced DEF CommitEvent, readerVars, InAttempt
  <2>2. /\ Moved = 2 * since - 1 /\ 2 * since < Modulus /\ since # 0
    BY <2>1, Zenon DEF AttemptInStep
  <2>3. Moved' = Moved + 1
    <3>1. Moved + 1 < Modulus
      BY <2>2
    <3>2. CASE telemetry.sequence = Modulus - 1
      BY <1>0, <2>1, <3>1, <3>2, AdvanceWraps, TelemetryConstants DEF Moved
    <3>3. CASE telemetry.sequence # Modulus - 1
      <4>1. telemetry'.sequence = telemetry.sequence + 1
        BY <1>0, <2>1, <3>3, AdvanceWraps, Zenon
      <4> QED BY <1>0, <2>1, <3>1, <4>1, TelemetryConstants DEF Moved
    <3> QED BY <3>2, <3>3, Zenon
  <2> QED BY <2>1, <2>2, <2>3 DEF AttemptInStep
<1>r. CASE Relaunch
  BY <1>r, Zenon DEF Relaunch
<1>c. CASE ClearWord
  BY <1>c, Zenon DEF ClearWord, LivesAreCounted
<1>4. CASE ReadBefore
  <2>1. /\ before' = telemetry.sequence /\ basis' = published /\ clear = 0
        /\ telemetry' = telemetry /\ updating' = updating /\ telemetry.sequence % 2 = 0
        /\ since' = 0 /\ word' = 1
    BY <1>4, Zenon
    DEF ReadBefore, NextAttempt, StableSequence, writerVars, InAttempt
  <2>2. updating = "none" /\ published = telemetry
    BY <2>1 DEF OddWhileUpdating
  <2>3. Moved' = 0
    BY <1>0, <2>1, TelemetryConstants DEF Moved
  <2> QED BY <2>1, <2>2, <2>3, TelemetryConstants DEF AttemptInStep
<1>5. CASE ReadWord
  <2>a. /\ UNCHANGED <<telemetry, updating, before, since, basis>> /\ word' = word + 1
        /\ step = "record" /\ InAttempt /\ during # 0
        /\ raw' = [raw EXCEPT ![Words[word]]
                       = Stored(telemetry)[Words[word]]]
    BY <1>5, Zenon DEF ReadWord, writerVars, InAttempt
  <2>b. word \in 1 .. 5
    BY <2>a
  <2>1. /\ UNCHANGED <<telemetry, updating, before, since, basis>> /\ word' = word + 1
        /\ InAttempt /\ during # 0 /\ word \in 1 .. 5
        /\ raw' = [raw EXCEPT ![Words[word]]
                       = Stored(telemetry)[Words[word]]]
    BY <2>a, <2>b, Zenon
  <2>2. ASSUME since = 0, NEW i \in 1 .. word
        PROVE  raw'[Words[i]] = Stored(basis)[Words[i]]
    <3>1. telemetry = basis /\ DOMAIN raw = Counters \cup {"sequence"}
      BY <2>1, <2>2, RecordWords, Zenon DEF AttemptInStep
    <3>2. CASE i = word
      BY <2>1, <3>1, <3>2, WordsAre, Zenon
    <3>3. CASE i # word
      BY <2>1, <2>2, <3>1, <3>3, WordsAre DEF AttemptInStep
    <3> QED BY <3>2, <3>3, Zenon
  <2>3. Moved' = Moved
    BY <2>1, Zenon DEF Moved
  <2> QED BY <2>1, <2>2, <2>3 DEF AttemptInStep
<1>6. CASE ReadAfter
  BY <1>6, Zenon DEF ReadAfter, Forget
<1>7. CASE UNCHANGED telemetryVars
  BY <1>7, Zenon DEF telemetryVars, readerVars, writerVars, AttemptInStep, Moved, InAttempt
<1> QED BY <1>1, <1>2, <1>3, <1>r, <1>c, <1>4, <1>5, <1>6, <1>7, Zenon DEF TelemetryNext

(* A record is older than itself, and older is transitive.                 *)
LEMMA OlderOrder ==
    ASSUME NEW r \in Record, NEW s \in Record, NEW t \in Record
    PROVE  Older(r, r) /\ (Older(r, s) /\ Older(s, t) => Older(r, t))
<1>1. \A c \in {"toggles", "sent", "received"} : r[c] \in Nat /\ s[c] \in Nat /\ t[c] \in Nat
  BY RecordWords, Zenon DEF Counters
<1> QED BY <1>1 DEF Older

(* A new sequence makes a record no older.                                 *)
LEMMA SequenceOnly ==
    ASSUME NEW r \in Record, NEW s \in 0 .. Modulus - 1
    PROVE  [r EXCEPT !.sequence = s] \in Record /\ Older(r, [r EXCEPT !.sequence = s])
<1>1. \A c \in {"toggles", "sent", "received"} :
          r[c] \in Nat /\ [r EXCEPT !.sequence = s][c] = r[c]
  BY SequenceReplaced, RecordWords, Zenon DEF Counters
<1> QED BY <1>1, SequenceReplaced DEF Older

(* A counter that grows makes a record no older.                           *)
LEMMA CounterOnly ==
    ASSUME NEW r \in Record, NEW c \in Counters
    PROVE  [r EXCEPT ![c] = r[c] + 1] \in Record /\ Older(r, [r EXCEPT ![c] = r[c] + 1])
<1>1. r[c] + 1 \in Nat
  BY RecordWords
<1>2. [r EXCEPT ![c] = r[c] + 1] \in Record
  BY <1>1, CounterReplaced, Zenon
<1>3. ASSUME NEW d \in {"toggles", "sent", "received"}
      PROVE  r[d] <= [r EXCEPT ![c] = r[c] + 1][d]
  <2>1. r[d] \in Nat /\ d \in DOMAIN r
    BY RecordWords, Zenon DEF Counters
  <2> QED BY <2>1
<1> QED BY <1>2, <1>3, Zenon DEF Older

(* Every step keeps the order of the published records of a life.          *)
LEMMA GrowStep ==
    TelemetryTypes /\ OddWhileUpdating /\ LivesAreCounted /\ CountersGrow /\ TelemetryNext
        => CountersGrow'
<1> SUFFICES ASSUME TelemetryTypes, OddWhileUpdating, LivesAreCounted, CountersGrow,
                    TelemetryNext
             PROVE  CountersGrow'
  OBVIOUS
<1> USE DEF TelemetryTypes
<1>0. \A i \in DOMAIN bases : bases[i] \in Record /\ lives[i] \in Nat /\ i \in DOMAIN lives
  OBVIOUS
<1>1. ASSUME Older(published, telemetry), Older(telemetry, telemetry'), telemetry' \in Record,
             published' \in {published, telemetry'}, Older(published', telemetry'),
             UNCHANGED <<bases, basis, step, lives, life, during>>
      PROVE  CountersGrow'
  <2>1. Older(published, published') /\ published' \in Record
    BY <1>1, OlderOrder, Zenon
  <2>2. \A i \in DOMAIN bases : lives[i] = life => Older(bases[i], published')
    BY <1>0, <2>1, OlderOrder, Zenon DEF CountersGrow
  <2>3. InAttempt /\ during # 0 => Older(basis, published')
    BY <2>1, OlderOrder, Zenon DEF CountersGrow
  <2> QED BY <1>1, <2>2, <2>3, Zenon DEF CountersGrow, InAttempt
<1>2. clear = 0 => Older(published, telemetry)
  BY Zenon DEF CountersGrow
<1>3. ASSUME NEW counter \in Counters \cup {"stage"}, BeginUpdate(counter)
      PROVE  CountersGrow'
  <2>1. /\ telemetry' = [telemetry EXCEPT !.sequence = Advance(telemetry.sequence)]
        /\ Advance(telemetry.sequence) \in 0 .. Modulus - 1
        /\ UNCHANGED <<published, bases, basis, step, lives, life, during>> /\ clear = 0
    BY <1>3, AdvanceWraps, RecordWords, Zenon DEF BeginUpdate, readerVars
  <2>2. telemetry' \in Record /\ Older(telemetry, telemetry')
    BY <2>1, SequenceOnly, Zenon
  <2>3. Older(published', telemetry')
    BY <1>2, <2>1, <2>2, OlderOrder
  <2> QED BY <1>1, <1>2, <2>1, <2>2, <2>3, Zenon
<1>4. CASE Increment
  <2>1. /\ updating \in Counters /\ telemetry[updating] \in Nat
        /\ telemetry[updating] + 1 \in Nat
        /\ telemetry' = [telemetry EXCEPT ![updating] = telemetry[updating] + 1]
        /\ UNCHANGED <<published, bases, basis, step, lives, life, during>>
    BY <1>4, RecordWords DEF Increment, readerVars
  <2>2. telemetry' \in Record /\ Older(telemetry, telemetry')
    BY <2>1, CounterOnly, Zenon
  <2>3. clear = 0
    BY <2>1, Zenon DEF OddWhileUpdating, Counters
  <2>4. Older(published', telemetry')
    BY <1>2, <2>1, <2>2, <2>3, OlderOrder
  <2> QED BY <1>1, <1>2, <2>1, <2>2, <2>3, <2>4, Zenon
<1>5. CASE CommitEvent
  <2>1. /\ telemetry' = [telemetry EXCEPT !.sequence = Advance(telemetry.sequence)]
        /\ Advance(telemetry.sequence) \in 0 .. Modulus - 1
        /\ published' = telemetry' /\ UNCHANGED <<bases, basis, step, lives, life, during>>
    BY <1>5, AdvanceWraps, RecordWords, Zenon DEF CommitEvent, readerVars
  <2>2. telemetry' \in Record /\ Older(telemetry, telemetry')
    BY <2>1, SequenceOnly, Zenon
  <2>3. clear = 0
    BY <1>5, Zenon DEF OddWhileUpdating, CommitEvent
  <2> QED BY <1>1, <1>2, <2>1, <2>2, <2>3, OlderOrder, Zenon
<1>6. CASE Relaunch
  <2>1. UNCHANGED <<bases, lives>> /\ during' = 0 /\ clear' # 0 /\ life' = life + 1
    BY <1>6 DEF Relaunch, readerVars
  <2>2. \A i \in DOMAIN lives : lives[i] # life'
    BY <2>1 DEF LivesAreCounted
  <2> QED BY <1>0, <2>1, <2>2, Zenon DEF CountersGrow
<1>7. CASE ClearWord
  <2>1. UNCHANGED <<bases, lives, life, during>> /\ clear # 0 /\ during = 0
    BY <1>7, Zenon DEF ClearWord, readerVars, LivesAreCounted
  <2>2. \A i \in DOMAIN lives : lives[i] # life
    BY <2>1 DEF LivesAreCounted
  <2>3. clear' = 0 => published' = telemetry'
    <3>1. ASSUME clear' = 0 PROVE updating' = "none"
      BY <1>7, <2>1, Zenon DEF ClearWord, OddWhileUpdating
    <3> QED BY <1>7, <3>1, OddStep, Zenon DEF OddWhileUpdating
  <2>4. telemetry' \in Record
    BY TypesStep, Zenon
  <2> QED BY <1>0, <2>1, <2>2, <2>3, <2>4, OlderOrder, Zenon DEF CountersGrow
<1>8. CASE ReadBefore
  <2>1. /\ UNCHANGED <<telemetry, published, bases, lives, life, clear>>
        /\ InAttempt' => basis' = published
    BY <1>8, Zenon DEF ReadBefore, NextAttempt, writerVars, InAttempt
  <2>2. Older(published, published)
    BY OlderOrder, Zenon
  <2>3. InAttempt' /\ during' # 0 => Older(basis', published) /\
            \A i \in DOMAIN bases : lives[i] = life => Older(bases[i], basis')
    BY <2>1, <2>2, Zenon DEF CountersGrow
  <2> QED BY <2>1, <2>3, Zenon DEF CountersGrow
<1>9. CASE ReadWord
  BY <1>9, Zenon DEF ReadWord, writerVars, CountersGrow, InAttempt
<1>10. CASE ReadAfter
  <2>1. /\ UNCHANGED <<telemetry, published, life, clear>> /\ InAttempt /\ during' = 0
        /\ \/ bases' = bases /\ lives' = lives
           \/ bases' = Append(bases, basis) /\ lives' = Append(lives, during)
    BY <1>10, Zenon DEF ReadAfter, Forget, writerVars, InAttempt
  <2>2. \A i \in DOMAIN bases : lives[i] = life => Older(bases[i], published)
    BY Zenon DEF CountersGrow
  <2>3. during = life => Older(basis, published)
    BY <2>1 DEF CountersGrow, LivesAreCounted
  <2>4. \A i \in DOMAIN bases' : lives'[i] = life => Older(bases'[i], published)
    <3>1. CASE bases' = bases /\ lives' = lives
      BY <2>2, <3>1, Zenon
    <3>2. CASE bases' = Append(bases, basis) /\ lives' = Append(lives, during)
      BY <2>2, <2>3, <3>2
    <3> QED BY <2>1, <3>1, <3>2, Zenon
  <2> QED BY <2>1, <2>4, Zenon DEF CountersGrow
<1>11. CASE UNCHANGED telemetryVars
  BY <1>11, Zenon DEF telemetryVars, readerVars, writerVars, CountersGrow, InAttempt
<1> QED BY <1>3, <1>4, <1>5, <1>6, <1>7, <1>8, <1>9, <1>10, <1>11, Zenon DEF TelemetryNext

(* An attempt that is accepted saw no update begin: its words are those of *)
(* the record published when it began.                                     *)
LEMMA AcceptedIsBasis ==
    ASSUME TelemetryInv, step = "after", during # 0, Accepts(telemetry.sequence)
    PROVE  raw = Stored(basis)
<1> USE DEF TelemetryInv, TelemetryTypes, InAttempt
<1>1. before = telemetry.sequence /\ telemetry.sequence \in 0 .. Modulus - 1
  BY RecordWords, Zenon DEF Accepts
<1>2. since = 0
  <2>1. Moved = 0
    BY <1>1, TelemetryConstants DEF Moved
  <2>2. since \in Nat /\ (Moved = 2 * since \/ Moved = 2 * since - 1)
    BY DEF AttemptInStep
  <2> QED BY <2>1, <2>2
<1>3. \A i \in 1 .. 5 : raw[Words[i]] = Stored(basis)[Words[i]]
  BY <1>2 DEF AttemptInStep
<1>4. \A c \in Counters \cup {"sequence"} : raw[c] = Stored(basis)[c]
  <2>1. ASSUME NEW c \in Counters \cup {"sequence"}
        PROVE  raw[c] = Stored(basis)[c]
    <3>1. PICK i \in 1 .. 5 : Words[i] = c
      BY WordsAre, Zenon
    <3>2. raw[Words[i]] = Stored(basis)[Words[i]]
      BY <1>3, Zenon
    <3> QED BY <3>1, <3>2, Zenon
  <2> QED BY <2>1, Zenon
<1>5. /\ DOMAIN raw = Counters \cup {"sequence"}
      /\ DOMAIN basis = Counters \cup {"sequence"}
      /\ raw = [c \in DOMAIN raw |-> raw[c]]
  BY RecordWords, Zenon DEF Record
<1> QED BY <1>4, <1>5, Zenon DEF Stored

(* A counter whose words differ modulo their width has moved.              *)
LEMMA DifferenceIsProgress ==
    ASSUME NEW r \in Record, NEW s \in Record, Older(r, s),
           SustainedProgress(Stored(r), Stored(s)),
           NEW c \in {"toggles", "sent", "received"}
    PROVE  s[c] > r[c]
<1>1. /\ Stored(r)[c] = r[c] % Modulus /\ Stored(s)[c] = s[c] % Modulus
      /\ r[c] \in Nat /\ s[c] \in Nat
  BY WordRead, RecordWords, Zenon DEF Counters
<1>2. ((s[c] % Modulus) - (r[c] % Modulus)) % Modulus # 0
  BY <1>1, Zenon DEF SustainedProgress
<1>3. 0 % Modulus = 0
  BY RemainderSmall, TelemetryConstants
<1>4. s[c] # r[c]
  <2>1. ASSUME s[c] = r[c] PROVE FALSE
    <3>1. (r[c] % Modulus) - (r[c] % Modulus) = 0
      BY <1>1, RemainderRange, TelemetryConstants
    <3> QED BY <1>2, <1>3, <2>1, <3>1, Zenon
  <2> QED BY <2>1, Zenon
<1> QED BY <1>1, <1>4 DEF Older

(* Every step keeps what a verdict says: only ReadAfter gives one.         *)
LEMMA ProgressStep == TelemetryInv /\ TelemetryNext => PassMeansProgress' /\ VerdictIsLast'
<1> SUFFICES ASSUME TelemetryInv, TelemetryNext PROVE PassMeansProgress' /\ VerdictIsLast'
  OBVIOUS
<1> USE DEF TelemetryInv, TelemetryTypes
<1>1. CASE UNCHANGED <<samples, bases, lives, verdict>> /\ (step' = "ended" <=> step = "ended")
  BY <1>1, Zenon DEF PassMeansProgress, SamplesAreCoherent, CountersMoved,
              VerdictIsLast
<1>2. CASE UNCHANGED <<samples, bases, lives>> /\ verdict' = "error" /\ step' = "ended"
  BY <1>2, Zenon DEF PassMeansProgress, SamplesAreCoherent, CountersMoved,
              VerdictIsLast
<1>3. CASE ReadAfter /\ Accepts(telemetry.sequence)
  <2>1. /\ samples' = Append(samples, raw) /\ bases' = Append(bases, basis)
        /\ lives' = Append(lives, during)
        /\ step = "after" /\ verdict = "none"
    BY <1>3, Zenon DEF ReadAfter, VerdictIsLast
  <2>2. during # 0 => raw = Stored(basis)
    BY <1>3, <2>1, AcceptedIsBasis, Zenon
  <2>3. \A i \in DOMAIN samples' : lives'[i] # 0 => samples'[i] = Stored(bases'[i])
    BY <2>1, <2>2 DEF PassMeansProgress, SamplesAreCoherent
  <2>4. VerdictIsLast'
    BY <1>3, <2>1, Zenon DEF ReadAfter, VerdictIsLast
  <2>5. ASSUME verdict' = "pass", lives'[1] # 0, lives'[Len(lives')] = lives'[1],
               NEW c \in {"toggles", "sent", "received"}
        PROVE  bases'[Len(bases')][c] > bases'[1][c]
    <3>1. SustainedProgress(samples'[1], raw)
      BY <1>3, <2>1, <2>5, Zenon DEF ReadAfter
    <3>a. lives'[Len(lives')] = during /\ Len(bases') > 0 /\ bases'[Len(bases')] = basis
      BY <2>1
    <3>b. during = life /\ during # 0 /\ lives'[1] = during
      BY <2>5, <3>a, Zenon DEF LivesAreCounted
    <3>2. /\ 1 \in DOMAIN samples' /\ bases'[Len(bases')] = basis /\ bases'[1] \in Record
          /\ Older(bases'[1], basis)
      <4>1. CASE Len(bases) = 0
        BY <2>1, <4>1, OlderOrder
      <4>2. CASE Len(bases) # 0
        <5>1. 1 \in DOMAIN bases /\ bases'[1] = bases[1] /\ lives[1] = life
          BY <2>1, <3>b, <4>2
        <5>2. Older(bases[1], basis)
          BY <2>1, <3>b, <5>1, Zenon DEF CountersGrow, InAttempt
        <5> QED BY <2>1, <5>1, <5>2
      <4> QED BY <4>1, <4>2, Zenon
    <3>3. samples'[1] = Stored(bases'[1]) /\ raw = Stored(basis)
      BY <2>2, <2>3, <2>5, <3>b, <3>2, Zenon
    <3> QED BY <3>1, <3>2, <3>3, DifferenceIsProgress, Zenon
  <2> QED BY <2>3, <2>4, <2>5, Zenon
          DEF PassMeansProgress, SamplesAreCoherent, CountersMoved
<1> QED
  BY <1>1, <1>2, <1>3, Zenon
  DEF TelemetryNext, BeginUpdate, Increment, CommitEvent, Relaunch, ClearWord,
      ReadBefore, ReadWord, ReadAfter, NextAttempt,
      telemetryVars, readerVars, writerVars

(* Every step keeps the invariant of the sampling.                         *)
LEMMA TelemetryStep ==
    TelemetryInv /\ [TelemetryNext]_telemetryVars => TelemetryInv'
<1> SUFFICES ASSUME TelemetryInv, [TelemetryNext]_telemetryVars PROVE TelemetryInv'
  OBVIOUS
<1>1. CASE TelemetryNext
  BY <1>1, TypesStep, OddStep, LivesStep, SampleStep, GrowStep, ProgressStep, Zenon
  DEF TelemetryInv
<1>2. CASE UNCHANGED telemetryVars
  BY <1>2, Zenon DEF telemetryVars, readerVars, writerVars, TelemetryInv,
              TelemetryTypes, OddWhileUpdating, LivesAreCounted, AttemptInStep, Moved,
              InAttempt, CountersGrow, VerdictIsLast, PassMeansProgress, SamplesAreCoherent,
              CountersMoved
<1> QED BY <1>1, <1>2, Zenon

(* The invariant holds before the first update and the first sample.       *)
LEMMA TelemetryInitial == TelemetryInit => TelemetryInv
<1> SUFFICES ASSUME TelemetryInit PROVE TelemetryInv
  OBVIOUS
<1> USE TelemetryConstants DEF TelemetryInit
<1>1. TelemetryTypes
  BY ZerosAreRecord DEF TelemetryTypes
<1>2. OddWhileUpdating
  BY DEF OddWhileUpdating, Zeros
<1>2a. LivesAreCounted
  BY DEF LivesAreCounted
<1>3. Older(Zeros, Zeros)
  BY ZerosAreRecord, OlderOrder, Zenon
<1>4. AttemptInStep /\ VerdictIsLast
  BY Zenon DEF AttemptInStep, VerdictIsLast, InAttempt
<1>5. CountersGrow
  BY <1>3 DEF CountersGrow, InAttempt
<1>6. PassMeansProgress
  BY DEF PassMeansProgress, SamplesAreCoherent, CountersMoved
<1> QED BY <1>1, <1>2, <1>2a, <1>4, <1>5, <1>6, Zenon DEF TelemetryInv

(* Every sample that read_stable_telemetry accepts is one record that the  *)
(* tasks published, never parts of two, and freertos_status says PASS only *)
(* when each counter has moved between the first sample and the last, for  *)
(* every width of the sequence, number of samples and of attempts, however *)
(* the updates fall between the words that are read and however many fall  *)
(* between two samples.  A restart of the workload ends a life: the        *)
(* statement is about the samples of one life that no restart met.         *)
THEOREM SamplesShowProgress == TelemetrySpec => []PassMeansProgress
<1>1. TelemetryInv => PassMeansProgress
  BY Zenon DEF TelemetryInv
<1> QED BY <1>1, TelemetryInitial, TelemetryStep, PTL DEF TelemetrySpec

-----------------------------------------------------------------------------
(***************************************************************************)
(* The next workload or boot id is never 0.                                *)
(***************************************************************************)
LEMMA NextIdRange == \A n \in 0 .. (IdModulus - 1) : NextId(n) \in 1 .. (IdModulus - 1)
BY RuntimeConstants DEF NextId

(***************************************************************************)
(* The fields of an executor and of the hardware after each operation.     *)
(***************************************************************************)
LEMMA ExecutorOperations ==
    ASSUME NEW e \in Executors, TypeOK
    PROVE  /\ StopExecutor(e) \in Executors
           /\ ClearDiagnostics(e) \in Executors
           /\ StageExecutor(e) \in Executors
           /\ StartEntry(e) \in Executors
           /\ FailedStart(e) \in Executors
           /\ IdleAccepted(e) \in Executors
<1> USE DEF Executors, TypeOK, Reasons, ClockFlags
<1>1. manifest.clock \in ClockFlags
  BY RuntimeConstants DEF NoManifest
<1>2. 0 \in 0 .. (IdModulus - 1)
  BY RuntimeConstants
<1>3. StopExecutor(e) \in Executors
  BY Zenon DEF StopExecutor
<1>4. ClearDiagnostics(e) \in Executors
  BY <1>2, Zenon DEF ClearDiagnostics
<1>5. StageExecutor(e) \in Executors
  BY <1>1, <1>4, Zenon DEF StageExecutor
<1>6. StartEntry(e) \in Executors
  BY <1>2, Zenon DEF StartEntry
<1>7. FailedStart(e) \in Executors
  BY <1>6, Zenon DEF FailedStart
<1>8. IdleAccepted(e) \in Executors
  BY Zenon DEF IdleAccepted
<1> QED
  BY <1>3, <1>4, <1>5, <1>6, <1>7, <1>8, Zenon

LEMMA IdleTypes == IdleExecutor \in Executors
<1>1. 0 \in 0 .. (IdModulus - 1)
  BY RuntimeConstants
<1> QED
  BY <1>1, Zenon DEF IdleExecutor, Executors, Reasons

LEMMA HardwareOperations ==
    ASSUME NEW h \in Hardware
    PROVE  /\ SafeHalt(h) \in Hardware
           /\ Park(h) \in Hardware
           /\ GeneralBus(h) \in Hardware
           /\ [h EXCEPT !.available = TRUE] \in Hardware
           /\ ResidentRuntime \in Hardware
BY Zenon DEF Hardware, SafeHalt, Park, GeneralBus, ResidentRuntime

(***************************************************************************)
(* The two ways to start a workload keep the types.                        *)
(***************************************************************************)
startTypes ==
    /\ state' \in States /\ ex' \in Executors /\ hw' \in Hardware
    /\ boot_id' \in 1 .. (IdModulus - 1)
    /\ attempted' \in BOOLEAN /\ superseded' \in BOOLEAN

LEMMA StartTypes ==
    ASSUME NEW e \in Executors, NEW h \in Hardware, TypeOK,
           StartGeneral(e, h) \/ StartCalculator(e, h)
    PROVE  startTypes
<1> USE DEF startTypes
<1>1. boot_id \in 1 .. (IdModulus - 1) /\ NextId(boot_id) \in 1 .. (IdModulus - 1)
  BY NextIdRange, RuntimeConstants DEF TypeOK
<1>2. FailedStart(e) \in Executors /\ StartEntry(e) \in Executors
  BY ExecutorOperations, Zenon
<1>3. /\ SafeHalt(h) \in Hardware /\ Park(h) \in Hardware
      /\ Park(GeneralBus(h)) \in Hardware /\ GeneralBus(h) \in Hardware
      /\ Park([h EXCEPT !.available = TRUE]) \in Hardware
      /\ ResidentRuntime \in Hardware
  BY HardwareOperations, Zenon
<1>4. {"FAULTED", "RUNNING"} \subseteq States
  BY Zenon DEF States
<1>5. ASSUME StartCalculator(e, h) PROVE startTypes
  BY <1>1, <1>3, <1>4, <1>5, Zenon DEF StartCalculator, TypeOK
<1>6. ASSUME StartGeneral(e, h) PROVE startTypes
  <2>1. attempted' = TRUE /\ superseded' = FALSE
    BY <1>6, Zenon DEF StartGeneral
  <2>2. CASE StartRefused(e, h)
    BY <1>1, <1>2, <1>4, <2>1, <2>2, Zenon DEF StartRefused
  <2>3. CASE PrepareFails(e, h)
    BY <1>1, <1>2, <1>3, <1>4, <2>1, <2>3, Zenon DEF PrepareFails
  <2>4. CASE ResetSequenceFails(e, h)
    <3>1. ex' \in Executors
      <4>1. boot_id' \in 0 .. (IdModulus - 1)
        BY <1>1, <2>4, RuntimeConstants DEF ResetSequenceFails
      <4> QED
        BY <1>2, <2>4, <4>1, Zenon DEF ResetSequenceFails, Executors
    <3> QED
      BY <1>1, <1>3, <1>4, <2>1, <2>4, <3>1, Zenon DEF ResetSequenceFails
  <2>5. CASE GeneralRuns(e, h)
    <3>1. ex' \in Executors
      <4>1. boot_id' \in 0 .. (IdModulus - 1)
        BY <1>1, <2>5, RuntimeConstants DEF GeneralRuns
      <4> QED
        BY <1>2, <2>5, <4>1, ZenonT(20) DEF GeneralRuns, Executors, TypeOK, ClockFlags
    <3>2. hw' \in Hardware
      BY <1>3, <2>5, Zenon DEF GeneralRuns, Hardware
    <3> QED
      BY <1>1, <1>4, <2>1, <2>5, <3>1, <3>2, Zenon DEF GeneralRuns
  <2> QED
    BY <1>6, <2>2, <2>3, <2>4, <2>5, Zenon DEF StartGeneral
<1> QED
  BY <1>5, <1>6, Zenon

LEMMA TypeStep == TypeOK /\ [Next]_vars => TypeOK'
<1> SUFFICES ASSUME TypeOK, [Next]_vars PROVE TypeOK'
  OBVIOUS
<1>a. /\ ex \in Executors /\ hw \in Hardware /\ manifest \in Manifests \cup {NoManifest}
      /\ Park(hw) \in Hardware
  BY HardwareOperations, Zenon DEF TypeOK
<1>1. ASSUME NEW tid \in TransferIds, NEW m \in Manifests, Begin(tid, m)
      PROVE  TypeOK'
  <2>1. m.size \in Nat /\ received' \in Seq(Chunk) /\ Len(received') = 0
    BY <1>1, RuntimeConstants DEF Begin
  <2>2. ex' \in Executors
    BY <1>1, <1>a, ExecutorOperations, Zenon DEF Begin
  <2> QED
    <3>1. Len(received') <= manifest'.size
      BY <1>1, <2>1 DEF Begin
    <3> QED
      BY <1>1, <2>1, <2>2, <3>1, Zenon DEF Begin, TypeOK, States
<1>2. ASSUME NEW tid \in TransferIds, NEW offset \in 0 .. (RegionSize - 1),
             NEW chunk \in Chunk, Data(tid, offset, chunk)
      PROVE  TypeOK'
  <2>1. /\ received' \in Seq(Chunk) /\ Len(received') = Len(received) + 1
        /\ Len(received) \in Nat /\ manifest.size \in Nat
    BY <1>2, <1>a, RuntimeConstants DEF Data, TypeOK, NoManifest
  <2>2. Len(received') <= manifest'.size
    BY <1>2, <2>1 DEF Data
  <2>3. memory' \in [1 .. RegionSize -> Chunk]
    BY <1>2, Zenon DEF Data, TypeOK
  <2> QED
    BY <1>2, <2>1, <2>2, <2>3, Zenon DEF Data, TypeOK
<1>3. ASSUME NEW tid \in TransferIds, NEW m \in Manifests, Commit(tid, m.crc)
      PROVE  TypeOK'
  <2>1. ex' \in Executors
    BY <1>3, <1>a, ExecutorOperations, Zenon DEF Commit
  <2>2. workload_id' \in 0 .. (IdModulus - 1)
    BY <1>3, NextIdRange, RuntimeConstants DEF Commit, TypeOK
  <2> QED
    BY <1>3, <2>1, <2>2, Zenon DEF Commit, TypeOK, States
<1>4. ASSUME NEW id \in {0, workload_id}, Run(id)
      PROVE  TypeOK'
  <2>1. startTypes
    BY <1>4, <1>a, StartTypes, Zenon DEF Run
  <2> QED
    BY <1>4, <2>1, Zenon DEF Run, controlUnchanged, TypeOK, startTypes
<1>5. ASSUME NEW id \in {0, workload_id}, Stop(id)
      PROVE  TypeOK'
  <2>1. ex' \in Executors /\ hw' \in Hardware
    BY <1>5, <1>a, ExecutorOperations, Zenon DEF Stop
  <2> QED
    BY <1>5, <2>1, Zenon DEF Stop, controlUnchanged, TypeOK, States
<1>6. ASSUME NEW id \in {0, workload_id}, Restart(id)
      PROVE  TypeOK'
  <2>1. RestartFrom(ex) \in Executors /\ StopBus(hw) \in Hardware
    BY <1>a, ExecutorOperations, Zenon DEF RestartFrom, StopBus
  <2>2. startTypes
    BY <1>6, <2>1, StartTypes, Zenon DEF Restart
  <2> QED
    BY <1>6, <2>2, Zenon DEF Restart, controlUnchanged, TypeOK, startTypes
<1>7. ASSUME NEW t \in BOOLEAN, SetTimeout(t)
      PROVE  TypeOK'
  <2>1. Armed(t) \in BOOLEAN
    BY Zenon DEF Armed
  <2>2. ex' \in Executors
    BY <1>7, <1>a, <2>1, Zenon DEF SetTimeout, Executors
  <2> QED
    BY <1>7, <2>2, Zenon DEF SetTimeout, mgrVars, TypeOK
<1>8. ASSUME NEW i \in 1 .. RegionSize, NEW chunk \in Chunk, HostWrite(i, chunk)
      PROVE  TypeOK'
  BY <1>8, Zenon DEF HostWrite, mgrVars, TypeOK
<1>9. CASE ControlAckLost
  BY <1>9, <1>a, Zenon DEF ControlAckLost, mgrVars, TypeOK
<1>10. CASE Reboot
  <2>1. IdleExecutor \in Executors /\ ResidentRuntime \in Hardware
    BY <1>a, IdleTypes, HardwareOperations, Zenon
  <2>2. /\ received' \in Seq(Chunk) /\ Len(received') = 0 /\ manifest'.size = 0
        /\ boot_id' \in 1 .. (IdModulus - 1) /\ workload_id' \in 0 .. (IdModulus - 1)
        /\ memory' \in [1 .. RegionSize -> Chunk]
        /\ Len(received') <= manifest'.size
    BY <1>10, RuntimeConstants DEF Reboot, NoManifest
  <2> QED
    BY <1>10, <2>1, <2>2, Zenon DEF Reboot, TypeOK, States
<1>11. ASSUME NEW reason \in Reasons, NEW final \in States,
              EndAttempt(reason, final)
       PROVE  TypeOK'
  <2>1. [ex EXCEPT !.reason = reason] \in Executors
    BY <1>a, Zenon DEF Executors
  <2>2. ex' \in Executors
    BY <1>11, <2>1, ExecutorOperations, Zenon DEF EndAttempt
  <2> QED
    BY <1>11, <1>a, <2>2, Zenon DEF EndAttempt, serviceUnchanged, TypeOK
<1>12. CASE DeadlineDue \/ Starved \/ BusFault
  BY <1>12, <1>11, Zenon DEF DeadlineDue, Starved, BusFault, Reasons, States
<1>13. CASE TerminalHalt
  BY <1>13, <1>a, ExecutorOperations, Zenon DEF TerminalHalt, serviceUnchanged, TypeOK,
     States
<1>14. ASSUME NEW i \in 1 .. RegionSize, NEW chunk \in Chunk,
              ProcessorWrite(i, chunk)
       PROVE  TypeOK'
  BY <1>14, Zenon DEF ProcessorWrite, serviceUnchanged, TypeOK
<1>15. CASE UNCHANGED vars
  BY <1>15, Zenon DEF vars, TypeOK
<1> QED
  BY Zenon, <1>1, <1>2, <1>3, <1>4, <1>5, <1>6, <1>7, <1>8, <1>9, <1>10, <1>12, <1>13,
     <1>14, <1>15 DEF Next, HostRecord, Service

(***************************************************************************)
(* Every variable of the life cycle keeps its type.                        *)
(***************************************************************************)
LEMMA TypeInit == Init => TypeOK
<1> SUFFICES ASSUME Init PROVE TypeOK
  OBVIOUS
<1>1. ex \in Executors
  BY IdleTypes, Zenon DEF Init
<1>2. hw \in Hardware
  BY Zenon DEF Init, ResidentRuntime, Hardware
<1>3. /\ received \in Seq(Chunk) /\ Len(received) <= manifest.size
      /\ boot_id \in 1 .. (IdModulus - 1) /\ workload_id \in 0 .. (IdModulus - 1)
      /\ memory \in [1 .. RegionSize -> Chunk]
  BY RuntimeConstants DEF Init, NoManifest
<1> QED
  BY <1>1, <1>2, <1>3, Zenon DEF Init, TypeOK, States

-----------------------------------------------------------------------------
(***************************************************************************)
(* The inductive invariant.  Three facts that no handler checks carry the  *)
(* others: what runs without the executor was started as the calculator,   *)
(* a snapshot is of an attempt since the last BEGIN, and the chunks taken  *)
(* so far are the beginning of the memory.                                 *)
(***************************************************************************)
SupersededRuns == state = "RUNNING" /\ ~ex.active => superseded

DiagnosesAttempt == ex.diag_workload # 0 => attempted

PrefixStored ==
    state = "RECEIVING" /\ ~patched =>
        \A i \in 1 .. Len(received) : memory[i] = received[i]

IInv ==
    /\ LifecycleAgreement
    /\ SingleBusOwner
    /\ StoppedIsQuiet
    /\ AttemptIsCurrent /\ SupersededRuns
    /\ DiagnosesAttempt
    /\ StagedImageComplete /\ PrefixStored

(***************************************************************************)
(* What a start does, from an executor that is not active.                 *)
(***************************************************************************)
Inactive(e) == ~e.active /\ ~e.processor_idle /\ ~e.deadline

FailedEffect(h) ==
    /\ state' = "FAULTED"
    /\ Inactive(ex')
    /\ hw' = h \/ hw'.reset

RunningEffect ==
    /\ state' = "RUNNING"
    /\ ex'.active /\ ~ex'.processor_idle
    /\ ex'.clock_mode = "STEPPED" /\ ex'.reason = "NONE"
    /\ ex'.deadline = timeout
    /\ ~hw'.available /\ hw'.clock = "STEPPED" /\ hw'.bus_active

LEMMA GeneralEffects ==
    ASSUME NEW e \in Executors, NEW h \in Hardware, TypeOK, Inactive(e),
           StartGeneral(e, h)
    PROVE  /\ FailedEffect(h) \/ RunningEffect
           /\ attempted' = TRUE
<1> USE DEF Executors, Hardware, Inactive, FailedEffect, RunningEffect,
        StartEntry, FailedStart
<1>1. attempted' = TRUE
  BY Zenon DEF StartGeneral
<1>2. CASE StartRefused(e, h)
  BY <1>1, <1>2, Zenon DEF StartRefused
<1>3. CASE PrepareFails(e, h)
  BY <1>1, <1>3, Zenon DEF PrepareFails, SafeHalt
<1>4. CASE ResetSequenceFails(e, h)
  BY <1>1, <1>4, Zenon DEF ResetSequenceFails, Park, SafeHalt, GeneralBus
<1>5. CASE GeneralRuns(e, h)
  BY <1>1, <1>5, Zenon DEF GeneralRuns, GeneralBus
<1> QED
  BY <1>2, <1>3, <1>4, <1>5, Zenon DEF StartGeneral

LEMMA CalculatorEffects ==
    ASSUME NEW e \in Executors, NEW h \in Hardware, TypeOK, Inactive(e),
           StartCalculator(e, h)
    PROVE  /\ ex' = e /\ superseded' = TRUE /\ attempted' = attempted
           /\ \/ FailedEffect(h)
              \/ state' = "RUNNING" /\ hw' = ResidentRuntime
BY Zenon DEF StartCalculator, FailedEffect, Park, SafeHalt, Hardware

(***************************************************************************)
(* RUN and RESTART start from an executor that is not active, and from     *)
(* hardware that is either untouched or in RESET.                          *)
(***************************************************************************)
StartFrom(e, h) ==
    /\ Inactive(e)
    /\ h.reset \/ (h = hw /\ ~ex.active)
    /\ e.diag_workload = ex.diag_workload
    /\ workload_id # 0 /\ ~Unsupervisable
    /\ state \in {"STAGED", "RUNNING", "STOPPED", "COMPLETED"}
    /\ IF CalculatorValid THEN StartCalculator(e, h) ELSE StartGeneral(e, h)
    /\ UNCHANGED controlUnchanged

LEMMA StopFields ==
    ASSUME NEW e \in Executors
    PROVE  /\ Inactive(StopExecutor(e))
           /\ StopExecutor(e).diag_workload = e.diag_workload
           /\ StopExecutor(e).reason =
                IF e.reason = "NONE" THEN "STOP_REQUESTED" ELSE e.reason
BY Zenon DEF Executors, Inactive, StopExecutor

LEMMA StartStep ==
    ASSUME LifecycleAgreement, AttemptIsCurrent,
           NEW id, Run(id) \/ Restart(id)
    PROVE  \E e \in Executors, h \in Hardware : StartFrom(e, h)
<1> USE DEF StartFrom
<1>1. ex \in Executors /\ hw \in Hardware
  BY Zenon DEF LifecycleAgreement, TypeOK
<1>2. CASE Run(id)
  <2>1. ~ex.active
    BY <1>2, Zenon DEF Run, LifecycleAgreement
  <2>2. Inactive(ex)
    BY <2>1, Zenon DEF LifecycleAgreement, AttemptIsCurrent, Inactive
  <2> QED
    BY <1>1, <1>2, <2>1, <2>2, Zenon DEF Run, IdMatches
<1>3. CASE Restart(id)
  <2>1. RestartFrom(ex) \in Executors /\ StopBus(hw) \in Hardware
    BY <1>1, ExecutorOperations, HardwareOperations, Zenon
       DEF LifecycleAgreement, RestartFrom, StopBus
  <2>2. Inactive(RestartFrom(ex)) /\ RestartFrom(ex).diag_workload = ex.diag_workload
    BY <1>1, StopFields, Zenon
       DEF LifecycleAgreement, AttemptIsCurrent, Inactive, RestartFrom
  <2>3. StopBus(hw).reset \/ (StopBus(hw) = hw /\ ~ex.active)
    BY <1>1, Zenon DEF StopBus, Park, SafeHalt, Hardware
  <2> QED
    BY <1>3, <2>1, <2>2, <2>3, Zenon DEF Restart, RestartAllowed, IdMatches
<1> QED
  BY <1>2, <1>3, Zenon

(***************************************************************************)
(* The steps of the life cycle, as far as the invariant depends on them.   *)
(* Every other step leaves the executor's flags, the hardware and the      *)
(* state of the workload as they are.                                      *)
(***************************************************************************)
LEMMA AttemptEnd ==
    ASSUME TypeOK, NEW reason \in Reasons \ {"NONE"}, NEW final,
           EndAttempt(reason, final)
    PROVE  /\ Inactive(ex') /\ ex'.reason = reason
           /\ ex'.diag_workload = ex.diag_workload
           /\ hw'.reset /\ hw'.clock = "STOPPED" /\ ~hw'.bus_active
           /\ state' = final
           /\ UNCHANGED <<memory, serviceUnchanged>>
<1>1. [ex EXCEPT !.reason = reason] \in Executors
  BY Zenon DEF TypeOK, Executors
<1>2. /\ [ex EXCEPT !.reason = reason].reason = reason
      /\ [ex EXCEPT !.reason = reason].diag_workload = ex.diag_workload
  BY Zenon DEF TypeOK, Executors
<1>3. Inactive(ex') /\ ex'.reason = reason /\ ex'.diag_workload = ex.diag_workload
  BY <1>1, <1>2, StopFields, Zenon DEF EndAttempt
<1>4. hw'.reset /\ hw'.clock = "STOPPED" /\ ~hw'.bus_active
  BY Zenon DEF EndAttempt, Park, SafeHalt, TypeOK, Hardware
<1> QED
  BY <1>3, <1>4, Zenon DEF EndAttempt

Ended == \E final \in {"TIMED_OUT", "FAULTED"} :
    /\ ex.active
    /\ Inactive(ex') /\ ex'.diag_workload = ex.diag_workload
    /\ final = "TIMED_OUT" => ex'.reason \in {"EXECUTION_DEADLINE", "NO_BUS_CYCLE"}
    /\ hw'.reset /\ hw'.clock = "STOPPED" /\ ~hw'.bus_active
    /\ state' = final
    /\ UNCHANGED <<memory, serviceUnchanged>>

LEMMA EndStep ==
    ASSUME TypeOK, DeadlineDue \/ Starved \/ BusFault
    PROVE  Ended
<1> USE DEF Ended, Serviced
<1>1. {"EXECUTION_DEADLINE", "NO_BUS_CYCLE", "BUS_FAULT"} \subseteq Reasons \ {"NONE"}
  BY Zenon DEF Reasons
<1>2. CASE DeadlineDue
  BY <1>1, <1>2, AttemptEnd, Zenon DEF DeadlineDue
<1>3. CASE Starved
  BY <1>1, <1>3, AttemptEnd, Zenon DEF Starved
<1>4. CASE BusFault
  BY <1>1, <1>4, AttemptEnd, Zenon DEF BusFault
<1> QED
  BY <1>2, <1>3, <1>4, Zenon

StepKinds ==
    \/ \E tid \in TransferIds, m \in Manifests : Begin(tid, m)
    \/ \E tid \in TransferIds, offset \in 0 .. (RegionSize - 1), chunk \in Chunk :
          Data(tid, offset, chunk)
    \/ \E tid \in TransferIds, m \in Manifests : Commit(tid, m.crc)
    \/ \E e \in Executors, h \in Hardware : StartFrom(e, h)
    \/ \E id \in {0, workload_id} : Stop(id)
    \/ \E t \in BOOLEAN : SetTimeout(t)
    \/ \E i \in 1 .. RegionSize, chunk \in Chunk :
          HostWrite(i, chunk) \/ ProcessorWrite(i, chunk)
    \/ ControlAckLost
    \/ Reboot
    \/ Ended
    \/ TerminalHalt
    \/ UNCHANGED vars

LEMMA Steps == LifecycleAgreement /\ AttemptIsCurrent /\ [Next]_vars => StepKinds
<1> SUFFICES ASSUME LifecycleAgreement, AttemptIsCurrent, [Next]_vars
             PROVE  StepKinds
  OBVIOUS
<1>1. ASSUME NEW id, Run(id) \/ Restart(id) PROVE StepKinds
  BY <1>1, StartStep, Zenon DEF StepKinds
<1>2. CASE DeadlineDue \/ Starved \/ BusFault
  BY <1>2, EndStep, Zenon DEF StepKinds, LifecycleAgreement
<1> QED
  BY <1>1, <1>2, Zenon DEF StepKinds, Next, HostRecord, Service

(***************************************************************************)
(* The life cycles of manager and executor stay in step.                   *)
(***************************************************************************)
Agreement ==
    /\ state = "COMPLETED" <=> ex.active /\ ex.processor_idle
    /\ ex.active => state \in {"RUNNING", "COMPLETED"} /\ workload_id # 0
    /\ ex.active => ex.clock_mode = "STEPPED"
    /\ ex.processor_idle => ex.active

LEMMA AgreementStep ==
    ASSUME TypeOK, TypeOK', Agreement, StepKinds
    PROVE  Agreement'
<1> USE DEF Agreement
<1>1. ASSUME NEW tid, NEW m, Begin(tid, m) PROVE Agreement'
  BY <1>1, Zenon DEF Begin, BeginAllowed, ClearDiagnostics, TypeOK, Executors
<1>2. ASSUME NEW tid, NEW offset, NEW chunk, Data(tid, offset, chunk)
      PROVE  Agreement'
  BY <1>2, Zenon DEF Data
<1>3. ASSUME NEW tid, NEW crc, Commit(tid, crc) PROVE Agreement'
  BY <1>3, Zenon DEF Commit, StageExecutor, ClearDiagnostics, TypeOK, Executors
<1>4. ASSUME NEW e \in Executors, NEW h \in Hardware, StartFrom(e, h)
      PROVE  Agreement'
  BY <1>4, GeneralEffects, CalculatorEffects, Zenon
     DEF StartFrom, FailedEffect, RunningEffect, Inactive, controlUnchanged
<1>5. ASSUME NEW id, Stop(id) PROVE Agreement'
  BY <1>5, StopFields, Zenon DEF Stop, TypeOK, Inactive
<1>6. ASSUME NEW t, SetTimeout(t) PROVE Agreement'
  BY <1>6, Zenon DEF SetTimeout, mgrVars, TypeOK, Executors
<1>7. ASSUME NEW i, NEW chunk, HostWrite(i, chunk) \/ ProcessorWrite(i, chunk)
      PROVE  Agreement'
  BY <1>7, Zenon DEF HostWrite, ProcessorWrite, mgrVars, serviceUnchanged
<1>8. CASE ControlAckLost \/ UNCHANGED vars
  BY <1>8, Zenon DEF ControlAckLost, mgrVars, vars
<1>9. CASE Reboot
  BY <1>9, Zenon DEF Reboot, IdleExecutor
<1>10. CASE Ended
  BY <1>10, Zenon DEF Ended, Inactive
<1>11. CASE TerminalHalt
  BY <1>11, Zenon DEF TerminalHalt, Serviced, IdleAccepted, serviceUnchanged, TypeOK,
     Executors
<1> QED
  BY <1>1, <1>2, <1>3, <1>4, <1>5, <1>6, <1>7, <1>8, <1>9, <1>10, <1>11, Zenon
     DEF StepKinds

(***************************************************************************)
(* A processor out of RESET keeps exactly one bus owner, and what runs     *)
(* without the executor stays recognisable as the calculator.              *)
(***************************************************************************)
LEMMA OwnerStep ==
    ASSUME TypeOK, TypeOK', Agreement, Agreement', SingleBusOwner, StepKinds
    PROVE  SingleBusOwner'
<1> USE DEF SingleBusOwner, ExecutorOwns, PreparedOwns
<1>1. ASSUME NEW tid, NEW m, Begin(tid, m) PROVE SingleBusOwner'
  BY <1>1, Zenon DEF Begin, ClearDiagnostics, TypeOK, Executors
<1>2. ASSUME NEW tid, NEW offset, NEW chunk, Data(tid, offset, chunk)
      PROVE  SingleBusOwner'
  BY <1>2, Zenon DEF Data
<1>3. ASSUME NEW tid, NEW crc, Commit(tid, crc) PROVE SingleBusOwner'
  BY <1>3, Zenon DEF Commit, StageExecutor, ClearDiagnostics, TypeOK, Executors
<1>4. ASSUME NEW e \in Executors, NEW h \in Hardware, StartFrom(e, h)
      PROVE  SingleBusOwner'
  <2>1. UNCHANGED <<manifest, memory, timeout>>
    BY <1>4, Zenon DEF StartFrom, controlUnchanged
  <2>2. CASE FailedEffect(h)
    BY <1>4, <2>2, Zenon DEF FailedEffect, StartFrom, Inactive
  <2>3. CASE CalculatorValid /\ state' = "RUNNING" /\ hw' = ResidentRuntime
    <3>1. CalculatorValid'
      BY <2>1, <2>3, Zenon DEF CalculatorValid
    <3>2. ~timeout'
      BY <1>4, <2>1, <2>3, Zenon DEF StartFrom, Unsupervisable
    <3>3. ~ex'.active
      BY <1>4, <2>3, CalculatorEffects, Zenon DEF StartFrom, Inactive
    <3> QED
      BY <2>3, <3>1, <3>2, <3>3, Zenon DEF ResidentRuntime
  <2>4. CASE RunningEffect
    BY <2>4, Zenon DEF RunningEffect
  <2> QED
    BY <1>4, <2>2, <2>3, <2>4, GeneralEffects, CalculatorEffects, Zenon DEF StartFrom
<1>5. ASSUME NEW id, Stop(id) PROVE SingleBusOwner'
  <2>1. hw'.reset
    BY <1>5, Zenon DEF Stop, Agreement, Park, SafeHalt, TypeOK, Hardware
  <2>2. ~ex'.active /\ state' = "STOPPED"
    BY <1>5, StopFields, Zenon DEF Stop, Inactive, TypeOK
  <2> QED
    BY <2>1, <2>2, Zenon
<1>6. ASSUME NEW t, SetTimeout(t) PROVE SingleBusOwner'
  <2>1. ex'.active = ex.active /\ UNCHANGED <<state, manifest, memory, hw>>
    BY <1>6, Zenon DEF SetTimeout, mgrVars, TypeOK, Executors
  <2>2. CalculatorValid' = CalculatorValid
    BY <2>1, Zenon DEF CalculatorValid
  <2>3. state = "RUNNING" /\ ~ex.active => ~timeout'
    BY <1>6, Zenon DEF SetTimeout
  <2> QED
    BY <2>1, <2>2, <2>3, Zenon
<1>7. ASSUME NEW i, NEW chunk, HostWrite(i, chunk) \/ ProcessorWrite(i, chunk)
      PROVE  SingleBusOwner'
  <2>1. UNCHANGED <<state, ex, hw, timeout>> /\ ~(state = "RUNNING" /\ ~ex.active)
    BY <1>7, Zenon DEF HostWrite, WriteWindow, ProcessorWrite, Serviced, mgrVars,
       serviceUnchanged
  <2> QED
    BY <2>1, Zenon
<1>8. CASE ControlAckLost
  <2>1. UNCHANGED <<state, ex, timeout, manifest, memory>>
    BY <1>8, Zenon DEF ControlAckLost, mgrVars
  <2>2. hw'.reset /\ hw'.available = hw.available
    BY <1>8, Zenon DEF ControlAckLost, Park, SafeHalt, TypeOK, Hardware
  <2>3. CalculatorValid' = CalculatorValid
    BY <2>1, Zenon DEF CalculatorValid
  <2> QED
    BY <2>1, <2>2, <2>3, Zenon
<1>9. CASE Reboot
  BY <1>9, Zenon DEF Reboot, IdleExecutor, ResidentRuntime
<1>10. CASE Ended
  BY <1>10, Zenon DEF Ended, Inactive
<1>11. CASE TerminalHalt
  BY <1>11, Zenon DEF TerminalHalt, Serviced, IdleAccepted, TypeOK, Executors
<1>12. CASE UNCHANGED vars
  BY <1>12, Zenon DEF vars, CalculatorValid
<1> QED
  BY <1>1, <1>2, <1>3, <1>4, <1>5, <1>6, <1>7, <1>8, <1>9, <1>10, <1>11, <1>12, Zenon
     DEF StepKinds

(***************************************************************************)
(* A processor reported STOPPED or TIMED_OUT stays quiet.                  *)
(***************************************************************************)
LEMMA QuietStep ==
    ASSUME TypeOK, Agreement, SingleBusOwner, StoppedIsQuiet, StepKinds
    PROVE  StoppedIsQuiet'
<1> USE DEF StoppedIsQuiet
<1>1. ASSUME NEW id, Stop(id) PROVE StoppedIsQuiet'
  <2>1. ex.active \/ CalculatorValid
    BY <1>1, Zenon DEF Stop, Agreement, SingleBusOwner
  <2> QED
    BY <1>1, <2>1, Zenon DEF Stop, Park, SafeHalt, TypeOK, Hardware
<1>2. ASSUME NEW e \in Executors, NEW h \in Hardware, StartFrom(e, h)
      PROVE  StoppedIsQuiet'
  BY <1>2, GeneralEffects, CalculatorEffects, Zenon DEF StartFrom, FailedEffect,
     RunningEffect
<1>3. CASE ControlAckLost
  BY <1>3, Zenon DEF ControlAckLost, Park, SafeHalt, TypeOK, Hardware
<1>4. CASE Ended
  BY <1>4, Zenon DEF Ended
<1>5. ASSUME NEW tid, NEW m, Begin(tid, m) PROVE StoppedIsQuiet'
  BY <1>5, Zenon DEF Begin
<1>6. ASSUME NEW tid, NEW offset, NEW chunk, Data(tid, offset, chunk)
      PROVE  StoppedIsQuiet'
  BY <1>6, Zenon DEF Data
<1>7. ASSUME NEW tid, NEW crc, Commit(tid, crc) PROVE StoppedIsQuiet'
  BY <1>7, Zenon DEF Commit
<1>8. ASSUME NEW t, SetTimeout(t) PROVE StoppedIsQuiet'
  BY <1>8, Zenon DEF SetTimeout, mgrVars
<1>9. ASSUME NEW i, NEW chunk, HostWrite(i, chunk) \/ ProcessorWrite(i, chunk)
      PROVE  StoppedIsQuiet'
  BY <1>9, Zenon DEF HostWrite, ProcessorWrite, mgrVars
<1>10. CASE Reboot \/ TerminalHalt \/ UNCHANGED vars
  BY <1>10, Zenon DEF Reboot, TerminalHalt, vars
<1> QED
  BY <1>1, <1>2, <1>3, <1>4, <1>5, <1>6, <1>7, <1>8, <1>9, <1>10, Zenon DEF StepKinds

(***************************************************************************)
(* Deadline and completion reason stay those of the present attempt.       *)
(***************************************************************************)
LEMMA SupersededStep ==
    ASSUME TypeOK, Agreement, SupersededRuns, StepKinds
    PROVE  SupersededRuns'
<1> USE DEF SupersededRuns
<1>1. ASSUME NEW e \in Executors, NEW h \in Hardware, StartFrom(e, h)
      PROVE  SupersededRuns'
  BY <1>1, GeneralEffects, CalculatorEffects, Zenon DEF StartFrom, FailedEffect,
     RunningEffect
<1>2. ASSUME NEW t, SetTimeout(t) PROVE SupersededRuns'
  BY <1>2, Zenon DEF SetTimeout, mgrVars, TypeOK, Executors
<1>3. ASSUME NEW tid, NEW m, Begin(tid, m) PROVE SupersededRuns'
  BY <1>3, Zenon DEF Begin
<1>4. ASSUME NEW tid, NEW offset, NEW chunk, Data(tid, offset, chunk)
      PROVE  SupersededRuns'
  BY <1>4, Zenon DEF Data
<1>5. ASSUME NEW tid, NEW crc, Commit(tid, crc) PROVE SupersededRuns'
  BY <1>5, Zenon DEF Commit
<1>6. ASSUME NEW id, Stop(id) PROVE SupersededRuns'
  BY <1>6, Zenon DEF Stop
<1>7. ASSUME NEW i, NEW chunk, HostWrite(i, chunk) \/ ProcessorWrite(i, chunk)
      PROVE  SupersededRuns'
  BY <1>7, Zenon DEF HostWrite, ProcessorWrite, mgrVars, serviceUnchanged
<1>8. CASE ControlAckLost \/ Reboot \/ Ended \/ TerminalHalt \/ UNCHANGED vars
  BY <1>8, Zenon DEF ControlAckLost, Reboot, Ended, TerminalHalt, mgrVars, vars
<1> QED
  BY <1>1, <1>2, <1>3, <1>4, <1>5, <1>6, <1>7, <1>8, Zenon DEF StepKinds

LEMMA AttemptStep ==
    ASSUME TypeOK, TypeOK', Agreement, Agreement', SupersededRuns,
           AttemptIsCurrent, StepKinds
    PROVE  AttemptIsCurrent'
<1> USE DEF Agreement, AttemptIsCurrent
<1>1. ASSUME NEW tid, NEW m, Begin(tid, m) PROVE AttemptIsCurrent'
  BY <1>1, Zenon DEF Begin, BeginAllowed, ClearDiagnostics, TypeOK, Executors
<1>2. ASSUME NEW tid, NEW offset, NEW chunk, Data(tid, offset, chunk)
      PROVE  AttemptIsCurrent'
  BY <1>2, Zenon DEF Data
<1>3. ASSUME NEW tid, NEW crc, Commit(tid, crc) PROVE AttemptIsCurrent'
  BY <1>3, Zenon DEF Commit, StageExecutor, ClearDiagnostics, TypeOK, Executors
<1>4. ASSUME NEW e \in Executors, NEW h \in Hardware, StartFrom(e, h)
      PROVE  AttemptIsCurrent'
  <2>1. timeout' = timeout
    BY <1>4, Zenon DEF StartFrom, controlUnchanged
  <2>2. CASE Inactive(ex') /\ state' \in {"FAULTED", "RUNNING"}
    BY <2>2, Zenon DEF Inactive
  <2>3. CASE RunningEffect
    BY <2>1, <2>3, Zenon DEF RunningEffect
  <2> QED
    BY <1>4, <2>2, <2>3, GeneralEffects, CalculatorEffects, Zenon DEF StartFrom,
       FailedEffect
<1>5. ASSUME NEW id, Stop(id) PROVE AttemptIsCurrent'
  <2>1. state' = "STOPPED" /\ superseded' = superseded
    BY <1>5, Zenon DEF Stop
  <2>2. CASE ex.active
    <3>1. Inactive(ex') /\ ex'.reason \in {"STOP_REQUESTED", "NATIVE_HLT"}
      BY <1>5, <2>2, StopFields, Zenon DEF Stop, TypeOK
    <3> QED
      BY <2>1, <3>1, Zenon DEF Inactive
  <2>3. CASE ~ex.active
    BY <1>5, <2>1, <2>3 DEF Stop, SupersededRuns, controlUnchanged
  <2> QED
    BY <2>2, <2>3, Zenon
<1>6. ASSUME NEW t \in BOOLEAN, SetTimeout(t) PROVE AttemptIsCurrent'
  <2>1. UNCHANGED <<state, workload_id, superseded>> /\ timeout' = t
    BY <1>6, Zenon DEF SetTimeout, mgrVars
  <2>2. /\ ex'.active = ex.active /\ ex'.processor_idle = ex.processor_idle
        /\ ex'.reason = ex.reason /\ ex'.diag_workload = ex.diag_workload
        /\ ex'.deadline = Armed(t)
    BY <1>6, Zenon DEF SetTimeout, TypeOK, Executors
  <2> QED
    BY <2>1, <2>2, Zenon DEF Armed, DiagnosticsAvailable
<1>7. ASSUME NEW i, NEW chunk, HostWrite(i, chunk) \/ ProcessorWrite(i, chunk)
      PROVE  AttemptIsCurrent'
  BY <1>7 DEF HostWrite, ProcessorWrite, mgrVars, serviceUnchanged,
     DiagnosticsAvailable
<1>8. CASE ControlAckLost \/ UNCHANGED vars
  BY <1>8 DEF ControlAckLost, mgrVars, vars, DiagnosticsAvailable
<1>9. CASE Reboot
  BY <1>9, Zenon DEF Reboot, IdleExecutor
<1>10. CASE Ended
  BY <1>10, Zenon DEF Ended, Inactive
<1>11. CASE TerminalHalt
  BY <1>11, Zenon DEF TerminalHalt, Serviced, IdleAccepted, serviceUnchanged, TypeOK,
     Executors
<1> QED
  BY <1>1, <1>2, <1>3, <1>4, <1>5, <1>6, <1>7, <1>8, <1>9, <1>10, <1>11, Zenon
     DEF StepKinds

(***************************************************************************)
(* A snapshot is of an attempt made since the last BEGIN.                  *)
(***************************************************************************)
LEMMA DiagnosesStep ==
    ASSUME TypeOK, DiagnosesAttempt, StepKinds
    PROVE  DiagnosesAttempt'
<1> USE DEF DiagnosesAttempt
<1>1. ASSUME NEW tid, NEW m, Begin(tid, m) PROVE DiagnosesAttempt'
  BY <1>1, Zenon DEF Begin, ClearDiagnostics, TypeOK, Executors
<1>2. ASSUME NEW tid, NEW offset, NEW chunk, Data(tid, offset, chunk)
      PROVE  DiagnosesAttempt'
  BY <1>2, Zenon DEF Data
<1>3. ASSUME NEW tid, NEW crc, Commit(tid, crc) PROVE DiagnosesAttempt'
  BY <1>3, Zenon DEF Commit, StageExecutor, ClearDiagnostics, TypeOK, Executors
<1>4. ASSUME NEW e \in Executors, NEW h \in Hardware, StartFrom(e, h)
      PROVE  DiagnosesAttempt'
  BY <1>4, GeneralEffects, CalculatorEffects, Zenon DEF StartFrom
<1>5. ASSUME NEW id, Stop(id) PROVE DiagnosesAttempt'
  BY <1>5, StopFields, Zenon DEF Stop, TypeOK
<1>6. ASSUME NEW t, SetTimeout(t) PROVE DiagnosesAttempt'
  BY <1>6, Zenon DEF SetTimeout, TypeOK, Executors
<1>7. ASSUME NEW i, NEW chunk, HostWrite(i, chunk) \/ ProcessorWrite(i, chunk)
      PROVE  DiagnosesAttempt'
  BY <1>7, Zenon DEF HostWrite, ProcessorWrite, serviceUnchanged
<1>8. CASE ControlAckLost \/ UNCHANGED vars
  BY <1>8, Zenon DEF ControlAckLost, vars
<1>9. CASE Reboot
  BY <1>9, Zenon DEF Reboot, IdleExecutor
<1>10. CASE Ended
  BY <1>10 DEF Ended, serviceUnchanged
<1>11. CASE TerminalHalt
  BY <1>11, Zenon DEF TerminalHalt, IdleAccepted, serviceUnchanged, TypeOK, Executors
<1> QED
  BY <1>1, <1>2, <1>3, <1>4, <1>5, <1>6, <1>7, <1>8, <1>9, <1>10, <1>11, Zenon
     DEF StepKinds

(***************************************************************************)
(* The chunks taken so far are in memory, in order, and a matching COMMIT  *)
(* finds all of them there.                                                *)
(***************************************************************************)
LEMMA UploadStep ==
    ASSUME TypeOK, TypeOK', Agreement, PrefixStored, StagedImageComplete, StepKinds
    PROVE  PrefixStored' /\ StagedImageComplete'
<1> USE DEF PrefixStored, StagedImageComplete
<1>1. ASSUME NEW tid, NEW m, Begin(tid, m)
      PROVE  PrefixStored' /\ StagedImageComplete'
  BY <1>1 DEF Begin
<1>2. ASSUME NEW tid, NEW offset \in 0 .. (RegionSize - 1), NEW chunk \in Chunk,
             Data(tid, offset, chunk)
      PROVE  PrefixStored' /\ StagedImageComplete'
  <2>1. /\ state = "RECEIVING" /\ state' = state /\ patched' = patched
        /\ offset = Len(received)
        /\ memory' = [memory EXCEPT ![offset + 1] = chunk]
        /\ received' = Append(received, chunk)
    BY <1>2, Zenon DEF Data, InOrder
  <2>2. /\ received \in Seq(Chunk) /\ memory \in [1 .. RegionSize -> Chunk]
        /\ RegionSize \in Nat
    BY RuntimeConstants, Zenon DEF TypeOK
  <2>3. ASSUME ~patched, NEW i \in 1 .. Len(received')
        PROVE  memory'[i] = received'[i]
    <3>1. Len(received') = Len(received) + 1 /\ Len(received) \in Nat
      BY <2>1, <2>2
    <3>2. CASE i = Len(received) + 1
      BY <2>1, <2>2, <3>1, <3>2
    <3>3. CASE i \in 1 .. Len(received)
      <4>1. memory[i] = received[i] /\ i # offset + 1
        BY <2>1, <2>3, <3>1, <3>3
      <4>2. received'[i] = received[i]
        BY <2>1, <2>2, <3>3
      <4>3. memory'[i] = memory[i]
        BY <2>1, <2>2, <3>3, <4>1
      <4> QED
        BY <4>1, <4>2, <4>3, Zenon
    <3> QED
      BY <3>1, <3>2, <3>3
  <2> QED
    BY <2>1, <2>3, Zenon
<1>3. ASSUME NEW tid, NEW crc, Commit(tid, crc)
      PROVE  PrefixStored' /\ StagedImageComplete'
  <2>1. state = "RECEIVING" /\ UNCHANGED <<manifest, memory, patched>>
    BY <1>3, Zenon DEF Commit
  <2>2. \/ state' = "FAULTED"
        \/ /\ state' = "STAGED"
           /\ Len(received) = manifest.size /\ received = manifest.crc
    BY <1>3, Zenon DEF Commit, CommitMatches
  <2> QED
    BY <2>1, <2>2, Zenon
<1>4. ASSUME NEW e \in Executors, NEW h \in Hardware, StartFrom(e, h)
      PROVE  PrefixStored' /\ StagedImageComplete'
  BY <1>4, GeneralEffects, CalculatorEffects, Zenon DEF StartFrom, FailedEffect,
     RunningEffect
<1>5. ASSUME NEW id, Stop(id) PROVE PrefixStored' /\ StagedImageComplete'
  BY <1>5, Zenon DEF Stop
<1>6. ASSUME NEW t, SetTimeout(t) PROVE PrefixStored' /\ StagedImageComplete'
  BY <1>6, Zenon DEF SetTimeout, mgrVars
<1>7. ASSUME NEW i, NEW chunk, HostWrite(i, chunk) \/ ProcessorWrite(i, chunk)
      PROVE  PrefixStored' /\ StagedImageComplete'
  BY <1>7, Zenon DEF HostWrite, ProcessorWrite, Serviced, Agreement
<1>8. CASE ControlAckLost \/ UNCHANGED vars
  BY <1>8, Zenon DEF ControlAckLost, mgrVars, vars
<1>9. CASE Reboot \/ Ended \/ TerminalHalt
  BY <1>9, Zenon DEF Reboot, Ended, TerminalHalt
<1> QED
  BY <1>1, <1>2, <1>3, <1>4, <1>5, <1>6, <1>7, <1>8, <1>9, Zenon DEF StepKinds

-----------------------------------------------------------------------------
LEMMA IInvInit == Init => IInv
<1> SUFFICES ASSUME Init PROVE IInv
  OBVIOUS
<1>1. LifecycleAgreement
  BY TypeInit, Zenon DEF Init, LifecycleAgreement, IdleExecutor
<1>2. SingleBusOwner /\ StoppedIsQuiet
  BY Zenon DEF Init, SingleBusOwner, PreparedOwns, StoppedIsQuiet, IdleExecutor,
     ResidentRuntime
<1>3. AttemptIsCurrent /\ SupersededRuns /\ DiagnosesAttempt
  BY Zenon DEF Init, AttemptIsCurrent, SupersededRuns, DiagnosesAttempt, IdleExecutor
<1>4. StagedImageComplete /\ PrefixStored
  BY Zenon DEF Init, StagedImageComplete, PrefixStored
<1> QED
  BY <1>1, <1>2, <1>3, <1>4, Zenon DEF IInv

LEMMA IInvStep == IInv /\ [Next]_vars => IInv'
<1> SUFFICES ASSUME IInv, [Next]_vars PROVE IInv'
  OBVIOUS
<1>1. TypeOK /\ Agreement /\ TypeOK' /\ StepKinds
  BY TypeStep, Steps, Zenon DEF IInv, LifecycleAgreement, Agreement
<1>2. Agreement'
  BY <1>1, AgreementStep, Zenon
<1>3. SingleBusOwner' /\ StoppedIsQuiet'
  BY <1>1, <1>2, OwnerStep, QuietStep, Zenon DEF IInv
<1>4. AttemptIsCurrent' /\ SupersededRuns'
  BY <1>1, <1>2, AttemptStep, SupersededStep, Zenon DEF IInv
<1>5. DiagnosesAttempt' /\ StagedImageComplete' /\ PrefixStored'
  BY <1>1, DiagnosesStep, UploadStep, Zenon DEF IInv
<1>6. LifecycleAgreement'
  BY <1>1, <1>2, Zenon DEF LifecycleAgreement, Agreement
<1> QED
  BY <1>3, <1>4, <1>5, <1>6, Zenon DEF IInv

LEMMA Invariant == Spec => []IInv
BY IInvInit, IInvStep, PTL DEF Spec

(***************************************************************************)
(* Manager and executor agree on the life cycle, whatever records arrive   *)
(* in whatever order: only an attempt that executes or has halted is       *)
(* active, and rp86_workload_complete never refuses a terminal HLT.        *)
(***************************************************************************)
THEOREM LifecyclesAgree == Spec => []LifecycleAgreement
<1>1. IInv => LifecycleAgreement
  BY Zenon DEF IInv
<1> QED
  BY <1>1, Invariant, PTL

(***************************************************************************)
(* A processor out of RESET has exactly one bus owner, and a workload that *)
(* runs without the executor is the calculator with no limit configured.   *)
(***************************************************************************)
THEOREM OneOwner == Spec => []SingleBusOwner
<1>1. IInv => SingleBusOwner
  BY Zenon DEF IInv
<1> QED
  BY <1>1, Invariant, PTL

(***************************************************************************)
(* STOPPED and TIMED_OUT are reported only of a processor in RESET with a  *)
(* stopped clock and a released bus.                                       *)
(***************************************************************************)
THEOREM QuietWhenStopped == Spec => []StoppedIsQuiet
<1>1. IInv => StoppedIsQuiet
  BY Zenon DEF IInv
<1> QED
  BY <1>1, Invariant, PTL

(***************************************************************************)
(* A staged workload is in memory, chunk by chunk, as its manifest says.   *)
(***************************************************************************)
THEOREM StagedIsComplete == Spec => []StagedImageComplete
<1>1. IInv => StagedImageComplete
  BY Zenon DEF IInv
<1> QED
  BY <1>1, Invariant, PTL

(***************************************************************************)
(* Diagnostics are never of an upload that a later BEGIN has replaced,     *)
(* although the ids they are compared by come round.                       *)
(***************************************************************************)
THEOREM DiagnosticsAreFresh == Spec => []DiagnosticsOfThisUpload
<1>1. IInv => DiagnosticsOfThisUpload
  BY Zenon DEF IInv, DiagnosesAttempt, DiagnosticsOfThisUpload, DiagnosticsAvailable
<1> QED
  BY <1>1, Invariant, PTL

(***************************************************************************)
(* Deadline and completion reason are always those of the present attempt. *)
(***************************************************************************)
THEOREM AttemptStaysCurrent == Spec => []AttemptIsCurrent
<1>1. IInv => AttemptIsCurrent
  BY Zenon DEF IInv
<1> QED
  BY <1>1, Invariant, PTL
=============================================================================
