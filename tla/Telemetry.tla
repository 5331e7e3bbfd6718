------------------------------ MODULE Telemetry ------------------------------
(***************************************************************************)
(* How the Host reads the counters of a running FreeRTOS workload: the     *)
(* tasks of freertos_system/main.c publish under an odd/even sequence in   *)
(* processor memory, read_stable_telemetry reads the sequence, the record  *)
(* and the sequence again through the memory service, and freertos_status  *)
(* compares the first and the last sample.  Another client may restart the *)
(* workload meanwhile: its startup code clears the record, also word by    *)
(* word, and the counters begin again.                                     *)
(*                                                                         *)
(* The record is read word by word, with the processor running between any *)
(* two words: the reader does not depend on how much the memory service    *)
(* copies while it holds the clock.                                        *)
(*                                                                         *)
(* Definitions named X_Y are X with the fault Y planted in it; no module   *)
(* uses them.                                                              *)
(***************************************************************************)
EXTENDS Integers, Sequences

CONSTANTS
    Modulus,        \* of the sequence, 2^16 in the code; even
    MaxUpdates,     \* bound: updates the tasks publish
    MaxRestarts,    \* bound: restarts of the workload
    Samples,        \* how many samples the tool takes
    Attempts        \* attempts per sample, 5 in the code

ASSUME TelemetryAssumption ==
    /\ Modulus \in Nat /\ Modulus % 2 = 0 /\ Modulus > 2
    /\ MaxUpdates \in Nat
    /\ MaxRestarts \in Nat
    /\ Samples \in Nat \ {0}
    /\ Attempts \in Nat \ {0}

(* The words of gRp86Telemetry in the order of their addresses.            *)
Words == <<"toggles", "sent", "received", "sequence", "errors">>
Counters == {"toggles", "sent", "received", "errors"}
Zeros == [toggles |-> 0, sent |-> 0, received |-> 0, sequence |-> 0, errors |-> 0]

VARIABLES
    telemetry,  \* gRp86Telemetry
    updating,   \* the counter the task in its critical section updates, or "none"
    updates,    \* history: updates begun
    published,  \* history: the record as the last completed update left it
    clear,      \* the next word that the startup code clears, 0 once it is done
    life,       \* history: 1 and one more for each restart
    step,       \* where the reader is: "before", "record", "after", "ended"
    word,       \* the next word of the record
    before,     \* the sequence it read first
    raw,        \* the words it has read
    attempt,    \* attempts left for this sample
    basis,      \* history: published, when the reader read "before"
    during,     \* history: the life in which the attempt runs, 0 if a restart met it
    since,      \* history: updates begun in the attempt
    samples,    \* the snapshots accepted
    bases,      \* history: the published records they are snapshots of
    lives,      \* history: the lives they were taken in, or 0
    verdict     \* the tool's exit: "none", "pass", "fail", "error"

writerVars == <<telemetry, updating, updates, published, clear, life>>
readerVars == <<step, word, before, raw, attempt, basis, samples, bases, lives, verdict>>
telemetryVars == <<writerVars, readerVars, since, during>>

TelemetryInit ==
    /\ telemetry = Zeros
    /\ updating = "none"
    /\ updates = 0
    /\ published = Zeros
    /\ clear = 0 /\ life = 1
    /\ step = "before" /\ word = 1
    /\ before = 0 /\ raw = Zeros /\ basis = Zeros
    /\ since = 0 /\ during = 0
    /\ attempt = Attempts
    /\ samples = <<>> /\ bases = <<>> /\ lives = <<>>
    /\ verdict = "none"

Advance(s) == (s + 1) % Modulus

(* The reader is between its first read of the sequence and its last.      *)
InAttempt == step \in {"record", "after"}

(* A task enters its critical section and makes the sequence odd, ...      *)
(* A boot or task stage changes no counter; an error is fatal, the last    *)
(* update of the workload.  Fewer than Modulus \div 2 updates fit in one   *)
(* attempt, which is three memory requests (32768 updates in the code);    *)
(* any number fits between two attempts and in the sleep between two       *)
(* samples.                                                                *)
BeginUpdate(counter) ==
    /\ updating = "none" /\ clear = 0
    /\ telemetry.errors = 0
    /\ updates < MaxUpdates
    /\ InAttempt => since + 1 < Modulus \div 2
    /\ updating' = IF counter = "stage" THEN "commit" ELSE counter
    /\ updates' = updates + 1
    /\ since' = IF InAttempt THEN since + 1 ELSE since
    /\ telemetry' = [telemetry EXCEPT !.sequence = Advance(@)]
    /\ UNCHANGED <<published, clear, life, readerVars, during>>

(* ... increments its counter, ...                                         *)
Increment ==
    /\ updating \in Counters
    /\ telemetry' = [telemetry EXCEPT ![updating] = @ + 1]
    /\ updating' = "commit"
    /\ UNCHANGED <<updates, published, clear, life, readerVars, since, during>>

(* ... and makes it even again.                                            *)
CommitEvent ==
    /\ updating = "commit"
    /\ telemetry' = [telemetry EXCEPT !.sequence = Advance(@)]
    /\ published' = telemetry'
    /\ updating' = "none"
    /\ UNCHANGED <<updates, clear, life, readerVars, since, during>>

(* Another client restarts the workload, wherever its tasks are: the       *)
(* startup code runs again in the same memory image, ...                   *)
Relaunch ==
    /\ life <= MaxRestarts
    /\ life' = life + 1
    /\ updating' = "none"
    /\ clear' = 1
    /\ during' = 0
    /\ UNCHANGED <<telemetry, updates, published, readerVars, since>>

(* ... and clears the record, in the order of the addresses.               *)
ClearWord ==
    /\ clear # 0
    /\ telemetry' = [telemetry EXCEPT ![Words[clear]] = 0]
    /\ IF clear = Len(Words)
       THEN clear' = 0 /\ published' = Zeros
       ELSE clear' = clear + 1 /\ UNCHANGED published
    /\ UNCHANGED <<updating, updates, life, readerVars, since, during>>

(***************************************************************************)
(* The reader.                                                             *)
(***************************************************************************)
StableSequence(s) == s % 2 = 0

(* The attempt failed: another one, or the tool ends with an error.        *)
NextAttempt ==
    IF attempt > 1
    THEN attempt' = attempt - 1 /\ step' = "before" /\ UNCHANGED verdict
    ELSE attempt' = 0 /\ step' = "ended" /\ verdict' = "error"

ReadBefore ==
    /\ step = "before"
    /\ IF StableSequence(telemetry.sequence)
       THEN /\ step' = "record"
            /\ before' = telemetry.sequence
            /\ basis' = published
            /\ during' = IF clear = 0 THEN life ELSE 0
            /\ UNCHANGED <<attempt, verdict>>
       ELSE NextAttempt /\ UNCHANGED <<before, basis, during>>
    /\ UNCHANGED <<writerVars, word, raw, since, samples, bases, lives>>

(* What the 16-bit words hold; the model counts without a limit.           *)
Stored(record) == [w \in DOMAIN record |-> record[w] % Modulus]

ReadWord ==
    /\ step = "record"
    /\ raw' = [raw EXCEPT ![Words[word]] = Stored(telemetry)[Words[word]]]
    /\ word' = word + 1
    /\ step' = IF word = Len(Words) THEN "after" ELSE "record"
    /\ UNCHANGED <<writerVars, before, attempt, basis, since, during, samples, bases, lives,
                   verdict>>

Accepts_RecordOnly(after) ==
    raw.sequence = before /\ StableSequence(raw.sequence)

Accepts(after) ==
    before = after /\ after = raw.sequence /\ StableSequence(raw.sequence)

(* sustained_progress over the first and the last sample.                  *)
SustainedProgress(first, last) ==
    /\ first.errors = 0 /\ last.errors = 0
    /\ \A c \in {"toggles", "sent", "received", "sequence"} :
          (last[c] - first[c]) % Modulus # 0

(* The locals of an attempt end with it.                                   *)
Forget ==
    /\ word' = 1 /\ before' = 0 /\ raw' = Zeros
    /\ basis' = Zeros /\ during' = 0 /\ since' = 0

ReadAfter ==
    /\ step = "after"
    /\ IF Accepts(telemetry.sequence)
       THEN /\ samples' = Append(samples, raw)
            /\ bases' = Append(bases, basis)
            /\ lives' = Append(lives, during)
            /\ attempt' = Attempts
            /\ IF Len(samples) + 1 < Samples
               THEN step' = "before" /\ UNCHANGED verdict
               ELSE /\ step' = "ended"
                    /\ verdict' = IF SustainedProgress(samples'[1], raw)
                                  THEN "pass" ELSE "fail"
       ELSE NextAttempt /\ UNCHANGED <<samples, bases, lives>>
    /\ Forget
    /\ UNCHANGED writerVars

TelemetryNext ==
    \/ \E counter \in Counters \cup {"stage"} : BeginUpdate(counter)
    \/ Increment \/ CommitEvent
    \/ Relaunch \/ ClearWord
    \/ ReadBefore \/ ReadWord \/ ReadAfter
    \/ step = "ended" /\ UNCHANGED telemetryVars

TelemetrySpec == TelemetryInit /\ [][TelemetryNext]_telemetryVars

-----------------------------------------------------------------------------
(* "Read one coherent snapshot using the workload's odd/even sequence"     *)
(* (freertos_system.py:178): every accepted sample is the record as some   *)
(* completed update left it, the last one before the reader began.  The    *)
(* exception is an attempt that a restart met: the startup code clears the *)
(* counters while the sequence still has its last, even value.             *)
SamplesAreCoherent ==
    \A i \in DOMAIN samples : lives[i] # 0 => samples[i] = Stored(bases[i])

(* freertos_status --verify-progress says PASS only when every counter     *)
(* really moved between the first sample and the last one, although the    *)
(* words wrap, the samples are not taken at one instant and only the two   *)
(* ends are compared.  It compares two lives when the workload was         *)
(* restarted between the samples, and its PASS then says nothing.          *)
CountersMoved ==
    verdict = "pass" /\ lives[1] # 0 /\ lives[Len(lives)] = lives[1] =>
        \A c \in {"toggles", "sent", "received"} : bases[Len(bases)][c] > bases[1][c]

(* A sample of the counters is one published record, and freertos_status   *)
(* says PASS only when every counter moved, unless the workload was        *)
(* restarted meanwhile.                                                    *)
PassMeansProgress == SamplesAreCoherent /\ CountersMoved
=============================================================================
