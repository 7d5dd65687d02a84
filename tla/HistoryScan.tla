----------------------------- MODULE HistoryScan ---------------------------
(***************************************************************************)
(* The scan of a staged history (history_import.py), a row at a time: the  *)
(* reader of an export, which keeps one appliance's rows (HistoryCsvParser)*)
(* or of the recorder's (RecorderReadings); the finder that cuts the       *)
(* stream into blocks of activity (_BlockFinder); the gates; the replay of *)
(* each block through a detector of its own (ScanBuilder, ScanRunner).     *)
(* The code does it a slice per executor job; nothing runs in between, so  *)
(* a step here is one row.  Times and powers are small integers, and NoValue  *)
(* is the power of an `unavailable` row.                                   *)
(***************************************************************************)
EXTENDS Integers, Sequences, FiniteSets, SequencesExt

CONSTANTS
    RowsInFile,    \* the rows an export may hold: [entity, at, power], a set
    Readings,      \* the rows of the recorder: [gap, power], a set (a break, which only
                   \* an export has, among them: the finder is the same for both)
    MaxRead,       \* HISTORY_IMPORT_MAX_ROWS
    MaxRows,       \* bound: rows of an export
    MaxReadings,   \* bound: rows of the recorder
    Quiet, Active, \* stop and start thresholds
    Limit,         \* cut_threshold_s
    Bridge,        \* HISTORY_IMPORT_MAX_BRIDGE_S
    EdgeGap,       \* HISTORY_IMPORT_EDGE_GAP_S
    MinSamples, MaxStep, MaxSpan, \* gates of a block
    DenseStep      \* HISTORY_IMPORT_DENSIFY_STEP_S

NoValue == -1
Bad == -2          \* a power no number can be read from
Chosen == "wanted" \* the entity the entry is configured with
Unnamed == "none"

\* The thresholds are of powers no less than zero (_quiet_threshold, _active_threshold).
ASSUME ScanAssumption ==
    /\ {MaxRead, MaxRows, MaxReadings, Quiet, Active, Limit, Bridge} \subseteq Nat
    /\ Quiet <= Active
    /\ RowsInFile \subseteq [entity : STRING, at : Int, power : Int]
    /\ Readings \subseteq [gap : Nat, power : Int]

VARIABLES
    scanStage,     \* "csv", "recorder", "find", "replay", "over", "failed"
    file,      \* the rows of the export read so far
    kept,      \* the places in it of the rows kept
    may,       \* another entity may still be read in its place
    seen,      \* the entities of the rows read
    samples,   \* the samples, in order of time: [at, power]
    pos,       \* samples the finder has walked
    current,   \* the block being built: places in samples
    quietFor, idleFor, inBreak,
    blocks, skipped,    \* blocks with activity; the other stretches
    streams,   \* the usable blocks, densified
    fed, captured, truncated  \* the replay: readings fed of each; blocks that ended clean, or not

readVars == <<file, kept, may, seen>>
findVars == <<pos, current, quietFor, idleFor, inBreak, blocks, skipped>>
replayVars == <<streams, fed, captured, truncated>>
scanVars == <<scanStage, readVars, samples, findVars, replayVars>>

ScanInit ==
    /\ scanStage \in {"csv", "recorder"}
    /\ file = <<>> /\ kept = {} /\ may = TRUE /\ seen = {} /\ samples = <<>>
    /\ pos = 0 /\ current = <<>> /\ quietFor = 0 /\ idleFor = 0 /\ inBreak = FALSE
    /\ blocks = <<>> /\ skipped = <<>>
    /\ streams = <<>> /\ fed = <<>> /\ captured = {} /\ truncated = {}

-----------------------------------------------------------------------------
\* HistoryCsvParser.
MutForbids(e) == e # Unnamed /\ (seen # {} \/ e = Chosen)

\* A second entity, or the wanted one: no other is read in its place.
Forbids(e) == e # Unnamed /\ e \notin seen /\ (seen # {} \/ e = Chosen)

\* A row of the wanted entity, or an unnamed one.
Ours(i) == file[i].entity \in {Chosen, Unnamed}

ReadRow(row) ==
    /\ scanStage = "csv" /\ Len(file) < MaxRows
    /\ file' = Append(file, row)
    /\ IF Len(file) >= MaxRead THEN UNCHANGED <<kept, may, seen>>
       ELSE LET drops == may /\ Forbids(row.entity)
                other == row.entity \notin {Chosen, Unnamed}
                before == IF drops THEN {i \in kept : Ours(i)} ELSE kept
            IN /\ may' = (may /\ ~drops)
               /\ seen' = seen \union ({row.entity} \ {Unnamed})
               /\ kept' = IF (other /\ ~may') \/ row.power = Bad THEN before
                          ELSE before \union {Len(file) + 1}
    /\ UNCHANGED <<scanStage, samples, findVars, replayVars>>

\* The rows of one time are one sample, the first in the file; in order of time: the
\* n-th is the one that n of them are no later than.
Firsts(list, rows) == {i \in rows : \A k \in rows : k < i => list[k].at # list[i].at}
UpTo(list, rows, i) == {k \in Firsts(list, rows) : list[k].at <= list[i].at}
Nth(list, rows, n) == CHOOSE i \in Firsts(list, rows) : Cardinality(UpTo(list, rows, i)) = n
Ordered(list, rows) ==
    [n \in 1..Cardinality(Firsts(list, rows)) |->
        [at |-> list[Nth(list, rows, n)].at, power |-> list[Nth(list, rows, n)].power]]

\* result: the one other entity of the file stands in for the wanted one.
EndOfFile ==
    /\ scanStage = "csv" /\ file # <<>>
    /\ LET rows == IF seen # {} /\ Chosen \notin seen THEN kept ELSE {i \in kept : Ours(i)}
           several == Chosen \notin seen /\ \E d, e \in seen : d # e
       IN /\ samples' = IF several THEN <<>> ELSE Ordered(file, rows)
          /\ scanStage' = IF several \/ rows = {} THEN "failed" ELSE "find"
    /\ UNCHANGED <<readVars, findVars, replayVars>>

\* RecorderReadings.
ReadState(r) ==
    /\ scanStage = "recorder" /\ Len(samples) < MaxReadings
    /\ samples' = Append(samples, [at |-> r.gap + (IF samples = <<>> THEN 0 ELSE Last(samples).at),
                                   power |-> r.power])
    /\ UNCHANGED <<scanStage, readVars, findVars, replayVars>>

ReadingsDone ==
    /\ scanStage = "recorder" /\ samples # <<>> /\ scanStage' = "find"
    /\ UNCHANGED <<readVars, samples, findVars, replayVars>>

-----------------------------------------------------------------------------
\* _BlockFinder.
At(i) == samples[i].at
Power(i) == samples[i].power

Peaks(b) == \E i \in DOMAIN b : Power(b[i]) >= Active

\* _close.
Closed(bs, b) == IF Peaks(b) /\ Len(b) >= 2 THEN Append(bs, b) ELSE bs
Skips(ss, b) == IF b = <<>> \/ (Peaks(b) /\ Len(b) >= 2) THEN ss ELSE Append(ss, b)

Lesser(x, y) == IF x < y THEN x ELSE y

\* A hole in the stream too long to be bridged.
Torn(i) == inBreak /\ current # <<>> /\ At(i) - At(Last(current)) > Lesser(Limit, Bridge)

MutIdleAfter(i) == idleFor

\* How long nothing was active, or all was quiet, by the next sample.
IdleAfter(i) == idleFor + At(i) - At(Last(current))
QuietAfter(i) == IF Power(Last(current)) < Quiet THEN quietFor + At(i) - At(Last(current)) ELSE 0

FindBreak ==
    /\ scanStage = "find" /\ pos < Len(samples) /\ Power(pos + 1) = NoValue
    /\ pos' = pos + 1 /\ inBreak' = TRUE
    /\ UNCHANGED <<scanStage, readVars, samples, current, quietFor, idleFor, blocks, skipped, replayVars>>

FindReading ==
    LET i == pos + 1
        cuts == /\ current # <<>>
                /\ Torn(i) \/ QuietAfter(i) > Limit \/ IdleAfter(i) > Limit
        fresh == cuts \/ current = <<>>
    IN
    /\ scanStage = "find" /\ pos < Len(samples) /\ Power(i) # NoValue
    /\ pos' = i /\ inBreak' = FALSE
    /\ blocks' = IF cuts THEN Closed(blocks, current) ELSE blocks
    /\ skipped' = IF cuts THEN Skips(skipped, current) ELSE skipped
    /\ current' = IF fresh THEN <<i>> ELSE Append(current, i)
    /\ idleFor' = IF fresh \/ Power(i) >= Active THEN 0 ELSE IdleAfter(i)
    /\ quietFor' = IF fresh \/ Power(i) >= Quiet THEN 0 ELSE QuietAfter(i)
    /\ UNCHANGED <<scanStage, readVars, samples, replayVars>>

-----------------------------------------------------------------------------
\* trim_leading_debris: the first sample that stands within the gap of the next, or the
\* last but one.
Trimmed(b) ==
    LET near == {k \in 1..(Len(b) - 1) : k = Len(b) - 1 \/ At(b[k + 1]) - At(b[k]) <= EdgeGap}
    IN SubSeq(b, CHOOSE k \in near : \A m \in near : k <= m, Len(b))

\* Block.median_dt_s, twice, for an even number of gaps has two in the middle.
TwiceMedian(b) ==
    LET gaps == SortSeq(SelectSeq([k \in 1..(Len(b) - 1) |-> At(b[k + 1]) - At(b[k])],
                                  LAMBDA gap : gap > 0), <)
    IN IF gaps = <<>> THEN 0 ELSE gaps[(Len(gaps) + 1) \div 2] + gaps[Len(gaps) \div 2 + 1]

\* _classify_block: the gates for too few samples, sparse ones, and too long a block.
Usable(b) ==
    /\ Len(b) >= MinSamples
    /\ TwiceMedian(b) <= 2 * MaxStep
    /\ At(Last(b)) - At(b[1]) <= MaxSpan

\* densify_quiet_gaps: a quiet value is repeated through the gap after it.
Fills(b, k) ==
    LET gap == At(b[k + 1]) - At(b[k]) IN
    IF Power(b[k]) >= Quiet \/ 2 * gap <= 3 * DenseStep THEN <<>>
    ELSE [n \in 1..((gap - 1) \div DenseStep) |-> [at |-> At(b[k]) + n * DenseStep, power |-> Power(b[k])]]

Dense(b) ==
    FlattenSeq([k \in 1..Len(b) |->
        <<samples[b[k]]>> \o (IF k = Len(b) THEN <<>> ELSE Fills(b, k))])

\* ScanBuilder: the blocks through the gates; without one the scan has no result.
Build ==
    LET found == Closed(blocks, current)
        usable == SelectSeq([k \in DOMAIN found |-> Trimmed(found[k])], Usable)
    IN
    /\ scanStage = "find" /\ pos = Len(samples)
    /\ blocks' = found /\ skipped' = Skips(skipped, current) /\ current' = <<>>
    /\ streams' = [k \in DOMAIN usable |-> Dense(usable[k])]
    /\ fed' = [k \in DOMAIN usable |-> 0]
    /\ scanStage' = IF usable = <<>> THEN "failed" ELSE "replay"
    /\ UNCHANGED <<readVars, samples, pos, quietFor, idleFor, inBreak, captured, truncated>>

\* ScanRunner: the readings of a block, then the block is over.
Block(k) == scanStage = "replay" /\ k \notin captured \union truncated
            /\ \A m \in 1..(k - 1) : m \in captured \union truncated

Feed(k) ==
    /\ Block(k) /\ fed[k] < Len(streams[k])
    /\ fed' = [fed EXCEPT ![k] = @ + 1]
    /\ UNCHANGED <<scanStage, readVars, samples, findVars, streams, captured, truncated>>

\* flush_tail: the block ended cleanly, or its cycle is still running.
Flush(k, clean) ==
    /\ Block(k) /\ fed[k] = Len(streams[k])
    /\ captured' = IF clean THEN captured \union {k} ELSE captured
    /\ truncated' = IF clean THEN truncated ELSE truncated \union {k}
    /\ UNCHANGED <<scanStage, readVars, samples, findVars, streams, fed>>

\* finalize, at the end or when the scan was cancelled.
Finalize ==
    /\ scanStage = "replay" /\ scanStage' = "over"
    /\ UNCHANGED <<readVars, samples, findVars, replayVars>>

ScanNext ==
    \/ \E row \in RowsInFile : ReadRow(row)
    \/ \E r \in Readings : ReadState(r)
    \/ EndOfFile \/ ReadingsDone \/ FindBreak \/ FindReading \/ Build \/ Finalize
    \/ \E k \in DOMAIN streams : Feed(k) \/ \E clean \in BOOLEAN : Flush(k, clean)

ScanSpec == ScanInit /\ [][ScanNext]_scanVars

-----------------------------------------------------------------------------
RowsRead(list) == 1..Lesser(Len(list), MaxRead)
Named(list) == {list[i].entity : i \in RowsRead(list)} \ {Unnamed}
Whose(list) == IF Chosen \in Named(list) \/ Named(list) = {} THEN {Chosen} ELSE Named(list)
Good(list) == {i \in RowsRead(list) : /\ list[i].entity \in Whose(list) \union {Unnamed}
                                     /\ list[i].power # Bad}

(* What is read of an export is one appliance: the rows of the configured  *)
(* entity when the file names it, else of the only entity it names, in     *)
(* either case with the unnamed rows; none of a file of several others     *)
(* ("guessing which appliance to read would corrupt detection").  Rows are *)
(* dropped while reading, before it is known which case it is.             *)
OneAppliance ==
    scanStage \notin {"csv", "recorder"} /\ file # <<>> =>
        samples = IF \E d, e \in Whose(file) : d # e THEN <<>> ELSE Ordered(file, Good(file))

Measured == {i \in DOMAIN samples : Power(i) # NoValue}
Working == {i \in DOMAIN samples : Power(i) >= Active}
Pieces == ToSet(blocks) \union ToSet(skipped)
Together(i, k) == \E b \in Pieces : {i, k} \subseteq ToSet(b)

\* Two readings from i to k with a break between them that is too long to be bridged.
Hole(i, k) ==
    \E from, to \in Measured :
        /\ i <= from /\ from + 1 < to /\ to <= k
        /\ Measured \intersect ((from + 1)..(to - 1)) = {}
        /\ At(to) - At(from) > Lesser(Limit, Bridge)

\* The readings from one to another, in order, none left out.
Unbroken(b) ==
    /\ b # <<>> /\ \A m, n \in DOMAIN b : m < n => b[m] < b[n]
    /\ ToSet(b) = {i \in Measured : b[1] <= i /\ i <= Last(b)}

Successive(bs) == \A m, n \in DOMAIN bs : m < n => Last(bs[m]) < bs[n][1]

(* A run is not cut in two, and two runs are not taken for one: readings   *)
(* of a working appliance with none between them are in one block exactly  *)
(* when they lie within the cut threshold and no hole between them is too  *)
(* long to bridge.                                                         *)
RunsApart ==
    \A i, k \in Working :
        i < k /\ Working \intersect ((i + 1)..(k - 1)) = {} =>
            (Together(i, k) <=> At(k) - At(i) <= Limit /\ ~Hole(i, k))

(* Every reading is in one block or one skipped stretch.                   *)
AllAccounted ==
    /\ \A b \in Pieces : Unbroken(b)
    /\ Successive(blocks) /\ Successive(skipped)
    /\ \A b \in ToSet(blocks), c \in ToSet(skipped) : ToSet(b) \intersect ToSet(c) = {}
    /\ \A i \in Measured : \E b \in Pieces : i \in ToSet(b)

RunsWhole == pos > 0 /\ pos = Len(samples) /\ current = <<>> => RunsApart /\ AllAccounted

\* What the scan reads is the configured appliance's rows, and the blocks it finds in them,
\* before they are trimmed and gated, are that appliance's runs, each whole
\* (parse_history_csv, find_activity_blocks).
RunsOfOneAppliance == OneAppliance /\ RunsWhole
=============================================================================
