---------------------------- MODULE FaultStatistics ----------------------------
(***************************************************************************)
(* From the lines of a fault log to the numbers the user is shown.         *)
(*                                                                         *)
(* A log is normalised, cut and stored; pages of it are shown; a row that  *)
(* was shown is opened later by its number, when another log may have      *)
(* taken the place of the first.  The statistics of a row are computed     *)
(* when it is asked for, by binary search and a sliding window over rows   *)
(* sorted by time, of which several can share a time stamp.  One project;  *)
(* FaultStore models the store that holds the datasets of several.         *)
(***************************************************************************)
EXTENDS Integers, Sequences, FiniteSets

CONSTANTS
    Codes,           \* fault codes
    Times,           \* time stamps
    NaT,             \* a time stamp that does not parse
    Logs,            \* the logs that can be uploaded
    MaxRows, SampleLimit,
    Sizes,           \* page sizes
    HalfHour, Hour, Day, Near, BurstWindow,  \* lengths of the windows
    BurstThreshold,  \* rows that make a burst
    MinSample,       \* min_sample_threshold
    Frequent,        \* occurrences in the hour that make a confidence of MEDIUM
    Nothing,         \* no dataset, no row, None
    MaxUploads       \* bound on the uploads

\* A log has the required columns or not, and lines.
Line == [code : Codes, ts : Times \cup {NaT}]
ASSUME LogsAssumption ==
    \A log \in Logs : log.complete \in BOOLEAN /\ log.lines \in Seq(Line)
ASSUME TimesAssumption == Times \subseteq Nat /\ NaT \notin Times
ASSUME WindowsAssumption ==
    /\ {HalfHour, Hour, Day, Near, BurstWindow, BurstThreshold, SampleLimit} \subseteq Nat
    /\ MinSample \in Nat /\ Frequent \in Nat /\ Frequent =< MinSample
    /\ HalfHour =< Hour /\ Hour =< Day /\ HalfHour > 0 /\ Day % Hour = 0
    /\ BurstThreshold > 0 /\ MinSample > 0
    /\ Sizes \subseteq Nat \ {0}
ASSUME BoundAssumption == MaxUploads \in Nat

Row == [id : Nat, code : Codes, ts : Times]
Burst == [detected : BOOLEAN, count : Nat]
Score == [over : Nat, under : Nat]
ASSUME NothingAssumption ==
    /\ Nothing \notin Seq(Row) /\ Nothing \notin Row /\ Nothing \notin Codes
    /\ Nothing \notin Burst /\ Nothing \notin Score

VARIABLES
    dataset,   \* the rows of FaultDataset.dataframe
    burst,     \* burst_detected and burst_count of stats_cache
    shown,     \* a row on the page that the user has before him
    opened,    \* the row of the last detail or analysis
    replaced,  \* history: a log was stored or cleared since the row was shown
    uploads

vars == <<dataset, burst, shown, opened, replaced, uploads>>

----------------------------------------------------------------------------
(* normalize                                                                *)

InOrder(s) == \A i, j \in DOMAIN s : i < j => s[i].ts =< s[j].ts

\* Lines without a time stamp are dropped, the others sorted by it; lines of
\* one time stamp may come in any order.
Sorted(lines) ==
    LET kept == {i \in DOMAIN lines : lines[i].ts # NaT}
        Places == 1..Cardinality(kept)
        Order == {p \in [Places -> kept] : \A i, j \in Places : i # j => p[i] # p[j]}
    IN  {s \in {[i \in Places |-> lines[p[i]]] : p \in Order} : InOrder(s)}

\* The rows get their numbers after the sort.
Normalize(lines) ==
    {[i \in DOMAIN s |-> [id |-> i - 1, code |-> s[i].code, ts |-> s[i].ts]] : s \in Sorted(lines)}

\* The first SAMPLE_LIMIT rows.
Kept(rows) == SubSeq(rows, 1, IF Len(rows) > SampleLimit THEN SampleLimit ELSE Len(rows))

----------------------------------------------------------------------------
(* fault_statistics                                                         *)

\* bisect_left and bisect_right, searchsorted, of time stamps in order
Left(stamps, t) == Cardinality({i \in DOMAIN stamps : stamps[i] < t})
Right(stamps, t) == Cardinality({i \in DOMAIN stamps : stamps[i] =< t})

Stamps(rows) == [i \in DOMAIN rows |-> rows[i].ts]
\* The places a code has among the rows, with their time stamps.
TimestampsForCode(rows, code) ==
    [i \in {j \in DOMAIN rows : rows[j].code = code} |-> rows[i].ts]

\* Mutant: the row itself is counted.
OccurrencesWithSelf(stamps, ref, length) ==
    IF DOMAIN stamps = {} THEN 0 ELSE Right(stamps, ref) - Left(stamps, ref - length)

\* max(0, hi - lo - 1): the row itself is not counted.
OccurrencesInWindow(stamps, ref, length) ==
    LET n == Right(stamps, ref) - Left(stamps, ref - length) - 1
    IN  IF DOMAIN stamps = {} \/ n < 0 THEN 0 ELSE n

\* Mutant: the right end of the window is left out.
AroundOpen(rows, ref) ==
    (Left(Stamps(rows), ref - Near) + 1)..Left(Stamps(rows), ref + Near)

\* The places of the rows of the window.
Around(rows, ref) ==
    (Left(Stamps(rows), ref - Near) + 1)..Right(Stamps(rows), ref + Near)

\* The codes that can be returned, and how often they occur.  The code left out
\* is that of the first row with the time stamp, whichever row was meant.
Cooccurrence(rows, ref) ==
    LET refCode == IF ref \in {rows[i].ts : i \in DOMAIN rows}
                   THEN rows[Left(Stamps(rows), ref) + 1].code ELSE Nothing
        others == {i \in Around(rows, ref) : rows[i].code # refCode}
        Count(c) == Cardinality({i \in others : rows[i].code = c})
        top == {c \in {rows[i].code : i \in others} :
                    \A d \in Codes : Count(d) =< Count(c)}
    IN  IF others = {} THEN [codes |-> {Nothing}, count |-> 0]
        ELSE [codes |-> top, count |-> Count(CHOOSE c \in top : TRUE)]

\* Mutant: rows a whole window apart are not counted together.
AdvanceFar(stamps, left, right) ==
    CHOOSE i \in left..right :
        /\ stamps[right] - stamps[i] < BurstWindow
        /\ \A j \in left..(i - 1) : stamps[right] - stamps[j] >= BurstWindow

\* The while loop: the left end moves until the window is short enough.
Advance(stamps, left, right) ==
    CHOOSE i \in left..right :
        /\ stamps[right] - stamps[i] =< BurstWindow
        /\ \A j \in left..(i - 1) : stamps[right] - stamps[j] > BurstWindow

\* One turn of the for loop.
Turn(stamps, before, right) ==
    LET left == Advance(stamps, before.left, right)
        count == right - left + 1
    IN  [left |-> left, max |-> IF count > before.max THEN count ELSE before.max]

\* What the loop has found after each of its turns.
Sweep(stamps) ==
    LET sweep[right \in 0..Len(stamps)] ==
            IF right = 0 THEN [left |-> 1, max |-> 0]
            ELSE Turn(stamps, sweep[right - 1], right)
    IN  sweep

FaultBurst(rows) ==
    LET max == IF Len(rows) < BurstThreshold THEN 0 ELSE Sweep(Stamps(rows))[Len(rows)].max
    IN  [detected |-> max >= BurstThreshold /\ Len(rows) >= BurstThreshold, count |-> max]

Blocks == Day \div Hour

\* Averages are ratios over Blocks.  The anomaly score is hour * Blocks / day,
\* kept as the pair of both; None below the sample threshold.
RollingMetrics(stamps, ref) ==
    LET day == OccurrencesInWindow(stamps, ref, Day)
        hour == OccurrencesInWindow(stamps, ref, Hour)
    IN  [day |-> day, hour |-> hour, half |-> OccurrencesInWindow(stamps, ref, HalfHour),
         score |-> IF hour < MinSample THEN Nothing ELSE [over |-> hour * Blocks, under |-> day]]

\* Twice delta_last_30m is 2 * half - day / Blocks; epsilon is one half.
Trend(m) ==
    LET delta == 2 * Blocks * m.half - m.day
    IN  IF 2 * delta < Blocks /\ 0 - 2 * delta < Blocks THEN "STABLE"
        ELSE IF delta > 0 THEN "RISING" ELSE "DECLINING"

\* More occurrences in the burst than in the hour is logged and passes.
Integrity(isBurst, m) == m.score # Nothing /\ ~(isBurst /\ m.hour = 0)

\* Mutant: the burst is not looked at.
ConfidenceByScore(isBurst, m) ==
    IF ~Integrity(isBurst, m) THEN "LOW"
    ELSE IF m.score.over > 3 * m.score.under THEN "HIGH" ELSE "MEDIUM"

\* compute_confidence: a score above 3.0, above 1.5
Confidence(isBurst, m) ==
    IF ~Integrity(isBurst, m) THEN "LOW"
    ELSE IF isBurst /\ m.score.over > 3 * m.score.under THEN "HIGH"
    ELSE IF m.hour >= Frequent \/ 2 * m.score.over > 3 * m.score.under THEN "MEDIUM"
    ELSE "LOW"

\* What quick_stats and the analysis say of a row.
QuickStats(rows, isBurst, r) ==
    LET m == RollingMetrics(TimestampsForCode(rows, r.code), r.ts)
    IN  [metrics |-> m, trend |-> Trend(m), integrity |-> Integrity(isBurst, m),
         confidence |-> Confidence(isBurst, m)]

----------------------------------------------------------------------------
(* FaultService                                                             *)

\* Total and page numbers of get_page; the page is clamped.
TotalPages(rows, size) ==
    LET n == (Len(rows) + size - 1) \div size IN IF n < 1 THEN 1 ELSE n
Clamp(page, last) == IF page > last THEN last ELSE page
GetPage(rows, page, size) ==
    LET start == (Clamp(page, TotalPages(rows, size)) - 1) * size
        end == IF start + size < Len(rows) THEN start + size ELSE Len(rows)
    IN  SubSeq(rows, start + 1, end)

Init ==
    /\ dataset = Nothing /\ burst = Nothing
    /\ shown = Nothing /\ opened = Nothing
    /\ replaced = FALSE
    /\ uploads = 0

\* Mutant: the statistics are those of the rows before the cut.
UploadCutLate ==
    /\ uploads < MaxUploads /\ uploads' = uploads + 1
    /\ \E log \in Logs : \E rows \in Normalize(log.lines) :
        /\ log.complete
        /\ Len(rows) =< MaxRows
        /\ dataset' = Kept(rows)
        /\ burst' = FaultBurst(rows)
    /\ replaced' = (shown # Nothing)
    /\ opened' = Nothing
    /\ UNCHANGED shown

\* upload: a log that lacks a column or is too long changes nothing.
Upload ==
    /\ uploads < MaxUploads /\ uploads' = uploads + 1
    /\ \E log \in Logs : \E rows \in Normalize(log.lines) :
        /\ log.complete
        /\ Len(rows) =< MaxRows
        /\ dataset' = Kept(rows)
        /\ burst' = FaultBurst(Kept(rows))
    /\ replaced' = (shown # Nothing)
    /\ opened' = Nothing
    /\ UNCHANGED shown

Reset ==
    /\ dataset # Nothing
    /\ dataset' = Nothing /\ burst' = Nothing
    /\ replaced' = (shown # Nothing)
    /\ opened' = Nothing
    /\ UNCHANGED <<shown, uploads>>

\* get_page, and the user looks at one of its rows.
Show ==
    /\ dataset # Nothing
    /\ \E size \in Sizes : \E page \in 1..(Len(dataset) + 1) :
        \E i \in DOMAIN GetPage(dataset, page, size) :
            shown' = GetPage(dataset, page, size)[i]
    /\ replaced' = FALSE
    /\ opened' = Nothing
    /\ UNCHANGED <<dataset, burst, uploads>>

\* Mutant: the number is taken for a place in the dataset.
MatchesPlace(id) == IF id \in DOMAIN dataset THEN {dataset[id]} ELSE {}

\* The rows of a number.
Matches(id) == {dataset[i] : i \in {j \in DOMAIN dataset : dataset[j].id = id}}

\* get_detail, quick_stats or analyze_fault of the row that was shown; the
\* request has its number and nothing else of it.  404 when there is none.
Open ==
    /\ shown # Nothing /\ dataset # Nothing
    /\ opened' \in Matches(shown.id)
    /\ UNCHANGED <<dataset, burst, shown, replaced, uploads>>

Next == Upload \/ Reset \/ Show \/ Open

Spec == Init /\ [][Next]_vars

----------------------------------------------------------------------------
(* Properties                                                               *)

StatTypeOK ==
    /\ dataset = Nothing \/ dataset \in Seq(Row)
    /\ (dataset = Nothing) = (burst = Nothing)
    /\ burst # Nothing => burst.detected \in BOOLEAN /\ burst.count \in 0..Len(dataset)
    /\ shown \in Row \cup {Nothing} /\ opened \in Row \cup {Nothing}
    /\ replaced \in BOOLEAN
    /\ uploads \in 0..MaxUploads

Rows == IF dataset = Nothing THEN {} ELSE {dataset[i] : i \in DOMAIN dataset}

\* The count of a window is the number of other rows with the code of the row,
\* no later than it and no earlier than the window begins - those that share its
\* time stamp included, wherever the sort has put them.
CountsOthers ==
    \A r \in Rows, length \in {HalfHour, Hour, Day} :
        OccurrencesInWindow(TimestampsForCode(dataset, r.code), r.ts, length)
            = Cardinality({x \in Rows : /\ x.id # r.id /\ x.code = r.code
                                        /\ r.ts - length =< x.ts /\ x.ts =< r.ts})

\* The count kept with the dataset is that of its densest window: no interval of
\* the length holds more rows and one holds as many, if there are enough rows.
BurstIsDensest ==
    dataset # Nothing =>
        LET In(t) == Cardinality({r \in Rows : t =< r.ts /\ r.ts =< t + BurstWindow})
            enough == Len(dataset) >= BurstThreshold
        IN  /\ enough => /\ \A t \in Times : In(t) =< burst.count
                         /\ burst.count = 0 \/ \E t \in Times : In(t) = burst.count
            /\ ~enough => burst.count = 0
            /\ burst.detected <=> enough /\ \E t \in Times : In(t) >= BurstThreshold

\* For a row that is the first of its time stamp, the co-occurring fault is a
\* different one, the most frequent within the distance, and there is none only
\* if no other code occurs there.  (For another row of the time stamp it can be
\* the row's own code: the function is given the time and not the row.)
CooccursElsewhere ==
    \A r \in Rows :
        LET result == Cooccurrence(dataset, r.ts)
            In(c) == Cardinality({x \in Rows : /\ x.code = c
                                               /\ r.ts - Near =< x.ts /\ x.ts =< r.ts + Near})
            others == Codes \ {r.code}
        IN  (\A x \in Rows : x.ts = r.ts => r.id =< x.id) =>
                /\ r.code \notin result.codes
                /\ \A c \in others : In(c) =< result.count
                /\ \A c \in result.codes : c # Nothing => In(c) = result.count
                /\ (Nothing \in result.codes) <=> \A c \in others : In(c) = 0

\* What a row is said to mean: HIGH needs a burst and more in the hour than three
\* times the average, MEDIUM is never said of a row that is not frequent, though it
\* has a second way there, nor LOW of one with a whole sample and no burst larger
\* than it; the score is never above the number of hours; RISING needs an
\* occurrence in the last half hour.  (Nothing is said where the documentation asks
\* for something else: of a row that is frequent and below the sample, of the ten
\* occurrences of HIGH, of a burst larger than the count of the hour.)
VerdictsAgree ==
    \A r \in Rows :
        LET q == QuickStats(dataset, burst.detected, r)
            m == q.metrics
        IN  /\ q.confidence # "LOW" => q.integrity /\ m.hour >= Frequent
            /\ m.hour >= MinSample /\ (burst.detected => m.hour >= burst.count) =>
                   q.integrity /\ q.confidence # "LOW"
            /\ q.confidence = "HIGH" => burst.detected /\ m.hour * Blocks > 3 * m.day
            /\ m.score # Nothing => m.score.under > 0 /\ m.score.over =< Blocks * m.score.under
            /\ q.trend = "RISING" => m.half > 0
            /\ q.trend = "DECLINING" => m.day > 2 * Blocks * m.half

\* The row that is opened is the row that was shown, unless the dataset was
\* replaced or cleared in between: then the number is that of another row.
OpenedIsShown == opened \notin {Nothing, shown} => replaced

----------------------------------------------------------------------------
(* The inductive strengthening of the type invariant and of the properties. *)

\* The rows of a dataset are in the order of time, and numbered in it.
Numbered(rows) == InOrder(rows) /\ \A i \in DOMAIN rows : rows[i].id = i - 1

RowsNumbered == dataset # Nothing => Numbered(dataset)

\* The burst is that of the rows it is kept with.
BurstOfRows == \A rows \in {dataset} \ {Nothing} : burst = FaultBurst(rows)

\* Until the dataset is replaced the row shown is one of it, and the one opened.
ShownStays ==
    /\ shown # Nothing /\ ~replaced => shown \in Rows
    /\ opened # Nothing /\ ~replaced => opened = shown

StatInv == StatTypeOK /\ RowsNumbered /\ BurstOfRows /\ ShownStays
=============================================================================
