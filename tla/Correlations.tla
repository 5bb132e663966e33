---------------------------- MODULE Correlations ----------------------------
(***************************************************************************)
(* The correlations: background jobs that compare two or three tables over *)
(* the days that they have in common and save one row for every chart.     *)
(* GenerateCorrelations starts one goroutine per attempt; a step is one    *)
(* statement of one of them, and each may fail.                            *)
(*                                                                         *)
(* A table has one date and one value column; what matters of its rows is  *)
(* on which days they are, counted as DayNum does.  Whether the formula    *)
(* gives a coefficient other than zero depends on values left out.         *)
(***************************************************************************)
EXTENDS Integers, Sequences, FiniteSets, FiniteSetsExt, Functions

CONSTANTS Tables, NoTable, Jobs,
          Series     \* bound: the sets of days that a table may have

ASSUME SeriesAreDays == \A S \in Series : IsFiniteSet(S) /\ S \subseteq Nat
ASSUME NoTableIsNone == NoTable \notin Tables

VARIABLES
    days,     \* the days of the rows of a table
    job,      \* the TableCols of a goroutine
    stage,    \* the statement it is at
    saved,    \* the rows of correlations: the job and the chart
    matched   \* history: keys looked up in vain while another job had done so

correlationVars == <<days, job, stage, saved, matched>>

Charts == {"bar", "column", "line", "scatter"}
Methods == {"Pearson", "Visual", "Spurious"}

Tuples ==
    {c \in [tbl1 : Tables, tbl2 : Tables, tbl3 : Tables \cup {NoTable}, ctype : Methods] :
        /\ c.tbl1 # c.tbl2 /\ c.tbl3 \notin {c.tbl1, c.tbl2}
        /\ (c.tbl3 = NoTable) = (c.ctype # "Spurious")}
NoTuple == [ctype |-> "none"]

CorrelationsTypeOK ==
    /\ days \in [Tables -> Series]
    /\ job \in [Jobs -> Tuples \cup {NoTuple}]
    /\ stage \in [Jobs -> {"start", "look", "read", "save", "done", "partial"}]
    /\ saved \subseteq Jobs \X Charts
    /\ matched \subseteq Tuples

CorrelationsInit ==
    /\ days \in [Tables -> Series]
    /\ job = [j \in Jobs |-> NoTuple]
    /\ stage = [j \in Jobs |-> "start"]
    /\ saved = {} /\ matched = {}

-----------------------------------------------------------------------------
(***************************************************************************)
(* Dates and buckets.                                                      *)
(***************************************************************************)
Rng(range) == range.to - range.from

\* DetermineRange; with no rows the range is empty
DetermineRange(S) ==
    IF S = {} THEN [from |-> 0, to |-> 0] ELSE [from |-> Min(S), to |-> Max(S)]

Ceiling(a, b) == (a + b - 1) \div b

\* slip: steps are rounded down
ShortSteps(a, b) == [size |-> a \div b, num |-> a \div (a \div b)]

Steps(a, b) == [size |-> Ceiling(a, b), num |-> a \div Ceiling(a, b)]

\* equal steps, then one bucket for what is left and for the last day
CreateBuckets(range) ==
    LET step == Steps(Rng(range), Min({10, Rng(range)}))
        end(i) == range.from + i * step.size
    IN  IF Rng(range) = 0 THEN <<>>
        ELSE [i \in 1..step.num |-> [from |-> end(i - 1), to |-> end(i)]]
             \o IF step.size = 1 THEN <<>>
                ELSE <<[from |-> end(step.num), to |-> range.to + 1]>>

Inside(x, y) == x.from > y.from /\ x.to < y.to

\* the cases of GetIntersect, in their order; 0..0 gives no buckets
GetIntersect(x, y) ==
    IF Rng(x) <= Rng(y) /\ (x = y \/ Inside(x, y)) THEN x
    ELSE IF Rng(y) < Rng(x) /\ Inside(y, x) THEN y
    ELSE IF x.to < y.from \/ x.from > y.to THEN [from |-> 0, to |-> 0]
    ELSE IF x.from < y.from THEN [from |-> y.from, to |-> x.to]
    ELSE [from |-> x.from, to |-> y.to]

Between(d, bucket) == bucket.from <= d /\ d < bucket.to

\* the buckets that some row falls into
FillBuckets(S, buckets) ==
    {i \in DOMAIN buckets : \E d \in S : Between(d, buckets[i])}

MostlyEmpty(S, buckets) == Len(buckets) - Cardinality(FillBuckets(S, buckets)) > 5

Whole(buckets) == [from |-> buckets[1].from, to |-> buckets[Len(buckets)].to]

\* GetValues: the days of the plot, with a zero at either end if need be
GetValues(S, buckets) ==
    LET w == Whole(buckets)
    IN  {d \in S : Between(d, w)} \cup {w.from, w.to - 1}

HasValues(S, buckets) == {d \in S : Between(d, Whole(buckets))} # {}

Usable(S, buckets) ==
    buckets # <<>> /\ ~MostlyEmpty(S, buckets) /\ HasValues(S, buckets)

-----------------------------------------------------------------------------
(***************************************************************************)
(* What a job computes.                                                    *)
(***************************************************************************)
Compared(c) == {c.tbl1, c.tbl2, c.tbl3} \ {NoTable}

PairRange(c) == GetIntersect(DetermineRange(days[c.tbl1]), DetermineRange(days[c.tbl2]))

Period(c) ==
    IF c.ctype = "Spurious" THEN GetIntersect(PairRange(c), DetermineRange(days[c.tbl3]))
    ELSE PairRange(c)

Buckets(c) == CreateBuckets(Period(c))

\* the period that is saved with the values; only Spurious keeps the day after
Stored(c) ==
    LET w == Whole(Buckets(c))
    IN  [from |-> w.from, to |-> IF c.ctype = "Spurious" THEN w.to ELSE w.to - 1]

\* CalculateCoefficient gets as far as its formula
Calculable(c) ==
    /\ \A t \in Compared(c) : Rng(DetermineRange(days[t])) > 0
    /\ \A t \in {c.tbl1, c.tbl2} : Usable(days[t], CreateBuckets(PairRange(c)))
    /\ \A t \in Compared(c) : Usable(days[t], Buckets(c))

\* in the order in which AttemptCorrelation saves them
ChartsOf(ctype) ==
    IF ctype = "Spurious" THEN <<"line", "scatter">>
    ELSE <<"bar", "column", "line", "scatter">>

ChartsBy(j) == {ch \in Charts : <<j, ch>> \in saved}

\* slip: the tables are looked up in the other order
Mirrored(c) == \E j \in Jobs : ChartsBy(j) # {} /\ job[j] = [c EXCEPT !.tbl1 = c.tbl2, !.tbl2 = c.tbl1]

\* some row has these tables and this method
Exists(c) == \E j \in Jobs : ChartsBy(j) # {} /\ job[j] = c

-----------------------------------------------------------------------------
MoveTo(j, step) == stage' = [stage EXCEPT ![j] = step]

\* a failed statement: its error ends the job, nobody reads it and nothing that
\* was saved is taken back
JobFails(j) ==
    /\ stage[j] \in {"look", "read", "save"}
    /\ MoveTo(j, IF ChartsBy(j) = {} THEN "done" ELSE "partial")
    /\ UNCHANGED <<days, job, saved, matched>>

\* GenerateCorrelations: random tables, each of which may not appear twice
Generate(j) ==
    /\ stage[j] = "start"
    /\ \E c \in Tuples : job' = [job EXCEPT ![j] = c]
    /\ MoveTo(j, "look") /\ UNCHANGED <<days, saved, matched>>

\* the jobs that have found no row of this key and may still save some
Under(c) == {j \in Jobs : stage[j] \in {"read", "save"} /\ job[j] = c}

LookUp(j) ==
    /\ stage[j] = "look"
    /\ MoveTo(j, IF Exists(job[j]) THEN "done" ELSE "read")
    /\ matched' = IF ~Exists(job[j]) /\ Under(job[j]) # {} THEN matched \cup {job[j]} ELSE matched
    /\ UNCHANGED <<days, job, saved>>

\* a coefficient of zero is not saved
CalculateCoefficient(j) ==
    /\ stage[j] = "read"
    /\ \/ MoveTo(j, "done")
       \/ Calculable(job[j]) /\ MoveTo(j, "save")
    /\ UNCHANGED <<days, job, saved, matched>>

SaveCorrelation(j) ==
    /\ stage[j] = "save"
    /\ LET charts == ChartsOf(job[j].ctype)
           next == Cardinality(ChartsBy(j)) + 1
       IN  /\ saved' = saved \cup {<<j, charts[next]>>}
           /\ MoveTo(j, IF next = Len(charts) THEN "done" ELSE "save")
    /\ UNCHANGED <<days, job, matched>>

CorrelationsNext ==
    \E j \in Jobs :
        Generate(j) \/ LookUp(j) \/ CalculateCoefficient(j) \/ SaveCorrelation(j) \/ JobFails(j)

CorrelationsSpec == CorrelationsInit /\ [][CorrelationsNext]_correlationVars

-----------------------------------------------------------------------------
\* Every chart of a pair or a triple of tables is saved once or none is, once
\* its jobs have ended: the look-up of one chart's row has to stand for all of
\* them.  It does unless a save failed half-way, which leaves the rest unsaved
\* for good, or two jobs looked the same tables up at once, which save twice.
CorrelationsAreWhole ==
    \A c \in Range(job) \ (matched \cup {NoTuple}) :
        LET mine == {j \in Jobs : job[j] = c}
            rows == UNION {{j} \X ChartsBy(j) : j \in mine}
        IN  (\A j \in mine : stage[j] \in {"start", "done"})
                => Cardinality(rows) \in {0, Len(ChartsOf(c.ctype))}

\* the days on which every table of c has begun and none has ended
FirstCommon(c) == Max({Min(days[t]) : t \in Compared(c)})
Common(c) == FirstCommon(c)..Min({Max(days[t]) : t \in Compared(c)})

\* two tables begin on one day and the second, or the third, ends later: the
\* last case of GetIntersect takes its end
Overlong(c) ==
    LET longer(x, y) == x.from = y.from /\ x.to < y.to
    IN  \/ longer(DetermineRange(days[c.tbl1]), DetermineRange(days[c.tbl2]))
        \/ c.ctype = "Spurious" /\ longer(PairRange(c), DetermineRange(days[c.tbl3]))

\* the days that the buckets of c hold
DaysCounted(c) == UNION {b.from..b.to - 1 : b \in Range(Buckets(c))}

\* What a saved coefficient counts is one stretch of days, each of them once.
\* It begins on the first day on which every table has begun; where they have
\* more than eleven days in common it goes on to the last, and it has no other
\* day.  The plot begins and ends with the days counted, and the row names them
\* (Spurious: a day too much).  Tables that begin on one day are the exception:
\* the later end is taken.  How a short period ends is RelevantDaysAreCounted.
DatesAreCounted ==
    \A c \in {job[row[1]] : row \in saved} :
        LET common == Common(c)
            buckets == Buckets(c)
            row == Stored(c)
            counted == DaysCounted(c)
        IN  /\ \A a, b \in Range(buckets) : a = b \/ a.to <= b.from \/ b.to <= a.from
            /\ counted = Min(counted)..Max(counted)
            /\ Min(counted) = FirstCommon(c)
            /\ Cardinality(common) > 11 => common \subseteq counted
            /\ counted \subseteq common \/ Overlong(c)
            /\ row.from = Min(counted)
            /\ row.to = Max(counted) + IF c.ctype = "Spurious" THEN 1 ELSE 0
            /\ \A t \in Compared(c) :
                 LET plot == GetValues(days[t], buckets)
                 IN  Min(plot) = row.from /\ Max(plot) = Max(counted)

\* "no more than 10 buckets", says CreateBuckets (tablecorrelationhelpers.go:136).
\* Steps rounds the size of ten steps up, and then takes as many as fit: where
\* ten fit exactly the bucket of the last day is the eleventh.
TenBucketsAtMost ==
    \A c \in {job[row[1]] : row \in saved} : Len(Buckets(c)) <= 10

\* FillBuckets is to "sum dated values that fall on or between relevant dates"
\* (tablecorrelationhelpers.go:162), and these are the days that the tables have
\* in common ("the intersect between three data sets", tablecorrelation.go:291).
\* Buckets leave out the day at which they end, and only those longer than a
\* day are followed by one for the last day.
RelevantDaysAreCounted ==
    \A c \in {job[row[1]] : row \in saved} : DaysCounted(c) = Common(c)
=============================================================================
