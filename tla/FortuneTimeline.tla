-------------------------- MODULE FortuneTimeline ---------------------------
(***************************************************************************)
(* The timeline of fortune periods of a chart (bazi/engine.py): big-luck   *)
(* periods, in them the flow years and in those the flow months, each      *)
(* clipped to the one around it, and the choice of the three that hold at  *)
(* an instant (select_fortune_at).                                         *)
(*                                                                         *)
(* Time is in units that are the smallest step; civil years are equally    *)
(* long (29 February is left out), and when a flow month begins is data of *)
(* the calendar library.  Stems count from 0 to 9, branches from 0 to 11.  *)
(***************************************************************************)
EXTENDS Integers, SequencesExt, Positions

CONSTANTS
    CivilYear,                  \* length of a civil year
    Calendars,                  \* for each year, when its twelve months begin
    PeriodYears,                \* ten civil years in the code
    FORTUNE_BIG_LUCK_PERIODS,
    FirstLucks                  \* how long it takes from birth until luck begins

\* A flow year is shorter than a period: it sees one change of periods at most.
ASSUME FortuneAssumption ==
    /\ CivilYear \in Nat \ {0} /\ PeriodYears \in Nat \ {0, 1}
    /\ FORTUNE_BIG_LUCK_PERIODS \in Nat \ {0} /\ FirstLucks \subseteq Nat
\* The first month of a year begins within the civil year, the others follow.
ASSUME CalendarAssumption ==
    \A c \in Calendars : \A y \in DOMAIN c :
        /\ y \in Int /\ c[y] \in [1..12 -> Int] /\ c[y][1] \div CivilYear = y
        /\ \A m \in 1..11 : c[y][m] < c[y][m + 1]
        /\ y + 1 \in DOMAIN c => c[y][12] < c[y + 1][1]

\* The calendar knows every year of a timeline, the one before and the one after.
YearsAreKnown(births) ==
    \A c \in Calendars, b \in births, f \in FirstLucks :
        LET end == b + f + (FORTUNE_BIG_LUCK_PERIODS - 1) * PeriodYears * CivilYear
        IN ((b \div CivilYear) - 1)..((end \div CivilYear) + 1) \subseteq DOMAIN c

VARIABLES
    calendar,   \* the calendar
    birth,      \* birth_solar_datetime
    luck,       \* start_solar_datetime: when the first formal period begins
    outcome,    \* of calculate_fortune_cycles: "none" before, "failed" or "done"
    timeline,   \* the periods it answered
    chosen      \* what select_fortune_at answered: [at, period, year, month]
fortuneVars == <<calendar, birth, luck, outcome, timeline, chosen>>

Later(x, y) == IF x > y THEN x ELSE y
Earlier(x, y) == IF x < y THEN x ELSE y

FlowYearStart(year) == calendar[year][1]
MonthEnd(year, m) == IF m < 12 THEN calendar[year][m + 1] ELSE FlowYearStart(year + 1)
flow_year_for_datetime(value) ==
    LET year == value \div CivilYear
    IN IF value >= FlowYearStart(year) THEN year ELSE year - 1

\* Period 0 lasts from birth until luck begins, the others PeriodYears each.
NextYear(value, years) == value + years * CivilYear
last_flow_year_of_end(end) == flow_year_for_datetime(end)
last_flow_year(end) == flow_year_for_datetime(end - 1)
BigLuckSpec(i) ==
    LET start == IF i = 0 THEN birth ELSE NextYear(luck, (i - 1) * PeriodYears)
        end == IF i = 0 THEN luck ELSE NextYear(luck, i * PeriodYears)
    IN [index |-> i, start |-> start, end |-> end,
        start_year |-> flow_year_for_datetime(start), end_year |-> last_flow_year(end)]
Specs == [i \in 0..(FORTUNE_BIG_LUCK_PERIODS - 1) |-> BigLuckSpec(i)]

\* The period that begins within an interval; 0 when none does.
transition_in_interval(specs, start, end) ==
    LET within == {i \in DOMAIN specs \ {0} : start <= specs[i].start /\ specs[i].start < end}
    IN IF within = {} THEN 0 ELSE CHOOSE i \in within : \A j \in within : i <= j

\* How a segment of period i stands to the change of periods in the natural
\* interval it was clipped from.
Phase(specs, i, start, end, from, to) ==
    LET next == transition_in_interval(specs, start, end)
    IN CASE next # 0 /\ next = i /\ from = specs[next].start -> "after"
         [] next = i + 1 /\ to = specs[next].start -> "before"
         [] OTHER -> "none"

\* The five-tigers rule: the stem of a year tells that of its first month.
YearStem(year) == (year - 4) % 10
first_month_gan_index(year) == ((YearStem(year) % 5) * 2 + 2) % 10

monthly_fortune(specs, i, year, from, to, m) ==
    LET start == Later(calendar[year][m], from)
        end == Earlier(MonthEnd(year, m), to)
    IN [index |-> m, start |-> start, end |-> end,
        stem |-> (first_month_gan_index(year) + m - 1) % 10, branch |-> (m + 1) % 12,
        phase |-> Phase(specs, i, calendar[year][m], MonthEnd(year, m), start, end)]

SegmentStart(spec, year) == Later(FlowYearStart(year), spec.start)
annual_fortune(specs, i, year) ==
    LET from == SegmentStart(specs[i], year)
        to == Earlier(FlowYearStart(year + 1), specs[i].end)
        months == [m \in 1..12 |-> monthly_fortune(specs, i, year, from, to, m)]
    IN [year |-> year, start |-> from, end |-> to,
        nominal_age |-> year - flow_year_for_datetime(birth) + 1,
        phase |-> Phase(specs, i, FlowYearStart(year), FlowYearStart(year + 1), from, to),
        months |-> At(months, {m \in 1..12 : months[m].start < months[m].end})]

BigLuckPeriod(specs, i) ==
    [index |-> i, start |-> specs[i].start, end |-> specs[i].end,
     years |-> [k \in 1..(specs[i].end_year - specs[i].start_year + 1) |->
                   annual_fortune(specs, i, specs[i].start_year + k - 1)]]

NoChoice == [at |-> -1, period |-> 0, year |-> 0, month |-> 0]
FortuneInit(births) ==
    /\ calendar \in Calendars /\ birth \in births
    /\ luck \in {birth + f : f \in FirstLucks}
    /\ outcome = "none" /\ timeline = <<>> /\ chosen = NoChoice

\* A flow year that does not overlap its period is an error and ends it all.
calculate_fortune_cycles ==
    /\ outcome = "none"
    /\ LET specs == Specs
           periods == [i \in 1..FORTUNE_BIG_LUCK_PERIODS |-> BigLuckPeriod(specs, i - 1)]
       IN IF \E i \in DOMAIN periods : \E k \in DOMAIN periods[i].years :
                periods[i].years[k].start >= periods[i].years[k].end
          THEN outcome' = "failed" /\ UNCHANGED timeline
          ELSE outcome' = "done" /\ timeline' = periods
    /\ UNCHANGED <<calendar, birth, luck, chosen>>

\* The first segment that holds at an instant; 0 when none does.
FirstAt_closed(segments, at) ==
    LET holding == {i \in DOMAIN segments : segments[i].start <= at /\ at <= segments[i].end}
    IN IF holding = {} THEN 0 ELSE CHOOSE i \in holding : \A j \in holding : i <= j
FirstAt(segments, at) ==
    LET holding == {i \in DOMAIN segments : segments[i].start <= at /\ at < segments[i].end}
    IN IF holding = {} THEN 0 ELSE CHOOSE i \in holding : \A j \in holding : i <= j
select_fortune_at(at) ==
    /\ outcome = "done" /\ chosen = NoChoice
    /\ LET p == FirstAt(timeline, at)
           y == IF p = 0 THEN 0 ELSE FirstAt(timeline[p].years, at)
           m == IF y = 0 THEN 0 ELSE FirstAt(timeline[p].years[y].months, at)
       IN chosen' = [at |-> at, period |-> p, year |-> y, month |-> m]
    /\ UNCHANGED <<calendar, birth, luck, outcome, timeline>>

End == luck + (FORTUNE_BIG_LUCK_PERIODS - 1) * PeriodYears * CivilYear
FortuneNext == calculate_fortune_cycles \/ \E at \in (birth - 1)..End : select_fortune_at(at)

(***************************************************************************)
(* Properties.                                                             *)
(***************************************************************************)

\* Segments that follow each other without a gap or an overlap.
Tiles(segments, from, to) ==
    IF segments = <<>> THEN from = to
    ELSE /\ segments[1].start = from /\ Last(segments).end = to
         /\ \A i \in DOMAIN segments : segments[i].start < segments[i].end
         /\ \A i \in 1..(Len(segments) - 1) : segments[i].end = segments[i + 1].start

\* The timeline is complete: periods, flow years and flow months follow each
\* other without a gap or an overlap from birth to the end of the last period.
TimelineTiles ==
    outcome = "done" =>
        /\ Tiles(IF luck = birth THEN Tail(timeline) ELSE timeline, birth, End)
        /\ \A p \in DOMAIN timeline :
              /\ Tiles(timeline[p].years, timeline[p].start, timeline[p].end)
              /\ \A k \in DOMAIN timeline[p].years :
                    LET year == timeline[p].years[k] IN Tiles(year.months, year.start, year.end)

\* Both "construction invariants" of select_fortune_at hold: an instant of the
\* timeline has a year and a month, those in which the calendar has it, and
\* only instants outside are refused.
ChosenHolds ==
    chosen # NoChoice =>
        IF chosen.period = 0 THEN chosen.at < birth \/ chosen.at >= End
        ELSE /\ chosen.year # 0 /\ chosen.month # 0
             /\ LET year == timeline[chosen.period].years[chosen.year]
                    month == year.months[chosen.month]
                IN /\ year.year = flow_year_for_datetime(chosen.at)
                   /\ calendar[year.year][month.index] <= chosen.at
                   /\ chosen.at < MonthEnd(year.year, month.index)
                   /\ timeline[chosen.period].start <= chosen.at
                   /\ chosen.at < timeline[chosen.period].end

\* The pillars of the months follow the cycle of sixty without a break, over the
\* ends of years and periods; a month cut by a change of periods has one pillar.
Months == UNION {UNION {ToSet(year.months) : year \in ToSet(timeline[p].years)} : p \in DOMAIN timeline}
MonthsFollowOn ==
    outcome = "done" =>
        \A this, next \in Months :
            LET step == IF this.index = next.index THEN 0 ELSE 1
            IN this.end = next.start =>
                  /\ next.stem = (this.stem + step) % 10 /\ next.branch = (this.branch + step) % 12
                  /\ this.stem % 2 = this.branch % 2

\* A change of periods is marked on the two years and the two months that it
\* divides, before and after, and on the year and month that it opens, nowhere
\* else: there are never two answers to what an instant belongs to.
TransitionsAreMarked ==
    outcome = "done" => \A p \in DOMAIN timeline :
        LET spec == timeline[p]
            begins(s, natural) == p > 1 /\ s.start = spec.start /\ natural <= s.start
            cut(s, natural) == p < Len(timeline) /\ s.end = spec.end /\ s.end < natural
        IN \A y \in DOMAIN spec.years :
              LET year == spec.years[y] IN
              /\ year.phase = "after" <=> begins(year, FlowYearStart(year.year))
              /\ year.phase = "before" <=> cut(year, FlowYearStart(year.year + 1))
              /\ \A m \in DOMAIN year.months : LET month == year.months[m] IN
                    /\ month.phase = "after" <=> begins(month, calendar[year.year][month.index])
                    /\ month.phase = "before" <=> cut(month, MonthEnd(year.year, month.index))

\* The timeline of every birth can be calculated, but for one whose luck begins
\* at the instant of birth: its period 0 is empty and no year overlaps it, unless
\* it is the first instant of a flow year.
FailsOnlyAtOnce ==
    outcome # "none" =>
        (outcome = "failed" <=> luck = birth /\ birth # FlowYearStart(flow_year_for_datetime(birth)))

\* The timeline is calculated whenever it can be, complete and marked right.
TimelineIsSound == TimelineTiles /\ MonthsFollowOn /\ TransitionsAreMarked /\ FailsOnlyAtOnce
=============================================================================
