---------------------------------- MODULE Cron ----------------------------------
(* Cron lines (server/cron.py): which instants a line with a time zone      *)
(* names, across a change of the clock.  A calendar in small: hour and      *)
(* minute are one slot of the day, weeks and months have a few days.        *)
EXTENDS Integers, FiniteSets

CONSTANTS
  Slots,           \* slots of a day
  WeekDays, MonthDays, Months,  \* days of a week, of a month; months of a year
  MaxDays,         \* days searched before a line is refused (366 * 8 + 1)
  Steps,           \* bound: steps of a field
  Last, Late,      \* bounds: instants from which a search starts; delay of a dispatch
  None

VARIABLES
  zone,            \* the offset before the instant at, and from it on
  line,            \* the fields of the line
  after, next      \* where the search started; its result, None if it is refused

vars == <<zone, line, after, next>>

-------------------------------------------------------------------------------
(* field: *, a number or a range, with a step; a number with a step runs to *)
(* the end of the field.                                                    *)
Bases == {"*", "number", "range"}
Part(high) == [base : Bases, start : 0..high, end : 0..high, step : Steps]

Field(part, low, high) ==
  LET start == IF part.base = "*" THEN low ELSE part.start
      end == CASE part.base = "range" -> part.end
               [] part.base = "number" /\ part.step = 1 -> part.start
               [] OTHER -> high IN
    {n \in start..end : (n - start) % part.step = 0}

(* Refused: a range that is empty or outside of the field.  The last day of *)
(* the week has two numbers, 0 and the highest.                             *)
Valid(part, low, high) ==
  CASE part.base = "*" -> part.start = 0 /\ part.end = 0
    [] part.base = "number" -> low <= part.start /\ part.end = 0
    [] part.base = "range" -> low <= part.start /\ part.start <= part.end

Times(l) == Field(l.time, 0, Slots - 1)
DaysOfMonth(l) == Field(l.dom, 1, MonthDays)
DaysOfWeek(l) == {n % WeekDays : n \in Field(l.dow, 0, WeekDays)}

Zones == [at : 1..2 * Slots, before : {1}, from : 0..2]
Offset(t) == IF t < zone.at THEN zone.before ELSE zone.from
Local(t) == t + Offset(t)
Day(wall) == wall \div Slots

(* Clocks put back do not return to the day before once a new day began.    *)
NoDayTwice(z) == Day(z.at - 1 + z.before) <= Day(z.at + z.from)

(* Assumption: what the constants may be; a change of the clock moves it by *)
(* less than a day.                                                         *)
SettingOK ==
  /\ Slots \in Nat /\ Slots > 2 /\ MaxDays \in Nat
  /\ Last \in Nat /\ Late \in Nat /\ Slots <= Last /\ None \notin Nat

Init ==
  /\ zone \in {z \in Zones : NoDayTwice(z)}
  /\ line \in [time : {p \in Part(Slots - 1) : Valid(p, 0, Slots - 1)},
               dom : {[base |-> "*", start |-> 0, end |-> 0, step |-> s] : s \in {1, 2}}
                     \cup {[base |-> "number", start |-> 2, end |-> 0, step |-> 1]},
               dow : {[base |-> "*", start |-> 0, end |-> 0, step |-> 1],
                      [base |-> "number", start |-> WeekDays, end |-> 0, step |-> 1]},
               months : {0..Months - 1, {1}}]
  /\ after \in 0..Slots - 1 /\ next = after

-------------------------------------------------------------------------------
(* Days of the month and of the week restrict together if either field      *)
(* begins with a star, and otherwise each names days of its own.            *)
Star(part) == part.base = "*"
DayMatch(l, day) ==
  LET dom == (day % MonthDays) + 1 \in DaysOfMonth(l)
      dow == (day % WeekDays) \in DaysOfWeek(l) IN
    /\ (day \div MonthDays) % Months \in l.months
    /\ IF Star(l.dom) \/ Star(l.dow) THEN dom /\ dow ELSE dom \/ dow

(* A wall time read with fold 0 takes the first of the two instants it      *)
(* names, with fold 1 the second; one that the clock skipped is read with   *)
(* the offset before or after, and does not read back as itself.            *)
FromWall(wall, fold) ==
  LET named == {t \in wall - 2..wall : Local(t) = wall} IN
  IF named = {} THEN wall - (IF fold = 0 THEN zone.before ELSE zone.from)
  ELSE CHOOSE t \in named : \A u \in named : IF fold = 0 THEN t <= u ELSE u <= t

MutantCandidates(l, day, instant) ==
  {t \in {FromWall(day * Slots + slot, 0) : slot \in Times(l)} :
     t > instant /\ Local(t) \in {day * Slots + slot : slot \in Times(l)}}

Candidates(l, day, instant) ==
  {t \in {FromWall(day * Slots + slot, fold) : slot \in Times(l), fold \in {0, 1}} :
     t > instant /\ \E slot \in Times(l) : Local(t) = day * Slots + slot}

Least(s) == CHOOSE x \in s : \A y \in s : x <= y

(* next_run: the first local day that has a candidate, and its first one.   *)
NextRun(l, instant) ==
  LET first == Day(Local(instant))
      days == {d \in first..first + MaxDays - 1 : DayMatch(l, d) /\ Candidates(l, d, instant) # {}} IN
    IF days = {} THEN None ELSE Least(Candidates(l, Least(days), instant))

(* A schedule that is due is dispatched then or later, when SERVER was busy *)
(* or down, and the next run is looked for from the moment it is dispatched.*)
Advance ==
  /\ next # None /\ next <= Last
  /\ \E now \in next..next + Late : after' = now /\ next' = NextRun(line, now)
  /\ UNCHANGED <<zone, line>>

Next == Advance

Spec == Init /\ [][Next]_vars

TypeOK ==
  /\ zone \in Zones /\ after \in 0..Last + Late
  /\ next \in {None} \cup 0..(Last + Late + (MaxDays + 1) * Slots)

-------------------------------------------------------------------------------
(* Properties *)

(* An instant that the line names: its wall time, on its local day.         *)
Named(t) == DayMatch(line, Day(Local(t))) /\ (Local(t) % Slots) \in Times(line)

(* "Times that do not exist are skipped, and times that occur twice are     *)
(* scheduled each time" (docs/production-test.md:114): the run after one is *)
(* the first instant named by the line, none between them is left out, and  *)
(* a line is refused only if it names none of the days searched.            *)
EarliestIsNext ==
  next # after =>
    LET until == IF next # None THEN next - 1 ELSE after + (MaxDays - 2) * Slots IN
      /\ next # None => next > after /\ Named(next)
      /\ \A t \in after + 1..until : ~Named(t)
===============================================================================
