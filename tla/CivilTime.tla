----------------------------- MODULE CivilTime ------------------------------
(***************************************************************************)
(* ITime: a date and time of day in fields of its own.  Its arithmetic goes   *)
(* by way of the seconds since 1970, which are unsigned, and its comparisons   *)
(* by the fields.                                                           *)
(*                                                                         *)
(* Two fields, Base minor to the major one, stand for the six of the calendar; *)
(* gmtime_r() and timegm() convert between them and a signed time_t.          *)
(***************************************************************************)
EXTENDS Integers

CONSTANTS
  Moment,     \* the ITime objects
  Base,       \* minor units to a major one
  Epoch,      \* the major field of second zero (1970)
  Precision,  \* microseconds to a second
  Word,       \* 2^64
  LastSecond  \* bound on the seconds that are reached

ASSUME TimeAssumption ==
  /\ {Base, Epoch, Precision, Word, LastSecond} \subseteq Nat \ {0}
  \* A time_t holds the seconds that are reached and those of the years from 0 on.
  /\ LastSecond < Word \div 2
  /\ Epoch * Base <= Word \div 2

VARIABLES
  time,    \* the fields of each object
  clock,   \* CLOCK_REALTIME, in seconds
  latest   \* what the latest call computed: a sum or difference of its operands, or none

timeVars == <<time, clock, latest>>

\* The years are unsigned, so that fields go back to year 0 and no further.
Earliest == -(Epoch * Base)
Second == Earliest .. LastSecond
Fields ==
  [major : 0 .. Epoch + LastSecond \div Base, minor : 0 .. Base - 1, micro : 0 .. Precision - 1]

NoResult == [op |-> "none", left |-> 0, right |-> 0, result |-> 0]

Signed(u) == IF u < Word \div 2 THEN u ELSE u - Word
Gmtime(t) == [major |-> Epoch + t \div Base, minor |-> t % Base, micro |-> 0]
Timegm(f) == (f.major - Epoch) * Base + f.minor

FromSecond(u) == Gmtime(Signed(u))
TimeStampSecond(f) == Timegm(f) % Word
TimeStampMicro(f) == (TimeStampSecond(f) * Precision + f.micro) % Word

\* operator<: some field is less, whatever the fields before it are.
LessThan(f, g) == f.major < g.major \/ f.minor < g.minor \/ f.micro < g.micro
AtMost(f, g) == ~LessThan(g, f)

\* operator+ and operator- change their left operand, and lose the microseconds.
Sum(f, g) == FromSecond((TimeStampSecond(f) + TimeStampSecond(g)) % Word)
DifferenceUnclamped(f, g) == FromSecond((TimeStampSecond(f) - TimeStampSecond(g)) % Word)
Difference(f, g) ==
  IF TimeStampSecond(f) > TimeStampSecond(g)
  THEN FromSecond(TimeStampSecond(f) - TimeStampSecond(g))
  ELSE FromSecond(0)

TimeInit ==
  /\ time = [o \in Moment |-> [major |-> 0, minor |-> 0, micro |-> 0]]
  /\ clock = 0
  /\ latest = NoResult

-----------------------------------------------------------------------------
SetTo(o, f) == time' = [time EXCEPT ![o] = f]

\* ITime(year, ...) checks nothing; the fields here are those of real dates.
ConstructFields(o) ==
  /\ \E f \in Fields : Timegm(f) <= LastSecond /\ SetTo(o, f)
  /\ latest' = NoResult
  /\ UNCHANGED clock

ConstructSecond(o) ==
  /\ \E u \in 0 .. LastSecond : SetTo(o, FromSecond(u))
  /\ latest' = NoResult
  /\ UNCHANGED clock

\* The operators on an ITime and those on seconds, which make an ITime of them.
Plus(o, g) ==
  /\ Timegm(time[o]) + Timegm(g) \in Second
  /\ SetTo(o, Sum(time[o], g))
  /\ latest' = [op |-> "plus", left |-> Timegm(time[o]), right |-> Timegm(g),
                result |-> Timegm(time'[o])]
  /\ UNCHANGED clock

Minus(o, g) ==
  /\ Timegm(time[o]) - Timegm(g) \in Second
  /\ SetTo(o, Difference(time[o], g))
  /\ latest' = [op |-> "minus", left |-> Timegm(time[o]), right |-> Timegm(g),
                result |-> Timegm(time'[o])]
  /\ UNCHANGED clock

Increment(o) == Plus(o, FromSecond(1))
Decrement(o) == Minus(o, FromSecond(1))

GetUTCTime(o) ==
  /\ SetTo(o, FromSecond(clock))
  /\ latest' = NoResult
  /\ UNCHANGED clock

\* The system may refuse, and does so for a time before 1970.
SetUTCTime(o) ==
  /\ \/ UNCHANGED clock
     \/ Timegm(time[o]) >= 0 /\ clock' = Timegm(time[o])
  /\ latest' = NoResult
  /\ UNCHANGED time

TimeNext ==
  \E o \in Moment :
    \/ ConstructFields(o)
    \/ ConstructSecond(o)
    \/ \E p \in Moment : Plus(o, time[p])
    \/ \E p \in Moment : Minus(o, time[p])
    \/ Increment(o)
    \/ Decrement(o)
    \/ GetUTCTime(o)
    \/ SetUTCTime(o)

TimeSpec == TimeInit /\ [][TimeNext]_timeVars

-----------------------------------------------------------------------------
TimeTypeOK ==
  /\ time \in [Moment -> Fields]
  /\ clock \in 0 .. LastSecond
  /\ latest.op \in {"none", "plus", "minus"}

\* A time since 1970 of which a word holds the microseconds; those of years beyond
\* 586,000, which an ITime may stand for, wrap.
MicrosFit(f) == Timegm(f) >= 0 /\ Timegm(f) * Precision + f.micro < Word

\* Of two such times the earlier, by its microseconds, is less than the later, and
\* what is at most another time is not after it.  (The later of two may be less
\* than the earlier as well.)
OrderIsOneSided ==
  \A o, p \in Moment :
    MicrosFit(time[o]) /\ MicrosFit(time[p]) =>
      /\ TimeStampMicro(time[o]) < TimeStampMicro(time[p]) => LessThan(time[o], time[p])
      /\ AtMost(time[o], time[p]) => TimeStampMicro(time[o]) <= TimeStampMicro(time[p])

\* A sum is exact, on either side of 1970; so is a difference of times since 1970,
\* but for one that would be before it: that is 1970.
ArithmeticIsExact ==
  /\ latest.op = "plus" => latest.result = latest.left + latest.right
  /\ latest.op = "minus" /\ latest.left >= 0 /\ latest.right >= 0 =>
       latest.result = IF latest.left > latest.right THEN latest.left - latest.right ELSE 0

TimeIsSound == OrderIsOneSided /\ ArithmeticIsExact
=============================================================================
