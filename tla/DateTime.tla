------------------------------ MODULE DateTime ------------------------------
(***************************************************************************)
(* The date of FIG 0/10 (ProcessFIG0_10 in src/fic_decoder.cpp): it is     *)
(* sent as a modified Julian day of 17 bits, and decoded by arithmetic on  *)
(* floating point numbers, whose quotients are never near enough to an     *)
(* integer to be rounded to the other side.  Here a year goes by, a day to *)
(* an action, beside the calendar it is to follow.                         *)
(***************************************************************************)
EXTENDS Integers, Sequences

CONSTANT Years \* from 1900

ASSUME YearsAssumption == Years \subseteq 1901..2099

VARIABLES
    fig,               \* the three bytes the date is in
    tm,                \* the date the handler has stored
    year, month, day   \* the calendar's

dateVars == <<fig, tm, year, month, day>>

Leap(y) == y % 4 = 0 /\ (y % 100 # 0 \/ y % 400 = 0)

DaysOf(y, m) ==
    IF m = 2 THEN IF Leap(y) THEN 29 ELSE 28
    ELSE IF m \in {4, 6, 9, 11} THEN 30 ELSE 31

\* The day of 1 January; day 15020 is that of 1900, which was no leap year.
FirstDay(y) == 15020 + 365 * (y - 1900) + (y - 1901) \div 4

\* As it is sent, between a bit that is reserved and flags.
Sent(mjd) == <<128 + (mjd \div 1024), (mjd \div 4) % 256, 64 * (mjd % 4) + 63>>

mjd(bytes) == (bytes[1] % 128) * 1024 + bytes[2] * 4 + bytes[3] \div 64

\* Broken on purpose (see the mutants of PROJECT.json): January and February stay
\* months 13 and 14 of the year before.
DateInMarchYears(n) ==
    LET y0 == (100 * n - 1507820) \div 36525
        days == n - 14956 - (y0 * 36525) \div 100
        m0 == (10000 * days - 1000) \div 306001
    IN  [tm_year |-> y0, tm_mon |-> m0 - 2, tm_mday |-> days - (m0 * 306001) \div 10000]

\* tm_year counts from 1900, tm_mon from 0.
Date(n) ==
    LET y0 == (100 * n - 1507820) \div 36525
        days == n - 14956 - (y0 * 36525) \div 100
        m0 == (10000 * days - 1000) \div 306001
        k == IF m0 \in {14, 15} THEN 1 ELSE 0
    IN  [tm_year |-> y0 + k, tm_mon |-> m0 - 2 - k * 12,
         tm_mday |-> days - (m0 * 306001) \div 10000]

DateInit ==
    /\ year \in Years /\ month = 1 /\ day = 1
    /\ fig = Sent(FirstDay(year))
    /\ tm = Date(mjd(fig))

\* The next day is sent and decoded.
NextDay ==
    /\ fig' = Sent(mjd(fig) + 1)
    /\ tm' = Date(mjd(fig'))
    /\ year' = year
    /\ IF day < DaysOf(year, month) THEN day' = day + 1 /\ month' = month
       ELSE month < 12 /\ day' = 1 /\ month' = month + 1

DateSpec == DateInit /\ [][NextDay]_dateVars

-----------------------------------------------------------------------------

\* The date stored is that of the calendar on every day of the years until 2100,
\* whose end of February the formula, to which every fourth year is a leap year, does
\* not know of; leap days and the turn of a year, which it counts to the year before,
\* included.
DateIsCalendar ==
    tm = [tm_year |-> year - 1900, tm_mon |-> month - 1, tm_mday |-> day]

=============================================================================
