------------------------------ MODULE Calendar ------------------------------
(***************************************************************************)
(* Due dates (packages/shared/src/time): a calendar day on its way from    *)
(* the form through the wire, a process in any time zone and a date column *)
(* to the pages of readers in other zones, and the badge each one shows.   *)
(*                                                                         *)
(* A day is the triple of its year, month and date; "no due date" is the   *)
(* empty set.  An instant is the number of hours since 1970 in UTC, and a  *)
(* Date that a date column gives back is the first hour of a day.          *)
(***************************************************************************)
EXTENDS Integers, FiniteSets

CONSTANTS
  Reader,       \* the pages that show the card
  ZoneOf,       \* [Reader -> the hours by which the account is ahead of UTC]
  ServerZone,   \* the offsets a process may run at
  Start,        \* the instants at which the story may start
  Hours,        \* bound: how many hours it lasts
  Typed         \* what may be sent as a due date: triples, possible or not

VARIABLES
  clock,        \* the current instant
  begun,        \* the instant the story started at
  server,       \* the offset of the process that serves
  dueOn,        \* the date column: the epoch day of the card, {} for null
  meant,        \* the day last accepted for the card, as it was written
  shown         \* [Reader -> whether it is open, its today, the day it has,
                \*  and the day that was meant when it got it]

calendarVars == <<clock, begun, server, dueOn, meant, shown>>

----------------------------------------------------------------------------
(* Days are numbered from 1970, by the Gregorian calendar of any year; the *)
(* parts of a date may run over.                                           *)
DayNumber(y, m, d) ==
  LET yy  == IF m <= 2 THEN y - 1 ELSE y
      yoe == yy % 400
      doy == (153 * (IF m > 2 THEN m - 3 ELSE m + 9) + 2) \div 5 + d - 1
  IN  (yy \div 400) * 146097 + yoe * 365 + yoe \div 4 - yoe \div 100 + doy - 719468

(* Date.UTC reads a year of at most two digits as one of the 1900s.        *)
DateUTC(y, m, d) == DayNumber(IF y \in 0 .. 99 THEN 1900 + y ELSE y, m, d)

Civil(n) ==
  LET z   == n + 719468
      doe == z % 146097
      yoe == (doe - doe \div 1460 + doe \div 36524 - doe \div 146096) \div 365
      doy == doe - (365 * yoe + yoe \div 4 - yoe \div 100)
      mp  == (5 * doy + 2) \div 153
      m   == IF mp < 10 THEN mp + 3 ELSE mp - 9
  IN  <<(z \div 146097) * 400 + yoe + (IF m <= 2 THEN 1 ELSE 0), m, doy - (153 * mp + 2) \div 5 + 1>>

(* The day it is at an instant, for who is some hours ahead of UTC. *)
DayAt(instant, ahead) == Civil((instant + ahead) \div 24)

(* Clocks are past 1970 and short of the last day that four digits write.  *)
ASSUME CalendarAssumption ==
  /\ ZoneOf \in [Reader -> Int]
  /\ Start \subseteq Int
  /\ Hours \in Nat
  /\ \A s \in Start, r \in Reader :
       /\ (s + ZoneOf[r]) \div 24 >= 0
       /\ (s + Hours + ZoneOf[r]) \div 24 < DayNumber(9999, 12, 31)
  /\ Typed \subseteq Int \X Int \X Int

----------------------------------------------------------------------------
LeapYear(y) == (y % 4 = 0 /\ y % 100 # 0) \/ y % 400 = 0

DaysInMonth(y, m) ==
  IF m = 2 /\ LeapYear(y) THEN 29
  ELSE <<31, 28, 31, 30, 31, 30, 31, 31, 30, 31, 30, 31>>[m]

Exists(d) == d[2] \in 1 .. 12 /\ d[3] \in 1 .. DaysInMonth(d[1], d[2])

(* What DAY_PATTERN takes for a year.                                      *)
FourDigits == 0 .. 9999

(* day: an impossible day is refused, not rolled over.                     *)
IsDay(d) == d[1] \in FourDigits /\ Exists(d)

ToUtcDate(d) == DateUTC(d[1], d[2], d[3])

(* wireDayToUtc: what is not mentioned is left alone, null clears. *)
Mentions == {[mentioned |-> FALSE, day |-> {}], [mentioned |-> TRUE, day |-> {}]}
              \union {[mentioned |-> TRUE, day |-> {d}] : d \in Typed}

WireDayToUtc(in, current) == IF in.mentioned THEN {ToUtcDate(d) : d \in in.day} ELSE current

(* Mutant: the accessors of the process' own zone. *)
FromUtcDateLocal(n) == DayAt(24 * n, server)
(* fromUtcDate: the UTC accessors. *)
FromUtcDate(n) == DayAt(24 * n, 0)

AddDays(d, delta) == FromUtcDate(ToUtcDate(d) + delta)

DaysBetween(from, to) == ToUtcDate(to) - ToUtcDate(from)

DueFor(day, today) ==
  IF day = {} THEN "none"
  ELSE LET daysAway == DaysBetween(today, CHOOSE d \in day : TRUE)
       IN  CASE daysAway < 0 -> "overdue"
             [] daysAway = 0 -> "today"
             [] daysAway = 1 -> "tomorrow"
             [] OTHER        -> "upcoming"

----------------------------------------------------------------------------
CalendarInit ==
  /\ begun \in Start
  /\ clock = begun
  /\ server \in ServerZone
  /\ dueOn = {}
  /\ meant = {}
  /\ shown = [r \in Reader |-> [open |-> FALSE, today |-> {}, day |-> {}, meant |-> {}]]

(* A card is created or edited, over HTTP or a socket. *)
SaveDue ==
  \E in \in Mentions :
    /\ \A d \in in.day : IsDay(d)
    /\ dueOn' = WireDayToUtc(in, dueOn)
    /\ meant' = IF in.mentioned THEN in.day ELSE meant
    /\ UNCHANGED <<clock, begun, server, shown>>

(* toCard: the card as a snapshot or an event carries it. *)
CardDay == {FromUtcDate(n) : n \in dueOn}

(* A page is opened, or loaded again: its today is worked out once. *)
OpenPage(r) ==
  /\ shown' = [shown EXCEPT ![r] =
       [open |-> TRUE, today |-> {DayAt(clock, ZoneOf[r])}, day |-> CardDay, meant |-> meant]]
  /\ UNCHANGED <<clock, begun, server, dueOn, meant>>

(* The card comes in, by an event or a snapshot: its today stays. *)
CardArrives(r) ==
  /\ shown[r].open
  /\ shown' = [shown EXCEPT ![r].day = CardDay, ![r].meant = meant]
  /\ UNCHANGED <<clock, begun, server, dueOn, meant>>

HourPasses ==
  /\ clock < begun + Hours
  /\ clock' = clock + 1
  /\ UNCHANGED <<begun, server, dueOn, meant, shown>>

CalendarNext ==
  \/ SaveDue \/ HourPasses
  \/ \E r \in Reader : OpenPage(r) \/ CardArrives(r)

CalendarSpec == CalendarInit /\ [][CalendarNext]_calendarVars

----------------------------------------------------------------------------
(* Which day follows another, told by counting only the days that exist,   *)
(* and which of two comes first, by comparing their parts in order.        *)
Follows(d, e) ==
  \/ e = <<d[1], d[2], d[3] + 1>> /\ d[3] < DaysInMonth(d[1], d[2])
  \/ e = <<d[1], d[2] + 1, 1>> /\ d[3] = DaysInMonth(d[1], d[2])
  \/ e = <<d[1] + 1, 1, 1>> /\ d[2] = 12 /\ d[3] = 31

Earlier(d, e) ==
  \/ d[1] < e[1]
  \/ d[1] = e[1] /\ d[2] < e[2]
  \/ d[1] = e[1] /\ d[2] = e[2] /\ d[3] < e[3]

(* A card is due on the day somebody wrote: whatever the zones of the      *)
(* writer's process and of the reader, over leap days, centuries and new   *)
(* years, every page shows the very day that was accepted, if its year is  *)
(* past 99; and the badge of the day that is shown is what the order of    *)
(* the calendar says of it and the page's own day.                         *)
DueMeansWhatWasWritten ==
  \A r \in Reader : \A t \in shown[r].today :
    /\ (\A d \in shown[r].meant : d[1] > 99) => shown[r].day = shown[r].meant
    /\ \A d \in shown[r].day :
         /\ (DueFor(shown[r].day, t) = "overdue")  <=> Earlier(d, t)
         /\ (DueFor(shown[r].day, t) = "today")    <=> d = t
         /\ (DueFor(shown[r].day, t) = "tomorrow") <=> Follows(t, d)
    /\ Follows(t, AddDays(t, 1))
=============================================================================
