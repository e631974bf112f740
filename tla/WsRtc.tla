-------------------------------- MODULE WsRtc --------------------------------
(***************************************************************************)
(* The real time clock of the console (rtc.cpp): a calendar in BCD bytes,  *)
(* counted up by RTC_Clock, and the two ports through which a cartridge's  *)
(* software reads it.  The MCU of the nileswan cartridge reads and stores  *)
(* the same calendar directly (nileswan_mcu.cpp, rtc_transfer).  The clock *)
(* is a record, like the interrupt controller, for the same reason.        *)
(*                                                                         *)
(*   date      GenericRTC: the seven bytes, none of them checked           *)
(*   cycles    ClockCycleCounter                                           *)
(*   command, buffer, index, count                                         *)
(*                                                                         *)
(* A definition with a note such as "forgets the leap year" beside it is   *)
(* the definition that follows with that mistake made: no specification    *)
(* uses it, it is there to show that the properties notice.                *)
(***************************************************************************)
EXTENDS Integers, Sequences

CONSTANT ClockRate      \* cycles of a second, 3072000 in the source

(* A line is 256 cycles, so that RTC_Clock counts at most one second.      *)
ASSUME ClockAssumption == ClockRate \in Nat /\ ClockRate >= 256

Dates == [year : 0 .. 255, mon : 0 .. 255, mday : 0 .. 255, wday : 0 .. 255,
          hour : 0 .. 255, min : 0 .. 255, sec : 0 .. 255]
Order == <<"year", "mon", "mday", "wday", "hour", "min", "sec">>
Bytes(date) == [i \in 1 .. 7 |-> date[Order[i]]]

(* Where the BCD byte of n stands; a digit above 9 is a legal byte too.    *)
Bcd(n) == 16 * (n \div 10) + (n % 10)

(* BCDInc: the byte counted up, before and after the threshold.            *)
CountedPlainly(v) == v + 1                             \* forgets the carry
Counted(v) ==
    LET low == 16 * (v \div 16) + ((v + 1) % 16)
    IN  IF low % 16 < 10 THEN low
        ELSE IF low \div 16 < 9 THEN 16 * (low \div 16 + 1) ELSE 0
Wraps(v, thresh) == Counted(v) >= thresh
BCDInc(v, thresh, reset) == IF Wraps(v, thresh) THEN reset ELSE Counted(v)

LeapOfDigit(year) == (year % 16) % 4 = 0               \* forgets the tens
Leap(year) == (year % 16) % 4 = IF (year \div 16) % 2 = 1 THEN 2 ELSE 0
MdayThresh(date) ==
    IF date.mon = Bcd(2) THEN IF Leap(date.year) THEN Bcd(30) ELSE Bcd(29)
    ELSE IF date.mon \in {Bcd(4), Bcd(6), Bcd(9), Bcd(11)} THEN Bcd(31) ELSE Bcd(32)

(* GenericRTC::Clock.                                                      *)
Clock(date) ==
    LET minute == Wraps(date.sec, Bcd(60))
        hour == minute /\ Wraps(date.min, Bcd(60))
        day == hour /\ Wraps(date.hour, Bcd(24))
        month == day /\ Wraps(date.mday, MdayThresh(date))
        year == month /\ Wraps(date.mon, Bcd(13))
        On(ends, v, thresh, reset) == IF ends THEN BCDInc(v, thresh, reset) ELSE v
    IN  [sec |-> BCDInc(date.sec, Bcd(60), 0),
         min |-> On(minute, date.min, Bcd(60), 0),
         hour |-> On(hour, date.hour, Bcd(24), 0),
         wday |-> On(day, date.wday, 7, 0),
         mday |-> On(day, date.mday, MdayThresh(date), 1),
         mon |-> On(month, date.mon, Bcd(13), 1),
         year |-> On(year, date.year, Bcd(100), 0)]

(* RTC_Clock: a second is over when its cycles are, and keeps the rest.    *)
Second(rtc, over) == [rtc EXCEPT !.cycles = over, !.date = Clock(rtc.date)]
RTC_Clock(rtc, cycles) ==
    LET total == rtc.cycles + cycles
    IN  IF total < ClockRate THEN [rtc EXCEPT !.cycles = total]
        ELSE Second(rtc, total - ClockRate)

(* RTC_Write, ports 0xCA and 0xCB.  A date sent under WRITE goes to the    *)
(* buffer and no further.                                                  *)
WRITE == 20
READ == 21
RTC_Command(rtc, byte) ==
    LET command == byte % 32
    IN  [rtc EXCEPT !.command = command,
                    !.buffer = IF command = READ THEN Bytes(rtc.date) ELSE @,
                    !.index = IF command \in {READ, WRITE} THEN 0 ELSE @,
                    !.count = IF command \in {READ, WRITE} THEN 7 ELSE @]
RTC_Data(rtc, byte) ==
    IF rtc.command = WRITE /\ rtc.index < rtc.count
    THEN [rtc EXCEPT !.buffer[rtc.index + 1] = byte, !.index = @ + 1] ELSE rtc

(* RTC_Read of port 0xCB, the byte and the clock after it.                 *)
Left(rtc) == rtc.command = READ /\ rtc.index < rtc.count
ReadByteLate(rtc) ==                                   \* forgets the latch
    IF Left(rtc) THEN Bytes(rtc.date)[rtc.index + 1] ELSE 128
ReadByte(rtc) == IF Left(rtc) THEN rtc.buffer[rtc.index + 1] ELSE 128
AfterRead(rtc) == IF Left(rtc) THEN [rtc EXCEPT !.index = @ + 1] ELSE rtc

(* rtc_transfer: commands 4 and 6 of the MCU; its reads are NileMcu's.     *)
StoreDate(rtc, date) == [rtc EXCEPT !.date = date]
StoreTime(rtc, date) ==
    [rtc EXCEPT !.date = [@ EXCEPT !.hour = date.hour, !.min = date.min, !.sec = date.sec]]

NoBytes == [i \in 1 .. 7 |-> 0]

(* RTC_Reset leaves the calendar and the cycles alone; RTC_Init sets them. *)
RTC_Reset(rtc) ==
    [rtc EXCEPT !.command = 0, !.buffer = NoBytes, !.index = 0, !.count = 0]
RTC_Init(date) ==
    RTC_Reset([date |-> date, cycles |-> 0, command |-> 0, buffer |-> <<>>,
               index |-> 0, count |-> 0])

-----------------------------------------------------------------------------
Clocks ==
    [date : Dates, cycles : 0 .. ClockRate - 1, command : 0 .. 31,
     buffer : [1 .. 7 -> 0 .. 255], index : 0 .. 7, count : {0, 7}]

(* The calendar the clock should keep, in numbers.                         *)
Number(byte) == 10 * (byte \div 16) + (byte % 16)
Digits(byte, from, to) == byte % 16 < 10 /\ Number(byte) \in from .. to
MonthDays(y, m) ==
    IF m = 2 THEN IF y % 4 = 0 THEN 29 ELSE 28
    ELSE IF m \in {4, 6, 9, 11} THEN 30 ELSE 31

(* A field no calendar would refuse, and a date no calendar would.         *)
FieldValid(f, byte) ==
    CASE f = "year" -> Digits(byte, 0, 99)
      [] f = "mon" -> Digits(byte, 1, 12)
      [] f = "mday" -> Digits(byte, 1, 31)
      [] f = "wday" -> Digits(byte, 0, 6)
      [] f = "hour" -> Digits(byte, 0, 23)
      [] OTHER -> Digits(byte, 0, 59)
DateValid(date) ==
    /\ \A f \in DOMAIN date : FieldValid(f, date[f])
    /\ Number(date.mday) <= MonthDays(Number(date.year), Number(date.mon))

(* The day of the century, the day of the week and the second of the day.  *)
DayNumber(y, m, d) ==
    LET Before[k \in 1 .. 12] == IF k = 1 THEN 0 ELSE Before[k - 1] + MonthDays(y, k - 1)
    IN  365 * y + ((y + 3) \div 4) + Before[m] + d - 1
Moment(date) ==
    <<DayNumber(Number(date.year), Number(date.mon), Number(date.mday)), Number(date.wday),
      3600 * Number(date.hour) + 60 * Number(date.min) + Number(date.sec)>>
NextMoment(m) ==
    IF m[3] < 86399 THEN <<m[1], m[2], m[3] + 1>>
    ELSE <<(m[1] + 1) % 36525, (m[2] + 1) % 7, 0>>
=============================================================================
