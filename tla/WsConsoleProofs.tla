---------------------------- MODULE WsConsoleProofs ----------------------------
(***************************************************************************)
(* Proofs about WsConsole: its interrupts, its clock, its EEPROMs and its  *)
(* sprite tables, for every size of the EEPROMs, every number of lines and *)
(* every program; and about the programs of WsPrograms: what one that      *)
(* reads the clock, changes the frame, runs the timer, plays waves, plays  *)
(* by sound DMA or copies by the general one may rely on.                  *)
(***************************************************************************)
EXTENDS WsPrograms, SequenceTheorems, WellFoundedInduction, TLAPS

-----------------------------------------------------------------------------
(* The calendar.                                                           *)

(* What a byte is counted up to, and when it is taken back.                *)
LEMMA CountedByte ==
    ASSUME NEW v \in Byte
    PROVE  Counted(v) \in Byte /\ Counted(v) % 16 < 10
  <1>1. PICK h \in 0 .. 15, l \in 0 .. 15 : v = 16 * h + l
    <2>1. v = 16 * (v \div 16) + (v % 16) /\ v \div 16 \in 0 .. 15 /\ v % 16 \in 0 .. 15
      BY DEF Byte
    <2> QED
      BY <2>1
  <1> DEFINE d == IF l = 15 THEN 0 ELSE l + 1
  <1>2. v \div 16 = h /\ (v + 1) % 16 = d /\ d \in 0 .. 15
    BY <1>1
  <1>3. (16 * h + d) % 16 = d /\ (16 * h + d) \div 16 = h
    BY <1>2
  <1>4. Counted(v) = IF d < 10 THEN 16 * h + d ELSE IF h < 9 THEN 16 * (h + 1) ELSE 0
    BY <1>2, <1>3 DEF Counted
  <1>5. CASE d < 10
    BY <1>2, <1>3, <1>4, <1>5 DEF Byte
  <1>6. CASE ~(d < 10) /\ h < 9
    BY <1>2, <1>4, <1>6 DEF Byte
  <1>7. CASE ~(d < 10) /\ ~(h < 9)
    BY <1>2, <1>4, <1>7 DEF Byte
  <1> QED
    BY <1>5, <1>6, <1>7

(* The bytes below a threshold that have two digits are numbers up to one. *)
Below(thresh, to) ==
    \A n \in 0 .. 255 : n < thresh /\ n % 16 < 10 => 10 * (n \div 16) + (n % 16) <= to

LEMMA CountedField ==
    ASSUME NEW v \in Byte, NEW thresh \in Byte, NEW reset \in 0 .. 1, NEW to \in 1 .. 99,
           Below(thresh, to)
    PROVE  /\ BCDInc(v, thresh, reset) \in Byte
           /\ \/ BCDInc(v, thresh, reset) = 0 /\ reset = 1
              \/ Digits(BCDInc(v, thresh, reset), reset, to)
  <1>1. PICK c \in Byte : c = Counted(v) /\ c % 16 < 10
    BY CountedByte
  <1>2. BCDInc(v, thresh, reset) = IF c >= thresh THEN reset ELSE c
    BY <1>1 DEF BCDInc, Wraps
  <1>3. reset \in Byte /\ reset % 16 = reset /\ reset \div 16 = 0
    BY DEF Byte
  <1>4. CASE c >= thresh
    BY <1>2, <1>3, <1>4 DEF Digits, Number
  <1>5. CASE ~(c >= thresh)
    <2>1. c \in 0 .. 255 /\ c < thresh
      BY <1>5 DEF Byte
    <2>2. 10 * (c \div 16) + (c % 16) <= to
      BY <1>1, <2>1 DEF Below
    <2>3. /\ c % 16 \in 0 .. 15 /\ c \div 16 \in 0 .. 15
          /\ c = 0 \/ 10 * (c \div 16) + (c % 16) >= 1
      BY <2>1
    <2>4. BCDInc(v, thresh, reset) = c
      BY <1>2, <1>5
    <2>5. (c = 0 /\ reset = 1) \/ Digits(c, reset, to)
      BY <1>1, <2>2, <2>3 DEF Digits, Number
    <2> QED
      BY <2>4, <2>5
  <1> QED
    BY <1>4, <1>5

(* Every field of the date after a tick.                                   *)
LEMMA TickedFields ==
    ASSUME NEW date \in Dates
    PROVE  /\ Clock(date) \in Dates
           /\ Clock(date).sec = date.sec \/ FieldValid("sec", Clock(date).sec)
           /\ Clock(date).min = date.min \/ FieldValid("min", Clock(date).min)
           /\ Clock(date).hour = date.hour \/ FieldValid("hour", Clock(date).hour)
           /\ Clock(date).wday = date.wday \/ FieldValid("wday", Clock(date).wday)
           /\ \/ Clock(date).mday = date.mday \/ FieldValid("mday", Clock(date).mday)
              \/ Clock(date).mday = 0
           /\ \/ Clock(date).mon = date.mon \/ FieldValid("mon", Clock(date).mon)
              \/ Clock(date).mon = 0
           /\ Clock(date).year = date.year \/ FieldValid("year", Clock(date).year)
  <1>0. /\ date.sec \in Byte /\ date.min \in Byte /\ date.hour \in Byte /\ date.wday \in Byte
        /\ date.mday \in Byte /\ date.mon \in Byte /\ date.year \in Byte
    BY DEF Dates, Byte
  <1>1. /\ Bcd(60) = 96 /\ Bcd(24) = 36 /\ Bcd(13) = 19 /\ Bcd(100) = 160
        /\ MdayThresh(date) \in 41 .. 50
    BY DEF Bcd, MdayThresh, Leap
  <1>2. /\ Clock(date).sec = date.sec \/ Clock(date).sec = BCDInc(date.sec, 96, 0)
        /\ Clock(date).min = date.min \/ Clock(date).min = BCDInc(date.min, 96, 0)
        /\ Clock(date).hour = date.hour \/ Clock(date).hour = BCDInc(date.hour, 36, 0)
        /\ Clock(date).wday = date.wday \/ Clock(date).wday = BCDInc(date.wday, 7, 0)
        /\ \/ Clock(date).mday = date.mday
           \/ Clock(date).mday = BCDInc(date.mday, MdayThresh(date), 1)
        /\ Clock(date).mon = date.mon \/ Clock(date).mon = BCDInc(date.mon, 19, 1)
        /\ Clock(date).year = date.year \/ Clock(date).year = BCDInc(date.year, 160, 0)
    BY <1>1 DEF Clock
  <1>10. /\ 7 \in Byte /\ 19 \in Byte /\ 36 \in Byte /\ 96 \in Byte /\ 160 \in Byte
         /\ \A n \in 41 .. 50 : n \in Byte
         /\ 0 \in 0 .. 1 /\ 1 \in 0 .. 1
    BY DEF Byte
  <1>3. ASSUME NEW v \in Byte
        PROVE  BCDInc(v, 96, 0) \in Byte /\ (Digits(BCDInc(v, 96, 0), 0, 59))
    <2>1. Below(96, 59) /\ 59 \in 1 .. 99
      BY DEF Below
    <2> QED
      BY <1>10, <2>1, CountedField
  <1>4. ASSUME NEW v \in Byte
        PROVE  BCDInc(v, 36, 0) \in Byte /\ (Digits(BCDInc(v, 36, 0), 0, 23))
    <2>1. Below(36, 23) /\ 23 \in 1 .. 99
      BY DEF Below
    <2> QED
      BY <1>10, <2>1, CountedField
  <1>5. ASSUME NEW v \in Byte
        PROVE  BCDInc(v, 7, 0) \in Byte /\ (Digits(BCDInc(v, 7, 0), 0, 6))
    <2>1. Below(7, 6) /\ 6 \in 1 .. 99
      BY DEF Below
    <2> QED
      BY <1>10, <2>1, CountedField
  <1>8. ASSUME NEW v \in Byte
        PROVE  BCDInc(v, 160, 0) \in Byte /\ (Digits(BCDInc(v, 160, 0), 0, 99))
    <2>1. Below(160, 99) /\ 99 \in 1 .. 99
      BY DEF Below
    <2> QED
      BY <1>10, <2>1, CountedField
  <1>7. ASSUME NEW v \in Byte
        PROVE  BCDInc(v, 19, 1) \in Byte /\ (BCDInc(v, 19, 1) = 0 \/ Digits(BCDInc(v, 19, 1), 1, 12))
    <2>1. Below(19, 12) /\ 12 \in 1 .. 99
      BY DEF Below
    <2> QED
      BY <1>10, <2>1, CountedField
  <1>6. ASSUME NEW v \in Byte, NEW thresh \in 41 .. 50
        PROVE  /\ BCDInc(v, thresh, 1) \in Byte
               /\ BCDInc(v, thresh, 1) = 0 \/ Digits(BCDInc(v, thresh, 1), 1, 31)
    <2>1. Below(thresh, 31) /\ 31 \in 1 .. 99
      BY DEF Below
    <2> QED
      BY <1>10, <2>1, CountedField
  <1>9. Clock(date) \in Dates
    <2> DEFINE t == Clock(date)
    <2>1. t = [sec |-> t.sec, min |-> t.min, hour |-> t.hour, wday |-> t.wday,
               mday |-> t.mday, mon |-> t.mon, year |-> t.year]
      BY DEF Clock
    <2>2. /\ t.sec \in Byte /\ t.min \in Byte /\ t.hour \in Byte /\ t.wday \in Byte
          /\ t.mday \in Byte /\ t.mon \in Byte /\ t.year \in Byte
      BY <1>0, <1>1, <1>2, <1>3, <1>4, <1>5, <1>6, <1>7, <1>8
    <2> HIDE DEF t
    <2>3. t \in Dates
      BY <2>1, <2>2 DEF Dates, Byte
    <2> QED
      BY <2>3 DEF t
  <1> QED
    BY <1>0, <1>1, <1>2, <1>3, <1>4, <1>5, <1>6, <1>7, <1>8, <1>9 DEF FieldValid

-----------------------------------------------------------------------------
(* The bytes of two digits, and the numbers they stand for.                *)
LEMMA TwoDigits ==
    ASSUME NEW v \in Byte, NEW from \in Nat, NEW to \in 0 .. 99, Digits(v, from, to)
    PROVE  \E h \in 0 .. 9, l \in 0 .. 9 :
              /\ v = 16 * h + l /\ v \div 16 = h /\ v % 16 = l
              /\ Number(v) = 10 * h + l /\ 10 * h + l >= from /\ 10 * h + l <= to
  <1>1. v = 16 * (v \div 16) + (v % 16) /\ v \div 16 \in 0 .. 15 /\ v % 16 \in 0 .. 9
    BY DEF Byte, Digits
  <1>2. 10 * (v \div 16) + (v % 16) >= from /\ 10 * (v \div 16) + (v % 16) <= to
    BY <1>1 DEF Digits, Number
  <1>3. v \div 16 \in 0 .. 9
    BY <1>1, <1>2
  <1> QED
    BY <1>1, <1>2, <1>3 DEF Number

LEMMA BcdOrder ==
    ASSUME NEW h \in 0 .. 9, NEW l \in 0 .. 9, NEW n \in 0 .. 100
    PROVE  /\ 16 * h + l >= Bcd(n) <=> 10 * h + l >= n
           /\ 16 * h + l = Bcd(n) <=> 10 * h + l = n
  <1>1. PICK a \in 0 .. 10, b \in 0 .. 9 : n = 10 * a + b /\ Bcd(n) = 16 * a + b
    <2>1. n = 10 * (n \div 10) + (n % 10) /\ n \div 10 \in 0 .. 10 /\ n % 10 \in 0 .. 9
      OBVIOUS
    <2> QED
      BY <2>1 DEF Bcd
  <1> QED
    BY <1>1

(* A field with values from `from` on is counted up to `to`, and is then   *)
(* set back.  (The century's last year is not counted past 0x99 at all.)   *)
LEMMA CountsUp ==
    ASSUME NEW v \in Byte, NEW from \in 0 .. 1, NEW to \in 1 .. 99, to = 99 => from = 0,
           Digits(v, from, to)
    PROVE  /\ Number(v) \in from .. to
           /\ to < 99 => (Wraps(v, Bcd(to + 1)) <=> Number(v) = to)
           /\ Digits(BCDInc(v, Bcd(to + 1), from), from, to)
           /\ Number(BCDInc(v, Bcd(to + 1), from)) = IF Number(v) = to THEN from ELSE Number(v) + 1
  <1>1. PICK h \in 0 .. 9, l \in 0 .. 9 :
              /\ v = 16 * h + l /\ v \div 16 = h /\ v % 16 = l
              /\ Number(v) = 10 * h + l /\ 10 * h + l >= from /\ 10 * h + l <= to
    <2>1. from \in Nat /\ to \in 0 .. 99
      OBVIOUS
    <2> QED
      BY <2>1, TwoDigits
  <1>2. Counted(v) = IF l < 9 THEN 16 * h + (l + 1) ELSE IF h < 9 THEN 16 * (h + 1) + 0 ELSE 0
    <2>1. (v + 1) % 16 = l + 1
      BY <1>1
    <2>2. (16 * h + (l + 1)) % 16 = l + 1 /\ (16 * h + (l + 1)) \div 16 = h
      OBVIOUS
    <2> QED
      BY <1>1, <2>1, <2>2 DEF Counted
  <1>3. \A a, b \in 0 .. 9 : (16 * a + b) \div 16 = a /\ (16 * a + b) % 16 = b
    OBVIOUS
  <1>4. from \div 16 = 0 /\ from % 16 = from /\ Digits(from, from, to) /\ Number(from) = from
    BY DEF Digits, Number
  <1>5. to + 1 \in 0 .. 100
    OBVIOUS
  <1>6. ASSUME NEW a \in 0 .. 9, NEW b \in 0 .. 9, Counted(v) = 16 * a + b,
               10 * a + b = Number(v) + 1
        PROVE  /\ Wraps(v, Bcd(to + 1)) <=> Number(v) = to
               /\ Digits(BCDInc(v, Bcd(to + 1), from), from, to)
               /\ Number(BCDInc(v, Bcd(to + 1), from))
                    = IF Number(v) = to THEN from ELSE Number(v) + 1
    <2>1. Wraps(v, Bcd(to + 1)) <=> 10 * a + b >= to + 1
      BY <1>5, <1>6, BcdOrder DEF Wraps
    <2>2. Wraps(v, Bcd(to + 1)) <=> Number(v) = to
      BY <1>1, <1>6, <2>1
    <2>3. Number(16 * a + b) = 10 * a + b /\ (16 * a + b) % 16 = b
      BY <1>3 DEF Number
    <2>4. CASE Number(v) = to
      BY <1>4, <2>2, <2>4 DEF BCDInc
    <2>5. CASE Number(v) # to
      <3>1. BCDInc(v, Bcd(to + 1), from) = 16 * a + b
        BY <1>6, <2>2, <2>5 DEF BCDInc
      <3>2. 10 * a + b \in from .. to
        BY <1>1, <1>6, <2>5
      <3>3. Digits(16 * a + b, from, to)
        BY <2>3, <3>2 DEF Digits
      <3> QED
        BY <1>6, <2>2, <2>3, <2>5, <3>1, <3>3
    <2> QED
      BY <2>2, <2>4, <2>5
  <1>7. CASE l < 9
    BY <1>1, <1>2, <1>6, <1>7
  <1>8. CASE l = 9 /\ h < 9
    BY <1>1, <1>2, <1>6, <1>8
  <1>9. CASE l = 9 /\ h = 9
    <2>1. to = 99 /\ from = 0 /\ Number(v) = 99 /\ Counted(v) = 0
      BY <1>1, <1>2, <1>9
    <2>2. BCDInc(v, Bcd(to + 1), from) = 0
      BY <2>1 DEF BCDInc
    <2> QED
      BY <1>4, <2>1, <2>2
  <1> QED
    BY <1>1, <1>7, <1>8, <1>9

LEMMA LeapYears ==
    ASSUME NEW v \in Byte, Digits(v, 0, 99)
    PROVE  Leap(v) <=> Number(v) % 4 = 0
  <1>1. PICK h \in 0 .. 9, l \in 0 .. 9 :
              v \div 16 = h /\ v % 16 = l /\ Number(v) = 10 * h + l
    BY TwoDigits
  <1>2. PICK a \in 0 .. 4, b \in 0 .. 1 : h = 2 * a + b /\ h % 2 = b
    <2>1. h = 2 * (h \div 2) + (h % 2) /\ h \div 2 \in 0 .. 4 /\ h % 2 \in 0 .. 1
      OBVIOUS
    <2> QED
      BY <2>1
  <1>3. PICK c \in 0 .. 2, d \in 0 .. 3 : l = 4 * c + d /\ l % 4 = d
    <2>1. l = 4 * (l \div 4) + (l % 4) /\ l \div 4 \in 0 .. 2 /\ l % 4 \in 0 .. 3
      OBVIOUS
    <2> QED
      BY <2>1
  <1>4. Leap(v) <=> d = IF b = 1 THEN 2 ELSE 0
    BY <1>1, <1>2, <1>3 DEF Leap
  <1>5. (10 * h + l) % 4 = (2 * b + d) % 4
    <2>1. 10 * h + l = 4 * (5 * a + 2 * b + c) + (2 * b + d)
      BY <1>2, <1>3
    <2> QED
      BY <2>1
  <1>6. (2 * b + d) % 4 = 0 <=> d = IF b = 1 THEN 2 ELSE 0
    OBVIOUS
  <1> QED
    BY <1>1, <1>4, <1>5, <1>6

LEMMA MonthLengths ==
    ASSUME NEW date \in Dates, DateValid(date)
    PROVE  /\ Number(date.mday) <= MonthDays(Number(date.year), Number(date.mon))
           /\ MonthDays(Number(date.year), Number(date.mon)) \in 28 .. 31
           /\ MdayThresh(date) = Bcd(MonthDays(Number(date.year), Number(date.mon)) + 1)
  <1>1. date.mon \in Byte /\ date.year \in Byte
    BY DEF Dates, Byte
  <1>2. Digits(date.mon, 1, 12) /\ Digits(date.year, 0, 99)
    <2>1. FieldValid("mon", date.mon) /\ FieldValid("year", date.year)
      BY DEF DateValid, Dates
    <2> QED
      BY <2>1 DEF FieldValid
  <1>3. PICK h \in 0 .. 9, l \in 0 .. 9 :
              /\ date.mon = 16 * h + l /\ date.mon \div 16 = h /\ date.mon % 16 = l
              /\ Number(date.mon) = 10 * h + l /\ 10 * h + l >= 1 /\ 10 * h + l <= 12
    <2>1. 1 \in Nat /\ 12 \in 0 .. 99
      OBVIOUS
    <2> QED
      BY ONLY <1>1, <1>2, <2>1, TwoDigits
  <1>4. \A n \in {2, 4, 6, 9, 11} : date.mon = Bcd(n) <=> Number(date.mon) = n
    BY <1>3, BcdOrder
  <1>5. Leap(date.year) <=> Number(date.year) % 4 = 0
    BY <1>1, <1>2, LeapYears
  <1>6. /\ MonthDays(Number(date.year), Number(date.mon)) \in 28 .. 31
        /\ MdayThresh(date) = Bcd(MonthDays(Number(date.year), Number(date.mon)) + 1)
    BY <1>4, <1>5 DEF MdayThresh, MonthDays
  <1> QED
    BY <1>6 DEF DateValid

(* What a tick does to the numbers of a date.                              *)
LEMMA TickedNumbers ==
    ASSUME NEW date \in Dates, DateValid(date)
    PROVE  LET N(f) == Number(date[f])
               T(f) == Number(Clock(date)[f])
               days == MonthDays(N("year"), N("mon"))
               minute == N("sec") = 59
               hour == minute /\ N("min") = 59
               day == hour /\ N("hour") = 23
               month == day /\ N("mday") = days
               year == month /\ N("mon") = 12
           IN  /\ T("sec") = IF minute THEN 0 ELSE N("sec") + 1
               /\ T("min") = IF minute THEN IF hour THEN 0 ELSE N("min") + 1 ELSE N("min")
               /\ T("hour") = IF hour THEN IF day THEN 0 ELSE N("hour") + 1 ELSE N("hour")
               /\ T("wday") = IF day THEN IF N("wday") = 6 THEN 0 ELSE N("wday") + 1 ELSE N("wday")
               /\ T("mday") = IF day THEN IF month THEN 1 ELSE N("mday") + 1 ELSE N("mday")
               /\ T("mon") = IF month THEN IF year THEN 1 ELSE N("mon") + 1 ELSE N("mon")
               /\ T("year") = IF year THEN IF N("year") = 99 THEN 0 ELSE N("year") + 1 ELSE N("year")
               /\ DateValid(Clock(date))
  <1>1. /\ date.sec \in Byte /\ date.min \in Byte /\ date.hour \in Byte /\ date.wday \in Byte
        /\ date.mday \in Byte /\ date.mon \in Byte /\ date.year \in Byte
    BY DEF Dates, Byte
  <1>2. /\ Digits(date.sec, 0, 59) /\ Digits(date.min, 0, 59) /\ Digits(date.hour, 0, 23)
        /\ Digits(date.wday, 0, 6) /\ Digits(date.mon, 1, 12) /\ Digits(date.year, 0, 99)
        /\ Digits(date.mday, 1, 31)
    <2>1. \A f \in {"year", "mon", "mday", "wday", "hour", "min", "sec"} : FieldValid(f, date[f])
      BY DEF DateValid, Dates
    <2> QED
      BY <2>1 DEF FieldValid
  <1> DEFINE days == MonthDays(Number(date.year), Number(date.mon))
  <1>3. Number(date.mday) <= days /\ days \in 28 .. 31 /\ MdayThresh(date) = Bcd(days + 1)
    BY MonthLengths
  <1> HIDE DEF days
  <1>4. Digits(date.mday, 1, days)
    BY <1>2, <1>3 DEF Digits
  <1> DEFINE c == Clock(date)
  <1>5. ASSUME NEW v \in Byte, NEW from \in 0 .. 1, NEW to \in 1 .. 98, NEW n, n = to + 1,
               Digits(v, from, to)
        PROVE  /\ Number(v) \in from .. to
               /\ Wraps(v, Bcd(n)) <=> Number(v) = to
               /\ Digits(BCDInc(v, Bcd(n), from), from, to)
               /\ Number(BCDInc(v, Bcd(n), from)) = IF Number(v) = to THEN from ELSE Number(v) + 1
    <2>1. to \in 1 .. 99 /\ to < 99 /\ to # 99
      OBVIOUS
    <2>2. /\ Number(v) \in from .. to
          /\ Wraps(v, Bcd(to + 1)) <=> Number(v) = to
          /\ Digits(BCDInc(v, Bcd(to + 1), from), from, to)
          /\ Number(BCDInc(v, Bcd(to + 1), from)) = IF Number(v) = to THEN from ELSE Number(v) + 1
      BY <1>5, <2>1, CountsUp
    <2> QED
      BY <1>5, <2>2
  <1>6. /\ Number(date.sec) \in 0 .. 59 /\ (Wraps(date.sec, Bcd(60)) <=> Number(date.sec) = 59)
        /\ Digits(BCDInc(date.sec, Bcd(60), 0), 0, 59)
        /\ Number(BCDInc(date.sec, Bcd(60), 0)) = IF Number(date.sec) = 59 THEN 0 ELSE Number(date.sec) + 1
    BY <1>1, <1>2, <1>5
  <1>7. /\ Number(date.min) \in 0 .. 59 /\ (Wraps(date.min, Bcd(60)) <=> Number(date.min) = 59)
        /\ Digits(BCDInc(date.min, Bcd(60), 0), 0, 59)
        /\ Number(BCDInc(date.min, Bcd(60), 0)) = IF Number(date.min) = 59 THEN 0 ELSE Number(date.min) + 1
    BY <1>1, <1>2, <1>5
  <1>8. /\ Number(date.hour) \in 0 .. 23 /\ (Wraps(date.hour, Bcd(24)) <=> Number(date.hour) = 23)
        /\ Digits(BCDInc(date.hour, Bcd(24), 0), 0, 23)
        /\ Number(BCDInc(date.hour, Bcd(24), 0)) = IF Number(date.hour) = 23 THEN 0 ELSE Number(date.hour) + 1
    BY <1>1, <1>2, <1>5
  <1>9. /\ Number(date.wday) \in 0 .. 6
        /\ Digits(BCDInc(date.wday, 7, 0), 0, 6)
        /\ Number(BCDInc(date.wday, 7, 0)) = IF Number(date.wday) = 6 THEN 0 ELSE Number(date.wday) + 1
    <2>1. Bcd(7) = 7
      BY DEF Bcd
    <2> QED
      BY <1>1, <1>2, <1>5, <2>1
  <1>10. /\ Number(date.mday) \in 1 .. days
         /\ Wraps(date.mday, MdayThresh(date)) <=> Number(date.mday) = days
         /\ Digits(BCDInc(date.mday, MdayThresh(date), 1), 1, days)
         /\ Number(BCDInc(date.mday, MdayThresh(date), 1))
              = IF Number(date.mday) = days THEN 1 ELSE Number(date.mday) + 1
    BY <1>1, <1>3, <1>4, <1>5
  <1>11. /\ Number(date.mon) \in 1 .. 12 /\ (Wraps(date.mon, Bcd(13)) <=> Number(date.mon) = 12)
         /\ Digits(BCDInc(date.mon, Bcd(13), 1), 1, 12)
         /\ Number(BCDInc(date.mon, Bcd(13), 1)) = IF Number(date.mon) = 12 THEN 1 ELSE Number(date.mon) + 1
    BY <1>1, <1>2, <1>5
  <1>12. /\ Number(date.year) \in 0 .. 99
         /\ Digits(BCDInc(date.year, Bcd(100), 0), 0, 99)
         /\ Number(BCDInc(date.year, Bcd(100), 0)) = IF Number(date.year) = 99 THEN 0 ELSE Number(date.year) + 1
    <2>1. 99 + 1 = 100 /\ 99 \in 1 .. 99 /\ 0 \in 0 .. 1
      OBVIOUS
    <2> QED
      BY <1>1, <1>2, <2>1, CountsUp
  <1> DEFINE minute == Number(date.sec) = 59
             hour == minute /\ Number(date.min) = 59
             day == hour /\ Number(date.hour) = 23
             month == day /\ Number(date.mday) = days
             year == month /\ Number(date.mon) = 12
  <1>13. /\ c.sec = BCDInc(date.sec, Bcd(60), 0)
         /\ c.min = IF minute THEN BCDInc(date.min, Bcd(60), 0) ELSE date.min
         /\ c.hour = IF hour THEN BCDInc(date.hour, Bcd(24), 0) ELSE date.hour
         /\ c.wday = IF day THEN BCDInc(date.wday, 7, 0) ELSE date.wday
         /\ c.mday = IF day THEN BCDInc(date.mday, MdayThresh(date), 1) ELSE date.mday
         /\ c.mon = IF month THEN BCDInc(date.mon, Bcd(13), 1) ELSE date.mon
         /\ c.year = IF year THEN BCDInc(date.year, Bcd(100), 0) ELSE date.year
    BY <1>6, <1>7, <1>8, <1>10, <1>11 DEF Clock
  <1>14. /\ Number(c.sec) = IF minute THEN 0 ELSE Number(date.sec) + 1
         /\ Number(c.min) = IF minute THEN IF hour THEN 0 ELSE Number(date.min) + 1 ELSE Number(date.min)
         /\ Number(c.hour) = IF hour THEN IF day THEN 0 ELSE Number(date.hour) + 1 ELSE Number(date.hour)
         /\ Number(c.wday) = IF day THEN IF Number(date.wday) = 6 THEN 0 ELSE Number(date.wday) + 1
                             ELSE Number(date.wday)
         /\ Number(c.mday) = IF day THEN IF month THEN 1 ELSE Number(date.mday) + 1 ELSE Number(date.mday)
         /\ Number(c.mon) = IF month THEN IF year THEN 1 ELSE Number(date.mon) + 1 ELSE Number(date.mon)
         /\ Number(c.year) = IF year THEN IF Number(date.year) = 99 THEN 0 ELSE Number(date.year) + 1
                             ELSE Number(date.year)
    BY <1>6, <1>7, <1>8, <1>9, <1>10, <1>11, <1>12, <1>13
  <1>15. /\ Digits(c.sec, 0, 59) /\ Digits(c.min, 0, 59) /\ Digits(c.hour, 0, 23)
         /\ Digits(c.wday, 0, 6) /\ Digits(c.mon, 1, 12) /\ Digits(c.year, 0, 99)
         /\ Digits(c.mday, 1, days)
    BY <1>2, <1>4, <1>6, <1>7, <1>8, <1>9, <1>10, <1>11, <1>12, <1>13
  <1>16. c \in Dates
    BY TickedFields
  <1> HIDE DEF c
  <1>17. Number(c.mday) <= MonthDays(Number(c.year), Number(c.mon))
    <2>1. CASE month
      <3>1. Number(c.mday) = 1
        BY <1>14, <2>1
      <3> QED
        BY <3>1 DEF MonthDays
    <2>2. CASE ~month
      <3>1. Number(c.year) = Number(date.year) /\ Number(c.mon) = Number(date.mon)
        BY <1>14, <2>2
      <3>2. Number(c.mday) <= days
        BY <1>3, <1>10, <1>14, <2>2
      <3> QED
        BY <3>1, <3>2 DEF days
    <2> QED
      BY <2>1, <2>2
  <1>18. Digits(c.mday, 1, 31)
    BY <1>3, <1>15 DEF Digits
  <1>19. \A f \in DOMAIN c : FieldValid(f, c[f])
    <2>1. DOMAIN c = {"year", "mon", "mday", "wday", "hour", "min", "sec"}
      BY <1>16 DEF Dates
    <2> QED
      BY <1>15, <1>18, <2>1 DEF FieldValid
  <1>20. DateValid(c)
    BY <1>17, <1>19 DEF DateValid
  <1> QED
    BY <1>14, <1>20 DEF c, days

(* The days of a year before a month: the recursive definition, and the    *)
(* table it comes to.                                                      *)
DaysBefore(y) ==
    CHOOSE f : f = [k \in 1 .. 12 |-> IF k = 1 THEN 0 ELSE f[k - 1] + MonthDays(y, k - 1)]
LeapDay(y) == IF y % 4 = 0 THEN 1 ELSE 0
YearDays(y) == 365 + LeapDay(y)
DayAfter(n) == (n + 1) % 36525
DaysTable(y) ==
    [k \in 1 .. 12 |->
       CASE k = 1 -> 0 [] k = 2 -> 31 [] k = 3 -> 59 + LeapDay(y) [] k = 4 -> 90 + LeapDay(y)
         [] k = 5 -> 120 + LeapDay(y) [] k = 6 -> 151 + LeapDay(y) [] k = 7 -> 181 + LeapDay(y)
         [] k = 8 -> 212 + LeapDay(y) [] k = 9 -> 243 + LeapDay(y) [] k = 10 -> 273 + LeapDay(y)
         [] k = 11 -> 304 + LeapDay(y) [] OTHER -> 334 + LeapDay(y)]

LEMMA DaysCounted ==
    ASSUME NEW y, NEW m, NEW d
    PROVE  DayNumber(y, m, d) = 365 * y + ((y + 3) \div 4) + DaysBefore(y)[m] + d - 1
  BY DEF DayNumber, DaysBefore

LEMMA DaysBeforeMonth ==
    ASSUME NEW y \in 0 .. 99
    PROVE  /\ DaysBefore(y)[1] = 0 /\ DaysBefore(y)[12] = 334 + LeapDay(y)
           /\ \A m \in 1 .. 12 : DaysBefore(y)[m] \in 0 .. 335
           /\ \A m \in 1 .. 12 : DaysBefore(y)[m] + MonthDays(y, m) <= YearDays(y)
           /\ \A m \in 1 .. 11 : DaysBefore(y)[m + 1] = DaysBefore(y)[m] + MonthDays(y, m)
  <1> DEFINE Is(f) == f = [k \in 1 .. 12 |-> IF k = 1 THEN 0 ELSE f[k - 1] + MonthDays(y, k - 1)]
             T == DaysTable(y)
             F == DaysBefore(y)
  <1>0. LeapDay(y) \in 0 .. 1
    BY DEF LeapDay
  <1>1. /\ MonthDays(y, 1) = 31 /\ MonthDays(y, 2) = 28 + LeapDay(y) /\ MonthDays(y, 3) = 31
        /\ MonthDays(y, 4) = 30 /\ MonthDays(y, 5) = 31 /\ MonthDays(y, 6) = 30
        /\ MonthDays(y, 7) = 31 /\ MonthDays(y, 8) = 31 /\ MonthDays(y, 9) = 30
        /\ MonthDays(y, 10) = 31 /\ MonthDays(y, 11) = 30 /\ MonthDays(y, 12) = 31
    BY DEF MonthDays, LeapDay
  <1>2. Is(T)
    <2>1. \A k \in 1 .. 12 : T[k] = IF k = 1 THEN 0 ELSE T[k - 1] + MonthDays(y, k - 1)
      <3> SUFFICES ASSUME NEW k \in 1 .. 12
                   PROVE  T[k] = IF k = 1 THEN 0 ELSE T[k - 1] + MonthDays(y, k - 1)
        OBVIOUS
      <3>1. /\ T[1] = 0 /\ T[2] = 31 /\ T[3] = 59 + LeapDay(y) /\ T[4] = 90 + LeapDay(y)
            /\ T[5] = 120 + LeapDay(y) /\ T[6] = 151 + LeapDay(y) /\ T[7] = 181 + LeapDay(y)
            /\ T[8] = 212 + LeapDay(y) /\ T[9] = 243 + LeapDay(y) /\ T[10] = 273 + LeapDay(y)
            /\ T[11] = 304 + LeapDay(y) /\ T[12] = 334 + LeapDay(y)
        BY DEF DaysTable
      <3> HIDE DEF T
      <3>2. k = 1 \/ k = 2 \/ k = 3 \/ k = 4 \/ k = 5 \/ k = 6 \/ k = 7 \/ k = 8 \/ k = 9
            \/ k = 10 \/ k = 11 \/ k = 12
        OBVIOUS
      <3> QED
        BY <1>0, <1>1, <3>1, <3>2
    <2>2. T = [k \in 1 .. 12 |-> T[k]]
      BY DEF DaysTable
    <2> HIDE DEF T
    <2> QED
      BY <2>1, <2>2
  <1>3. Is(F)
    BY <1>2 DEF DaysBefore
  <1> HIDE DEF F
  <1>5. \A k \in 1 .. 12 : F[k] = IF k = 1 THEN 0 ELSE F[k - 1] + MonthDays(y, k - 1)
    BY <1>3
  <1>6. /\ F[1] = 0 /\ F[2] = 31 /\ F[3] = 59 + LeapDay(y) /\ F[4] = 90 + LeapDay(y)
        /\ F[5] = 120 + LeapDay(y) /\ F[6] = 151 + LeapDay(y) /\ F[7] = 181 + LeapDay(y)
        /\ F[8] = 212 + LeapDay(y) /\ F[9] = 243 + LeapDay(y) /\ F[10] = 273 + LeapDay(y)
        /\ F[11] = 304 + LeapDay(y) /\ F[12] = 334 + LeapDay(y)
    <2>1. F[1] = 0 /\ F[2] = F[1] + MonthDays(y, 1) /\ F[3] = F[2] + MonthDays(y, 2)
      BY <1>5
    <2>2. F[4] = F[3] + MonthDays(y, 3) /\ F[5] = F[4] + MonthDays(y, 4) /\ F[6] = F[5] + MonthDays(y, 5)
      BY <1>5
    <2>3. F[7] = F[6] + MonthDays(y, 6) /\ F[8] = F[7] + MonthDays(y, 7) /\ F[9] = F[8] + MonthDays(y, 8)
      BY <1>5
    <2>4. F[10] = F[9] + MonthDays(y, 9) /\ F[11] = F[10] + MonthDays(y, 10) /\ F[12] = F[11] + MonthDays(y, 11)
      BY <1>5
    <2> QED
      BY <1>0, <1>1, <2>1, <2>2, <2>3, <2>4
  <1>7. \A m \in 1 .. 12 : F[m] \in 0 .. 335 /\ F[m] + MonthDays(y, m) <= YearDays(y)
    <2> SUFFICES ASSUME NEW m \in 1 .. 12
                 PROVE  F[m] \in 0 .. 335 /\ F[m] + MonthDays(y, m) <= YearDays(y)
      OBVIOUS
    <2>1. m = 1 \/ m = 2 \/ m = 3 \/ m = 4 \/ m = 5 \/ m = 6 \/ m = 7 \/ m = 8 \/ m = 9
          \/ m = 10 \/ m = 11 \/ m = 12
      OBVIOUS
    <2> QED
      BY <1>0, <1>1, <1>6, <2>1 DEF YearDays
  <1>8. \A m \in 1 .. 11 : F[m + 1] = F[m] + MonthDays(y, m)
    <2> SUFFICES ASSUME NEW m \in 1 .. 11
                 PROVE  F[m + 1] = F[m] + MonthDays(y, m)
      OBVIOUS
    <2>1. m + 1 \in 1 .. 12 /\ m + 1 # 1 /\ (m + 1) - 1 = m
      OBVIOUS
    <2> QED
      BY <1>5, <2>1
  <1> QED
    BY <1>6, <1>7, <1>8 DEF F

LEMMA LeapDays ==
    ASSUME NEW y \in 0 .. 99
    PROVE  /\ (y + 3) \div 4 \in 0 .. 25
           /\ y < 99 => (y + 4) \div 4 = ((y + 3) \div 4) + LeapDay(y)
           /\ LeapDay(y) \in 0 .. 1 /\ (y = 99 => LeapDay(y) = 0)
           /\ y <= 98 => 365 * y + ((y + 3) \div 4) + LeapDay(y) <= 35796
  <1>1. PICK q \in 0 .. 24, r \in 0 .. 3 : y = 4 * q + r
    <2>1. y = 4 * (y \div 4) + (y % 4) /\ y \div 4 \in 0 .. 24 /\ y % 4 \in 0 .. 3
      OBVIOUS
    <2> QED
      BY <2>1
  <1>2. y % 4 = r
    BY <1>1
  <1>3. (y + 3) \div 4 = IF r = 0 THEN q ELSE q + 1
    BY <1>1
  <1>4. (y + 4) \div 4 = q + 1
    BY <1>1
  <1>5. LeapDay(y) = IF r = 0 THEN 1 ELSE 0
    BY <1>2 DEF LeapDay
  <1> QED
    BY <1>1, <1>3, <1>4, <1>5

(* Modulo, by inequalities: the provers enumerate small intervals.         *)
LEMMA Below36525 ==
    ASSUME NEW x \in Nat, x < 36525
    PROVE  x % 36525 = x
  OBVIOUS

(* The day after a day of the century.                                     *)
LEMMA NextDay ==
    ASSUME NEW y \in 0 .. 99, NEW m \in 1 .. 12, NEW d \in 1 .. MonthDays(y, m)
    PROVE  LET tomorrow == DayAfter(DayNumber(y, m, d))
               over == d = MonthDays(y, m)
           IN  /\ ~over => DayNumber(y, m, d + 1) = tomorrow
               /\ over /\ m # 12 => DayNumber(y, m + 1, 1) = tomorrow
               /\ over /\ m = 12 /\ y # 99 => DayNumber(y + 1, 1, 1) = tomorrow
               /\ over /\ m = 12 /\ y = 99 => DayNumber(0, 1, 1) = tomorrow
  <1> DEFINE B == DaysBefore(y)
             A == (y + 3) \div 4
             N == MonthDays(y, m)
  <1>1. N \in 28 .. 31
    BY DEF MonthDays
  <1> HIDE DEF N
  <1>2. d \in 1 .. N /\ d \in Nat /\ d + 1 \in Nat /\ 1 \in Nat /\ m + 1 \in 1 .. 13
    BY <1>1 DEF N
  <1>3. \A k, n : DayNumber(y, k, n) = 365 * y + A + B[k] + n - 1
    BY DaysCounted
  <1>4. /\ A \in 0 .. 25 /\ LeapDay(y) \in 0 .. 1 /\ (y = 99 => LeapDay(y) = 0)
        /\ y <= 98 => 365 * y + A + LeapDay(y) <= 35796
        /\ y < 99 => (y + 4) \div 4 = A + LeapDay(y)
    BY LeapDays
  <1>5. B[m] \in 0 .. 335 /\ B[m] + N <= 365 + LeapDay(y)
    <2>1. B[m] \in 0 .. 335 /\ B[m] + MonthDays(y, m) <= YearDays(y)
      BY DaysBeforeMonth, Zenon
    <2> QED
      BY <2>1 DEF N, YearDays
  <1>6. CASE d # N
    <2> HIDE DEF A, B
    <2>1. DayNumber(y, m, d + 1) = 365 * y + A + B[m] + (d + 1) - 1
      BY <1>2, <1>3
    <2> DEFINE x == 365 * y + A + B[m] + d
    <2>2. x \in Nat /\ x = 365 * y + A + B[m] + d
      BY <1>2, <1>4, <1>5
    <2> HIDE DEF x
    <2>3. x < 36525
      <3>1. CASE y = 99
        BY <1>1, <1>2, <1>4, <1>5, <1>6, <2>2, <3>1
      <3>2. CASE y <= 98
        BY <1>1, <1>2, <1>4, <1>5, <1>6, <2>2, <3>2
      <3> QED
        BY <3>1, <3>2
    <2>4. DayNumber(y, m, d) = 365 * y + A + B[m] + d - 1
      BY <1>2, <1>3
    <2>5. DayNumber(y, m, d) + 1 = x /\ DayNumber(y, m, d + 1) = x
      <3>1. A \in Int /\ B[m] \in Int /\ d \in Int /\ 365 * y \in Int
        BY <1>2, <1>4, <1>5
      <3>2. DayNumber(y, m, d) + 1 = x
        BY <2>2, <2>4, <3>1
      <3>3. DayNumber(y, m, d + 1) = x
        BY <2>1, <2>2, <3>1
      <3> QED
        BY <3>2, <3>3
    <2>6. DayNumber(y, m, d + 1) = DayAfter(DayNumber(y, m, d))
      BY <2>2, <2>3, <2>5, Below36525 DEF DayAfter
    <2> QED
      BY <1>6, <2>6 DEF N
  <1>7. CASE d = N /\ m # 12
    <2>0. m \in 1 .. 11 /\ m + 1 \in 1 .. 12
      BY <1>7
    <2>1. DayNumber(y, m + 1, 1) = 365 * y + A + B[m + 1] + 1 - 1
      BY <1>2, <1>3, <2>0
    <2>2. B[m + 1] = B[m] + N
      BY <2>0, DaysBeforeMonth, Zenon DEF N
    <2>3. B[m + 1] \in 0 .. 335
      BY <2>0, DaysBeforeMonth, Zenon
    <2> HIDE DEF A, B
    <2> DEFINE x == 365 * y + A + B[m + 1]
    <2>4. x \in Nat /\ x = 365 * y + A + B[m + 1]
      BY <1>4, <2>3
    <2> HIDE DEF x
    <2>5. x < 36525
      BY <1>4, <2>3, <2>4
    <2>6. DayNumber(y, m, d) = 365 * y + A + B[m] + d - 1
      BY <1>2, <1>3
    <2>7. DayNumber(y, m, d) + 1 = x /\ DayNumber(y, m + 1, 1) = x
      BY <1>1, <1>2, <1>4, <1>5, <1>7, <2>1, <2>2, <2>3, <2>4, <2>6
    <2>8. DayNumber(y, m + 1, 1) = DayAfter(DayNumber(y, m, d))
      BY <2>4, <2>5, <2>7, Below36525 DEF DayAfter
    <2> QED
      BY <1>7, <2>8 DEF N
  <1>8. CASE d = N /\ m = 12
    <2>1. N = 31
      BY <1>8 DEF MonthDays, N
    <2>2. B[12] = 334 + LeapDay(y)
      BY DaysBeforeMonth, Zenon
    <2> HIDE DEF A, B
    <2>3. DayNumber(y, m, d) + 1 = 365 * y + A + 365 + LeapDay(y)
      BY <1>3, <1>4, <1>8, <2>1, <2>2
    <2>4. \A z \in 0 .. 99 : DayNumber(z, 1, 1) = 365 * z + ((z + 3) \div 4)
      <3> SUFFICES ASSUME NEW z \in 0 .. 99
                   PROVE  DayNumber(z, 1, 1) = 365 * z + ((z + 3) \div 4)
        OBVIOUS
      <3>2. DayNumber(z, 1, 1) = 365 * z + ((z + 3) \div 4) + DaysBefore(z)[1] + 1 - 1
        BY DaysCounted
      <3>3. DaysBefore(z)[1] = 0
        BY DaysBeforeMonth, Zenon
      <3> QED
        BY <3>2, <3>3
    <2>5. CASE y = 99
      <3>1. LeapDay(y) = 0 /\ A = 25
        BY <2>5, <1>4 DEF A
      <3>2. DayNumber(y, m, d) + 1 = 36525
        BY <2>3, <2>5, <3>1
      <3>3. DayNumber(0, 1, 1) = 0
        BY <2>4
      <3>4. DayAfter(DayNumber(y, m, d)) = 0
        BY <3>2 DEF DayAfter
      <3> QED
        BY <1>8, <2>5, <3>3, <3>4 DEF N
    <2>6. CASE y # 99
      <3>0. y + 1 \in 0 .. 99 /\ y < 99 /\ y <= 98 /\ y + 1 + 3 = y + 4
        BY <2>6
      <3>1. DayNumber(y + 1, 1, 1) = 365 * (y + 1) + A + LeapDay(y)
        BY <1>4, <2>4, <3>0
      <3> DEFINE x == 365 * y + 365 + A + LeapDay(y)
      <3>2. x \in Nat /\ x = 365 * y + 365 + A + LeapDay(y)
        BY <1>4
      <3> HIDE DEF x
      <3>3. x < 36525
        BY <1>4, <3>0, <3>2
      <3>4. DayNumber(y, m, d) + 1 = x /\ DayNumber(y + 1, 1, 1) = x
        BY <1>4, <2>3, <3>1, <3>2
      <3>5. DayNumber(y + 1, 1, 1) = DayAfter(DayNumber(y, m, d))
        BY <3>2, <3>3, <3>4, Below36525 DEF DayAfter
      <3> QED
        BY <1>8, <2>6, <3>5 DEF N
    <2> QED
      BY <2>5, <2>6
  <1> QED
    BY <1>6, <1>7, <1>8

LEMMA NextSecond ==
    ASSUME NEW date \in Dates, DateValid(date)
    PROVE  DateValid(Clock(date)) /\ Moment(Clock(date)) = NextMoment(Moment(date))
  <1> DEFINE Y == Number(date.year)
             M == Number(date.mon)
             D == Number(date.mday)
             W == Number(date.wday)
             H == Number(date.hour)
             I == Number(date.min)
             S == Number(date.sec)
             c == Clock(date)
             days == MonthDays(Y, M)
             minute == S = 59
             hour == minute /\ I = 59
             day == hour /\ H = 23
             month == day /\ D = days
             year == month /\ M = 12
  <1>1. /\ Number(c.sec) = IF minute THEN 0 ELSE S + 1
        /\ Number(c.min) = IF minute THEN IF hour THEN 0 ELSE I + 1 ELSE I
        /\ Number(c.hour) = IF hour THEN IF day THEN 0 ELSE H + 1 ELSE H
        /\ Number(c.wday) = IF day THEN IF W = 6 THEN 0 ELSE W + 1 ELSE W
        /\ Number(c.mday) = IF day THEN IF month THEN 1 ELSE D + 1 ELSE D
        /\ Number(c.mon) = IF month THEN IF year THEN 1 ELSE M + 1 ELSE M
        /\ Number(c.year) = IF year THEN IF Y = 99 THEN 0 ELSE Y + 1 ELSE Y
        /\ DateValid(c)
    BY TickedNumbers
  <1>2. /\ S \in 0 .. 59 /\ I \in 0 .. 59 /\ H \in 0 .. 23 /\ W \in 0 .. 6
        /\ M \in 1 .. 12 /\ Y \in 0 .. 99 /\ D \in 1 .. days
    <2>1. \A f \in {"year", "mon", "mday", "wday", "hour", "min", "sec"} : FieldValid(f, date[f])
      BY DEF DateValid, Dates
    <2>2. /\ S \in 0 .. 59 /\ I \in 0 .. 59 /\ H \in 0 .. 23 /\ W \in 0 .. 6
          /\ M \in 1 .. 12 /\ Y \in 0 .. 99 /\ D \in 1 .. 31
      BY <2>1 DEF FieldValid, Digits
    <2>3. D <= days
      BY DEF DateValid
    <2>4. days \in 28 .. 31
      BY DEF MonthDays
    <2> QED
      BY <2>2, <2>3, <2>4
  <1> DEFINE N1 == DayNumber(Y, M, D)
             N2 == DayNumber(Number(c.year), Number(c.mon), Number(c.mday))
             s1 == 3600 * H + 60 * I + S
             s2 == 3600 * Number(c.hour) + 60 * Number(c.min) + Number(c.sec)
  <1>3. day => N2 = DayAfter(N1)
    <2> SUFFICES ASSUME day PROVE N2 = DayAfter(N1)
      OBVIOUS
    <2> DEFINE d2 == Number(c.mday)
               m2 == Number(c.mon)
               y2 == Number(c.year)
    <2>1. /\ d2 = IF D = days THEN 1 ELSE D + 1
          /\ m2 = IF D = days THEN IF M = 12 THEN 1 ELSE M + 1 ELSE M
          /\ y2 = IF D = days /\ M = 12 THEN IF Y = 99 THEN 0 ELSE Y + 1 ELSE Y
      BY <1>1
    <2> HIDE DEF d2, m2, y2, D, M, Y, W, H, I, S, c, day
    <2>2. Y \in 0 .. 99 /\ M \in 1 .. 12 /\ D \in 1 .. MonthDays(Y, M)
      BY <1>2
    <2>3. /\ D # days => DayNumber(Y, M, D + 1) = DayAfter(DayNumber(Y, M, D))
          /\ D = days /\ M # 12 => DayNumber(Y, M + 1, 1) = DayAfter(DayNumber(Y, M, D))
          /\ D = days /\ M = 12 /\ Y # 99 => DayNumber(Y + 1, 1, 1) = DayAfter(DayNumber(Y, M, D))
          /\ D = days /\ M = 12 /\ Y = 99 => DayNumber(0, 1, 1) = DayAfter(DayNumber(Y, M, D))
      BY <2>2, NextDay
    <2>4. DayNumber(y2, m2, d2) = DayAfter(DayNumber(Y, M, D))
      BY <2>1, <2>3
    <2> QED
      BY <2>4 DEF y2, m2, d2
  <1>4. ~day => N2 = N1 /\ Number(c.wday) = W
    BY <1>1
  <1>5. day => Number(c.wday) = (W + 1) % 7
    BY <1>1, <1>2
  <1>6. day <=> ~(s1 < 86399)
    <2>1. CASE day
      BY <2>1
    <2>2. CASE ~day
      <3>1. S <= 59 /\ I <= 59 /\ H <= 23 /\ (S <= 58 \/ I <= 58 \/ H <= 22) /\ S \in Int /\ I \in Int /\ H \in Int
        BY <1>2, <2>2
      <3> HIDE DEF S, I, H
      <3>2. s1 < 86399
        BY <3>1
      <3> QED
        BY <2>2, <3>2
    <2> QED
      BY <2>1, <2>2
  <1>7. s2 = IF day THEN 0 ELSE s1 + 1
    <2> DEFINE sec == Number(c.sec)
               min == Number(c.min)
               hr == Number(c.hour)
    <2>1. /\ sec = IF minute THEN 0 ELSE S + 1
          /\ min = IF minute THEN IF hour THEN 0 ELSE I + 1 ELSE I
          /\ hr = IF hour THEN IF day THEN 0 ELSE H + 1 ELSE H
      BY <1>1
    <2>2. S \in Int /\ I \in Int /\ H \in Int /\ s2 = 3600 * hr + 60 * min + sec
      BY <1>2
    <2> HIDE DEF S, I, H, sec, min, hr, s2
    <2> QED
      BY <2>1, <2>2
  <1>8. Moment(date) = <<N1, W, s1>> /\ Moment(c) = <<N2, Number(c.wday), s2>>
    BY DEF Moment
  <1> HIDE DEF N1, N2, s1, s2, day, W
  <1>9. NextMoment(<<N1, W, s1>>) =
          IF s1 < 86399 THEN <<N1, W, s1 + 1>> ELSE <<DayAfter(N1), (W + 1) % 7, 0>>
    BY DEF NextMoment, DayAfter
  <1>10. CASE day
    <2>1. N2 = DayAfter(N1) /\ Number(c.wday) = (W + 1) % 7 /\ s2 = 0 /\ ~(s1 < 86399)
      BY <1>3, <1>5, <1>6, <1>7, <1>10
    <2> QED
      BY <1>1, <1>8, <1>9, <2>1
  <1>11. CASE ~day
    <2>1. N2 = N1 /\ Number(c.wday) = W /\ s2 = s1 + 1 /\ s1 < 86399
      BY <1>4, <1>6, <1>7, <1>11
    <2> QED
      BY <1>1, <1>8, <1>9, <2>1
  <1> QED
    BY <1>10, <1>11

-----------------------------------------------------------------------------
(* Who changes the clock, the EEPROMs, the display and the save.           *)

LEMMA PortsKeep ==
    ASSUME Program
    PROVE  /\ pc' = pc /\ saved' = saved /\ pc # "host"
           /\ rtc' = rtc \/ ClockPorts
           /\ eeproms' = eeproms \/ EepromPorts
           /\ display' = display \/ DisplayPorts
           /\ int' = int \/ InterruptPorts
  <1> USE DEF Register, Running, cpuVars, deviceVars
  <1>1. CASE InterruptPorts
    BY <1>1 DEF InterruptPorts, SetInt
  <1>2. CASE DisplayPorts
    BY <1>2 DEF DisplayPorts, SetDisplay, SetCompare, SetSprites, SetTotal, SetTimers, SetColour
  <1>3. CASE ClockPorts
    BY <1>3 DEF ClockPorts, SetRtc
  <1>4. CASE EepromPorts
    BY <1>4 DEF EepromPorts, SetEeprom
  <1>5. CASE DmaPorts
    BY <1>5 DEF DmaPorts, SetDma, SetSdma, StartDma
  <1>6. CASE SoundPorts
    BY <1>6 DEF SoundPorts, SetSound
  <1>7. CASE \E a \in 0 .. RamBytes - 1, byte \in Byte : RamWrite(a, byte)
    BY <1>7 DEF RamWrite
  <1>8. CASE \E cycles \in Nat \ {0} : Compute(cycles)
    BY <1>8 DEF Compute
  <1>9. CASE Halt
    BY <1>9 DEF Halt
  <1> QED
    BY <1>1, <1>2, <1>3, <1>4, <1>5, <1>6, <1>7, <1>8, <1>9 DEF Program

LEMMA StepsKeep ==
    ASSUME [Next]_vars
    PROVE  /\ rtc' = rtc \/ EndLine \/ ClockPorts \/ Reset \/ Load
           /\ eeproms' = eeproms \/ EepromPorts \/ Reset \/ Load
           /\ display' = display \/ BeginLine \/ LateLine \/ DisplayPorts \/ Reset \/ Load
           /\ int' = int \/ BeginLine \/ LateLine \/ InterruptPorts \/ Reset \/ Load
           /\ saved' = saved \/ Save
  <1> USE DEF cpuVars, deviceVars
  <1>1. CASE Line
    BY <1>1 DEF Line, BeginLine, MidLine, LateLine, EndLine
  <1>2. CASE Program
    BY <1>2, PortsKeep
  <1>3. CASE Sleep \/ Wake \/ Emulate
    BY <1>3 DEF Sleep, Wake, Emulate
  <1>4. CASE Reset \/ Load
    BY <1>4 DEF Reset, Load
  <1>5. CASE Save
    BY <1>5 DEF Save
  <1>6. CASE UNCHANGED vars
    BY <1>6 DEF vars
  <1> QED
    BY <1>1, <1>2, <1>3, <1>4, <1>5, <1>6 DEF Next, Host

-----------------------------------------------------------------------------
(* The interrupt controller.                                               *)

IntInv == InterruptTyped /\ AlwaysTold

(* The proofs about the UART have the lemmas about the controller's        *)
(* functions, which are the same functions under another name.  The UART   *)
(* is not part of this composition, and anything it may be will do here.   *)
Uart == INSTANCE WsCommProofs WITH
    PipeSize <- 1, Data <- {},
    uartOn <- FALSE, sendBuf <- 0, sendLatched <- FALSE, recvBuf <- 0, recvLatched <- FALSE,
    toFar <- <<>>, toConsole <- <<>>, farEnd <- "none",
    wrote <- <<>>, farGot <- <<>>, farSent <- <<>>, consoleGot <- <<>>, loaded <- FALSE

LEMMA SameController ==
    /\ Uart!Sources = Sources /\ Uart!Controllers = Controllers
    /\ Uart!InterruptReset = InterruptReset
    /\ \A i \in Controllers : (Uart!Fresh(i) <=> Fresh(i)) /\ (Uart!Held(i) <=> Held(i))
    /\ \A i \in Controllers, which \in Sources, on \in BOOLEAN :
          Uart!InterruptAssert(i, which, on) = InterruptAssert(i, which, on)
    /\ \A i \in Controllers, which \in Sources :
          Uart!Interrupt(i, which) = Interrupt(i, which)
    /\ \A i \in Controllers, byte \in 0 .. 255 : Uart!WriteBase(i, byte) = WriteBase(i, byte)
    /\ \A i \in Controllers, bits \in SUBSET Sources :
          /\ Uart!WriteEnable(i, bits) = WriteEnable(i, bits)
          /\ Uart!Acknowledge(i, bits) = Acknowledge(i, bits)
    /\ \A i \in Controllers, present \in Controllers :
          Uart!InterruptLoad(present, i) = InterruptLoad(present, i)
  BY DEF Sources, Uart!Sources, Controllers, Uart!Controllers, Bases, Uart!Bases,
         Caches, Uart!Caches, Highest, Uart!Highest, CacheOf, Uart!CacheOf,
         LevelTriggered, Uart!LevelTriggered, Recalc, Uart!Recalc,
         InterruptReset, Uart!InterruptReset, Fresh, Uart!Fresh, Held, Uart!Held,
         InterruptAssert, Uart!InterruptAssert, Interrupt, Uart!Interrupt,
         WriteBase, Uart!WriteBase, WriteEnable, Uart!WriteEnable,
         Acknowledge, Uart!Acknowledge, InterruptLoad, Uart!InterruptLoad

(* What a controller is like after any of its functions, with these lines. *)
Announcing(new, lines) ==
    new \in Controllers /\ Fresh(new) /\ Held(new) /\ new.asserted = lines

LEMMA SameAnnouncing ==
    ASSUME NEW new, NEW lines, Uart!Announcing(new, lines)
    PROVE  Announcing(new, lines)
  BY SameController DEF Announcing, Uart!Announcing

LEMMA Controlled ==
    ASSUME NEW old \in Controllers
    PROVE  /\ \A which \in Sources : Announcing(Interrupt(old, which), old.asserted)
           /\ \A byte \in 0 .. 255 : Announcing(WriteBase(old, byte), old.asserted)
           /\ \A bits \in SUBSET Sources : Announcing(WriteEnable(old, bits), old.asserted)
           /\ \A bits \in SUBSET Sources : Announcing(Acknowledge(old, bits), old.asserted)
           /\ \A present \in Controllers : Announcing(InterruptLoad(present, old), old.asserted)
  BY SameController, SameAnnouncing, Uart!Controlled

(* The controller a reset leaves.                                          *)
LEMMA ResetAnnounces == Announcing(InterruptReset, {})
  BY SameController, SameAnnouncing, Uart!ResetAnnounces

(* What every function of the controller hands over is as it should be.    *)
LEMMA ToldAfter ==
    ASSUME NEW lines, Announcing(int', lines)
    PROVE  int' \in Controllers /\ AlwaysTold'
  BY DEF Announcing, AlwaysTold, Fresh, Held

LEMMA Requested ==
    ASSUME NEW i \in Controllers, Fresh(i), Held(i), NEW which \in Sources, NEW when
    PROVE  /\ Request(i, which, when) \in Controllers
           /\ Fresh(Request(i, which, when)) /\ Held(Request(i, which, when))
  <1>1. CASE when
    BY <1>1, Controlled DEF Request, Announcing
  <1>2. CASE ~when
    BY <1>2 DEF Request
  <1> QED
    BY <1>1, <1>2

LEMMA InterruptStarts == Init => IntInv
  <1> SUFFICES ASSUME Init PROVE IntInv
    OBVIOUS
  <1>1. saved.int = int /\ int = InterruptReset
    BY DEF Init, StateNow
  <1> QED
    BY <1>1, ResetAnnounces DEF IntInv, InterruptTyped, AlwaysTold, Announcing

(* However a step changes the controller, by a port, by a line or by the   *)
(* host, it is told of.                                                    *)
LEMMA InterruptSteps ==
    ASSUME IntInv, int' = int \/ InterruptPorts \/ BeginLine \/ LateLine \/ Reset \/ Load,
           saved' = saved \/ Save
    PROVE  IntInv'
  <1> USE DEF IntInv, InterruptTyped, AlwaysTold
  <1>1. /\ VBLANK \in Sources /\ VBLANK_TIMER \in Sources
        /\ HBLANK_TIMER \in Sources /\ LINE_HIT \in Sources
    BY DEF VBLANK, VBLANK_TIMER, HBLANK_TIMER, LINE_HIT, Sources
  <1>2. int' \in Controllers /\ AlwaysTold'
    <2>1. CASE BeginLine
      <3> DEFINE one == Request(int, VBLANK, AtVBlank)
                 two == Request(one, VBLANK_TIMER, AtVBlank /\ Fires(display.vb))
      <3>1. one \in Controllers /\ Fresh(one) /\ Held(one)
        BY <1>1, Requested
      <3> HIDE DEF one
      <3>2. two \in Controllers /\ Fresh(two) /\ Held(two)
        BY <1>1, <3>1, Requested
      <3>3. int' = Request(two, HBLANK_TIMER, Fires(display.hb))
        BY <2>1 DEF BeginLine, one
      <3> HIDE DEF two
      <3> DEFINE three == Request(two, HBLANK_TIMER, Fires(display.hb))
      <3>4. three \in Controllers /\ Fresh(three) /\ Held(three)
        BY <1>1, <3>2, Requested
      <3> HIDE DEF three
      <3>5. int' = three
        BY <3>3 DEF three
      <3> QED
        BY <3>4, <3>5 DEF Fresh, Held
    <2>2. CASE LateLine
      <3> DEFINE one == Request(int, LINE_HIT, NextLine(display) = display.compare)
      <3>1. one \in Controllers /\ Fresh(one) /\ Held(one)
        BY <1>1, Requested
      <3>2. int' = one
        BY <2>2 DEF LateLine
      <3> HIDE DEF one
      <3> QED
        BY <3>1, <3>2 DEF Fresh, Held
    <2>3. CASE InterruptPorts
      <3>1. ASSUME NEW bits \in SUBSET Sources, SetInt(WriteEnable(int, bits))
            PROVE  Announcing(int', int.asserted)
        BY <3>1, Controlled DEF SetInt
      <3>2. ASSUME NEW bits \in SUBSET Sources, SetInt(Acknowledge(int, bits))
            PROVE  Announcing(int', int.asserted)
        BY <3>2, Controlled DEF SetInt
      <3>3. ASSUME NEW byte \in Byte, SetInt(WriteBase(int, byte))
            PROVE  Announcing(int', int.asserted)
        BY <3>3, Controlled DEF SetInt, Byte
      <3> QED
        BY <2>3, <3>1, <3>2, <3>3, ToldAfter DEF InterruptPorts
    <2>4. CASE Reset
      <3>1. int' = InterruptReset
        BY <2>4 DEF Reset
      <3> QED
        BY <3>1, ResetAnnounces, ToldAfter
    <2>5. CASE Load
      <3>1. Announcing(InterruptLoad(int, saved.int), saved.int.asserted)
        BY Controlled
      <3>2. int' = InterruptLoad(int, saved.int)
        BY <2>5 DEF Load
      <3> QED
        BY <3>1, <3>2, ToldAfter
    <2>6. CASE int' = int
      BY <2>6 DEF Fresh, Held
    <2> QED
      BY <2>1, <2>2, <2>3, <2>4, <2>5, <2>6
  <1>3. CASE Save
    BY <1>2, <1>3 DEF Save, StateNow
  <1>4. CASE saved' = saved
    BY <1>2, <1>4
  <1> QED
    BY <1>3, <1>4

LEMMA InterruptContinues == IntInv /\ [Next]_vars => IntInv'
  <1> SUFFICES ASSUME IntInv, [Next]_vars PROVE IntInv'
    OBVIOUS
  <1> QED
    BY InterruptSteps, StepsKeep

(* The composed console never leaves its processor with an old interrupt,  *)
(* nor without one that a high and enabled level asks for.                 *)
THEOREM ConsoleAlwaysTold == Spec => []AlwaysTold
<1>1. IntInv => AlwaysTold
  BY DEF IntInv
<1> QED
  BY <1>1, InterruptStarts, InterruptContinues, PTL DEF Spec

-----------------------------------------------------------------------------
(* The clock.                                                              *)

(* The types of a clock's fields, by name.                                 *)
Buffers == [1 .. 7 -> 0 .. 255]
Cycles == 0 .. ClockRate - 1
Commands == 0 .. 31
Indexes == 0 .. 7
Counts == {0, 7}

LEMMA ClockFields ==
    /\ Clocks = [date : Dates, cycles : Cycles, command : Commands, buffer : Buffers,
                 index : Indexes, count : Counts]
    /\ 0 \in Cycles /\ 0 \in Commands /\ 0 \in Indexes /\ 0 \in Counts /\ 7 \in Counts
    /\ NoBytes \in Buffers
  BY ClockAssumption DEF Clocks, Cycles, Commands, Buffers, Indexes, Counts, NoBytes

LEMMA ClockOperations ==
    ASSUME NEW r \in Clocks
    PROVE  /\ \A byte \in Byte : RTC_Command(r, byte) \in Clocks /\ RTC_Data(r, byte) \in Clocks
           /\ AfterRead(r) \in Clocks
           /\ \A date \in Dates : StoreDate(r, date) \in Clocks /\ StoreTime(r, date) \in Clocks
           /\ RTC_Reset(r) \in Clocks
           /\ RTC_Clock(r, 256) \in Clocks
           /\ RTC_Clock(r, 256).date = r.date \/ RTC_Clock(r, 256).date = Clock(r.date)
  <1>1. \A byte \in Byte : RTC_Command(r, byte) \in Clocks
    <2> SUFFICES ASSUME NEW byte \in Byte PROVE RTC_Command(r, byte) \in Clocks
      OBVIOUS
    <2>1. byte % 32 \in Commands
      BY DEF Byte, Commands
    <2>2. Bytes(r.date) \in Buffers
      <3>1. \A i \in 1 .. 7 : r.date[Order[i]] \in 0 .. 255
        BY DEF Clocks, Dates, Order
      <3> QED
        BY <3>1 DEF Bytes, Buffers
    <2> QED
      BY <2>1, <2>2, ClockFields DEF RTC_Command
  <1>2. \A byte \in Byte : RTC_Data(r, byte) \in Clocks
    <2> SUFFICES ASSUME NEW byte \in Byte, r.index < r.count PROVE RTC_Data(r, byte) \in Clocks
      BY DEF RTC_Data
    <2>3. r.index \in Indexes /\ r.count \in Counts /\ r.buffer \in Buffers
      BY ClockFields
    <2>1. r.index + 1 \in Indexes /\ [r.buffer EXCEPT ![r.index + 1] = byte] \in Buffers
      BY <2>3 DEF Indexes, Counts, Buffers, Byte
    <2> QED
      BY <2>1, ClockFields DEF RTC_Data
  <1>3. AfterRead(r) \in Clocks
    <2> SUFFICES ASSUME Left(r) PROVE AfterRead(r) \in Clocks
      BY DEF AfterRead
    <2>1. r.index + 1 \in Indexes
      BY ClockFields DEF Left, Indexes, Counts
    <2> QED
      BY <2>1, ClockFields DEF AfterRead
  <1>4. \A date \in Dates : StoreDate(r, date) \in Clocks
    BY ClockFields DEF StoreDate
  <1>5. \A date \in Dates : StoreTime(r, date) \in Clocks
    <2> SUFFICES ASSUME NEW date \in Dates PROVE StoreTime(r, date) \in Clocks
      OBVIOUS
    <2> DEFINE new == [r.date EXCEPT !.hour = date.hour, !.min = date.min, !.sec = date.sec]
    <2>1. Dates = [year : Byte, mon : Byte, mday : Byte, wday : Byte,
                   hour : Byte, min : Byte, sec : Byte]
      BY DEF Dates, Byte
    <2>2. new \in Dates
      BY <2>1, ClockFields
    <2> QED
      BY <2>2, ClockFields DEF StoreTime
  <1>6. RTC_Reset(r) \in Clocks
    BY ClockFields DEF RTC_Reset
  <1>7. /\ RTC_Clock(r, 256) \in Clocks
        /\ RTC_Clock(r, 256).date = r.date \/ RTC_Clock(r, 256).date = Clock(r.date)
    <2>1. Clock(r.date) \in Dates
      BY TickedFields, ClockFields
    <2>2. CASE r.cycles + 256 < ClockRate
      <3>1. r.cycles + 256 \in Cycles
        BY <2>2, ClockFields, ClockAssumption DEF Cycles
      <3> QED
        BY <2>2, <3>1, ClockFields DEF RTC_Clock
    <2>3. CASE ~(r.cycles + 256 < ClockRate)
      <3> DEFINE over == r.cycles + 256 - ClockRate
      <3>1. over \in Cycles
        BY <2>3, ClockFields, ClockAssumption DEF Cycles
      <3>2. RTC_Clock(r, 256) = Second(r, over)
        <4>1. r.cycles \in Int /\ ClockRate \in Int
          BY ClockFields, ClockAssumption DEF Cycles
        <4> QED
          BY <2>3, <4>1 DEF RTC_Clock
      <3>3. PICK c \in Cycles, d \in Dates : c = over /\ d = Clock(r.date)
        BY <2>1, <3>1
      <3> HIDE DEF over
      <3>4. [r EXCEPT !.cycles = c, !.date = d] \in Clocks
            /\ [r EXCEPT !.cycles = c, !.date = d].date = d
        BY ClockFields
      <3>5. Second(r, over) = [r EXCEPT !.cycles = c, !.date = d]
        BY <3>3 DEF Second
      <3> QED
        BY <3>2, <3>3, <3>4, <3>5
    <2> QED
      BY <2>2, <2>3
  <1> QED
    BY <1>1, <1>2, <1>3, <1>4, <1>5, <1>6, <1>7

LEMMA ClockStarts == Init => ClockTyped
  <1> SUFFICES ASSUME Init PROVE ClockTyped
    OBVIOUS
  <1>1. PICK date \in Dates : rtc = RTC_Init(date)
    BY DEF Init
  <1>2. rtc \in Clocks
    BY <1>1, ClockFields DEF RTC_Init, RTC_Reset
  <1>3. saved.rtc = rtc
    BY DEF Init, StateNow
  <1> QED
    BY <1>2, <1>3 DEF ClockTyped

LEMMA ClockContinues == ClockTyped /\ [Next]_vars => ClockTyped'
  <1> SUFFICES ASSUME ClockTyped, [Next]_vars PROVE ClockTyped'
    OBVIOUS
  <1>1. rtc' \in Clocks
    <2>1. CASE EndLine
      BY <2>1, ClockOperations DEF EndLine, ClockTyped
    <2>2. CASE ClockPorts
      BY <2>2, ClockOperations DEF ClockPorts, SetRtc, ClockTyped
    <2>3. CASE Reset
      BY <2>3, ClockOperations DEF Reset, ClockTyped
    <2>4. CASE Load
      BY <2>4 DEF Load, ClockTyped
    <2> QED
      BY <2>1, <2>2, <2>3, <2>4, StepsKeep DEF ClockTyped
  <1>2. CASE Save
    BY <1>1, <1>2 DEF Save, StateNow, ClockTyped
  <1> QED
    BY <1>1, <1>2, StepsKeep DEF ClockTyped

(* Whatever the program, the MCU and the host do, the clock keeps its type:*)
(* seven bytes, and never a second of cycles or more that are not counted. *)
THEOREM ClockKept == Spec => []ClockTyped
  BY ClockStarts, ClockContinues, PTL DEF Spec

(* Whatever bytes were stored as a date, each field a tick changes is one  *)
(* of a calendar, or the 0 of a day or month that the next step ends.      *)
THEOREM ClockHeals == Spec => TickHeals
  <1> DEFINE Healed ==
        pc = "cpu3" /\ pc' # pc => \A f \in DOMAIN rtc.date :
           \/ rtc'.date[f] = rtc.date[f]
           \/ FieldValid(f, rtc'.date[f])
           \/ f \in {"mon", "mday"} /\ rtc'.date[f] = 0
  <1>1. ClockTyped /\ [Next]_vars => Healed
    <2> SUFFICES ASSUME ClockTyped, [Next]_vars, pc = "cpu3", pc' # pc,
                        NEW f \in DOMAIN rtc.date
                 PROVE  \/ rtc'.date[f] = rtc.date[f]
                        \/ FieldValid(f, rtc'.date[f])
                        \/ f \in {"mon", "mday"} /\ rtc'.date[f] = 0
      OBVIOUS
    <2>1. rtc' = rtc \/ rtc' = RTC_Clock(rtc, 256)
      <3>1. ~ClockPorts /\ ~Reset /\ ~Load
        BY DEF ClockPorts, SetRtc, Register, cpuVars, Reset, Load
      <3> QED
        BY <3>1, StepsKeep DEF EndLine
    <2>2. rtc \in Clocks /\ rtc.date \in Dates
      BY DEF ClockTyped, Clocks
    <2>4. RTC_Clock(rtc, 256).date = rtc.date \/ RTC_Clock(rtc, 256).date = Clock(rtc.date)
      BY <2>2, ClockOperations
    <2>5. rtc'.date = rtc.date \/ rtc'.date = Clock(rtc.date)
      BY <2>1, <2>4
    <2>3. f \in {"year", "mon", "mday", "wday", "hour", "min", "sec"}
      BY <2>2 DEF Dates
    <2> QED
      BY <2>2, <2>3, <2>5, TickedFields
  <1> QED
    BY <1>1, ClockKept, PTL DEF Spec, TickHeals

(* A tick takes a date of the calendar to the next second, over the ends   *)
(* of minutes, days, months, leap years and the century, for every date    *)
(* and at every time the clock ticks.                                      *)
THEOREM ClockCounts == Spec => TickIsSuccessor
  <1> DEFINE Succeeds ==
        pc = "cpu3" /\ pc' # pc /\ rtc'.date # rtc.date /\ DateValid(rtc.date) =>
           DateValid(rtc'.date) /\ Moment(rtc'.date) = NextMoment(Moment(rtc.date))
  <1>1. ClockTyped /\ [Next]_vars => Succeeds
    <2> SUFFICES ASSUME ClockTyped, [Next]_vars, pc = "cpu3", pc' # pc,
                        rtc'.date # rtc.date, DateValid(rtc.date)
                 PROVE  DateValid(rtc'.date) /\ Moment(rtc'.date) = NextMoment(Moment(rtc.date))
      OBVIOUS
    <2>1. rtc' = rtc \/ rtc' = RTC_Clock(rtc, 256)
      <3>1. ~ClockPorts /\ ~Reset /\ ~Load
        BY DEF ClockPorts, SetRtc, Register, cpuVars, Reset, Load
      <3> QED
        BY <3>1, StepsKeep DEF EndLine
    <2>2. rtc \in Clocks /\ rtc.date \in Dates
      BY DEF ClockTyped, Clocks
    <2>3. RTC_Clock(rtc, 256).date = rtc.date \/ RTC_Clock(rtc, 256).date = Clock(rtc.date)
      BY <2>2, ClockOperations
    <2>4. rtc'.date = Clock(rtc.date)
      BY <2>1, <2>3
    <2> QED
      BY <2>2, <2>4, NextSecond
  <1> QED
    BY <1>1, ClockKept, PTL DEF Spec, TickIsSuccessor

-----------------------------------------------------------------------------
(* The EEPROMs.                                                            *)

Cells(n) == [0 .. n - 1 -> WordValue]
Sizes == {MonoWords, ColourWords, CartWords}

(* The greatest word, by inequalities: the provers enumerate 0 .. 65535.   *)
LEMMA WordBounds == WordMax \in Int /\ 65535 <= WordMax /\ WordMax <= 65535
  BY DEF WordMax

LEMMA EepromFields ==
    /\ \A n : Eeproms(n) =
          [words : Cells(n), data : WordValue, address : Address, lock : BOOLEAN,
           disabled : BOOLEAN, done : BOOLEAN, ready : BOOLEAN, internal : BOOLEAN]
    /\ 0 \in WordValue /\ 0 \in Address /\ 66 \in Address /\ ERASED \in WordValue
  <1>1. 0 \in WordValue /\ 0 \in Address /\ 66 \in Address /\ ERASED \in WordValue
    BY WordBounds DEF WordValue, Address, ERASED
  <1>2. \A n : Eeproms(n) =
          [words : Cells(n), data : WordValue, address : Address, lock : BOOLEAN,
           disabled : BOOLEAN, done : BOOLEAN, ready : BOOLEAN, internal : BOOLEAN]
    BY DEF Eeproms, Cells
  <1> QED
    BY <1>1, <1>2

(* Every size is four quarters, and the parts of the two modes' fit.       *)
LEMMA SizesFit ==
    /\ \A size \in Sizes : size \in Nat /\ \E q \in Nat \ {0} : size = 4 * q /\ size \div 4 = q
    /\ ProtectFrom \in Nat /\ MonoWords <= ColourWords
    /\ 2 * ProtectFrom <= MonoWords /\ 4 * ProtectFrom <= ColourWords
  <1>1. \A size \in {8, 16, 32, 64, 128, 256, 512, 1024} :
           size \in Nat /\ \E q \in Nat \ {0} : size = 4 * q /\ size \div 4 = q
    OBVIOUS
  <1> QED
    BY <1>1, EepromAssumption DEF Sizes

LEMMA WordReached ==
    ASSUME NEW size \in Sizes, NEW address \in Address
    PROVE  Word(size, address) \in 0 .. size - 1
  <1>1. size \in Nat /\ size > 0 /\ address \in Nat
    BY SizesFit, WordBounds DEF Address
  <1> QED
    BY <1>1 DEF Word

LEMMA Division ==
    ASSUME NEW a \in Nat, NEW q \in Nat \ {0}
    PROVE  \E m \in Nat, r \in 0 .. q - 1 : a = q * m + r /\ m = a \div q
  <1>1. PICK m \in Int, r \in 0 .. q - 1 : a = q * m + r /\ m = a \div q
    OBVIOUS
  <1>2. m >= 0
    <2>1. SUFFICES ASSUME m <= -1 PROVE FALSE
      BY <1>1
    <2>2. q * m <= q * (-1)
      BY <2>1
    <2> QED
      BY <1>1, <2>2
  <1> QED
    BY <1>1, <1>2

LEMMA BytesOfRegisters ==
    ASSUME NEW value \in Address, NEW byte \in Byte
    PROVE  LowByte(value, byte) \in Address /\ HighByte(value, byte) \in Address
  <1>1. PICK b \in Int : b = byte /\ 0 <= b /\ b <= 255
    BY DEF Byte
  <1>0. value \in Int /\ 0 <= value /\ value <= 65535
    BY WordBounds DEF Address
  <1>2. PICK m \in Int : m = value \div 256 /\ 256 * m <= value /\ value < 256 * m + 256
    BY <1>0
  <1>3. 0 <= m
    BY <1>0, <1>2
  <1>12. m <= 255
    BY <1>0, <1>2
  <1>4. LowByte(value, byte) = 256 * m + b
    BY <1>1, <1>2 DEF LowByte
  <1>5. 256 * m + b \in Address
    BY <1>1, <1>3, <1>12, WordBounds DEF Address
  <1>6. PICK r \in Int : r = value % 256 /\ 0 <= r /\ r <= 255
    BY <1>0
  <1>7. HighByte(value, byte) = 256 * b + r
    BY <1>1, <1>6 DEF HighByte
  <1>9. 256 * b + r \in Address
    BY <1>1, <1>6, WordBounds DEF Address
  <1>10. LowByte(value, byte) \in Address
    BY <1>4, <1>5
  <1>11. HighByte(value, byte) \in Address
    BY <1>7, <1>9
  <1> QED
    BY <1>10, <1>11

(* The opcode that writes all words names a word behind the first quarter, *)
(* the one that erases them all a word behind the first half.              *)
LEMMA QuarterWords ==
    ASSUME NEW size \in Sizes, NEW address \in Address
    PROVE  /\ Extended(size, address) = 1 => 4 * Word(size, address) >= size
           /\ Extended(size, address) = 2 => 2 * Word(size, address) >= size
  <1>1. PICK q \in Nat \ {0} : size = 4 * q /\ size \div 4 = q
    BY SizesFit
  <1>0. address \in Nat
    BY WordBounds DEF Address
  <1>2. PICK m \in Nat, r \in 0 .. q - 1 : address = q * m + r /\ m = address \div q
    BY <1>0, Division
  <1>3. PICK k \in Int, j \in 0 .. 3 : m = 4 * k + j /\ j = m % 4
    OBVIOUS
  <1>4. j = Extended(size, address)
    BY <1>1, <1>2, <1>3 DEF Extended
  <1>5. address = (4 * q) * k + (q * j + r)
    <2>1. \A x, y, z, w, n \in Int : n = 4 * y + z => x * n + w = (4 * x) * y + (x * z + w)
      OBVIOUS
    <2>2. q \in Int /\ m \in Int /\ k \in Int /\ j \in Int /\ r \in Int
      OBVIOUS
    <2>3. q * m + r = (4 * q) * k + (q * j + r)
      BY <1>3, <2>1, <2>2
    <2> QED
      BY <1>2, <2>3
  <1>6. PICK a \in Int : a = address /\ a = (4 * q) * k + (q * j + r)
    BY <1>0, <1>5
  <1>7. j = 1 => 4 * (a % (4 * q)) >= 4 * q
    BY <1>6
  <1>8. j = 2 => 2 * (a % (4 * q)) >= 4 * q
    BY <1>6
  <1> QED
    BY <1>1, <1>4, <1>6, <1>7, <1>8 DEF Word

(* What a command stores are words, as many as before.                     *)
LEMMA StoredWords ==
    ASSUME NEW n \in Sizes, NEW e \in Eeproms(n), NEW size \in Sizes, size <= n,
           NEW data \in WordValue
    PROVE  Stored(e, size, data) \in Cells(n)
  <1> DEFINE word == Word(size, e.address)
  <1>1. e.words \in Cells(n) /\ ERASED \in WordValue /\ word \in 0 .. n - 1
    <2>1. e.address \in Address /\ e.words \in Cells(n) /\ ERASED \in WordValue
      BY EepromFields
    <2>2. word \in 0 .. size - 1 /\ size \in Nat /\ n \in Nat
      BY <2>1, WordReached, SizesFit
    <2> QED
      BY <2>1, <2>2
  <1>2. All(e, size, data) \in Cells(n) /\ All(e, size, ERASED) \in Cells(n)
    BY <1>1 DEF All, Cells
  <1> HIDE DEF word
  <1>3. [e.words EXCEPT ![word] = data] \in Cells(n) /\ [e.words EXCEPT ![word] = ERASED] \in Cells(n)
    BY <1>1 DEF Cells
  <1> QED
    BY <1>1, <1>2, <1>3 DEF Stored, word

(* What the lock leaves of the protected words: all of them, or, where the *)
(* first quarter is smaller than they need, those behind a write of all.   *)
Spared(e, size, new) ==
    \/ /\ 4 * ProtectFrom > size /\ ~e.disabled
       /\ Special(e, size, {1}) /\ Word(size, e.address) < ProtectFrom
       /\ \E value \in {e.data, ERASED} : new = All(e, size, value)
    \/ \A w \in ProtectFrom .. ColourWords - 1 : new[w] = e.words[w]

LEMMA LockedWords ==
    ASSUME NEW e \in Eeproms(ColourWords), e.internal, e.lock,
           NEW size \in {MonoWords, ColourWords}, NEW data \in {e.data, ERASED}
    PROVE  Spared(e, size, Stored(e, size, data))
  <1> DEFINE word == Word(size, e.address)
             new == Stored(e, size, data)
  <1>1. /\ e.words \in Cells(ColourWords) /\ e.address \in Address
        /\ word \in Nat /\ size \in Nat /\ ProtectFrom \in Nat /\ 2 * ProtectFrom <= size
        /\ ColourWords \in Nat
    <2>1. e.words \in Cells(ColourWords) /\ e.address \in Address
      BY EepromFields
    <2>2. word \in 0 .. size - 1
      BY <2>1, WordReached DEF Sizes
    <2>3. /\ size \in Nat /\ MonoWords \in Nat /\ ColourWords \in Nat
      BY SizesFit DEF Sizes
    <2> QED
      BY <2>1, <2>2, <2>3, SizesFit
  <1>2. CASE ~Unlocked(e, size)
    <2>1. new = e.words
      BY <1>2 DEF Stored
    <2> QED
      BY <2>1 DEF Spared
  <1>3. CASE Unlocked(e, size)
    <2>1. word < ProtectFrom /\ ~e.disabled
      BY <1>1, <1>3 DEF Unlocked
    <2>2. ~Special(e, size, {2})
      <3>1. SUFFICES ASSUME Extended(size, e.address) = 2 PROVE FALSE
        BY DEF Special
      <3>2. 2 * word >= size
        BY <1>1, <3>1, QuarterWords DEF Sizes
      <3> HIDE DEF word
      <3> QED
        BY <1>1, <2>1, <3>2
    <2>3. CASE Special(e, size, {1})
      <3>1. 4 * word >= size
        BY <1>1, <2>3, QuarterWords DEF Sizes, Special
      <3>2. new = All(e, size, data)
        BY <1>3, <2>2, <2>3 DEF Stored, Special
      <3> HIDE DEF word, new
      <3>3. 4 * ProtectFrom > size
        BY <1>1, <2>1, <3>1
      <3> QED
        BY <2>1, <2>3, <3>2, <3>3 DEF Spared, word, new
    <2>4. CASE ~Special(e, size, {1})
      <3>1. new \in {e.words, [e.words EXCEPT ![word] = data], [e.words EXCEPT ![word] = ERASED]}
        BY <1>3, <2>2, <2>4 DEF Stored
      <3> HIDE DEF word, new
      <3>2. ASSUME NEW w \in ProtectFrom .. ColourWords - 1 PROVE new[w] = e.words[w]
        <4>1. w # word /\ w \in 0 .. ColourWords - 1
          BY <1>1, <2>1
        <4>2. e.words \in Cells(ColourWords) /\ DOMAIN e.words = 0 .. ColourWords - 1
          BY <1>1 DEF Cells
        <4>3. \A v : [e.words EXCEPT ![word] = v][w] = e.words[w]
          BY <4>1, <4>2
        <4>4. CASE new = e.words
          BY <4>4
        <4>5. CASE new # e.words
          <5>1. PICK v : new = [e.words EXCEPT ![word] = v]
            BY <3>1, <4>5
          <5> QED
            BY <4>3, <5>1
        <4> QED
          BY <4>4, <4>5
      <3> QED
        BY <3>2 DEF Spared, new
    <2> QED
      BY <2>3, <2>4
  <1> QED
    BY <1>2, <1>3

(* A command keeps types and lock, and stores what Stored says.            *)
LEMMA EepromCommands ==
    ASSUME NEW n \in Sizes, NEW e \in Eeproms(n), NEW size \in Sizes, size <= n,
           NEW lock \in BOOLEAN, NEW op \in {0, 4, 5, 6}
    PROVE  LET new == EEPROMCommand(e, size, lock, op)
           IN  /\ new \in Eeproms(n) /\ new.internal = e.internal
               /\ e.lock => /\ new.lock
                            /\ \/ new.words = e.words
                               \/ \E data \in {e.data, ERASED} : new.words = Stored(e, size, data)
  <1> DEFINE l == [e EXCEPT !.lock = @ \/ lock]
  <1>1. /\ l \in Eeproms(n) /\ l.internal = e.internal /\ (e.lock => l.lock /\ l = e)
        /\ l.words = e.words /\ l.address = e.address /\ l.data = e.data
    BY EepromFields
  <1>2. CASE op = 0
    BY <1>1, <1>2 DEF EEPROMCommand
  <1>3. CASE op # 0
    <2>1. EEPROMCommand(e, size, lock, op) = Execute(l, size, op)
      BY <1>3 DEF EEPROMCommand
    <2> HIDE DEF l
    <2> DEFINE data == IF op = 5 THEN l.data ELSE ERASED
               at == Word(size, l.address)
               word == IF op = 4 THEN IF Opcode(size, l.address) = 6 THEN l.words[at] ELSE data
                       ELSE l.data
               enabled == Enable(l, size)
               ready == op = 4
               stored == Stored(l, size, data)
    <2>2. data \in WordValue /\ data \in {l.data, ERASED}
      BY <1>1, EepromFields
    <2>3. word \in WordValue
      <3>1. l.words \in Cells(n) /\ l.data \in WordValue /\ l.address \in Address
        BY <1>1, EepromFields
      <3>2. at \in 0 .. n - 1
        <4>1. at \in 0 .. size - 1 /\ size \in Nat /\ n \in Nat
          BY <3>1, WordReached, SizesFit
        <4> QED
          BY <4>1
      <3> QED
        BY <2>2, <3>1, <3>2 DEF Cells
    <2>4. /\ enabled \in Eeproms(n) /\ enabled.internal = l.internal /\ enabled.lock = l.lock
          /\ enabled.data = l.data
      <3>1. enabled = l \/ \E b \in BOOLEAN : enabled = [l EXCEPT !.disabled = b]
        BY DEF Enable, Special
      <3> QED
        BY <1>1, <3>1, EepromFields
    <2>5. Execute(l, size, op) = [enabled EXCEPT !.words = stored, !.done = TRUE, !.ready = ready,
                                                 !.data = word]
      BY <2>4 DEF Execute
    <2>6. stored \in Cells(n)
      BY <1>1, <2>2, StoredWords
    <2>8. ready \in BOOLEAN
      OBVIOUS
    <2> HIDE DEF data, word, enabled, stored, ready, at
    <2>9. /\ Execute(l, size, op) \in Eeproms(n) /\ Execute(l, size, op).internal = l.internal
          /\ Execute(l, size, op).lock = l.lock /\ Execute(l, size, op).words = stored
      BY <2>3, <2>4, <2>5, <2>6, <2>8, EepromFields
    <2>10. e.lock => \E d \in {e.data, ERASED} : stored = Stored(e, size, d)
      BY <1>1, <2>2 DEF stored
    <2> QED
      BY <1>1, <2>1, <2>9, <2>10
  <1> QED
    BY <1>2, <1>3

(* What a write to one of the EEPROMs leaves of it.                        *)
Capacity(which) == IF which = "own" THEN ColourWords ELSE CartWords
Kept(e, size, new) ==
    /\ new.internal = e.internal
    /\ e.internal /\ e.lock => new.lock /\ Spared(e, size, new.words)
Registers(e, byte) ==
    {[e EXCEPT !.address = LowByte(@, byte)], [e EXCEPT !.address = HighByte(@, byte)],
     [e EXCEPT !.data = LowByte(@, byte)], [e EXCEPT !.data = HighByte(@, byte)]}

LEMMA RegistersKeep ==
    ASSUME NEW n, NEW e \in Eeproms(n), NEW size, NEW byte \in Byte, NEW new \in Registers(e, byte)
    PROVE  new \in Eeproms(n) /\ Kept(e, size, new)
  <1>1. WordValue = Address
    BY DEF WordValue, Address
  <1>2. e.address \in Address /\ e.data \in Address
    BY <1>1, EepromFields
  <1>3. PICK v \in Address : new = [e EXCEPT !.address = v] \/ new = [e EXCEPT !.data = v]
    BY <1>2, BytesOfRegisters DEF Registers
  <1>4. /\ new \in Eeproms(n) /\ new.internal = e.internal
        /\ new.lock = e.lock /\ new.words = e.words
    <2>1. CASE new = [e EXCEPT !.address = v]
      BY <2>1, EepromFields
    <2>2. CASE new = [e EXCEPT !.data = v]
      BY <1>1, <2>2, EepromFields
    <2> QED
      BY <1>3, <2>1, <2>2
  <1> QED
    BY <1>4 DEF Kept, Spared

LEMMA CommandsKeep ==
    ASSUME NEW which \in {"own", "cart"}, NEW e \in Eeproms(Capacity(which)), e.internal => which = "own",
           NEW lock \in BOOLEAN, NEW op \in {0, 4, 5, 6}
    PROVE  LET new == EEPROMCommand(e, Size(which), lock, op)
           IN  new \in Eeproms(Capacity(which)) /\ Kept(e, Size(which), new)
  <1> DEFINE n == Capacity(which)
             size == Size(which)
             new == EEPROMCommand(e, size, lock, op)
  <1>1. n \in Sizes /\ size \in Sizes /\ size <= n /\ (which = "own" => size \in {MonoWords, ColourWords})
    <2>1. CartWords \in Nat /\ ColourWords \in Nat /\ MonoWords \in Nat /\ MonoWords <= ColourWords
      BY SizesFit DEF Sizes
    <2> QED
      BY <2>1 DEF Capacity, Size, Sizes
  <1> HIDE DEF n, size
  <1>2. /\ new \in Eeproms(n) /\ new.internal = e.internal
        /\ e.lock => /\ new.lock
                     /\ \/ new.words = e.words
                        \/ \E data \in {e.data, ERASED} : new.words = Stored(e, size, data)
    BY <1>1, EepromCommands DEF n
  <1> HIDE DEF new
  <1>3. ASSUME e.internal, e.lock PROVE Spared(e, size, new.words)
    <2>1. CASE new.words = e.words
      BY <2>1 DEF Spared
    <2>2. ASSUME NEW data \in {e.data, ERASED}, new.words = Stored(e, size, data)
          PROVE  Spared(e, size, new.words)
      <3>1. e \in Eeproms(ColourWords)
        BY <1>3 DEF Capacity
      <3> QED
        BY <1>1, <1>3, <2>2, <3>1, LockedWords
    <2> QED
      BY <1>2, <1>3, <2>1, <2>2
  <1> QED
    BY <1>2, <1>3 DEF Kept, n, size, new

LEMMA EepromPortsKeep ==
    ASSUME eeproms \in OwnAndCart, EepromPorts
    PROVE  /\ eeproms' \in OwnAndCart
           /\ eeproms.own.lock =>
                 eeproms'.own.lock /\ Spared(eeproms.own, Size("own"), eeproms'.own.words)
  <1>0. PICK which \in {"own", "cart"} : \E new \in Eeproms(Capacity(which)) :
           /\ eeproms' = [eeproms EXCEPT ![which] = new]
           /\ Kept(eeproms[which], Size(which), new)
    <2>1. PICK which \in {"own", "cart"}, byte \in Byte :
             \/ \E new \in Registers(eeproms[which], byte) : SetEeprom(which, new)
             \/ \E lock \in BOOLEAN, op \in {0, 4, 5, 6} :
                   SetEeprom(which, EEPROMCommand(eeproms[which], Size(which), lock, op))
      BY DEF EepromPorts, Registers
    <2>2. eeproms[which] \in Eeproms(Capacity(which)) /\ (eeproms[which].internal => which = "own")
      BY DEF OwnAndCart, Capacity
    <2>3. \A new \in Registers(eeproms[which], byte) :
             new \in Eeproms(Capacity(which)) /\ Kept(eeproms[which], Size(which), new)
      BY <2>2, RegistersKeep
    <2>4. \A lock \in BOOLEAN, op \in {0, 4, 5, 6} :
             LET new == EEPROMCommand(eeproms[which], Size(which), lock, op)
             IN  new \in Eeproms(Capacity(which)) /\ Kept(eeproms[which], Size(which), new)
      BY <2>2, CommandsKeep
    <2>5. PICK new \in Eeproms(Capacity(which)) :
             SetEeprom(which, new) /\ Kept(eeproms[which], Size(which), new)
      BY <2>1, <2>3, <2>4
    <2> QED
      BY <2>5 DEF SetEeprom
  <1>1. PICK new \in Eeproms(Capacity(which)) :
           /\ eeproms' = [eeproms EXCEPT ![which] = new]
           /\ Kept(eeproms[which], Size(which), new)
    BY <1>0
  <1>2. CASE which = "own"
    BY <1>1, <1>2 DEF OwnAndCart, Kept, Capacity
  <1>3. CASE which = "cart"
    <2>1. eeproms'.own = eeproms.own /\ eeproms'.cart = new
      BY <1>1, <1>3 DEF OwnAndCart
    <2>2. eeproms' \in OwnAndCart
      BY <1>1, <1>3 DEF OwnAndCart, Kept, Capacity
    <2> QED
      BY <2>1, <2>2 DEF Spared
  <1> QED
    BY <1>2, <1>3

LEMMA EepromsReset ==
    ASSUME NEW e \in OwnAndCart
    PROVE  ResetEeproms(e) \in OwnAndCart
  <1> DEFINE own == [EEPROMReset(e.own) EXCEPT !.address = 66]
  <1>1. e.own \in Eeproms(ColourWords) /\ e.cart \in Eeproms(CartWords)
    BY DEF OwnAndCart
  <1>2. \A n : \A x \in Eeproms(n) :
           EEPROMReset(x) \in Eeproms(n) /\ EEPROMReset(x).internal = x.internal
    BY EepromFields DEF EEPROMReset
  <1>3. own \in Eeproms(ColourWords) /\ own.internal = e.own.internal
    BY <1>1, <1>2, EepromFields
  <1> HIDE DEF own
  <1>4. /\ EEPROMCommand(own, MonoWords, TRUE, 0) \in Eeproms(ColourWords)
        /\ EEPROMCommand(own, MonoWords, TRUE, 0).internal = own.internal
    BY <1>3, SizesFit, EepromCommands DEF Sizes
  <1> QED
    BY <1>1, <1>2, <1>3, <1>4 DEF ResetEeproms, OwnAndCart, own

LEMMA EepromsStart == Init => EepromsTyped
  <1> SUFFICES ASSUME Init PROVE EepromsTyped
    OBVIOUS
  <1>1. \A n : \A b \in BOOLEAN :
           NewEeprom(n, b) \in Eeproms(n) /\ NewEeprom(n, b).internal = b
    <2>1. \A n : [i \in 0 .. n - 1 |-> 0] \in Cells(n)
      BY EepromFields DEF Cells
    <2> QED
      BY <2>1, EepromFields DEF NewEeprom
  <1>2. NewEeproms \in OwnAndCart
    BY <1>1 DEF OwnAndCart, NewEeproms
  <1>3. PICK e \in OwnAndCart, locked \in BOOLEAN :
           eeproms = [e EXCEPT !.own = EEPROMLock(e.own, locked)]
    BY <1>2, EepromsReset DEF Init
  <1>4. /\ EEPROMLock(e.own, locked) \in Eeproms(ColourWords)
        /\ EEPROMLock(e.own, locked).internal = e.own.internal
    BY EepromFields DEF EEPROMLock, OwnAndCart
  <1>5. eeproms \in OwnAndCart
    BY <1>3, <1>4 DEF OwnAndCart
  <1>6. saved.eeproms = eeproms
    BY DEF Init, StateNow
  <1> QED
    BY <1>5, <1>6 DEF EepromsTyped

LEMMA EepromsContinue == EepromsTyped /\ [Next]_vars => EepromsTyped'
  <1> SUFFICES ASSUME EepromsTyped, [Next]_vars PROVE EepromsTyped'
    OBVIOUS
  <1>1. eeproms' \in OwnAndCart
    <2>1. CASE EepromPorts
      BY <2>1, EepromPortsKeep DEF EepromsTyped
    <2>2. CASE Reset
      BY <2>2, EepromsReset DEF Reset, EepromsTyped
    <2>3. CASE Load
      <3>1. eeproms' = [which \in DOMAIN eeproms |->
                           EEPROMLoad(eeproms[which], saved.eeproms[which])]
        BY <2>3 DEF Load
      <3>2. \A n : \A x, y \in Eeproms(n) :
               EEPROMLoad(x, y) \in Eeproms(n) /\ EEPROMLoad(x, y).internal = y.internal
        BY EepromFields DEF EEPROMLoad
      <3> QED
        BY <3>1, <3>2 DEF EepromsTyped, OwnAndCart
    <2> QED
      BY <2>1, <2>2, <2>3, StepsKeep DEF EepromsTyped
  <1>2. CASE Save
    BY <1>1, <1>2 DEF Save, StateNow, EepromsTyped
  <1> QED
    BY <1>1, <1>2, StepsKeep DEF EepromsTyped

(* The EEPROMs of the console keep their types, in every state and save.   *)
THEOREM EepromsKept == Spec => []EepromsTyped
  BY EepromsStart, EepromsContinue, PTL DEF Spec

(* Whatever a program writes to the ports, and however it switches the     *)
(* size of the EEPROM with the video mode, the lock stays and one command  *)
(* only gets past it: the opcodes that reach all words name a word behind  *)
(* the first half, or behind the first quarter, which is smaller than what *)
(* the lock leaves open in the smaller size only.                          *)
THEOREM LockHolds == Spec => ProtectedHeld
  <1> DEFINE Same == \A w \in ProtectFrom .. ColourWords - 1 :
                        eeproms'.own.words[w] = eeproms.own.words[w]
  <1>1. ASSUME EepromsTyped, [Next]_vars
        PROVE  pc # "host" /\ eeproms.own.lock => eeproms'.own.lock /\ (Overwritten \/ Same)
    <2>1. CASE eeproms' = eeproms
      BY <2>1
    <2>2. ASSUME EepromPorts, eeproms.own.lock
          PROVE  eeproms'.own.lock /\ (Overwritten \/ Same)
      <3>1. eeproms'.own.lock /\ Spared(eeproms.own, Size("own"), eeproms'.own.words)
        BY <1>1, <2>2, EepromPortsKeep DEF EepromsTyped
      <3>2. CASE display.colour
        <4>1. Size("own") = ColourWords /\ ColourWords \in Nat /\ ProtectFrom \in Nat
          BY <3>2, SizesFit DEF Size, Sizes
        <4>2. ~(4 * ProtectFrom > ColourWords)
          BY <4>1, SizesFit
        <4> QED
          BY <3>1, <4>1, <4>2 DEF Spared
      <3>3. CASE ~display.colour
        <4>1. Size("own") = MonoWords
          BY <3>3 DEF Size
        <4> QED
          BY <3>1, <3>3, <4>1 DEF Spared, Overwritten
      <3> QED
        BY <3>2, <3>3
    <2>3. CASE Reset \/ Load
      BY <2>3 DEF Reset, Load
    <2> QED
      BY <1>1, <2>1, <2>2, <2>3, StepsKeep
  <1> QED
    BY <1>1, EepromsKept, PTL DEF Spec, ProtectedHeld

-----------------------------------------------------------------------------
(* The display.                                                            *)

Tables == [0 .. 1 -> Nat]
Which == 0 .. 1

LEMMA TimerFields == Timers = [counter : Address, period : Address, on : BOOLEAN, loop : BOOLEAN]
  BY DEF Timers

LEMMA DisplayFields ==
    Displays = [line : Byte, compare : Byte, total : Byte, sprites : Nat, tables : Tables,
                drawn : Which, colour : BOOLEAN, hb : Timers, vb : Timers]
  BY DEF Displays, Tables, Which

LEMMA DisplayParts ==
    ASSUME NEW d \in Displays
    PROVE  /\ d.line \in Byte /\ d.compare \in Byte /\ d.total \in Byte /\ d.sprites \in Nat
           /\ d.tables \in Tables /\ d.drawn \in Which /\ d.hb \in Timers /\ d.vb \in Timers
  BY DisplayFields

LEMMA TimerOperations ==
    ASSUME NEW t \in Timers
    PROVE  /\ CountedDown(t) \in Timers
           /\ \A byte \in Byte : PeriodByteLow(t, byte) \in Timers /\ PeriodByteHigh(t, byte) \in Timers
           /\ \A on, loop \in BOOLEAN : [t EXCEPT !.on = on, !.loop = loop] \in Timers
  <1>1. CountedDown(t) \in Timers
    <2>1. \A n \in Address : n # 0 => n - 1 \in Address
      BY WordBounds DEF Address
    <2>2. PICK c \in Address : CountedDown(t) \in {t, [t EXCEPT !.counter = c]}
      BY <2>1, TimerFields DEF CountedDown
    <2> QED
      BY <2>2, TimerFields
  <1>2. \A byte \in Byte : PeriodByteLow(t, byte) \in Timers
    BY BytesOfRegisters, TimerFields DEF PeriodByteLow
  <1>3. \A byte \in Byte : PeriodByteHigh(t, byte) \in Timers
    <2> SUFFICES ASSUME NEW byte \in Byte PROVE PeriodByteHigh(t, byte) \in Timers
      OBVIOUS
    <2>1. PICK v \in Address : v = HighByte(t.period, byte)
      BY BytesOfRegisters, TimerFields
    <2>2. [t EXCEPT !.period = v, !.counter = v] \in Timers
      BY TimerFields
    <2> QED
      BY <2>1, <2>2 DEF PeriodByteHigh
  <1>4. ASSUME NEW on \in BOOLEAN, NEW loop \in BOOLEAN
        PROVE  [t EXCEPT !.on = on, !.loop = loop] \in Timers
    BY TimerFields
  <1> QED
    BY <1>1, <1>2, <1>3, <1>4

LEMMA LineCounts ==
    ASSUME NEW d \in Displays
    PROVE  NextLine(d) \in Byte
  <1>0. \A total \in Byte, line \in Byte :
           Larger(Visible, total) + 1 \in 1 .. 256 /\ line + 1 \in Nat
    BY ConsoleAssumption DEF Larger, Byte
  <1>1. PICK m \in 1 .. 256, l \in Nat : m = Larger(Visible, d.total) + 1 /\ l = d.line + 1
    BY <1>0, DisplayParts
  <1>2. l % m \in 0 .. m - 1
    OBVIOUS
  <1>3. l % m \in Byte
    BY <1>1, <1>2 DEF Byte
  <1> QED
    BY <1>1, <1>3 DEF NextLine

LEMMA BeginLineKeeps ==
    ASSUME display \in Displays, BeginLine
    PROVE  /\ display' \in Displays
           /\ display.line < Visible =>
                 display'.tables[display'.drawn] = display.tables[display.drawn]
  <1>0. \A x \in Which : 1 - x \in Which /\ 1 - x # x
    BY DEF Which
  <1>1. Latch(display) \in Displays
    <2>1. \A f \in Tables, x \in Which, v \in Nat : [f EXCEPT ![1 - x] = v] \in Tables
      BY DEF Tables, Which
    <2>2. [display.tables EXCEPT ![1 - display.drawn] = display.sprites] \in Tables
      BY <2>1, DisplayParts
    <2> QED
      BY <2>2, DisplayFields DEF Latch
  <1>2. /\ Latch(display).line = display.line
        /\ Latch(display).drawn = display.drawn
        /\ Latch(display).tables[display.drawn] = display.tables[display.drawn]
    <2>1. \A f \in Tables, x \in Which, v \in Nat : [f EXCEPT ![1 - x] = v][x] = f[x]
      BY DEF Tables, Which
    <2>2. [display.tables EXCEPT ![1 - display.drawn] = display.sprites][display.drawn]
             = display.tables[display.drawn]
      BY <2>1, DisplayParts
    <2> QED
      BY <2>2, DisplayFields DEF Latch
  <1>3. PICK drawn \in Which, vb \in Timers, hb \in Timers :
           /\ display' = [Latch(display) EXCEPT !.drawn = drawn, !.vb = vb, !.hb = hb]
           /\ display.line < Visible => drawn = display.drawn
    <2>1. display.line < Visible => ~AtVBlank
      BY ConsoleAssumption, DisplayParts DEF AtVBlank, Byte
    <2>2. /\ Latch(display).vb \in Timers /\ Latch(display).hb \in Timers
          /\ CountedDown(Latch(display).vb) \in Timers /\ CountedDown(Latch(display).hb) \in Timers
          /\ Latch(display).drawn \in Which /\ 1 - Latch(display).drawn \in Which
      BY <1>1, <1>0, DisplayParts, TimerOperations
    <2> QED
      BY <1>2, <2>1, <2>2 DEF BeginLine
  <1>4. display' \in Displays
    BY <1>1, <1>3, DisplayFields
  <1>5. display'.tables = Latch(display).tables /\ display'.drawn = drawn
    BY <1>1, <1>3, DisplayFields
  <1> QED
    BY <1>2, <1>3, <1>4, <1>5

LEMMA DisplayPortsKeep ==
    ASSUME display \in Displays, DisplayPorts
    PROVE  /\ display' \in Displays
           /\ display'.tables = display.tables /\ display'.drawn = display.drawn
  <1> USE DEF SetCompare, SetSprites, SetTotal, SetTimers, SetDisplay
  <1>1. ASSUME NEW byte \in Byte, SetCompare(byte) \/ SetSprites(byte) \/ SetTotal(byte)
        PROVE  /\ display' \in Displays
               /\ display'.tables = display.tables /\ display'.drawn = display.drawn
    <2>1. byte \in Nat
      BY DEF Byte
    <2> QED
      BY <1>1, <2>1, DisplayFields
  <1>2. ASSUME NEW hb \in Timers, NEW vb \in Timers,
               display' = [display EXCEPT !.hb = hb, !.vb = vb]
        PROVE  /\ display' \in Displays
               /\ display'.tables = display.tables /\ display'.drawn = display.drawn
    BY <1>2, DisplayFields
  <1>3. ASSUME NEW byte \in Byte,
               \/ SetDisplay([display EXCEPT !.hb = PeriodByteLow(@, byte)])
               \/ SetDisplay([display EXCEPT !.hb = PeriodByteHigh(@, byte)])
               \/ SetDisplay([display EXCEPT !.vb = PeriodByteLow(@, byte)])
               \/ SetDisplay([display EXCEPT !.vb = PeriodByteHigh(@, byte)])
        PROVE  /\ display' \in Displays
               /\ display'.tables = display.tables /\ display'.drawn = display.drawn
    <2>1. PICK t \in Timers :
             display' = [display EXCEPT !.hb = t] \/ display' = [display EXCEPT !.vb = t]
      BY <1>3, DisplayParts, TimerOperations
    <2> QED
      BY <2>1, DisplayFields
  <1>4. ASSUME NEW hbOn \in BOOLEAN, NEW hbLoop \in BOOLEAN, NEW vbOn \in BOOLEAN,
               NEW vbLoop \in BOOLEAN, SetTimers(hbOn, hbLoop, vbOn, vbLoop)
        PROVE  /\ display' \in Displays
               /\ display'.tables = display.tables /\ display'.drawn = display.drawn
    <2>1. PICK hb \in Timers, vb \in Timers :
             /\ hb = [display.hb EXCEPT !.on = hbOn, !.loop = hbLoop]
             /\ vb = [display.vb EXCEPT !.on = vbOn, !.loop = vbLoop]
      BY DisplayParts, TimerOperations
    <2>2. display' = [display EXCEPT !.hb = hb, !.vb = vb]
      BY <1>4, <2>1, DisplayFields, TimerFields
    <2> QED
      BY <1>2, <2>2
  <1> HIDE DEF SetCompare, SetSprites, SetTotal, SetTimers, SetDisplay
  <1>5. ASSUME NEW on \in BOOLEAN, SetColour(on)
        PROVE  /\ display' \in Displays
               /\ display'.tables = display.tables /\ display'.drawn = display.drawn
    BY <1>5, DisplayFields DEF SetColour, SetDisplay
  <1> QED
    BY <1>1, <1>3, <1>4, <1>5 DEF DisplayPorts

LEMMA LateLineKeeps ==
    ASSUME display \in Displays, LateLine
    PROVE  /\ display' \in Displays
           /\ display'.tables = display.tables /\ display'.drawn = display.drawn
  <1>1. PICK l \in Byte : l = NextLine(display)
    BY LineCounts
  <1>2. display' = [display EXCEPT !.line = l]
    BY <1>1 DEF LateLine
  <1> QED
    BY <1>2, DisplayFields

LEMMA DisplayBegins == DisplayReset \in Displays
  <1>1. 0 \in Byte /\ 187 \in Byte /\ FirstTotal \in Byte /\ 0 \in Address /\ 65359 \in Address
    BY ConsoleAssumption, WordBounds DEF Byte, Address
  <1>2. [i \in 0 .. 1 |-> 0] \in Tables /\ 0 \in Which
    BY DEF Tables, Which
  <1>3. Timer0 \in Timers
    BY <1>1, TimerFields DEF Timer0
  <1>4. \A t \in Timers, v \in Address : [t EXCEPT !.period = v, !.counter = v] \in Timers
    BY TimerFields
  <1>5. PICK v \in Address : v = 65359
    BY <1>1
  <1>6. [Timer0 EXCEPT !.period = v, !.counter = v] \in Timers
    BY <1>3, <1>4
  <1> QED
    BY <1>1, <1>2, <1>3, <1>5, <1>6, DisplayFields DEF DisplayReset

LEMMA DisplayStarts == Init => DisplayTyped
  BY DisplayBegins DEF Init, StateNow, DisplayTyped

LEMMA DisplayContinues == DisplayTyped /\ [Next]_vars => DisplayTyped'
  <1> SUFFICES ASSUME DisplayTyped, [Next]_vars PROVE DisplayTyped'
    OBVIOUS
  <1>1. display' \in Displays
    <2>1. CASE BeginLine
      BY <2>1, BeginLineKeeps DEF DisplayTyped
    <2>2. CASE LateLine
      BY <2>2, LateLineKeeps DEF DisplayTyped
    <2>3. CASE DisplayPorts
      BY <2>3, DisplayPortsKeep DEF DisplayTyped
    <2>4. CASE Reset
      BY <2>4, DisplayBegins DEF Reset
    <2>5. CASE Load
      BY <2>5 DEF Load, DisplayTyped
    <2> QED
      BY <2>1, <2>2, <2>3, <2>4, <2>5, StepsKeep DEF DisplayTyped
  <1>2. CASE Save
    BY <1>1, <1>2 DEF Save, StateNow, DisplayTyped
  <1> QED
    BY <1>1, <1>2, StepsKeep DEF DisplayTyped

(* The display keeps its types, in every state and save: with any number   *)
(* of lines a program asks for, the line counter stays a byte.             *)
THEOREM DisplayKept == Spec => []DisplayTyped
  BY DisplayStarts, DisplayContinues, PTL DEF Spec

(* Whenever a program moves its sprites, and whatever number of lines its  *)
(* frames have, the table being drawn is not written while lines are drawn *)
(* from it.                                                                *)
THEOREM SpritesAreWhole == Spec => SpritesWhole
  <1>1. ASSUME DisplayTyped, [Next]_vars
        PROVE  display.line < Visible /\ pc # "host" =>
                  display'.tables[display'.drawn] = display.tables[display.drawn]
    <2>1. CASE display' = display
      BY <2>1
    <2>2. CASE BeginLine
      BY <1>1, <2>2, BeginLineKeeps DEF DisplayTyped
    <2>3. CASE LateLine
      BY <1>1, <2>3, LateLineKeeps DEF DisplayTyped
    <2>4. CASE DisplayPorts
      BY <1>1, <2>4, DisplayPortsKeep DEF DisplayTyped
    <2>5. CASE Reset \/ Load
      BY <2>5 DEF Reset, Load
    <2> QED
      BY <1>1, <2>1, <2>2, <2>3, <2>4, <2>5, StepsKeep
  <1> QED
    BY <1>1, DisplayKept, PTL DEF Spec, SpritesWhole

-----------------------------------------------------------------------------
(* A program that reads the clock.                                         *)

(* Who changes the clock and what was read of it.                          *)
clockVars == <<rtc, saved, asked, got>>

LEMMA ProgramsKeep ==
    ASSUME [ProgramsNext]_allVars
    PROVE  /\ program' = program
           /\ UNCHANGED clockVars \/ EndLine \/ ReaderStep
              \/ (program = "frames" /\ (Reset \/ Save \/ Load) /\ UNCHANGED <<asked, got>>)
           /\ EndLine => UNCHANGED <<saved, asked, got>>
  <1> USE DEF clockVars, Register, SetInt, SetDisplay, SetRtc, SetSdma, SetEeprom, SetSound, SetDma,
              cpuVars, deviceVars, Quiet, Did, Note, auxVars
  <1>1. CASE ReaderStep
    BY <1>1 DEF ReaderStep, EndLine
  <1>2. CASE FramesStep
    <2>1. CASE Reset \/ Save \/ Load
      BY <1>2, <2>1 DEF FramesStep, EndLine, Reset, Save, Load
    <2>2. CASE ~(Reset \/ Save \/ Load)
      BY <1>2, <2>2 DEF FramesStep, EndLine, SetTotal, SetCompare, SetSprites, SetTimers, Halt
    <2> QED
      BY <2>1, <2>2
  <1>3. CASE TimersStep
    BY <1>3 DEF TimersStep, EndLine, SetTimers
  <1>4. CASE StreamsStep
    BY <1>4 DEF StreamsStep, EndLine
  <1>5. CASE TunesStep
    BY <1>5 DEF TunesStep, EndLine, RamWrite, Compute
  <1>6. CASE StoresStep \/ CopiesStep
    BY <1>6 DEF StoresStep, CopiesStep, EndLine, StartDma, SetColour
  <1>7. CASE LineStep
    BY <1>7 DEF LineStep, Line, BeginLine, MidLine, LateLine, EndLine
  <1>8. CASE Idle \/ Answer \/ Others
    BY <1>8 DEF Idle, Answer, Others, Compute, Sleep, Wake, Emulate, EndLine
  <1>9. CASE UNCHANGED allVars
    BY <1>9 DEF allVars, vars, EndLine
  <1> QED
    BY <1>1, <1>2, <1>3, <1>4, <1>5, <1>6, <1>7, <1>8, <1>9 DEF ProgramsNext

(* What the reader has got, and what the clock still has for it.           *)
Halfway ==
    /\ asked \in Dates /\ got \in Seq(Byte) /\ Len(got) <= 7
    /\ \A i \in 1 .. Len(got) : got[i] = Bytes(asked)[i]
    /\ program # "reader" => got = <<>>
    /\ program = "reader" /\ rtc.command = READ =>
          rtc.buffer = Bytes(asked) /\ rtc.index = Len(got) /\ rtc.count = 7
ReaderInv == ClockTyped /\ Halfway

LEMMA DateBytes ==
    ASSUME NEW date \in Dates
    PROVE  Bytes(date) \in Seq(Byte) /\ Len(Bytes(date)) = 7
  <1>1. \A i \in 1 .. 7 : Bytes(date)[i] \in Byte
    <2> SUFFICES ASSUME NEW i \in 1 .. 7 PROVE Bytes(date)[i] \in Byte
      OBVIOUS
    <2>1. /\ Order[1] = "year" /\ Order[2] = "mon" /\ Order[3] = "mday" /\ Order[4] = "wday"
          /\ Order[5] = "hour" /\ Order[6] = "min" /\ Order[7] = "sec"
      BY DEF Order
    <2>2. i = 1 \/ i = 2 \/ i = 3 \/ i = 4 \/ i = 5 \/ i = 6 \/ i = 7
      OBVIOUS
    <2>3. Bytes(date)[i] = date[Order[i]]
      BY DEF Bytes
    <2> QED
      BY <2>1, <2>2, <2>3 DEF Dates, Byte
  <1>2. Bytes(date) = [i \in 1 .. 7 |-> Bytes(date)[i]]
    BY DEF Bytes
  <1>3. Bytes(date) \in [1 .. 7 -> Byte]
    BY <1>1, <1>2
  <1> QED
    BY <1>3, <1>2

LEMMA ReaderStarts == ProgramsInit => ReaderInv
  <1> SUFFICES ASSUME ProgramsInit PROVE ReaderInv
    OBVIOUS
  <1>1. \A n \in 0 .. 99 : Bcd(n) \in 0 .. 255
    BY DEF Bcd
  <1>2. Evening \in Dates
    BY <1>1 DEF Evening, Dates
  <1>3. LastSeconds \subseteq Dates
    <2> SUFFICES ASSUME NEW d \in LastSeconds PROVE d \in Dates
      OBVIOUS
    <2>1. \A m \in 1 .. 12 : Bcd(m) \in 0 .. 255
      BY <1>1
    <2>2. /\ d.year \in 0 .. 255 /\ d.mon \in 0 .. 255 /\ d.mday \in 0 .. 255 /\ d.wday \in 0 .. 255
          /\ d.hour \in 0 .. 255 /\ d.min \in 0 .. 255 /\ d.sec \in 0 .. 255
      BY <1>1, <2>1 DEF LastSeconds, Days
    <2>3. d = [year |-> d.year, mon |-> d.mon, mday |-> d.mday, wday |-> d.wday,
               hour |-> d.hour, min |-> d.min, sec |-> d.sec]
      BY DEF LastSeconds
    <2> QED
      BY <2>2, <2>3 DEF Dates
  <1>4. StoredDates \subseteq Dates
    BY <1>1 DEF StoredDates, Dates, Odd
  <1>5. PICK d \in Dates : rtc = [RTC_Init(d) EXCEPT !.cycles = ClockRate - 256]
    BY <1>2, <1>3, <1>4 DEF ProgramsInit
  <1>6. rtc = [date |-> d, cycles |-> ClockRate - 256, command |-> 0, buffer |-> NoBytes,
               index |-> 0, count |-> 0]
    BY <1>5 DEF RTC_Init, RTC_Reset
  <1>7. ClockRate - 256 \in Cycles
    BY ClockAssumption DEF Cycles
  <1>8. rtc \in Clocks /\ saved.rtc = rtc
    BY <1>6, <1>7, ClockFields DEF ProgramsInit, StateNow
  <1> QED
    BY <1>2, <1>6, <1>8 DEF ReaderInv, ClockTyped, Halfway, ProgramsInit, READ

LEMMA ReaderContinues == ReaderInv /\ [ProgramsNext]_allVars => ReaderInv'
  <1> SUFFICES ASSUME ReaderInv, [ProgramsNext]_allVars PROVE ReaderInv'
    OBVIOUS
  <1>0. program' = program /\ rtc \in Clocks /\ rtc.date \in Dates
    BY ProgramsKeep DEF ReaderInv, ClockTyped, Clocks
  <1>1. CASE UNCHANGED clockVars
    BY <1>0, <1>1 DEF clockVars, ReaderInv, ClockTyped, Halfway
  <1>2. CASE EndLine
    <2>1. UNCHANGED <<saved, asked, got>> /\ rtc' = RTC_Clock(rtc, 256)
      BY <1>2, ProgramsKeep DEF EndLine
    <2>2. /\ rtc' \in Clocks /\ rtc'.command = rtc.command /\ rtc'.buffer = rtc.buffer
          /\ rtc'.index = rtc.index /\ rtc'.count = rtc.count
      <3>1. /\ RTC_Clock(rtc, 256).command = rtc.command /\ RTC_Clock(rtc, 256).buffer = rtc.buffer
            /\ RTC_Clock(rtc, 256).index = rtc.index /\ RTC_Clock(rtc, 256).count = rtc.count
        BY <1>0 DEF RTC_Clock, Second, Clocks
      <3> QED
        BY <1>0, <2>1, <3>1, ClockOperations
    <2> QED
      BY <1>0, <2>1, <2>2 DEF ReaderInv, ClockTyped, Halfway
  <1>3. CASE program = "frames" /\ (Reset \/ Save \/ Load) /\ UNCHANGED <<asked, got>>
    <2>1. rtc' \in Clocks /\ saved'.rtc \in Clocks
      <3>1. CASE Reset
        BY <1>0, <3>1, ClockOperations DEF Reset, ReaderInv, ClockTyped
      <3>2. CASE Save
        <4>1. rtc' = rtc /\ saved'.rtc = rtc
          BY <3>2 DEF Save, StateNow, deviceVars
        <4> QED
          BY <1>0, <4>1
      <3>3. CASE Load
        BY <1>0, <3>3 DEF Load, ReaderInv, ClockTyped
      <3> QED
        BY <1>3, <3>1, <3>2, <3>3
    <2> QED
      BY <1>0, <1>3, <2>1 DEF ReaderInv, ClockTyped, Halfway
  <1>4. CASE ReaderStep
    <2>1. program = "reader" /\ saved' = saved
      BY <1>4 DEF ReaderStep, Did, SetRtc, Register
    <2>2. ASSUME NEW byte \in ClockBytes, rtc' = RTC_Command(rtc, byte),
                 IF byte % 32 = READ THEN asked' = rtc.date /\ got' = <<>>
                 ELSE UNCHANGED <<asked, got>>
          PROVE  ReaderInv'
      <3>1. byte \in Byte
        BY ProgramsAssumption
      <3>2. rtc' \in Clocks
        BY <1>0, <2>2, <3>1, ClockOperations
      <3>3. rtc'.command = byte % 32
        BY <1>0, <2>2 DEF RTC_Command, Clocks
      <3>4. CASE byte % 32 = READ
        <4>1. rtc'.buffer = Bytes(rtc.date) /\ rtc'.index = 0 /\ rtc'.count = 7
          BY <1>0, <2>2, <3>4 DEF RTC_Command, Clocks
        <4>2. asked' \in Dates /\ got' = <<>> /\ rtc'.buffer = Bytes(asked')
          BY <1>0, <2>2, <3>4, <4>1
        <4>3. got' \in Seq(Byte) /\ Len(got') = 0
          BY <4>2
        <4>4. Halfway'
          BY <1>0, <2>1, <4>1, <4>2, <4>3 DEF Halfway
        <4> QED
          BY <2>1, <3>2, <4>4 DEF ReaderInv, ClockTyped
      <3>5. CASE byte % 32 # READ
        BY <1>0, <2>1, <2>2, <3>2, <3>3, <3>5 DEF ReaderInv, ClockTyped, Halfway
      <3> QED
        BY <3>4, <3>5
    <2>3. ASSUME NEW byte \in ClockBytes, rtc' = RTC_Data(rtc, byte), UNCHANGED <<asked, got>>
          PROVE  ReaderInv'
      <3>1. byte \in Byte
        BY ProgramsAssumption
      <3>2. rtc' \in Clocks
        BY <1>0, <2>3, <3>1, ClockOperations
      <3>3. rtc'.command = rtc.command /\ (rtc.command = READ => rtc' = rtc)
        BY <1>0, <2>3 DEF RTC_Data, Clocks, READ, WRITE
      <3> QED
        BY <1>0, <2>1, <2>3, <3>2, <3>3 DEF ReaderInv, ClockTyped, Halfway
    <2>4. ASSUME rtc' = AfterRead(rtc), Left(rtc), asked' = asked, got' = Append(got, ReadByte(rtc))
          PROVE  ReaderInv'
      <3>1. rtc' \in Clocks
        BY <1>0, <2>4, ClockOperations
      <3>2. /\ rtc.command = READ /\ rtc.index < rtc.count
            /\ rtc' = [rtc EXCEPT !.index = rtc.index + 1]
            /\ got' = Append(got, rtc.buffer[rtc.index + 1])
        BY <2>4 DEF Left, AfterRead, ReadByte
      <3>3. rtc.buffer = Bytes(asked) /\ rtc.index = Len(got) /\ rtc.count = 7 /\ Len(got) < 7
        BY <2>1, <3>2 DEF ReaderInv, Halfway
      <3>4. asked \in Dates /\ Bytes(asked) \in Seq(Byte) /\ Len(Bytes(asked)) = 7
        BY DateBytes DEF ReaderInv, Halfway
      <3>5. got \in Seq(Byte) /\ Len(got) + 1 \in 1 .. 7
        BY <3>3 DEF ReaderInv, Halfway
      <3>6. Bytes(asked)[Len(got) + 1] \in Byte
        BY <3>4, <3>5, ElementOfSeq
      <3>7. got' = Append(got, Bytes(asked)[Len(got) + 1])
        BY <3>2, <3>3
      <3>8. got' \in Seq(Byte) /\ Len(got') = Len(got) + 1 /\ Len(got') <= 7
        BY <3>5, <3>6, <3>7
      <3>9. \A i \in 1 .. Len(got') : got'[i] = Bytes(asked)[i]
        BY <3>5, <3>6, <3>7, <3>8 DEF ReaderInv, Halfway
      <3>10. /\ rtc'.buffer = Bytes(asked') /\ rtc'.index = Len(got') /\ rtc'.count = 7
        BY <1>0, <2>4, <3>2, <3>3, <3>8 DEF Clocks
      <3>11. Halfway'
        BY <1>0, <2>1, <2>4, <3>4, <3>8, <3>9, <3>10 DEF Halfway
      <3> QED
        BY <2>1, <3>1, <3>11 DEF ReaderInv, ClockTyped
    <2>5. ASSUME NEW date \in Dates, rtc' = StoreTime(rtc, date), UNCHANGED <<asked, got>>
          PROVE  ReaderInv'
      <3>1. rtc' \in Clocks
        BY <1>0, <2>5, ClockOperations
      <3>2. /\ rtc'.command = rtc.command /\ rtc'.buffer = rtc.buffer
            /\ rtc'.index = rtc.index /\ rtc'.count = rtc.count
        BY <1>0, <2>5 DEF StoreTime, Clocks
      <3> QED
        BY <1>0, <2>1, <2>5, <3>1, <3>2 DEF ReaderInv, ClockTyped, Halfway
    <2>6. [Evening EXCEPT !.sec = 7] \in Dates
      <3>1. \A n \in 0 .. 99 : Bcd(n) \in 0 .. 255
        BY DEF Bcd
      <3> QED
        BY <3>1 DEF Evening, Dates
    <2> QED
      BY <1>4, <2>2, <2>3, <2>4, <2>5, <2>6 DEF ReaderStep, SetRtc, Note, auxVars
  <1> QED
    BY <1>1, <1>2, <1>3, <1>4, ProgramsKeep

(* The seven bytes a program reads are those of one moment, whatever bytes *)
(* it writes to the clock's ports, and whenever.                           *)
THEOREM ReadsAreOfOneMoment == ProgramsSpec => []ReadsOneMoment
  <1>1. ReaderInv => ReadsOneMoment
    <2> SUFFICES ASSUME ReaderInv PROVE got = SubSeq(Bytes(asked), 1, Len(got))
      BY DEF ReadsOneMoment
    <2> DEFINE n == Len(got)
               s == Bytes(asked)
    <2>1. /\ asked \in Dates /\ got \in Seq(Byte) /\ n <= 7
          /\ \A i \in 1 .. n : got[i] = s[i]
      BY DEF ReaderInv, Halfway
    <2>2. s \in Seq(Byte) /\ Len(s) = 7
      BY <2>1, DateBytes
    <2> HIDE DEF s
    <2>5. n \in 0 .. 7 /\ n \in Int /\ 1 \in Int
      <3>1. n \in Nat
        BY <2>1, LenProperties
      <3>2. n <= 7
        BY <2>1
      <3> HIDE DEF n
      <3> QED
        BY <3>1, <3>2
    <2> HIDE DEF n
    <2>6. \A i \in 1 .. n : s[i] \in Byte
      <3> SUFFICES ASSUME NEW i \in 1 .. n PROVE s[i] \in Byte
        OBVIOUS
      <3>1. i \in 1 .. Len(s)
        BY <2>2, <2>5
      <3> QED
        BY <2>2, <3>1, ElementOfSeq
    <2>7. /\ SubSeq(s, 1, n) \in Seq(Byte)
          /\ Len(SubSeq(s, 1, n)) = IF 1 <= n THEN n - 1 + 1 ELSE 0
          /\ \A i \in 1 .. n - 1 + 1 : SubSeq(s, 1, n)[i] = s[1 + i - 1]
      BY <2>5, <2>6, SubSeqProperties
    <2>3. /\ SubSeq(s, 1, n) \in Seq(Byte) /\ Len(SubSeq(s, 1, n)) = n
          /\ \A i \in 1 .. n : SubSeq(s, 1, n)[i] = s[i]
      <3>1. n - 1 + 1 = n /\ \A i \in 1 .. n : 1 + i - 1 = i
        BY <2>5
      <3> QED
        BY <2>5, <2>7, <3>1
    <2>4. got = SubSeq(s, 1, n)
      BY <2>1, <2>2, <2>3, SeqEqual DEF n
    <2> QED
      BY <2>4 DEF s, n
  <1> QED
    BY <1>1, ReaderStarts, ReaderContinues, PTL DEF ProgramsSpec

-----------------------------------------------------------------------------
(* The frames.                                                             *)

(* What a step does to the processor, the display and the lines counted.   *)
Noted == slept' = 0 /\ since' = since
Still == slept' = slept /\ since' = since
BeginsLine ==
    /\ BeginLine
    /\ since' = IF AtVBlank THEN 0 ELSE since + 1
    /\ slept' = IF halted THEN slept + 1 ELSE slept
GoesOn == (MidLine \/ LateLine \/ EndLine \/ Emulate \/ Sleep \/ Wake) /\ Still
Stops == (Halt \/ Reset \/ Save \/ Load) /\ Noted
Runs ==
    /\ Running /\ UNCHANGED <<halted, pc, ends, saved>> /\ Still
    /\ left' = left \/ \E cycles \in Nat \cup {left} : left' = left - cycles
    /\ int' = int \/ InterruptPorts
    /\ \/ display' = display
       \/ \E n \in Totals : display' = [display EXCEPT !.total = n]
       \/ display' = [display EXCEPT !.compare = 2]
       \/ \E n \in 1 .. 2 : display' = [display EXCEPT !.sprites = n]
       \/ \E on \in BOOLEAN : display' = [display EXCEPT !.colour = on]
       \/ display' = [display EXCEPT !.vb = PeriodByteHigh(PeriodByteLow(@, 1), 0)]
       \/ display' = [display EXCEPT !.hb = PeriodByteHigh(@, 0)]
       \/ \E hbOn, hbLoop, vbOn, vbLoop \in BOOLEAN :
             display' = [display EXCEPT !.hb.on = hbOn, !.hb.loop = hbLoop,
                                        !.vb.on = vbOn, !.vb.loop = vbLoop]
Rests == UNCHANGED <<int, display, saved, left, halted, pc, ends>> /\ Still

LEMMA FrameSteps ==
    ASSUME [ProgramsNext]_allVars
    PROVE  BeginsLine \/ GoesOn \/ Stops \/ Runs \/ Rests
  <1> USE DEF Register, SetInt, SetDisplay, SetRtc, SetSdma, SetEeprom, SetSound, SetDma,
              cpuVars, deviceVars, Quiet, Did, Note, auxVars, Noted, Still
  <1>1. CASE ReaderStep
    <2>1. slept' = slept /\ since' = since
      BY <1>1 DEF ReaderStep
    <2>2. Register /\ UNCHANGED <<int, display>>
      BY <1>1 DEF ReaderStep
    <2>3. Running /\ left' = left /\ halted' = halted /\ pc' = pc /\ ends' = ends /\ saved' = saved
      BY <2>2
    <2>4. int' = int /\ display' = display
      BY <2>2
    <2>5. Runs
      BY <2>1, <2>3, <2>4 DEF Runs
    <2> QED
      BY <2>5
  <1>2. CASE FramesStep
    <2>1. ASSUME Halt \/ Reset \/ Save \/ Load, Note(0, beat, asked, got) PROVE Stops
      BY <2>1 DEF Stops
    <2>2. ASSUME \E bits \in {{VBLANK}, {VBLANK, VBLANK_TIMER}, {}} :
                    SetInt(WriteEnable(int, bits)) /\ UNCHANGED auxVars
          PROVE  Runs
      <3>1. {VBLANK} \in SUBSET Sources /\ {VBLANK, VBLANK_TIMER} \in SUBSET Sources /\ {} \in SUBSET Sources
        BY DEF VBLANK, VBLANK_TIMER, Sources
      <3> QED
        BY <2>2, <3>1 DEF Runs, InterruptPorts
    <2>3. ASSUME SetInt(Acknowledge(int, Sources)) /\ UNCHANGED auxVars
          PROVE  Runs
      BY <2>3 DEF Runs, InterruptPorts
    <2>4. ASSUME \/ \E n \in Totals : SetTotal(n)
                 \/ SetCompare(2)
                 \/ \E n \in 1 .. 2 : SetSprites(n)
                 \/ SetDisplay([display EXCEPT !.vb = PeriodByteHigh(PeriodByteLow(@, 1), 0)]),
                 UNCHANGED auxVars
          PROVE  Runs
      BY <2>4 DEF Runs, SetTotal, SetCompare, SetSprites
    <2>5. ASSUME SetTimers(FALSE, FALSE, TRUE, TRUE), UNCHANGED auxVars
          PROVE  Runs
      BY <2>5 DEF Runs, SetTimers
    <2>6. \/ (Halt \/ Reset \/ Save \/ Load) /\ Note(0, beat, asked, got)
          \/ \E bits \in {{VBLANK}, {VBLANK, VBLANK_TIMER}, {}} :
                SetInt(WriteEnable(int, bits)) /\ UNCHANGED auxVars
          \/ SetInt(Acknowledge(int, Sources)) /\ UNCHANGED auxVars
          \/ /\ \/ \E n \in Totals : SetTotal(n)
                \/ SetCompare(2)
                \/ \E n \in 1 .. 2 : SetSprites(n)
                \/ SetDisplay([display EXCEPT !.vb = PeriodByteHigh(PeriodByteLow(@, 1), 0)])
             /\ UNCHANGED auxVars
          \/ SetTimers(FALSE, FALSE, TRUE, TRUE) /\ UNCHANGED auxVars
      <3> HIDE DEF Register, SetInt, SetDisplay, Note, auxVars
      <3> QED
        BY <1>2 DEF FramesStep
    <2> QED
      BY <2>1, <2>2, <2>3, <2>4, <2>5, <2>6
  <1>3. CASE TimersStep
    <2>1. 8 \in Byte
      BY DEF Byte
    <2> QED
      BY <1>3, <2>1 DEF TimersStep, Runs, SetTimers, InterruptPorts
  <1>4. CASE StreamsStep
    BY <1>4 DEF StreamsStep, Runs
  <1>5. CASE TunesStep
    <2>1. ASSUME NEW cycles \in Costs, Compute(cycles), UNCHANGED auxVars PROVE Runs
      BY <2>1, ProgramsAssumption DEF Runs, Compute, Takes
    <2> QED
      BY <1>5, <2>1 DEF TunesStep, RamWrite, Runs
  <1>6. CASE StoresStep \/ CopiesStep
    BY <1>6 DEF StoresStep, CopiesStep, StartDma, SetColour, Runs
  <1>7. CASE LineStep
    <2>1. CASE BeginLine
      BY <1>7, <2>1 DEF LineStep, BeginLine, BeginsLine
    <2>2. CASE ~BeginLine
      <3>1. pc # "line" /\ (MidLine \/ LateLine \/ EndLine)
        BY <1>7, <2>2 DEF LineStep, Line, MidLine, LateLine, EndLine
      <3> QED
        BY <1>7, <3>1 DEF LineStep, GoesOn
    <2> QED
      BY <2>1, <2>2
  <1>8. CASE Idle
    BY <1>8 DEF Idle, Compute, Takes, Runs
  <1>10. CASE Answer
    <2>1. {HBLANK_TIMER} \in SUBSET Sources
      BY DEF HBLANK_TIMER, Sources
    <2> QED
      BY <1>10, <2>1 DEF Answer, Runs, InterruptPorts
  <1>11. CASE Others
    BY <1>11 DEF Others, GoesOn
  <1>9. CASE UNCHANGED allVars
    BY <1>9 DEF allVars, vars, Rests
  <1> QED
    BY <1>1, <1>2, <1>3, <1>4, <1>5, <1>6, <1>7, <1>8, <1>9, <1>10, <1>11 DEF ProgramsNext

Longest == Totals \cup {FirstTotal, Visible}
Measured(d) == d.line <= 2 * Visible /\ d.total \in Totals \cup {FirstTotal}

(* How many lines lie behind, by the line the display is in: the step to   *)
(* the next line is taken in the third run of the processor.               *)
Behind(line, lines) ==
    IF line > Visible THEN lines <= line - Visible - 1
    ELSE \E n \in Longest : n >= Visible /\ lines <= n - Visible + line
CountedFrom ==
    IF pc \in {"cpu1", "cpu2"} THEN Behind(display.line + 1, since) ELSE Behind(display.line, since)

(* A processor asleep at VBlank has been asked, and wakes next.            *)
Woken == int.cache.on /\ left > 0 /\ pc = "cpu1" /\ \E n \in Longest : slept <= n + 1
Sleeps == halted /\ VBLANK \in int.enable => slept <= since \/ Woken
Clocked ==
    /\ since \in Nat /\ slept \in Nat /\ left \in Int /\ saved.left \in Int
    /\ (halted => left >= 0) /\ (saved.halted => saved.left >= 0)
    /\ pc \in {"host", "line", "cpu1", "cpu2", "cpu3"}
    /\ pc = "host" \/ (pc \notin {"host", "line"} /\ ends) => since = 0
FramesInv ==
    /\ IntInv /\ DisplayTyped
    /\ Measured(display) /\ Measured(saved.display)
    /\ Clocked /\ CountedFrom /\ Sleeps

(* The lengths a frame may have are small numbers, and Visible is one.     *)
LEMMA Lengths ==
    /\ Visible \in Longest /\ Visible \in 3 .. 254
    /\ \A n \in Longest : n \in Byte /\ n <= 2 * Visible
  BY ProgramsAssumption, ConsoleAssumption DEF Longest, Byte

(* The line after this one, or the first ones of the next frame.           *)
LEMMA LineAfter ==
    ASSUME NEW d \in Displays, Measured(d)
    PROVE  \E m \in Longest :
              /\ m >= Visible
              /\ NextLine(d) = IF d.line < m THEN d.line + 1 ELSE d.line - m
              /\ NextLine(d) <= 2 * Visible /\ NextLine(d) \in Nat
  <1> DEFINE m == Larger(Visible, d.total)
             l == d.line
  <1>1. m \in Longest /\ m >= Visible /\ m \in Nat /\ m <= 2 * Visible
    <2>1. d.total \in Longest /\ d.total \in Nat /\ d.total <= 2 * Visible
      <3>1. d.total \in Longest
        BY DEF Measured, Longest
      <3>2. \A n \in Longest : n \in Nat /\ n <= 2 * Visible
        BY Lengths DEF Byte
      <3> QED
        BY <3>1, <3>2, Zenon
    <2>2. Visible \in Longest /\ Visible \in Nat /\ Visible <= 2 * Visible
      BY ConsoleAssumption DEF Longest
    <2> QED
      BY <2>1, <2>2 DEF Larger
  <1>2. l \in Nat /\ l <= 2 * Visible /\ Visible \in Nat
    BY DisplayParts, ConsoleAssumption DEF Measured, Byte
  <1>3. NextLine(d) = (l + 1) % (m + 1)
    BY DEF NextLine
  <1> HIDE DEF m, l
  <1>4. CASE l < m
    <2>1. (l + 1) % (m + 1) = l + 1
      BY <1>1, <1>2, <1>4
    <2> QED
      BY <1>1, <1>2, <1>3, <1>4, <2>1 DEF l
  <1>5. CASE l >= m
    <2>1. l - m \in 0 .. m /\ l + 1 = (m + 1) + (l - m)
      BY <1>1, <1>2, <1>5
    <2>2. (l + 1) % (m + 1) = l - m
      <3> DEFINE q == m + 1
                 r == l - m
      <3>1. q \in Nat /\ q > 0 /\ r \in Nat /\ r < q /\ l + 1 = q + r
        BY <1>1, <1>2, <2>1
      <3> HIDE DEF q, r
      <3>2. (q + r) % q = r
        BY <3>1
      <3> QED
        BY <3>1, <3>2 DEF q, r
    <2> QED
      BY <1>1, <1>2, <1>3, <1>5, <2>1, <2>2 DEF l
  <1> QED
    BY <1>1, <1>2, <1>4, <1>5

(* A request for an enabled source is told of, and none is taken back.     *)
LEMMA RequestTells ==
    ASSUME NEW i \in Controllers, Fresh(i), NEW which \in Sources, NEW when
    PROVE  /\ Request(i, which, when).enable = i.enable
           /\ (when /\ which \in i.enable) \/ i.cache.on => Request(i, which, when).cache.on
  <1>1. \A bits, from : CacheOf(bits, from).on = (bits # {})
    BY DEF CacheOf
  <1>2. CASE ~when
    BY <1>2 DEF Request
  <1>3. CASE when
    <2> DEFINE more == i.status \cup ({which} \cap i.enable)
               all == more \cup (i.asserted \cap LevelTriggered \cap i.enable)
    <2>1. Interrupt(i, which) = [i EXCEPT !.status = all, !.cache = CacheOf(all, i.base)]
      BY DEF Interrupt, Recalc, Controllers
    <2>2. which \in i.enable \/ i.cache.on => all # {}
      BY <1>1 DEF Fresh
    <2> HIDE DEF all
    <2>3. Interrupt(i, which).cache = CacheOf(all, i.base) /\ Interrupt(i, which).enable = i.enable
      BY <2>1 DEF Controllers
    <2> QED
      BY <1>1, <1>3, <2>2, <2>3 DEF Request
  <1> QED
    BY <1>2, <1>3

LEMMA FramesStart == ProgramsInit => FramesInv
  <1> SUFFICES ASSUME ProgramsInit PROVE FramesInv
    OBVIOUS
  <1>1. saved = StateNow /\ left = 128 /\ pc = "cpu1" /\ ends = FALSE /\ since = 0 /\ slept = 0
    BY DEF ProgramsInit
  <1>2. IntInv
    <2>1. saved.int = int
      BY <1>1 DEF StateNow
    <2>2. {HBLANK_TIMER} \in SUBSET Sources
      BY DEF HBLANK_TIMER, Sources
    <2>3. Announcing(WriteEnable(InterruptReset, {HBLANK_TIMER}), {})
      <3>1. InterruptReset \in Controllers /\ InterruptReset.asserted = {}
        BY ResetAnnounces DEF Announcing
      <3> QED
        BY <2>2, <3>1, Controlled
    <2>4. Announcing(int, {})
      BY <2>3, ResetAnnounces DEF ProgramsInit
    <2> QED
      BY <2>1, <2>4 DEF IntInv, InterruptTyped, AlwaysTold, Announcing
  <1>3. display \in Displays /\ display.line = 0 /\ display.total = FirstTotal
    <2>1. DisplayReset.line = 0 /\ DisplayReset.total = FirstTotal
      BY DEF DisplayReset
    <2>2. ASSUME NEW p \in Periods
          PROVE  LET d == [DisplayReset EXCEPT !.hb.period = p]
                 IN  d \in Displays /\ d.line = 0 /\ d.total = FirstTotal
      <3>1. p \in Address
        BY ProgramsAssumption, WordBounds DEF Address
      <3>2. DisplayReset.hb \in Timers
        BY DisplayBegins, DisplayParts
      <3>3. [DisplayReset.hb EXCEPT !.period = p] \in Timers
        BY <3>1, <3>2, TimerFields
      <3> QED
        BY <2>1, <3>3, DisplayBegins, DisplayFields
    <2>3. display = DisplayReset \/ \E p \in Periods : display = [DisplayReset EXCEPT !.hb.period = p]
      BY DEF ProgramsInit
    <2>4. CASE display = DisplayReset
      BY <2>1, <2>4, DisplayBegins
    <2>5. ASSUME NEW p \in Periods, display = [DisplayReset EXCEPT !.hb.period = p]
          PROVE  display \in Displays /\ display.line = 0 /\ display.total = FirstTotal
      BY <2>2, <2>5
    <2> QED
      BY <2>3, <2>4, <2>5
  <1>4. saved.display = display /\ saved.left = left /\ saved.halted = halted
    BY <1>1 DEF StateNow
  <1>5. Measured(display) /\ Measured(saved.display)
    BY <1>3, <1>4, Lengths DEF Measured
  <1>6. Clocked
    BY <1>1, <1>4 DEF Clocked
  <1>7. CountedFrom
    BY <1>1, <1>3, Lengths DEF CountedFrom, Behind
  <1>8. Sleeps
    BY <1>1 DEF Sleeps
  <1> QED
    BY <1>2, <1>3, <1>4, <1>5, <1>6, <1>7, <1>8 DEF FramesInv, DisplayTyped

(* The first half of a line.                                               *)
LEMMA FramesBegin ==
    ASSUME FramesInv, BeginsLine
    PROVE  FramesInv'
  <1>1. /\ pc = "line" /\ pc' = "cpu1" /\ left' = left + 128 /\ ends' = AtVBlank
        /\ halted' = halted /\ saved' = saved
        /\ since' = IF AtVBlank THEN 0 ELSE since + 1
        /\ slept' = IF halted THEN slept + 1 ELSE slept
    BY DEF BeginsLine, BeginLine
  <1>2. IntInv'
    BY <1>1, InterruptSteps DEF FramesInv, BeginsLine
  <1>3. display' \in Displays /\ display'.line = display.line /\ display'.total = display.total
    <2>1. display' \in Displays
      BY BeginLineKeeps DEF FramesInv, BeginsLine, DisplayTyped
    <2>2. Latch(display).line = display.line /\ Latch(display).total = display.total
      BY DEF Latch, FramesInv, DisplayTyped, Displays
    <2>3. \E drawn, vb, hb : display' = [Latch(display) EXCEPT !.drawn = drawn, !.vb = vb, !.hb = hb]
      BY DEF BeginsLine, BeginLine
    <2>4. display'.line = Latch(display).line /\ display'.total = Latch(display).total
      BY <2>3
    <2> QED
      BY <2>1, <2>2, <2>4
  <1>4. Measured(display)' /\ Measured(saved.display)'
    BY <1>1, <1>3 DEF FramesInv, Measured
  <1>5. since \in Nat /\ slept \in Nat /\ left \in Int /\ (halted => left >= 0)
    BY DEF FramesInv, Clocked
  <1>6. Clocked'
    <2>1. pc' = "cpu1" /\ pc' \notin {"host", "line"} /\ (ends' => since' = 0)
      BY <1>1
    <2>2. since' \in Nat /\ slept' \in Nat /\ left' \in Int /\ (halted' => left' >= 0)
      BY <1>1, <1>5
    <2>3. saved'.left \in Int /\ (saved'.halted => saved'.left >= 0)
      BY <1>1 DEF FramesInv, Clocked
    <2> QED
      BY <2>1, <2>2, <2>3 DEF Clocked
  <1>7. CountedFrom'
    <2>1. display.line \in Nat /\ Behind(display.line, since)
      BY <1>1, DisplayParts DEF FramesInv, CountedFrom, DisplayTyped, Byte
    <2>2. Behind(display.line + 1, since')
      <3> DEFINE l == display.line
      <3>1. l \in Nat
        BY <2>1
      <3>2. CASE l = Visible
        BY <1>1, <3>1, <3>2, Lengths DEF Behind, AtVBlank
      <3>3. CASE l > Visible
        BY <1>1, <1>5, <2>1, <3>1, <3>3, Lengths DEF Behind, AtVBlank
      <3>4. CASE l < Visible
        <4>1. PICK n \in Longest : n >= Visible /\ since <= n - Visible + l
          BY <2>1, <3>1, <3>4, Lengths DEF Behind
        <4>2. n \in Nat
          BY Lengths DEF Byte
        <4>3. since' = since + 1 /\ ~(l + 1 > Visible)
          BY <1>1, <3>1, <3>4, Lengths DEF AtVBlank
        <4> HIDE DEF l
        <4>4. since' <= n - Visible + (l + 1)
          BY <1>5, <3>1, <4>1, <4>2, <4>3, Lengths
        <4> QED
          BY <4>1, <4>3, <4>4 DEF Behind, l
      <3> QED
        BY <3>1, <3>2, <3>3, <3>4, Lengths
    <2> QED
      BY <1>1, <1>3, <2>2 DEF CountedFrom
  <1>8. Sleeps'
    <2> SUFFICES ASSUME halted, VBLANK \in int'.enable PROVE slept' <= since' \/ Woken'
      BY <1>1 DEF Sleeps
    <2>1. int'.enable = int.enable /\ (AtVBlank /\ VBLANK \in int.enable => int'.cache.on)
      <3> DEFINE one == Request(int, VBLANK, AtVBlank)
                 two == Request(one, VBLANK_TIMER, AtVBlank /\ Fires(display.vb))
      <3>0. VBLANK \in Sources /\ VBLANK_TIMER \in Sources /\ HBLANK_TIMER \in Sources
        BY DEF VBLANK, VBLANK_TIMER, HBLANK_TIMER, Sources
      <3>a. int \in Controllers /\ Fresh(int) /\ Held(int)
        BY DEF FramesInv, IntInv, InterruptTyped, AlwaysTold
      <3>1. /\ one \in Controllers /\ Fresh(one) /\ Held(one) /\ one.enable = int.enable
            /\ AtVBlank /\ VBLANK \in int.enable => one.cache.on
        BY <3>0, <3>a, Requested, RequestTells
      <3>2. int' = Request(two, HBLANK_TIMER, Fires(display.hb))
        BY DEF BeginsLine, BeginLine
      <3> HIDE DEF one
      <3>3. /\ two \in Controllers /\ Fresh(two) /\ Held(two) /\ two.enable = one.enable
            /\ one.cache.on => two.cache.on
        BY <3>0, <3>1, Requested, RequestTells
      <3> HIDE DEF two
      <3>4. int'.enable = two.enable /\ (two.cache.on => int'.cache.on)
        BY <3>0, <3>2, <3>3, RequestTells
      <3> QED
        BY <3>1, <3>3, <3>4
    <2>2. slept <= since
      BY <1>1, <2>1 DEF FramesInv, Sleeps, Woken
    <2>3. CASE ~AtVBlank
      BY <1>1, <1>5, <2>2, <2>3
    <2>4. CASE AtVBlank
      <3>1. PICK n \in Longest : since <= n
        <4>1. display.line = Visible /\ Behind(display.line, since)
          BY <1>1, <2>4 DEF FramesInv, CountedFrom, AtVBlank
        <4>2. PICK n \in Longest : since <= n - Visible + Visible
          BY <4>1, Lengths DEF Behind
        <4>3. n \in Nat
          BY Lengths DEF Byte
        <4> QED
          BY <4>2, <4>3, Lengths
      <3>2. n \in Nat
        BY Lengths DEF Byte
      <3>3. slept' <= n + 1
        BY <1>1, <1>5, <2>2, <3>1, <3>2
      <3>4. left' > 0 /\ int'.cache.on
        BY <1>1, <1>5, <2>1, <2>4
      <3> QED
        BY <1>1, <3>3, <3>4 DEF Woken
    <2> QED
      BY <2>3, <2>4
  <1> QED
    BY <1>2, <1>3, <1>4, <1>6, <1>7, <1>8, <1>1 DEF FramesInv, DisplayTyped

(* The rest of a line, and the processor asleep.                           *)
LEMMA FramesGoOn ==
    ASSUME FramesInv, GoesOn
    PROVE  FramesInv'
  <1>0. since' = since /\ slept' = slept
    BY DEF GoesOn, Still
  <1>1. display \in Displays /\ display.line \in Nat
    BY DisplayParts DEF FramesInv, DisplayTyped, Byte
  <1>2. CASE LateLine
    <2>1. /\ pc = "cpu2" /\ pc' = "cpu3" /\ left' = left + 32 /\ ends' = ends /\ halted' = halted
          /\ saved' = saved /\ display' = [display EXCEPT !.line = NextLine(display)]
          /\ int' = Request(int, LINE_HIT, NextLine(display) = display.compare)
      BY <1>2 DEF LateLine
    <2>2. IntInv'
      BY <1>2, <2>1, InterruptSteps DEF FramesInv
    <2>3. int'.enable = int.enable
      <3>1. LINE_HIT \in Sources /\ int \in Controllers /\ Fresh(int)
        BY DEF LINE_HIT, Sources, FramesInv, IntInv, InterruptTyped, AlwaysTold
      <3> QED
        BY <2>1, <3>1, RequestTells
    <2>4. display' \in Displays
      BY <1>1, <1>2, LateLineKeeps
    <2>5. display'.line = NextLine(display) /\ display'.total = display.total
      BY <1>1, <2>1 DEF Displays
    <2>6. PICK m \in Longest :
             /\ m >= Visible
             /\ NextLine(display) = IF display.line < m THEN display.line + 1 ELSE display.line - m
             /\ NextLine(display) <= 2 * Visible /\ NextLine(display) \in Nat
      BY <1>1, LineAfter DEF FramesInv
    <2>7. Measured(display)' /\ Measured(saved.display)'
      BY <2>1, <2>5, <2>6 DEF FramesInv, Measured
    <2>8. Clocked'
      BY <1>0, <2>1 DEF FramesInv, Clocked
    <2>9. CountedFrom'
      <3>1. Behind(display.line + 1, since) /\ since \in Nat
        BY <2>1 DEF FramesInv, CountedFrom, Clocked
      <3>2. m \in Nat
        BY Lengths DEF Byte
      <3>3. display.line <= 2 * Visible
        BY DEF FramesInv, Measured
      <3>4. Behind(NextLine(display), since)
        <4>1. CASE display.line < m
          BY <2>6, <3>1, <4>1
        <4>2. CASE display.line >= m
          <5>1. since <= display.line + 1 - Visible - 1
            BY <1>1, <2>6, <3>1, <3>2, <4>2, Lengths DEF Behind
          <5>2. /\ NextLine(display) = display.line - m
                /\ NextLine(display) <= Visible
            BY <1>1, <2>6, <3>2, <3>3, <4>2, Lengths
          <5>3. since <= m - Visible + NextLine(display)
            BY <1>1, <3>1, <3>2, <5>1, <5>2, Lengths
          <5> QED
            BY <2>6, <5>2, <5>3, Lengths DEF Behind
        <4> QED
          BY <1>1, <3>2, <4>1, <4>2
      <3> QED
        BY <1>0, <2>1, <2>5, <3>4 DEF CountedFrom
    <2>10. Sleeps'
      BY <1>0, <2>1, <2>3 DEF FramesInv, Sleeps, Woken
    <2> QED
      BY <2>1, <2>2, <2>4, <2>7, <2>8, <2>9, <2>10 DEF FramesInv, DisplayTyped
  <1>3. CASE MidLine \/ EndLine \/ Emulate \/ Sleep \/ Wake
    <2>1. int' = int /\ display' = display /\ saved' = saved
      BY <1>3 DEF MidLine, EndLine, Emulate, Sleep, Wake, deviceVars
    <2>2. IntInv'
      BY <2>1, InterruptSteps DEF FramesInv
    <2>3. Clocked'
      <3>1. CASE MidLine
        BY <1>0, <3>1 DEF MidLine, FramesInv, Clocked
      <3>2. CASE EndLine
        BY <1>0, <3>2 DEF EndLine, FramesInv, Clocked
      <3>3. CASE Emulate
        BY <1>0, <3>3 DEF Emulate, FramesInv, Clocked
      <3>4. CASE Sleep
        BY <1>0, <3>4 DEF Sleep, Takes, FramesInv, Clocked
      <3>5. CASE Wake
        BY <1>0, <3>5 DEF Wake, FramesInv, Clocked
      <3> QED
        BY <1>3, <3>1, <3>2, <3>3, <3>4, <3>5
    <2>4. (pc' \in {"cpu1", "cpu2"}) = (pc \in {"cpu1", "cpu2"})
      BY <1>3 DEF MidLine, EndLine, Emulate, Sleep, Wake
    <2>5. CountedFrom'
      BY <1>0, <2>1, <2>4 DEF FramesInv, CountedFrom
    <2>6. Sleeps'
      <3>1. left \in Int
        BY DEF FramesInv, Clocked
      <3>2. CASE (MidLine \/ EndLine) /\ left <= 0
        <4>1. halted' = halted /\ ~Woken
          BY <3>1, <3>2 DEF MidLine, EndLine, Woken
        <4> QED
          BY <1>0, <2>1, <4>1 DEF FramesInv, Sleeps
      <3>3. CASE Emulate \/ Sleep
        BY <1>0, <2>1, <3>1, <3>3 DEF Emulate, Sleep, FramesInv, Sleeps, Woken
      <3>4. CASE Wake
        BY <3>4 DEF Wake, Sleeps
      <3> QED
        BY <1>3, <3>2, <3>3, <3>4 DEF MidLine, EndLine
    <2> QED
      BY <2>1, <2>2, <2>3, <2>5, <2>6 DEF FramesInv, DisplayTyped
  <1> QED
    BY <1>2, <1>3 DEF GoesOn

(* The host, and the processor that halts.                                 *)
LEMMA FramesStop ==
    ASSUME FramesInv, Stops
    PROVE  FramesInv'
  <1>1. slept' = 0 /\ since' = since /\ since \in Nat
    BY DEF Stops, Noted, FramesInv, Clocked
  <1>2. Sleeps'
    BY <1>1 DEF Sleeps
  <1>3. CASE Halt
    <2>1. UNCHANGED <<int, display, saved, left, pc, ends>> /\ left > 0
      BY <1>3 DEF Halt, Running, deviceVars
    <2>2. IntInv'
      BY <2>1, InterruptSteps DEF FramesInv
    <2>3. Clocked'
      BY <1>1, <2>1 DEF FramesInv, Clocked
    <2> QED
      BY <1>1, <1>2, <2>1, <2>2, <2>3 DEF FramesInv, DisplayTyped, Measured, CountedFrom
  <1>4. ASSUME pc = "host", pc' = pc, saved' = saved \/ Save,
               display' \in {display, DisplayReset, saved.display},
               left' \in {left, 0, saved.left}, halted' => left' >= 0,
               int' = int \/ Reset \/ Load
        PROVE  FramesInv'
    <2>1. IntInv'
      BY <1>4, InterruptSteps DEF FramesInv
    <2>2. display' \in Displays /\ Measured(display')
      <3>1. DisplayReset.line = 0 /\ DisplayReset.total = FirstTotal
        BY DEF DisplayReset
      <3>2. Measured(DisplayReset)
        BY <3>1, Lengths DEF Measured
      <3> QED
        BY <1>4, <3>2, DisplayBegins DEF FramesInv, DisplayTyped
    <2>3. /\ saved'.display \in Displays /\ Measured(saved'.display)
          /\ saved'.left \in Int /\ (saved'.halted => saved'.left >= 0)
      BY <1>4 DEF Save, StateNow, FramesInv, DisplayTyped, Clocked
    <2>4. since = 0
      BY <1>4 DEF FramesInv, Clocked
    <2>5. Clocked'
      BY <1>1, <1>4, <2>3, <2>4 DEF FramesInv, Clocked
    <2>6. CountedFrom'
      <3>1. display'.line \in Nat
        BY <2>2, DisplayParts DEF Byte
      <3>2. Behind(display'.line, 0)
        BY <3>1, Lengths DEF Behind
      <3> QED
        BY <1>1, <1>4, <2>4, <3>2 DEF CountedFrom
    <2> QED
      BY <1>2, <2>1, <2>2, <2>3, <2>5, <2>6 DEF FramesInv, DisplayTyped, Measured
  <1>5. CASE Reset
    BY <1>4, <1>5 DEF Reset
  <1>6. CASE Save
    BY <1>4, <1>6 DEF Save, deviceVars, cpuVars, FramesInv, Clocked
  <1>7. CASE Load
    BY <1>4, <1>7 DEF Load, FramesInv, Clocked
  <1> QED
    BY <1>3, <1>5, <1>6, <1>7 DEF Stops

(* The program, at the registers.                                          *)
LEMMA FramesRun ==
    ASSUME FramesInv, Runs
    PROVE  FramesInv'
  <1>1. /\ UNCHANGED <<halted, pc, ends, saved, slept, since>> /\ ~halted
        /\ int' = int \/ InterruptPorts
    BY DEF Runs, Still, Running
  <1>2. IntInv'
    BY <1>1, InterruptSteps DEF FramesInv
  <1>3. /\ display' \in Displays /\ display'.line = display.line
        /\ display'.total = display.total \/ display'.total \in Totals
    <2>1. display \in Displays /\ display.hb \in Timers /\ display.vb \in Timers
      BY DisplayParts DEF FramesInv, DisplayTyped
    <2>2. CASE \E n \in Totals : display' = [display EXCEPT !.total = n]
      BY <2>1, <2>2, ProgramsAssumption, DisplayFields
    <2>3. CASE display' = [display EXCEPT !.compare = 2]
      <3>1. 2 \in Byte
        BY DEF Byte
      <3> QED
        BY <2>1, <2>3, <3>1, DisplayFields
    <2>4. CASE \E n \in 1 .. 2 : display' = [display EXCEPT !.sprites = n]
      BY <2>1, <2>4, DisplayFields
    <2>5. ASSUME NEW hb \in Timers, NEW vb \in Timers,
                 display' = [display EXCEPT !.hb = hb, !.vb = vb]
          PROVE  /\ display' \in Displays /\ display'.line = display.line
                 /\ display'.total = display.total
      BY <2>1, <2>5, DisplayFields
    <2>6. CASE display' = [display EXCEPT !.vb = PeriodByteHigh(PeriodByteLow(@, 1), 0)]
      <3>1. 0 \in Byte /\ 1 \in Byte
        BY DEF Byte
      <3>2. PICK t \in Timers : t = PeriodByteHigh(PeriodByteLow(display.vb, 1), 0)
        BY <2>1, <3>1, TimerOperations
      <3>3. display' = [display EXCEPT !.hb = display.hb, !.vb = t]
        BY <2>1, <2>6, <3>2, DisplayFields
      <3> QED
        BY <2>1, <2>5, <3>3
    <2>7. CASE display' = [display EXCEPT !.hb = PeriodByteHigh(@, 0)]
      <3>1. 0 \in Byte
        BY DEF Byte
      <3>2. PICK t \in Timers : t = PeriodByteHigh(display.hb, 0)
        BY <2>1, <3>1, TimerOperations
      <3>3. display' = [display EXCEPT !.hb = t, !.vb = display.vb]
        BY <2>1, <2>7, <3>2, DisplayFields
      <3> QED
        BY <2>1, <2>5, <3>3
    <2>8. CASE \E hbOn, hbLoop, vbOn, vbLoop \in BOOLEAN :
                  display' = [display EXCEPT !.hb.on = hbOn, !.hb.loop = hbLoop,
                                             !.vb.on = vbOn, !.vb.loop = vbLoop]
      <3>1. PICK hbOn \in BOOLEAN, hbLoop \in BOOLEAN, vbOn \in BOOLEAN, vbLoop \in BOOLEAN :
               display' = [display EXCEPT !.hb.on = hbOn, !.hb.loop = hbLoop,
                                          !.vb.on = vbOn, !.vb.loop = vbLoop]
        BY <2>8
      <3>2. PICK hb \in Timers, vb \in Timers :
               /\ hb = [display.hb EXCEPT !.on = hbOn, !.loop = hbLoop]
               /\ vb = [display.vb EXCEPT !.on = vbOn, !.loop = vbLoop]
        BY <2>1, TimerOperations
      <3>3. display' = [display EXCEPT !.hb = hb, !.vb = vb]
        BY <2>1, <3>1, <3>2, DisplayFields, TimerFields
      <3> QED
        BY <2>5, <3>3
    <2>9. \/ display' = display
          \/ \E n \in Totals : display' = [display EXCEPT !.total = n]
          \/ display' = [display EXCEPT !.compare = 2]
          \/ \E n \in 1 .. 2 : display' = [display EXCEPT !.sprites = n]
          \/ \E on \in BOOLEAN : display' = [display EXCEPT !.colour = on]
          \/ display' = [display EXCEPT !.vb = PeriodByteHigh(PeriodByteLow(@, 1), 0)]
          \/ display' = [display EXCEPT !.hb = PeriodByteHigh(@, 0)]
          \/ \E hbOn, hbLoop, vbOn, vbLoop \in BOOLEAN :
                display' = [display EXCEPT !.hb.on = hbOn, !.hb.loop = hbLoop,
                                           !.vb.on = vbOn, !.vb.loop = vbLoop]
      BY DEF Runs
    <2>10. CASE display' = display
      BY <2>1, <2>10
    <2>11. CASE \E on \in BOOLEAN : display' = [display EXCEPT !.colour = on]
      BY <2>1, <2>11, DisplayFields
    <2> QED
      BY <2>2, <2>3, <2>4, <2>6, <2>7, <2>8, <2>9, <2>10, <2>11
  <1>4. Measured(display)' /\ Measured(saved.display)'
    BY <1>1, <1>3 DEF FramesInv, Measured
  <1>5. Clocked'
    <2>1. left' \in Int
      <3>1. left \in Int /\ (left' = left \/ \E cycles \in Nat \cup {left} : left' = left - cycles)
        BY DEF Runs, FramesInv, Clocked
      <3> QED
        BY <3>1
    <2> QED
      BY <1>1, <2>1 DEF FramesInv, Clocked
  <1>6. CountedFrom'
    BY <1>1, <1>3 DEF FramesInv, CountedFrom
  <1>7. Sleeps'
    BY <1>1 DEF Sleeps
  <1> QED
    BY <1>1, <1>2, <1>3, <1>4, <1>5, <1>6, <1>7 DEF FramesInv, DisplayTyped

LEMMA FramesContinue == FramesInv /\ [ProgramsNext]_allVars => FramesInv'
  <1> SUFFICES ASSUME FramesInv, [ProgramsNext]_allVars PROVE FramesInv'
    OBVIOUS
  <1>1. CASE Rests
    <2>1. UNCHANGED <<int, display, saved, left, halted, pc, ends, slept, since>>
      BY <1>1 DEF Rests, Still
    <2>2. IntInv'
      BY <2>1, InterruptSteps DEF FramesInv
    <2> QED
      BY <2>1, <2>2 DEF FramesInv, DisplayTyped, Measured, Clocked, CountedFrom, Sleeps, Woken
  <1> QED
    BY <1>1, FrameSteps, FramesBegin, FramesGoOn, FramesStop, FramesRun

(* However a program changes the length of its frames, and whenever the    *)
(* host resets, saves and loads, no frame is longer than the longest it    *)
(* was told to be and no sleep until VBlank outlasts it.                   *)
THEOREM FramesAlwaysEnd == ProgramsSpec => []FramesEnd
  <1>1. FramesInv => FramesEnd
    <2> SUFFICES ASSUME FramesInv
                 PROVE  \E n \in Longest :
                           since <= n /\ (halted /\ VBLANK \in int.enable => slept <= n + 1)
      BY DEF FramesEnd, Longest
    <2>1. /\ display.line \in Nat /\ display.line <= 2 * Visible /\ since \in Nat /\ slept \in Nat
      BY DisplayParts DEF FramesInv, DisplayTyped, Measured, Clocked, Byte
    <2>2. PICK n \in Longest : since <= n
      <3>1. PICK l \in Nat : l <= 2 * Visible + 1 /\ Behind(l, since)
        BY <2>1, Lengths DEF FramesInv, CountedFrom
      <3>2. CASE l > Visible
        BY <2>1, <3>1, <3>2, Lengths DEF Behind
      <3>3. CASE ~(l > Visible)
        <4>1. PICK n \in Longest : n >= Visible /\ since <= n - Visible + l
          BY <3>1, <3>3 DEF Behind
        <4>2. n \in Nat
          BY Lengths DEF Byte
        <4>3. since <= n
          BY <2>1, <3>1, <3>3, <4>1, <4>2, Lengths
        <4> QED
          BY <4>3
      <3> QED
        BY <3>2, <3>3
    <2>3. n \in Nat
      BY Lengths DEF Byte
    <2>4. CASE slept <= since \/ ~(halted /\ VBLANK \in int.enable)
      BY <2>1, <2>2, <2>3, <2>4
    <2>5. CASE Woken
      <3>1. PICK m \in Longest : slept <= m + 1
        BY <2>5 DEF Woken
      <3>2. m \in Nat
        BY Lengths DEF Byte
      <3>3. CASE n <= m
        BY <2>1, <2>2, <2>3, <3>1, <3>2, <3>3
      <3>4. CASE m <= n
        BY <2>1, <2>2, <2>3, <3>1, <3>2, <3>4
      <3> QED
        BY <2>3, <3>2, <3>3, <3>4
    <2> QED
      BY <2>4, <2>5 DEF FramesInv, Sleeps
  <1> QED
    BY <1>1, FramesStart, FramesContinue, PTL DEF ProgramsSpec

-----------------------------------------------------------------------------
(* The horizontal timer.                                                   *)

Asked == HBLANK_TIMER \in int.status
AsksOnce == UNCHANGED <<beat, fired>>
SameTimer == display'.hb = display.hb
Restarted ==
    /\ display' = [display EXCEPT !.hb = PeriodByteHigh(@, 0)]
    /\ beat' = 0 /\ fired' = 0 /\ int' = int
Switched ==
    /\ \E on \in BOOLEAN : display' = [display EXCEPT !.hb.on = on, !.hb.loop = TRUE,
                                                      !.vb.on = FALSE, !.vb.loop = FALSE]
    /\ AsksOnce /\ int' = int
LineBegun ==
    /\ BeginLine /\ ~Asked
    /\ beat' = IF display.hb.on THEN beat + 1 ELSE beat
    /\ fired' = IF HBLANK_TIMER \in int'.status THEN fired + 1 ELSE fired
TimerElse ==
    /\ AsksOnce /\ (display' = display \/ display' = [display EXCEPT !.line = NextLine(display)])
    /\ \/ int' = int \/ int' = WriteBase(int, 8) \/ int' = Acknowledge(int, {HBLANK_TIMER})
       \/ \E when \in BOOLEAN : int' = Request(int, LINE_HIT, when)

LEMMA TimerSteps ==
    ASSUME [ProgramsNext]_allVars, program = "timers"
    PROVE  program' = "timers" /\ (Restarted \/ Switched \/ LineBegun \/ TimerElse)
  <1>0. program' = "timers"
    BY ProgramsKeep
  <1>1. CASE TimersStep
    <2>1. CASE /\ SetDisplay([display EXCEPT !.hb = PeriodByteHigh(@, 0)])
               /\ beat' = 0 /\ fired' = 0
      BY <1>0, <2>1 DEF SetDisplay, Restarted
    <2>2. ASSUME NEW on \in BOOLEAN, SetTimers(on, TRUE, FALSE, FALSE), UNCHANGED auxVars
          PROVE  Switched
      BY <2>2 DEF SetTimers, SetDisplay, Switched, AsksOnce, auxVars
    <2>3. CASE SetInt(WriteBase(int, 8)) /\ UNCHANGED auxVars
      BY <1>0, <2>3 DEF SetInt, TimerElse, AsksOnce, auxVars
    <2> QED
      BY <1>0, <1>1, <2>1, <2>2, <2>3 DEF TimersStep
  <1>2. CASE Answer
    BY <1>0, <1>2 DEF Answer, SetInt, TimerElse, AsksOnce, auxVars
  <1>3. CASE LineStep
    <2>1. CASE BeginLine
      <3>1. pc = "line"
        BY <2>1 DEF BeginLine
      <3>2. LineBegun
        BY <1>3, <2>1, <3>1 DEF LineStep, LineBegun, Asked
      <3> QED
        BY <1>0, <3>2
    <2>2. CASE ~BeginLine
      <3>1. pc # "line" /\ (MidLine \/ LateLine \/ EndLine) /\ AsksOnce
        BY <1>3, <2>2 DEF LineStep, Line, MidLine, LateLine, EndLine, AsksOnce
      <3>2. CASE LateLine
        BY <1>0, <3>1, <3>2 DEF LateLine, TimerElse
      <3>3. CASE MidLine \/ EndLine
        BY <1>0, <3>1, <3>3 DEF MidLine, EndLine, TimerElse
      <3> QED
        BY <3>1, <3>2, <3>3
    <2> QED
      BY <2>1, <2>2
  <1>4. CASE Idle \/ Others
    BY <1>0, <1>4 DEF Idle, Others, Compute, Sleep, Wake, Emulate, TimerElse, AsksOnce, auxVars,
                      deviceVars
  <1>5. CASE UNCHANGED allVars
    BY <1>0, <1>5 DEF allVars, vars, deviceVars, auxVars, TimerElse, AsksOnce
  <1> QED
    BY <1>1, <1>2, <1>3, <1>4, <1>5
       DEF ProgramsNext, ReaderStep, FramesStep, StreamsStep, TunesStep, StoresStep, CopiesStep, Did

(* Which requests wait after one.                                          *)
LEMMA RequestAdds ==
    ASSUME NEW i \in Controllers, NEW which \in Sources, NEW when
    PROVE  HBLANK_TIMER \in Request(i, which, when).status <=>
              \/ HBLANK_TIMER \in i.status
              \/ when /\ which = HBLANK_TIMER /\ HBLANK_TIMER \in i.enable
  <1>1. HBLANK_TIMER \notin LevelTriggered
    BY DEF HBLANK_TIMER, LevelTriggered
  <1>2. CASE ~when
    BY <1>2 DEF Request
  <1>3. CASE when
    <2>1. Interrupt(i, which).status = (i.status \cup ({which} \cap i.enable))
                                       \cup (i.asserted \cap LevelTriggered \cap i.enable)
      BY DEF Interrupt, Recalc, Controllers
    <2> QED
      BY <1>1, <1>3, <2>1 DEF Request
  <1> QED
    BY <1>2, <1>3

(* The lines the timer was on for, in whole periods and what is left of    *)
(* this one.                                                               *)
OnTime(t) ==
    /\ t.period \in 1 .. 255 /\ t.counter \in 0 .. t.period
    /\ t.on \in BOOLEAN /\ (t.on => t.loop)
    /\ t.counter # 0 => beat = fired * t.period + (t.period - t.counter)
TimersInv ==
    program = "timers" =>
        /\ HBLANK_TIMER \in int.enable
        /\ beat \in Nat /\ fired \in Nat /\ OnTime(display.hb)

LEMMA TimersStart == ProgramsInit => TimersInv
  <1> SUFFICES ASSUME ProgramsInit, program = "timers" PROVE TimersInv
    BY DEF TimersInv
  <1>1. HBLANK_TIMER \in int.enable
    BY DEF ProgramsInit, WriteEnable, Recalc, InterruptReset
  <1>2. PICK p \in Periods : display = [DisplayReset EXCEPT !.hb.period = p]
    BY DEF ProgramsInit
  <1>3. display.hb = [Timer0 EXCEPT !.period = p]
    BY <1>2 DEF DisplayReset
  <1>4. display.hb = [counter |-> 0, period |-> p, on |-> FALSE, loop |-> FALSE]
    BY <1>3 DEF Timer0
  <1>5. p \in 1 .. 255
    BY ProgramsAssumption
  <1>6. OnTime(display.hb)
    BY <1>4, <1>5 DEF OnTime
  <1> QED
    BY <1>1, <1>6 DEF TimersInv, ProgramsInit

LEMMA TimersContinue == FramesInv /\ TimersInv /\ [ProgramsNext]_allVars => TimersInv'
  <1> SUFFICES ASSUME FramesInv, TimersInv, [ProgramsNext]_allVars, program' = "timers"
               PROVE  TimersInv'
    BY DEF TimersInv
  <1>1. program = "timers"
    BY ProgramsKeep
  <1>2. int \in Controllers /\ Fresh(int) /\ Held(int) /\ display \in Displays /\ display.hb \in Timers
    BY DisplayParts DEF FramesInv, IntInv, InterruptTyped, AlwaysTold, DisplayTyped
  <1>3. HBLANK_TIMER \in int.enable /\ beat \in Nat /\ fired \in Nat /\ OnTime(display.hb)
    BY <1>1 DEF TimersInv
  <1>4. CASE Restarted
    <2>1. display.hb.period \in 0 .. 255
      BY <1>3 DEF OnTime
    <2>2. PeriodByteHigh(display.hb, 0) = [display.hb EXCEPT !.counter = display.hb.period]
      <3>1. HighByte(display.hb.period, 0) = display.hb.period
        BY <2>1 DEF HighByte
      <3> QED
        BY <1>2, <3>1, TimerFields DEF PeriodByteHigh
    <2>3. display'.hb = [display.hb EXCEPT !.counter = display.hb.period]
      BY <1>2, <1>4, <2>2, DisplayFields DEF Restarted
    <2>4. OnTime(display.hb)'
      BY <1>2, <1>3, <1>4, <2>3, TimerFields DEF OnTime, Restarted
    <2> QED
      BY <1>3, <1>4, <2>4 DEF Restarted, TimersInv
  <1>5. CASE Switched
    <2>1. PICK on \in BOOLEAN : display'.hb = [display.hb EXCEPT !.on = on, !.loop = TRUE]
      BY <1>2, <1>5, DisplayFields DEF Switched
    <2>2. OnTime(display.hb)'
      BY <1>2, <1>3, <1>5, <2>1, TimerFields DEF OnTime, Switched, AsksOnce
    <2> QED
      BY <1>3, <1>5, <2>2 DEF Switched, AsksOnce, TimersInv
  <1>6. CASE TimerElse
    <2>1. display'.hb = display.hb
      BY <1>2, <1>6, DisplayFields DEF TimerElse
    <2>2. int'.enable = int.enable
      <3>1. LINE_HIT \in Sources /\ HBLANK_TIMER \in Sources
        BY DEF LINE_HIT, HBLANK_TIMER, Sources
      <3>2. WriteBase(int, 8).enable = int.enable
        BY <1>2 DEF WriteBase, Recalc, Controllers
      <3>3. Acknowledge(int, {HBLANK_TIMER}).enable = int.enable
        BY <1>2 DEF Acknowledge, Recalc, Controllers
      <3>4. \A when \in BOOLEAN : Request(int, LINE_HIT, when).enable = int.enable
        BY <1>2, <3>1, RequestTells
      <3> QED
        BY <1>6, <3>2, <3>3, <3>4 DEF TimerElse
    <2>3. OnTime(display.hb)'
      BY <1>3, <1>6, <2>1 DEF OnTime, TimerElse, AsksOnce
    <2> QED
      BY <1>3, <1>6, <2>2, <2>3 DEF TimerElse, AsksOnce, TimersInv
  <1>7. CASE LineBegun
    <2>1. display'.hb = CountedDown(display.hb)
      <3>1. Latch(display).hb = display.hb
        BY <1>2, DisplayFields DEF Latch
      <3>2. \E drawn, vb : display' = [Latch(display) EXCEPT !.drawn = drawn, !.vb = vb,
                                                             !.hb = CountedDown(@)]
        BY <1>7 DEF LineBegun, BeginLine
      <3>3. Latch(display).hb \in Timers /\ "hb" \in DOMAIN Latch(display)
        BY <1>2, <3>1, DisplayFields DEF Latch
      <3> QED
        BY <3>1, <3>2, <3>3
    <2>2. int'.enable = int.enable /\ (HBLANK_TIMER \in int'.status <=> Fires(display.hb))
      <3> DEFINE one == Request(int, VBLANK, AtVBlank)
                 two == Request(one, VBLANK_TIMER, AtVBlank /\ Fires(display.vb))
      <3>0. /\ VBLANK \in Sources /\ VBLANK_TIMER \in Sources /\ HBLANK_TIMER \in Sources
            /\ VBLANK # HBLANK_TIMER /\ VBLANK_TIMER # HBLANK_TIMER
        BY DEF VBLANK, VBLANK_TIMER, HBLANK_TIMER, Sources
      <3>1. /\ one \in Controllers /\ Fresh(one) /\ Held(one) /\ one.enable = int.enable
            /\ HBLANK_TIMER \in one.status <=> HBLANK_TIMER \in int.status
        BY <1>2, <3>0, Requested, RequestTells, RequestAdds
      <3>2. int' = Request(two, HBLANK_TIMER, Fires(display.hb))
        BY <1>7 DEF LineBegun, BeginLine
      <3> HIDE DEF one
      <3>3. /\ two \in Controllers /\ Fresh(two) /\ Held(two) /\ two.enable = one.enable
            /\ HBLANK_TIMER \in two.status <=> HBLANK_TIMER \in one.status
        BY <3>0, <3>1, Requested, RequestTells, RequestAdds
      <3> HIDE DEF two
      <3>4. /\ int'.enable = two.enable
            /\ HBLANK_TIMER \in int'.status <=>
                  HBLANK_TIMER \in two.status \/ (Fires(display.hb) /\ HBLANK_TIMER \in two.enable)
        BY <3>0, <3>2, <3>3, RequestTells, RequestAdds
      <3> QED
        BY <1>3, <1>7, <3>1, <3>3, <3>4 DEF LineBegun, Asked
    <2>3. beat' \in Nat /\ fired' \in Nat
      BY <1>3, <1>7 DEF LineBegun
    <2>4. OnTime(display.hb)'
      <3> DEFINE t == display.hb
                 p == t.period
                 c == t.counter
      <3>1. /\ p \in 1 .. 255 /\ c \in 0 .. p /\ t.on \in BOOLEAN /\ (t.on => t.loop)
            /\ c # 0 => beat = fired * p + (p - c)
            /\ t = [counter |-> c, period |-> p, on |-> t.on, loop |-> t.loop]
        BY <1>2, <1>3, TimerFields DEF OnTime
      <3>2. CASE ~t.on \/ c = 0
        <4>1. display'.hb = t /\ ~Fires(t)
          BY <2>1, <3>2 DEF CountedDown, Fires
        <4>2. fired' = fired
          BY <1>7, <2>2, <4>1 DEF LineBegun
        <4>3. c # 0 => beat' = beat
          BY <1>7, <3>2 DEF LineBegun
        <4> QED
          BY <3>1, <4>1, <4>2, <4>3 DEF OnTime
      <3>3. CASE t.on /\ c = 1
        <4>1. display'.hb = [t EXCEPT !.counter = p] /\ Fires(t)
          BY <2>1, <3>1, <3>3 DEF CountedDown, Fires
        <4>2. fired' = fired + 1 /\ beat' = beat + 1
          BY <1>7, <2>2, <3>3, <4>1 DEF LineBegun
        <4>3. /\ display'.hb.counter = p /\ display'.hb.period = p /\ display'.hb.on = t.on
              /\ display'.hb.loop = t.loop
          BY <3>1, <4>1
        <4>4. fired \in Nat /\ beat = fired * p + (p - 1)
          BY <1>3, <3>1, <3>3
        <4> HIDE DEF p, c, t
        <4>5. beat' = fired' * p + (p - p)
          <5>1. (fired + 1) * p = fired * p + p
            BY <3>1, <4>4
          <5>2. fired * p \in Int
            BY <3>1, <4>4
          <5> QED
            BY <3>1, <4>2, <4>4, <5>1, <5>2
        <4> QED
          BY <3>1, <4>3, <4>5 DEF OnTime
      <3>4. CASE t.on /\ c > 1
        <4>1. display'.hb = [t EXCEPT !.counter = c - 1] /\ ~Fires(t)
          BY <2>1, <3>1, <3>4 DEF CountedDown, Fires
        <4>2. fired' = fired /\ beat' = beat + 1
          BY <1>7, <2>2, <3>4, <4>1 DEF LineBegun
        <4>3. /\ display'.hb.counter = c - 1 /\ display'.hb.period = p /\ display'.hb.on = t.on
              /\ display'.hb.loop = t.loop
          BY <3>1, <4>1
        <4>4. fired \in Nat /\ beat = fired * p + (p - c)
          BY <1>3, <3>1, <3>4
        <4> HIDE DEF p, c, t
        <4>5. beat' = fired' * p + (p - (c - 1))
          <5>1. fired * p \in Int
            BY <3>1, <4>4
          <5>2. fired' * p = fired * p
            BY <4>2
          <5> DEFINE x == fired * p
          <5>3. x \in Int /\ beat' = x + (p - c) + 1 /\ p \in Int /\ c \in Int
            BY <3>1, <4>2, <4>4, <5>1
          <5> HIDE DEF x
          <5>4. beat' = x + (p - (c - 1))
            BY <5>3
          <5> QED
            BY <5>2, <5>4 DEF x
        <4> QED
          BY <3>1, <3>4, <4>3, <4>5 DEF OnTime
      <3> QED
        BY <3>1, <3>2, <3>3, <3>4
    <2> QED
      BY <1>3, <2>2, <2>3, <2>4 DEF TimersInv
  <1> QED
    BY <1>1, <1>4, <1>5, <1>6, <1>7, TimerSteps

(* However often a looping timer is stopped and started, and whenever its  *)
(* requests are answered, it asks once in every period of the lines it was *)
(* on for.                                                                 *)
THEOREM TimerAlwaysKeepsTime == ProgramsSpec => []TimerKeepsTime
  <1>1. TimersInv => TimerKeepsTime
    <2> DEFINE p == display.hb.period
               r == display.hb.period - display.hb.counter
    <2> SUFFICES ASSUME TimersInv, program = "timers", display.hb.counter # 0
                 PROVE  fired = beat \div p
      BY DEF TimerKeepsTime
    <2>1. /\ p \in Nat \ {0} /\ r \in 0 .. p - 1 /\ beat \in Nat /\ fired \in Nat
          /\ beat = fired * p + r
      <3> DEFINE c == display.hb.counter
      <3>1. /\ p \in 1 .. 255 /\ c \in 0 .. p /\ c # 0 /\ r = p - c
            /\ beat \in Nat /\ fired \in Nat /\ beat = fired * p + (p - c)
        BY DEF TimersInv, OnTime
      <3> HIDE DEF p, r, c
      <3> QED
        BY <3>1
    <2> HIDE DEF p, r
    <2>2. PICK m \in Nat, s \in 0 .. p - 1 : beat = p * m + s /\ m = beat \div p
      BY <2>1, Division
    <2>3. p * m + s = p * fired + r
      BY <2>1, <2>2
    <2>4. ~(m >= fired + 1)
      <3>1. m >= fired + 1 => p * m >= p * (fired + 1)
        BY <2>1, <2>2
      <3>2. p * (fired + 1) = p * fired + p /\ p * m \in Int /\ p * fired \in Int
        BY <2>1, <2>2
      <3> QED
        BY <2>1, <2>2, <2>3, <3>1, <3>2
    <2>5. ~(fired >= m + 1)
      <3>1. fired >= m + 1 => p * fired >= p * (m + 1)
        BY <2>1, <2>2
      <3>2. p * (m + 1) = p * m + p /\ p * m \in Int /\ p * fired \in Int
        BY <2>1, <2>2
      <3> QED
        BY <2>1, <2>2, <2>3, <3>1, <3>2
    <2> QED
      BY <2>1, <2>2, <2>4, <2>5
  <1> QED
    BY <1>1, FramesStart, FramesContinue, TimersStart, TimersContinue, PTL DEF ProgramsSpec

-----------------------------------------------------------------------------
(* Sound DMA.                                                              *)

LEMMA Remainder ==
    ASSUME NEW q \in Nat \ {0}, NEW m \in Int, NEW r \in 0 .. q - 1, NEW a \in Int, a = q * m + r
    PROVE  a % q = r
  <1>1. PICK n \in Int, s \in 0 .. q - 1 : a = q * n + s /\ n = a \div q
    OBVIOUS
  <1>2. q * m + r = q * n + s /\ q * n \in Int /\ q * m \in Int
    BY <1>1
  <1>3. ~(n >= m + 1)
    <2>1. n >= m + 1 => q * n >= q * (m + 1)
      BY <1>1
    <2>2. q * (m + 1) = q * m + q
      OBVIOUS
    <2> QED
      BY <1>1, <1>2, <2>1, <2>2
  <1>4. ~(m >= n + 1)
    <2>1. m >= n + 1 => q * m >= q * (n + 1)
      BY <1>1
    <2>2. q * (n + 1) = q * n + q
      BY <1>1
    <2> QED
      BY <1>1, <1>2, <2>1, <2>2
  <1>5. m = a \div q
    BY <1>1, <1>3, <1>4
  <1>6. a = q * (a \div q) + (a % q)
    OBVIOUS
  <1> QED
    BY <1>5, <1>6

(* A remainder that is moved by one.                                       *)
LEMMA Moved ==
    ASSUME NEW q \in Nat \ {0}, NEW a \in Int
    PROVE  ((a % q) + 1) % q = (a + 1) % q /\ ((a % q) - 1) % q = (a - 1) % q
  <1> DEFINE m == a \div q
             r == a % q
  <1>1. m \in Int /\ r \in 0 .. q - 1 /\ a = q * m + r
    OBVIOUS
  <1> HIDE DEF m, r
  <1>2. \A x \in Int, s \in 0 .. q - 1, n \in Int : x = q * n + s => x % q = s
    BY Remainder
  <1>3. \A n \in Int : q * (n + 1) = q * n + q /\ q * (n - 1) = q * n - q /\ q * n \in Int
    OBVIOUS
  <1>4. q * 0 = 0 /\ q * 1 = q /\ q * (-1) = -q
    OBVIOUS
  <1>5. (r + 1) % q = (a + 1) % q
    <2>1. CASE r + 1 < q
      <3>1. (r + 1) % q = r + 1
        BY <1>1, <2>1
      <3>2. r + 1 \in 0 .. q - 1 /\ a + 1 \in Int /\ a + 1 = q * m + (r + 1)
        BY <1>1, <1>3, <2>1
      <3>3. (a + 1) % q = r + 1
        BY <1>1, <1>2, <3>2
      <3> QED
        BY <3>1, <3>3
    <2>2. CASE r + 1 = q
      <3>1. (r + 1) % q = 0
        BY <1>1, <2>2
      <3>2. 0 \in 0 .. q - 1 /\ a + 1 \in Int /\ a + 1 = q * (m + 1) + 0
        BY <1>1, <1>3, <2>2
      <3>3. (a + 1) % q = 0
        BY <1>1, <1>2, <3>2
      <3> QED
        BY <3>1, <3>3
    <2> QED
      BY <1>1, <2>1, <2>2
  <1>6. (r - 1) % q = (a - 1) % q
    <2>1. CASE r # 0
      <3>1. (r - 1) % q = r - 1
        BY <1>1, <2>1
      <3>2. r - 1 \in 0 .. q - 1 /\ a - 1 \in Int /\ a - 1 = q * m + (r - 1)
        BY <1>1, <1>3, <2>1
      <3>3. (a - 1) % q = r - 1
        BY <1>1, <1>2, <3>2
      <3> QED
        BY <3>1, <3>3
    <2>2. CASE r = 0
      <3>0. q - 1 \in 0 .. q - 1 /\ -1 \in Int /\ -1 = q * (-1) + (q - 1)
        BY <1>4
      <3>1. (-1) % q = q - 1
        BY <1>2, <3>0
      <3>2. a - 1 \in Int /\ a - 1 = q * (m - 1) + (q - 1) /\ m - 1 \in Int
        BY <1>1, <1>3, <2>2
      <3>3. (a - 1) % q = q - 1
        BY <1>2, <3>0, <3>2
      <3>4. r - 1 = -1
        BY <2>2
      <3> QED
        BY <3>1, <3>3, <3>4
    <2> QED
      BY <1>1, <2>1, <2>2
  <1> QED
    BY <1>5, <1>6 DEF r

(* Three bytes of a register replace whatever it held.                     *)
Room == 0 .. Space - 1
Third == Weight(2)

LEMMA Weights == Weight(0) = 1 /\ Weight(1) = 256 /\ Third \in Nat \ {0} /\ Third * 0 = 0
  <1>1. Weight(0) = 1 /\ Weight(1) = 256 /\ Third = 256 * 256
    BY SMT DEF Weight, Third
  <1> QED
    BY <1>1, SMT

LEMMA ThreeBytes ==
    ASSUME NEW v \in Room, NEW byte \in Byte
    PROVE  PutByte(PutByte(PutByte(v, 0, byte), 1, 0), 2, 0) = byte
  <1> DEFINE c == v % 256
             b == (v \div 256) % 256
             a == (v \div 256) \div 256
  <1>1. a \in 0 .. 15 /\ b \in 0 .. 255 /\ c \in 0 .. 255 /\ v = 256 * (256 * a + b) + c
    <2>1. v \in Nat /\ v < 16 * 256 * 256
      <3>1. Space = 16 * 256 * 256
        BY SMT DEF Space
      <3>2. Space \in Nat
        BY <3>1
      <3>3. v \in Nat /\ v < Space
        BY <3>2 DEF Room
      <3> QED
        BY <3>1, <3>3
    <2> DEFINE w == v \div 256
    <2>2. w \in Nat /\ c \in 0 .. 255 /\ v = 256 * w + c
      BY <2>1
    <2>3. w < 4096
      BY <2>1, <2>2, SMT
    <2>4. a \in Nat /\ b \in 0 .. 255 /\ w = 256 * a + b
      BY <2>2
    <2>5. a < 16
      <3> HIDE DEF w, a, b
      <3> QED
        BY <2>3, <2>4
    <2> HIDE DEF w, a, b, c
    <2> QED
      BY <2>2, <2>4, <2>5
  <1> HIDE DEF a, b, c
  <1> USE <1>1
  <1>2. byte \in 0 .. 255
    BY DEF Byte
  <1> DEFINE v1 == 256 * (256 * a + b) + byte
             v2 == 256 * (256 * a) + byte
  <1>3. PutByte(v, 0, byte) = v1
    <2>1. v \div 1 = v /\ v % 256 = c
      BY <1>1
    <2>2. PutByte(v, 0, byte) = v - 1 * ((v \div 1) % 256) + 1 * byte
      BY Weights DEF PutByte
    <2> QED
      BY <1>1, <1>2, <2>1, <2>2
  <1>4. PutByte(v1, 1, 0) = v2
    <2>1. v1 \div 256 = 256 * a + b
      BY <1>2
    <2>2. (256 * a + b) % 256 = b
      OBVIOUS
    <2>3. PutByte(v1, 1, 0) = v1 - 256 * ((v1 \div 256) % 256) + 256 * 0
      <3> HIDE DEF v1
      <3> QED
        BY Weights DEF PutByte
    <2> QED
      BY <1>2, <2>1, <2>2, <2>3
  <1>5. PutByte(v2, 2, 0) = byte
    <2>1. v2 \in Int /\ v2 = 256 * (256 * a) + byte
      BY <1>2
    <2> HIDE DEF v2
    <2>2. v2 - Third * ((v2 \div Third) % 256) = byte
      <3>1. Third = 256 * 256
        BY SMT DEF Weight, Third
      <3>2. v2 \div Third = a
        BY <1>2, <2>1, <3>1, SMT
      <3>3. a % 256 = a /\ Third * a = 256 * (256 * a)
        BY <3>1, SMT
      <3>4. Third * ((v2 \div Third) % 256) = 256 * (256 * a)
        BY <3>2, <3>3
      <3> HIDE DEF Third
      <3>5. 256 * (256 * a) \in Int
        OBVIOUS
      <3> QED
        BY ONLY <1>2, <2>1, <3>4, <3>5
    <2>3. PutByte(v2, 2, 0) = v2 - Third * ((v2 \div Third) % 256) + Third * 0
      BY DEF PutByte, Third
    <2> QED
      BY <1>2, <2>2, <2>3, Weights
  <1> HIDE DEF v1, v2
  <1> QED
    BY <1>3, <1>4, <1>5

Rates == 0 .. 3
Streams ==
    [source : Room, savedSource : Room, length : Room, savedLength : Room, on : BOOLEAN,
     hold : BOOLEAN, down : BOOLEAN, loop : BOOLEAN, hyper : BOOLEAN, rate : Rates, timer : Nat,
     sent : Seq(Room)]

(* The j-th address of a block, and a channel that has played some of them.*)
Place(s, j) == (s.savedSource + (IF s.down THEN -1 ELSE 1) * j) % Space
InOrder(s) ==
    /\ s \in Streams /\ s.savedLength # 0
    /\ \A i \in 1 .. Len(s.sent) : s.sent[i] = Place(s, (i - 1) % s.savedLength)
    /\ s.on => s.length # 0
    /\ s.length # 0 => /\ s.length = s.savedLength - (Len(s.sent) % s.savedLength)
                       /\ s.source = Place(s, Len(s.sent) % s.savedLength)

LEMMA SpaceIs == Space \in Nat \ {0} /\ 255 < Space
  <1>1. Space = 16 * 256 * 256
    BY SMT DEF Space
  <1> QED
    BY <1>1

LEMMA InRoom ==
    /\ \A a \in Int : a % Space \in Room
    /\ \A a \in Room : a \in Nat /\ a < Space /\ a % Space = a
  <1>1. \A q \in Nat \ {0} : /\ \A a \in Int : a % q \in 0 .. q - 1
                             /\ \A a \in 0 .. q - 1 : a \in Nat /\ a < q /\ a % q = a
    OBVIOUS
  <1> QED
    BY <1>1, SpaceIs DEF Room

LEMMA Places ==
    ASSUME NEW s \in Streams, NEW j \in Nat
    PROVE  /\ Place(s, j) \in Room /\ Place(s, 0) = s.savedSource
           /\ (Place(s, j) + IF s.down THEN -1 ELSE 1) % Space = Place(s, j + 1)
  <1>1. s.savedSource \in Room /\ s.savedSource \in Nat /\ s.savedSource % Space = s.savedSource
    BY InRoom DEF Streams
  <1> DEFINE v == s.savedSource
  <1>2. CASE s.down
    <2>1. /\ Place(s, j) = (v - j) % Space /\ Place(s, j + 1) = (v - j - 1) % Space
          /\ Place(s, 0) = v % Space
      <3>1. v + (-1) * j = v - j /\ v + (-1) * (j + 1) = v - j - 1 /\ v + (-1) * 0 = v
        BY <1>1
      <3> QED
        BY <1>2, <3>1 DEF Place
    <2>2. v - j \in Int
      BY <1>1
    <2>3. (((v - j) % Space) - 1) % Space = (v - j - 1) % Space
      BY <2>2, Moved, SpaceIs
    <2>4. \A x \in Int : x + (-1) = x - 1
      OBVIOUS
    <2>5. (v - j) % Space \in Room /\ (v - j) % Space \in Int
      BY <2>2, InRoom
    <2> HIDE DEF v
    <2> QED
      BY <1>1, <1>2, <2>1, <2>3, <2>4, <2>5 DEF v
  <1>3. CASE ~s.down
    <2>1. /\ Place(s, j) = (v + j) % Space /\ Place(s, j + 1) = (v + j + 1) % Space
          /\ Place(s, 0) = v % Space
      <3>1. v + 1 * j = v + j /\ v + 1 * (j + 1) = v + j + 1 /\ v + 1 * 0 = v
        BY <1>1
      <3> QED
        BY <1>3, <3>1 DEF Place
    <2>2. v + j \in Int
      BY <1>1
    <2>3. (((v + j) % Space) + 1) % Space = (v + j + 1) % Space
      BY <2>2, Moved, SpaceIs
    <2>5. (v + j) % Space \in Room
      BY <2>2, InRoom
    <2> HIDE DEF v
    <2> QED
      BY <1>1, <1>3, <2>1, <2>3, <2>5 DEF v
  <1> QED
    BY <1>2, <1>3

LEMMA AdvancedInOrder ==
    ASSUME NEW s, InOrder(s), s.on
    PROVE  InOrder(Advanced(s))
  <1> DEFINE n == s.savedLength
             k == Len(s.sent)
             r == k % n
             dir == IF s.down THEN -1 ELSE 1
             rest == (s.length - 1) % Space
             over == rest = 0 /\ s.loop
             new == [s EXCEPT !.source = IF over THEN s.savedSource ELSE (@ + dir) % Space,
                              !.length = IF over THEN n ELSE rest,
                              !.on = rest # 0 \/ s.loop, !.sent = Append(@, s.source)]
  <1>0. Advanced(s) = new
    BY DEF Advanced
  <1>1. /\ s \in Streams /\ s.source \in Room /\ s.savedSource \in Room /\ s.length \in Room
        /\ n \in Room /\ s.sent \in Seq(Room)
    BY DEF InOrder, Streams
  <1>2. n \in Nat \ {0} /\ k \in Nat /\ s.length # 0
    BY <1>1, InRoom DEF InOrder
  <1>3. r \in 0 .. n - 1 /\ (k + 1) % n = IF r = n - 1 THEN 0 ELSE r + 1
    <2> HIDE DEF n, k
    <2>1. r \in 0 .. n - 1 /\ (r + 1) % n = (k + 1) % n
      <3>1. k % n \in 0 .. n - 1 /\ k \in Int
        BY <1>2
      <3>2. ((k % n) + 1) % n = (k + 1) % n
        BY <1>2, <3>1, Moved
      <3> QED
        BY <3>1, <3>2
    <2> HIDE DEF r
    <2>2. CASE r = n - 1
      <3>1. (r + 1) % n = 0
        BY <1>2, <2>2
      <3> QED
        BY <2>1, <2>2, <3>1
    <2>3. CASE r # n - 1
      <3>1. (r + 1) % n = r + 1
        BY <1>2, <2>1, <2>3
      <3> QED
        BY <2>1, <2>3, <3>1
    <2> QED
      BY <2>1, <2>2, <2>3
  <1>4. s.length = n - r /\ s.source = Place(s, r)
    BY <1>2 DEF InOrder
  <1>5. rest = n - r - 1 /\ rest \in Room /\ (rest = 0 <=> r = n - 1)
    <2>1. s.length \in Nat /\ s.length - 1 \in Room
      BY <1>1, <1>2, SpaceIs DEF Room
    <2>2. rest = s.length - 1
      BY <2>1, InRoom
    <2> HIDE DEF n, r, rest
    <2> QED
      BY <1>2, <1>3, <1>4, <2>1, <2>2
  <1>6. /\ (s.source + dir) % Space \in Room
        /\ (s.source + dir) % Space = Place(s, r + 1) /\ Place(s, 0) = s.savedSource
    <2> HIDE DEF n, k, r, rest
    <2>1. r \in Nat /\ r + 1 \in Nat /\ 0 \in Nat
      BY <1>2, <1>3
    <2>2. Place(s, r + 1) \in Room
      BY <1>1, <2>1, Places
    <2>3. (Place(s, r) + dir) % Space = Place(s, r + 1) /\ Place(s, 0) = s.savedSource
      BY <1>1, <2>1, Places
    <2> QED
      BY <1>4, <2>2, <2>3
  <1>7. Append(s.sent, s.source) \in Seq(Room) /\ Len(Append(s.sent, s.source)) = k + 1
    BY <1>1
  <1>8. /\ new.savedSource = s.savedSource /\ new.savedLength = n /\ new.down = s.down
        /\ new.sent = Append(s.sent, s.source) /\ new.on = (rest # 0 \/ s.loop)
        /\ new.length = IF over THEN n ELSE rest
        /\ new.source = IF over THEN s.savedSource ELSE (s.source + dir) % Space
    BY <1>1 DEF Streams
  <1>9. new \in Streams
    <2> DEFINE a == IF over THEN s.savedSource ELSE (s.source + dir) % Space
               b == IF over THEN n ELSE rest
               on == rest # 0 \/ s.loop
               t == Append(s.sent, s.source)
    <2>1. a \in Room /\ b \in Room /\ on \in BOOLEAN /\ t \in Seq(Room)
      BY <1>1, <1>5, <1>6, <1>7
    <2>2. new = [s EXCEPT !.source = a, !.length = b, !.on = on, !.sent = t]
      OBVIOUS
    <2> HIDE DEF a, b, on, t, new
    <2> QED
      BY <1>1, <2>1, <2>2 DEF Streams
  <1>10. \A j : Place(new, j) = Place(s, j)
    <2> HIDE DEF new
    <2> QED
      BY <1>8 DEF Place
  <1> HIDE DEF new
  <1>11. \A i \in 1 .. Len(new.sent) : new.sent[i] = Place(new, (i - 1) % new.savedLength)
    <2> SUFFICES ASSUME NEW i \in 1 .. k + 1
                 PROVE  Append(s.sent, s.source)[i] = Place(s, (i - 1) % n)
      BY <1>7, <1>8, <1>10
    <2>1. CASE i = k + 1
      <3>1. Append(s.sent, s.source)[k + 1] = s.source /\ i - 1 = k
        BY <1>1, <1>2, <2>1
      <3> QED
        BY <1>4, <2>1, <3>1
    <2>2. CASE i # k + 1
      <3>1. i \in 1 .. k
        BY <1>2, <2>2
      <3>2. Append(s.sent, s.source)[i] = s.sent[i]
        BY <1>1, <3>1
      <3> QED
        BY <3>1, <3>2 DEF InOrder
    <2> QED
      BY <2>1, <2>2
  <1>12. new.on => new.length # 0
    BY <1>2, <1>8
  <1>13. new.length # 0 => /\ new.length = new.savedLength - (Len(new.sent) % new.savedLength)
                           /\ new.source = Place(new, Len(new.sent) % new.savedLength)
    <2> SUFFICES ASSUME new.length # 0
                 PROVE  new.length = n - ((k + 1) % n) /\ new.source = Place(s, (k + 1) % n)
      BY <1>7, <1>8, <1>10
    <2>1. CASE over
      <3>1. (k + 1) % n = 0 /\ new.length = n /\ new.source = s.savedSource
        BY <1>3, <1>5, <1>8, <2>1
      <3> HIDE DEF n
      <3>2. n - 0 = n
        BY <1>2
      <3> QED
        BY ONLY <1>6, <3>1, <3>2
    <2>2. CASE ~over
      <3>1. rest # 0 /\ new.length = rest /\ new.source = (s.source + dir) % Space
        BY <1>8, <2>2
      <3>2. (k + 1) % n = r + 1
        BY <1>3, <1>5, <3>1
      <3> HIDE DEF n, r, rest
      <3>3. n - r - 1 = n - (r + 1)
        BY <1>2, <1>3
      <3> QED
        BY ONLY <1>5, <1>6, <3>1, <3>2, <3>3
    <2> QED
      BY <2>1, <2>2
  <1> QED
    BY <1>0, <1>2, <1>8, <1>9, <1>11, <1>12, <1>13 DEF InOrder

LEMMA CheckedInOrder ==
    ASSUME NEW s, InOrder(s)
    PROVE  InOrder(CheckSoundDMA(s))
  <1>1. ASSUME NEW t, InOrder(t), NEW m \in Nat PROVE InOrder([t EXCEPT !.timer = m])
    <2>1. t \in Streams
      BY <1>1 DEF InOrder
    <2> DEFINE new == [t EXCEPT !.timer = m]
    <2>2. new \in Streams
      BY <2>1 DEF Streams
    <2>3. /\ new.savedSource = t.savedSource /\ new.savedLength = t.savedLength
          /\ new.down = t.down /\ new.sent = t.sent /\ new.on = t.on /\ new.length = t.length
          /\ new.source = t.source
      BY <2>1 DEF Streams
    <2> HIDE DEF new
    <2>4. \A j : Place(new, j) = Place(t, j)
      BY <2>3 DEF Place
    <2>5. InOrder(new)
      BY <1>1, <2>2, <2>3, <2>4 DEF InOrder
    <2> QED
      BY <2>5 DEF new
  <1>2. s \in Streams /\ s.timer \in Nat /\ s.rate \in Rates
    BY DEF InOrder, Streams
  <1>3. CASE ~s.on
    BY <1>3 DEF CheckSoundDMA
  <1>4. CASE s.on /\ s.timer # 0
    <2>1. s.timer - 1 \in Nat
      BY <1>2, <1>4
    <2>2. CheckSoundDMA(s) = [s EXCEPT !.timer = s.timer - 1]
      BY <1>4 DEF CheckSoundDMA
    <2> QED
      BY <1>1, <2>1, <2>2
  <1>5. CASE s.on /\ s.timer = 0
    <2>1. Reload(s.rate) \in Nat
      <3>1. s.rate = 0 \/ s.rate = 1 \/ s.rate = 2 \/ s.rate = 3
        BY <1>2 DEF Rates
      <3> QED
        BY <3>1 DEF Reload
    <2>2. CheckSoundDMA(s) = [(IF s.hold THEN s ELSE Advanced(s)) EXCEPT !.timer = Reload(s.rate)]
      BY <1>5 DEF CheckSoundDMA
    <2>3. InOrder(IF s.hold THEN s ELSE Advanced(s))
      BY <1>5, AdvancedInOrder
    <2> QED
      BY <1>1, <2>1, <2>2, <2>3
  <1> QED
    BY <1>3, <1>4, <1>5

LEMMA BlockInOrder ==
    ASSUME NEW s \in Streams, ~s.on, NEW source \in Byte, NEW length \in 1 .. 255
    PROVE  InOrder(Block(s, source, length)) /\ Block(s, source, length).down = s.down
  <1> DEFINE once(v, byte) == PutByte(v, 0, byte)
             twice(v, byte) == PutByte(once(v, byte), 1, 0)
             thrice(v, byte) == PutByte(twice(v, byte), 2, 0)
             played == SetSource(SetSource(SetSource(s, 0, source), 1, 0), 2, 0)
             new == Block(s, source, length)
  <1>1. /\ s.source \in Room /\ s.savedSource \in Room /\ s.length \in Room /\ s.savedLength \in Room
        /\ length \in Byte /\ length # 0
    BY DEF Streams, Byte
  <1>2. /\ thrice(s.source, source) = source /\ thrice(s.savedSource, source) = source
        /\ thrice(s.length, length) = length /\ thrice(s.savedLength, length) = length
    BY <1>1, ThreeBytes
  <1>3. played = [s EXCEPT !.source = thrice(s.source, source),
                           !.savedSource = thrice(s.savedSource, source), !.sent = <<>>]
    BY DEF SetSource, Streams
  <1>4. played = [s EXCEPT !.source = source, !.savedSource = source, !.sent = <<>>]
    <2> HIDE DEF played, thrice
    <2> QED
      BY <1>2, <1>3
  <1>5. played.length = s.length /\ played.savedLength = s.savedLength
    <2> HIDE DEF played
    <2> QED
      BY <1>4 DEF Streams
  <1>6. new = SetLength(SetLength(SetLength(played, 0, length), 1, 0), 2, 0)
    BY DEF Block
  <1>7. source \in Room /\ length \in Room
    BY <1>1, SpaceIs DEF Room, Byte
  <1>8. played \in Streams
    <2> HIDE DEF played
    <2>1. <<>> \in Seq(Room)
      OBVIOUS
    <2> QED
      BY <1>4, <1>7, <2>1 DEF Streams
  <1> HIDE DEF played, new
  <1>9. new = [played EXCEPT !.length = thrice(played.length, length),
                             !.savedLength = thrice(played.savedLength, length), !.sent = <<>>]
    BY <1>6, <1>8 DEF SetLength, Streams
  <1>10. new = [played EXCEPT !.length = length, !.savedLength = length, !.sent = <<>>]
    <2> HIDE DEF thrice
    <2> QED
      BY <1>2, <1>5, <1>9
  <1>11. /\ new.source = source /\ new.savedSource = source /\ new.length = length
         /\ new.savedLength = length /\ new.sent = <<>> /\ ~new.on /\ new.down = s.down
    <2>1. played.source = source /\ played.savedSource = source /\ played.on = s.on /\ played.down = s.down
      BY <1>4 DEF Streams
    <2> QED
      BY <1>8, <1>10, <2>1 DEF Streams
  <1>12. new \in Streams
    <2>1. <<>> \in Seq(Room)
      OBVIOUS
    <2> QED
      BY <1>7, <1>8, <1>10, <2>1 DEF Streams
  <1>13. Len(new.sent) = 0 /\ 0 % length = 0 /\ length - 0 = length
    BY <1>11
  <1>14. Place(new, 0) = source
    BY <1>11, <1>12, Places
  <1>15. InOrder(new)
    BY <1>1, <1>11, <1>12, <1>13, <1>14 DEF InOrder
  <1> QED
    BY <1>11, <1>15 DEF new

LEMMA ControlInOrder ==
    ASSUME NEW s, InOrder(s), NEW on \in BOOLEAN, NEW hold \in BOOLEAN, NEW loop \in BOOLEAN,
           NEW rate \in Rates, on => s.length # 0
    PROVE  InOrder(SetControl(s, [on |-> on, hold |-> hold, loop |-> loop, rate |-> rate,
                                  down |-> s.down, hyper |-> FALSE]))
  <1> DEFINE new == [s EXCEPT !.on = on, !.hold = hold, !.down = s.down, !.loop = loop,
                              !.hyper = FALSE, !.rate = rate]
  <1>1. s \in Streams /\ s.down \in BOOLEAN
    BY DEF InOrder, Streams
  <1>2. new \in Streams
    BY <1>1 DEF Streams
  <1>3. /\ new.savedSource = s.savedSource /\ new.savedLength = s.savedLength
        /\ new.down = s.down /\ new.sent = s.sent /\ new.on = on /\ new.length = s.length
        /\ new.source = s.source
    BY <1>1 DEF Streams
  <1>4. SetControl(s, [on |-> on, hold |-> hold, loop |-> loop, rate |-> rate,
                       down |-> s.down, hyper |-> FALSE]) = new
    BY DEF SetControl
  <1> HIDE DEF new
  <1>5. \A j : Place(new, j) = Place(s, j)
    BY <1>3 DEF Place
  <1>6. InOrder(new)
    BY ONLY InOrder(s), on => s.length # 0, <1>2, <1>3, <1>5 DEF InOrder
  <1> QED
    BY <1>4, <1>6

(* Who sets the channel.                                                   *)
BlockSet ==
    program = "streams" /\ ~sdma.on /\ \E length \in Streamed : sdma' = Block(sdma, 3, length)
ControlSet ==
    /\ program = "streams"
    /\ \E on, hold, loop \in BOOLEAN, rate \in {2, 3} :
          /\ on => sdma.length # 0
          /\ sdma' = SetControl(sdma, [on |-> on, hold |-> hold, loop |-> loop, rate |-> rate,
                                       down |-> sdma.down, hyper |-> FALSE])
HostSet == program = "frames" /\ (Reset \/ Save \/ Load)

LEMMA StreamSteps ==
    ASSUME [ProgramsNext]_allVars
    PROVE  HostSet \/ (/\ saved' = saved
                       /\ sdma' = sdma \/ sdma' = CheckSoundDMA(sdma) \/ BlockSet \/ ControlSet)
  <1> USE DEF Register, SetInt, SetDisplay, SetRtc, SetEeprom, SetSound, SetDma,
              cpuVars, deviceVars, Quiet
  <1>1. CASE FramesStep
    <2>1. CASE Reset \/ Save \/ Load
      BY <1>1, <2>1 DEF FramesStep, Did, HostSet
    <2>2. CASE ~(Reset \/ Save \/ Load)
      BY <1>1, <2>2 DEF FramesStep, SetTotal, SetCompare, SetSprites, SetTimers, Halt
    <2> QED
      BY <2>1, <2>2
  <1>2. CASE StreamsStep
    <2>1. saved' = saved
      BY <1>2 DEF StreamsStep, SetSdma
    <2>2. ASSUME NEW length \in Streamed, ~sdma.on, SetSdma(Block(sdma, 3, length)) PROVE BlockSet
      BY <1>2, <2>2 DEF StreamsStep, Did, SetSdma, BlockSet
    <2>3. ASSUME NEW on \in BOOLEAN, NEW hold \in BOOLEAN, NEW loop \in BOOLEAN, NEW rate \in {2, 3},
                 on => sdma.length # 0,
                 SetSdma(SetControl(sdma, [on |-> on, hold |-> hold, loop |-> loop, rate |-> rate,
                                           down |-> sdma.down, hyper |-> FALSE]))
          PROVE  ControlSet
      BY <1>2, <2>3 DEF StreamsStep, Did, SetSdma, ControlSet
    <2> QED
      BY <1>2, <2>1, <2>2, <2>3 DEF StreamsStep
  <1>3. CASE ReaderStep
    BY <1>3 DEF ReaderStep
  <1>4. CASE TimersStep
    BY <1>4 DEF TimersStep, SetTimers
  <1>5. CASE TunesStep
    BY <1>5 DEF TunesStep, RamWrite, Compute
  <1>6. CASE StoresStep \/ CopiesStep
    BY <1>6 DEF StoresStep, CopiesStep, StartDma, SetColour
  <1>7. CASE LineStep
    BY <1>7 DEF LineStep, Line, BeginLine, MidLine, LateLine, EndLine, SoundDma
  <1>8. CASE Idle \/ Answer \/ Others
    BY <1>8 DEF Idle, Answer, Others, Compute, Sleep, Wake, Emulate
  <1>9. CASE UNCHANGED allVars
    BY <1>9 DEF allVars, vars
  <1> QED
    BY <1>1, <1>2, <1>3, <1>4, <1>5, <1>6, <1>7, <1>8, <1>9 DEF ProgramsNext

StreamsInv ==
    IF program = "streams" THEN InOrder(sdma) ELSE sdma = NoSoundDma /\ saved.sdma = NoSoundDma

LEMMA StreamsStart == ProgramsInit => StreamsInv
  <1> SUFFICES ASSUME ProgramsInit PROVE StreamsInv
    OBVIOUS
  <1>1. CASE program # "streams"
    BY <1>1 DEF ProgramsInit, StateNow, StreamsInv
  <1>2. CASE program = "streams"
    <2>1. PICK source \in {0, 3}, n \in Streamed, down \in BOOLEAN :
             sdma = Block([NoSoundDma EXCEPT !.down = down], source, n)
      <3>1. sdma \in Prepared
        BY <1>2 DEF ProgramsInit
      <3> QED
        BY <3>1, SMT DEF Prepared
    <2> DEFINE s == [NoSoundDma EXCEPT !.down = down]
    <2>2. s \in Streams /\ ~s.on
      <3>1. 0 \in Room /\ <<>> \in Seq(Room) /\ 0 \in Rates /\ 0 \in Nat
        BY SpaceIs DEF Room, Rates
      <3> QED
        BY <3>1 DEF NoSoundDma, Streams
    <2>3. source \in Byte /\ n \in 1 .. 255
      BY ProgramsAssumption DEF Byte
    <2> HIDE DEF s
    <2>4. InOrder(Block(s, source, n))
      BY <2>2, <2>3, BlockInOrder
    <2> QED
      BY <1>2, <2>1, <2>4 DEF StreamsInv, s
  <1> QED
    BY <1>1, <1>2

LEMMA StreamsContinue == StreamsInv /\ [ProgramsNext]_allVars => StreamsInv'
  <1> SUFFICES ASSUME StreamsInv, [ProgramsNext]_allVars PROVE StreamsInv'
    OBVIOUS
  <1>1. program' = program
    BY ProgramsKeep
  <1>2. CASE program # "streams"
    <2>1. sdma = NoSoundDma /\ saved.sdma = NoSoundDma
      BY <1>2 DEF StreamsInv
    <2>2. CheckSoundDMA(NoSoundDma) = NoSoundDma
      BY DEF CheckSoundDMA, NoSoundDma
    <2>3. CASE HostSet
      BY <1>1, <1>2, <2>1, <2>3 DEF HostSet, Reset, Save, Load, StateNow, deviceVars, StreamsInv
    <2>4. CASE saved' = saved /\ (sdma' = sdma \/ sdma' = CheckSoundDMA(sdma))
      BY <1>1, <1>2, <2>1, <2>2, <2>4 DEF StreamsInv
    <2> QED
      BY <1>2, <2>3, <2>4, StreamSteps DEF BlockSet, ControlSet
  <1>3. CASE program = "streams"
    <2>1. InOrder(sdma) /\ sdma \in Streams
      BY <1>3 DEF StreamsInv, InOrder
    <2>2. CASE sdma' = CheckSoundDMA(sdma)
      <3>1. InOrder(CheckSoundDMA(sdma))
        BY <2>1, CheckedInOrder
      <3> QED
        BY <1>1, <1>3, <2>2, <3>1 DEF StreamsInv
    <2>3. CASE BlockSet
      <3>1. PICK length \in Streamed : ~sdma.on /\ sdma' = Block(sdma, 3, length)
        BY <2>3 DEF BlockSet
      <3>2. 3 \in Byte /\ length \in 1 .. 255
        BY ProgramsAssumption DEF Byte
      <3>3. InOrder(Block(sdma, 3, length))
        BY <2>1, <3>1, <3>2, BlockInOrder
      <3> QED
        BY <1>1, <1>3, <3>1, <3>3 DEF StreamsInv
    <2>4. CASE ControlSet
      <3>1. PICK on \in BOOLEAN, hold \in BOOLEAN, loop \in BOOLEAN, rate \in {2, 3} :
               /\ on => sdma.length # 0
               /\ sdma' = SetControl(sdma, [on |-> on, hold |-> hold, loop |-> loop, rate |-> rate,
                                            down |-> sdma.down, hyper |-> FALSE])
        BY <2>4 DEF ControlSet
      <3>2. rate \in Rates
        BY DEF Rates
      <3>3. InOrder(SetControl(sdma, [on |-> on, hold |-> hold, loop |-> loop, rate |-> rate,
                                      down |-> sdma.down, hyper |-> FALSE]))
        BY <2>1, <3>1, <3>2, ControlInOrder
      <3> QED
        BY <1>1, <1>3, <3>1, <3>3 DEF StreamsInv
    <2>5. CASE sdma' = sdma
      BY <1>1, <1>3, <2>1, <2>5 DEF StreamsInv
    <2> QED
      BY <1>3, <2>2, <2>3, <2>4, <2>5, StreamSteps DEF HostSet
  <1> QED
    BY <1>2, <1>3

(* However a program holds, stops and restarts the sound DMA and changes   *)
(* its rate, it plays every address of its block in turn.                  *)
THEOREM StreamsArePlayedInOrder == ProgramsSpec => []StreamInOrder
  <1>1. StreamsInv => StreamInOrder
    <2> SUFFICES ASSUME StreamsInv PROVE StreamInOrder
      OBVIOUS
    <2>1. CASE program = "streams"
      <3>1. InOrder(sdma) /\ sdma.sent \in Seq(Room)
        BY <2>1 DEF StreamsInv, InOrder, Streams
      <3>2. DOMAIN sdma.sent = 1 .. Len(sdma.sent)
        BY <3>1
      <3> QED
        BY <3>1, <3>2 DEF InOrder, Place, StreamInOrder
    <2>2. CASE program # "streams"
      <3>1. sdma.sent = <<>>
        BY <2>2 DEF StreamsInv, NoSoundDma
      <3>2. DOMAIN sdma.sent = {}
        BY <3>1
      <3> QED
        BY <3>2 DEF StreamInOrder
    <2> QED
      BY <2>1, <2>2
  <1> QED
    BY <1>1, StreamsStart, StreamsContinue, PTL DEF ProgramsSpec

-----------------------------------------------------------------------------
(* General DMA.                                                            *)

(* Induction over the natural numbers, with a set for the property.        *)
LessThan == {ss \in Nat \X Nat : ss[1] < ss[2]}
LEMMA LeastElement ==
    ASSUME NEW S, S \subseteq Nat, S # {}
    PROVE  \E x \in S : \A y \in S : x <= y
<1>1. IsWellFoundedOn(LessThan, Nat)
  BY NatLessThanWellFounded DEF OpToRel, LessThan
<1>2. PICK x \in S : \A y \in S : ~(<<y, x>> \in LessThan)
  BY <1>1, WFMin, Zenon
<1>3. ASSUME NEW y \in S, y < x PROVE FALSE
  <2>1. <<y, x>> \in Nat \X Nat /\ <<y, x>>[1] < <<y, x>>[2]
    BY <1>3
  <2>2. <<y, x>> \in LessThan
    BY <2>1 DEF LessThan
  <2> QED BY <1>2, <2>2
<1>4. \A y \in S : x <= y
  BY <1>3
<1> QED BY <1>4

LEMMA Induction ==
    ASSUME NEW S, S \subseteq Nat, 0 \in S, \A n \in S : n + 1 \in S
    PROVE  S = Nat
<1> SUFFICES ASSUME Nat \ S # {} PROVE FALSE
    OBVIOUS
<1>1. PICK x \in Nat \ S : \A y \in Nat \ S : x <= y
  <2>1. Nat \ S \subseteq Nat
    OBVIOUS
  <2> QED BY <2>1, LeastElement, Zenon
<1>2. x # 0 /\ x - 1 \in Nat /\ x - 1 + 1 = x
  BY <1>1
<1>3. x - 1 \in S
  BY <1>1, <1>2
<1> QED BY <1>1, <1>2, <1>3

(* Numbers less than q apart with the same remainder are one.              *)
LEMMA RemaindersApart ==
    ASSUME NEW q \in Nat \ {0}, NEW a \in Int, NEW b \in Int, a % q = b % q,
           a - b < q, b - a < q
    PROVE  a = b
  <1> DEFINE m == a \div q
             n == b \div q
             r == a % q
  <1>1. m \in Int /\ n \in Int /\ r \in Int /\ a = q * m + r /\ b = q * n + r
    OBVIOUS
  <1> HIDE DEF m, n, r
  <1>2. q * m \in Int /\ q * n \in Int /\ q * (n + 1) = q * n + q /\ q * (m + 1) = q * m + q
    BY <1>1
  <1>3. m >= n + 1 => q * m >= q * (n + 1)
    BY <1>1
  <1>4. n >= m + 1 => q * n >= q * (m + 1)
    BY <1>1
  <1>5. m = n
    BY <1>1, <1>2, <1>3, <1>4
  <1> QED
    BY <1>1, <1>5

(* The neighbour of an even number is in the same pair.                    *)
LEMMA EvenRemainder ==
    ASSUME NEW q \in Nat \ {0}, q % 2 = 0, NEW a \in Int, a % 2 = 0
    PROVE  /\ a % q \in 0 .. q - 2 /\ (a % q) % 2 = 0 /\ (a + 1) % q = (a % q) + 1
  <1> DEFINE m == a \div q
             r == a % q
             h == q \div 2
             w == h * m
  <1>0. h \in Nat /\ q = 2 * h
    OBVIOUS
  <1>1. q \in Nat \ {0} /\ m \in Int /\ r \in 0 .. q - 1 /\ a = q * m + r
    <2>1. q \in Nat \ {0}
      OBVIOUS
    <2>2. \A p \in Nat \ {0} : /\ a \div p \in Int /\ a % p \in 0 .. p - 1
                              /\ a = p * (a \div p) + (a % p)
      OBVIOUS
    <2> QED
      BY <2>1, <2>2
  <1>2. w \in Int /\ q * m = 2 * w
    <2>1. m \in Int
      OBVIOUS
    <2> HIDE DEF m, h
    <2> QED
      BY <1>0, <2>1
  <1> HIDE DEF m, r, h, w
  <1>3. r % 2 = 0
    BY <1>1, <1>2
  <1>4. r \in 0 .. q - 2
    BY <1>1, <1>3
  <1>5. r + 1 \in 0 .. q - 1 /\ a + 1 \in Int /\ a + 1 = q * m + (r + 1)
    BY <1>1, <1>4
  <1>6. (a + 1) % q = r + 1
    BY ONLY <1>1, <1>5, Remainder
  <1> QED
    BY <1>3, <1>4, <1>6 DEF r

LEMMA RamIs == RamBytes \in Nat \ {0} /\ 256 <= RamBytes
  <1>1. RamBytes = 256 * 256
    BY SMT DEF RamBytes
  <1> QED
    BY <1>1

(* RAM and address space are whole pages of 256 bytes.                     *)
LEMMA WholePages ==
    ASSUME NEW q \in {RamBytes, Space}
    PROVE  q \in Nat \ {0} /\ q % 2 = 0 /\ q % 256 = 0
  <1>1. RamBytes % 2 = 0 /\ RamBytes % 256 = 0
    BY SMT DEF RamBytes
  <1>2. Space % 2 = 0 /\ Space % 256 = 0
    <2>1. Space = 256 * (16 * 256) /\ Space = 2 * (128 * (16 * 256))
      BY SMT DEF Space
    <2>2. \A m \in Nat : (256 * m) % 256 = 0 /\ (2 * m) % 2 = 0
      OBVIOUS
    <2> QED
      BY <2>1, <2>2
  <1> QED
    BY <1>1, <1>2, RamIs, SpaceIs

LEMMA PutIs ==
    ASSUME NEW m, NEW a, NEW b, NEW x
    PROVE  At(Put(m, a, b), x) = IF x = a THEN b ELSE At(m, x)
  BY DEF Put, At

(* A block that starts on even addresses and is not longer than the RAM.   *)
EvenBlock(d) ==
    /\ d.source \in Room /\ d.dest \in 0 .. RamBytes - 1 /\ d.length \in 0 .. RamBytes
    /\ d.source % 2 = 0 /\ d.dest % 2 = 0 /\ d.length % 2 = 0
Pairs(d) == 0 .. (d.length \div 2) - 1
Bits == {0, 1}

LEMMA BlockSizes ==
    ASSUME NEW d, EvenBlock(d)
    PROVE  /\ d.length \in Nat /\ d.length <= RamBytes /\ d.length \div 2 \in Nat
           /\ d.length = 2 * (d.length \div 2)
           /\ \A n \in Nat : Dest(d, n) \in Int /\ Source(d, n) \in Int
  <1>2. RamBytes \in Nat \ {0}
    BY RamIs
  <1>3. d.length \in Nat /\ d.length <= RamBytes
    BY <1>2 DEF EvenBlock
  <1>4. \A q \in Nat \ {0}, x \in Int : x % q \in Int
    OBVIOUS
  <1>5. ASSUME NEW n \in Nat PROVE Dest(d, n) \in Int /\ Source(d, n) \in Int
    <2>1. Step(d) * n \in Int
      BY DEF Step
    <2>2. d.source \in Int /\ d.dest \in Int
      BY <1>2, SpaceIs DEF EvenBlock, Room
    <2>3. d.dest + Step(d) * n \in Int /\ d.source + Step(d) * n \in Int
      BY <2>1, <2>2
    <2> QED
      BY <1>2, <1>4, <2>3, SpaceIs DEF Dest, Source
  <1> QED
    BY <1>3, <1>5 DEF EvenBlock

LEMMA PairsApart ==
    ASSUME NEW d, EvenBlock(d), NEW j \in Pairs(d), NEW k \in Pairs(d), NEW p \in Bits, NEW r \in Bits,
           Dest(d, j) + p = Dest(d, k) + r
    PROVE  j = k /\ p = r
  <1> DEFINE a == d.dest + Step(d) * j
             b == d.dest + Step(d) * k
  <1>1. Step(d) \in {-2, 2} /\ d.dest \in Int /\ d.dest % 2 = 0 /\ j \in Int /\ k \in Int
    BY DEF Step, EvenBlock, Pairs
  <1>2. a \in Int /\ b \in Int /\ a % 2 = 0 /\ b % 2 = 0
    BY <1>1
  <1>3. Dest(d, j) = a % RamBytes /\ Dest(d, k) = b % RamBytes
    BY DEF Dest
  <1>10. RamBytes \in Nat \ {0}
    BY RamIs
  <1>5. d.length \in Nat /\ d.length <= RamBytes
    BY BlockSizes
  <1>6. a - b < RamBytes /\ b - a < RamBytes
    <2>1. 2 * j < d.length /\ 2 * k < d.length /\ j >= 0 /\ k >= 0
      BY <1>5 DEF Pairs
    <2>2. a - b = Step(d) * j - Step(d) * k
      BY <1>1
    <2> QED
      BY <1>1, <1>5, <1>10, <2>1, <2>2
  <1>7. /\ a % RamBytes \in Int /\ (a % RamBytes) % 2 = 0
        /\ b % RamBytes \in Int /\ (b % RamBytes) % 2 = 0
    <2> HIDE DEF a, b
    <2>1. ASSUME NEW x \in Int, x % 2 = 0
          PROVE  x % RamBytes \in 0 .. RamBytes - 2 /\ (x % RamBytes) % 2 = 0
      <3>1. RamBytes % 2 = 0
        BY WholePages
      <3> QED
        BY <1>10, <2>1, <3>1, EvenRemainder
    <2>2. \A x \in 0 .. RamBytes - 2 : x \in Int
      BY <1>10
    <2> QED
      BY <1>2, <2>1, <2>2
  <1>8. p = r /\ a % RamBytes = b % RamBytes
    <2> DEFINE x == a % RamBytes
               y == b % RamBytes
    <2>1. x \in Int /\ y \in Int /\ x % 2 = 0 /\ y % 2 = 0 /\ x + p = y + r
      BY <1>3, <1>7
    <2> HIDE DEF x, y
    <2>2. p = r /\ x = y
      BY <2>1 DEF Bits
    <2> QED
      BY <2>2 DEF x, y
  <1>9. a = b
    <2> HIDE DEF a, b
    <2> QED
      BY <1>2, <1>6, <1>8, <1>10, RemaindersApart
  <1> QED
    BY <1>1, <1>8, <1>9

(* What a transfer has done after n pairs, as ws_CheckDMA's loop does it.  *)
FirstMoved(d, m, n) == Put(m, Dest(d, n), At(m, Source(d, n)))
PairMoved(d, m, n) ==
    Put(FirstMoved(d, m, n), Dest(d, n) + 1, At(FirstMoved(d, m, n), Source(d, n) + 1))
After(d, m, f, n) == IF n = 0 THEN m ELSE PairMoved(d, f[n - 1], n - 1)

LEMMA AfterExists ==
    ASSUME NEW d, NEW m
    PROVE  \A k \in Nat : \E f : f = [n \in 0 .. k |-> After(d, m, f, n)]
  <1> DEFINE S == {k \in Nat : \E f : f = [n \in 0 .. k |-> After(d, m, f, n)]}
  <1>1. 0 \in S
    <2> DEFINE f == [n \in 0 .. 0 |-> m]
    <2>1. f = [n \in 0 .. 0 |-> After(d, m, f, n)]
      BY DEF After
    <2> QED
      BY <2>1
  <1>2. ASSUME NEW k \in S PROVE k + 1 \in S
    <2>1. k \in Nat
      OBVIOUS
    <2>2. PICK f : f = [n \in 0 .. k |-> After(d, m, f, n)]
      OBVIOUS
    <2> DEFINE g == [n \in 0 .. k + 1 |-> After(d, m, f, n)]
    <2>3. ASSUME NEW n \in 0 .. k + 1 PROVE After(d, m, f, n) = After(d, m, g, n)
      <3>1. CASE n = 0
        BY <3>1 DEF After
      <3>2. CASE n # 0
        <4>1. n - 1 \in 0 .. k /\ n - 1 \in 0 .. k + 1
          BY <2>1, <3>2
        <4>2. f[n - 1] = After(d, m, f, n - 1) /\ g[n - 1] = After(d, m, f, n - 1)
          BY <2>2, <4>1
        <4> QED
          BY <4>2 DEF After
      <3> QED
        BY <3>1, <3>2
    <2>4. g = [n \in 0 .. k + 1 |-> After(d, m, g, n)]
      BY <2>3
    <2>5. k + 1 \in Nat
      BY <2>1
    <2> HIDE DEF g
    <2> QED
      BY <2>4, <2>5
  <1>3. S = Nat
    <2>1. S \subseteq Nat
      OBVIOUS
    <2> HIDE DEF S
    <2> QED
      BY <1>1, <1>2, <2>1, Induction
  <1> QED
    BY <1>3

LEMMA TransferredIs ==
    ASSUME NEW d, NEW m, d.length \div 2 \in Nat
    PROVE  \E f : /\ f = [n \in 0 .. d.length \div 2 |-> After(d, m, f, n)]
                  /\ Transferred(d, m) = f[d.length \div 2]
  <1> DEFINE f == CHOOSE f : f = [n \in 0 .. d.length \div 2 |-> After(d, m, f, n)]
  <1>1. Transferred(d, m) = f[d.length \div 2]
    BY DEF Transferred, After, PairMoved, FirstMoved
  <1>2. f = [n \in 0 .. d.length \div 2 |-> After(d, m, f, n)]
    <2>1. \E g : g = [n \in 0 .. d.length \div 2 |-> After(d, m, g, n)]
      BY AfterExists
    <2> QED
      BY <2>1
  <1> QED
    BY <1>1, <1>2

LEMMA PairMovedIs ==
    ASSUME NEW d, NEW m, NEW n, NEW x
    PROVE  At(PairMoved(d, m, n), x) =
             IF x = Dest(d, n) + 1 THEN At(FirstMoved(d, m, n), Source(d, n) + 1)
             ELSE IF x = Dest(d, n) THEN At(m, Source(d, n)) ELSE At(m, x)
  BY PutIs DEF PairMoved, FirstMoved

(* Nothing is overwritten before it has been read.                         *)
NotOverwritten(d) ==
    \A j, k \in Pairs(d), p, r \in Bits :
        2 * j + p < 2 * k + r => Dest(d, j) + p # Source(d, k) + r
Arrived(d, m, new, n) ==
    /\ \A x : (\A k \in 0 .. n - 1, r \in Bits : x # Dest(d, k) + r) => At(new, x) = At(m, x)
    /\ NotOverwritten(d) => \A k \in 0 .. n - 1, r \in Bits :
                               At(new, Dest(d, k) + r) = At(m, Source(d, k) + r)

LEMMA PairArrives ==
    ASSUME NEW d, EvenBlock(d), NEW m, NEW new, NEW n \in Pairs(d), Arrived(d, m, new, n)
    PROVE  Arrived(d, m, PairMoved(d, new, n), n + 1)
  <1> DEFINE last == PairMoved(d, new, n)
  <1>1. /\ n \in Nat /\ \A k : k \in 0 .. n => k \in 0 .. n - 1 \/ k = n
        /\ 0 .. n \subseteq Pairs(d) /\ 0 .. n - 1 \subseteq 0 .. n /\ n \in 0 .. n
        /\ (n + 1) - 1 = n /\ Pairs(d) \subseteq Nat
    BY BlockSizes DEF Pairs
  <1>2. 0 \in Bits /\ 1 \in Bits
    BY DEF Bits
  <1>3. \A j, k \in Pairs(d), p, r \in Bits : Dest(d, j) + p = Dest(d, k) + r => j = k /\ p = r
    BY PairsApart
  <1>4. Dest(d, n) = Dest(d, n) + 0 /\ Source(d, n) = Source(d, n) + 0
    <2>1. Dest(d, n) \in Int /\ Source(d, n) \in Int
      BY <1>1, BlockSizes
    <2> QED
      BY <2>1
  <1>5. ASSUME NEW x, \A k \in 0 .. n, r \in Bits : x # Dest(d, k) + r
        PROVE  At(last, x) = At(m, x)
    <2>1. x # Dest(d, n) + 1 /\ x # Dest(d, n) + 0
      BY <1>1, <1>2, <1>5
    <2>2. At(last, x) = At(new, x)
      BY <1>4, <2>1, PairMovedIs
    <2>3. \A k \in 0 .. n - 1, r \in Bits : x # Dest(d, k) + r
      BY <1>1, <1>5
    <2> QED
      BY <2>2, <2>3 DEF Arrived
  <1>6. ASSUME NotOverwritten(d), NEW k \in 0 .. n, NEW r \in Bits
        PROVE  At(last, Dest(d, k) + r) = At(m, Source(d, k) + r)
    <2>1. \A q \in Bits, j \in 0 .. n - 1, p \in Bits : Source(d, n) + q # Dest(d, j) + p
      <3> SUFFICES ASSUME NEW q \in Bits, NEW j \in 0 .. n - 1, NEW p \in Bits
                   PROVE  2 * j + p < 2 * n + q
        BY <1>1, <1>6 DEF NotOverwritten
      <3> QED
        BY <1>1 DEF Bits
    <2>2. \A q \in Bits : At(new, Source(d, n) + q) = At(m, Source(d, n) + q)
      BY <2>1 DEF Arrived
    <2>3. CASE k = n /\ r = 1
      <3>1. At(last, Dest(d, k) + r) = At(FirstMoved(d, new, n), Source(d, n) + 1)
        BY <2>3, PairMovedIs
      <3>2. Source(d, n) + 1 # Dest(d, n)
        <4>1. 2 * n + 0 < 2 * n + 1
          BY <1>1
        <4> QED
          BY <1>2, <1>4, <1>6, <4>1 DEF NotOverwritten
      <3>3. At(FirstMoved(d, new, n), Source(d, n) + 1) = At(new, Source(d, n) + 1)
        BY <3>2, PutIs DEF FirstMoved
      <3> QED
        BY <1>2, <2>2, <2>3, <3>1, <3>3
    <2>4. CASE k = n /\ r = 0
      <3>1. Dest(d, n) + 0 # Dest(d, n) + 1
        BY <1>2, <1>3
      <3>2. At(last, Dest(d, n)) = At(new, Source(d, n))
        BY <1>4, <3>1, PairMovedIs
      <3> QED
        BY <1>2, <1>4, <2>2, <2>4, <3>2
    <2>5. CASE k # n
      <3>1. k \in 0 .. n - 1
        BY <1>1, <2>5
      <3>2. Dest(d, k) + r # Dest(d, n) + 1 /\ Dest(d, k) + r # Dest(d, n) + 0
        BY <1>1, <1>2, <1>3, <2>5
      <3>3. At(last, Dest(d, k) + r) = At(new, Dest(d, k) + r)
        BY <1>4, <3>2, PairMovedIs
      <3> QED
        BY <1>6, <3>1, <3>3 DEF Arrived
    <2> QED
      BY <1>1, <2>3, <2>4, <2>5 DEF Bits
  <1> HIDE DEF last
  <1>7. Arrived(d, m, last, n + 1)
    BY <1>1, <1>5, <1>6 DEF Arrived
  <1> QED
    BY <1>7 DEF last

(* A whole transfer.                                                       *)
LEMMA TransferArrives ==
    ASSUME NEW d, EvenBlock(d), NEW m
    PROVE  Arrived(d, m, Transferred(d, m), d.length \div 2)
  <1> DEFINE K == d.length \div 2
  <1>1. K \in Nat
    BY BlockSizes
  <1>2. PICK f : f = [n \in 0 .. K |-> After(d, m, f, n)] /\ Transferred(d, m) = f[K]
    BY <1>1, TransferredIs
  <1> DEFINE S == {n \in Nat : n <= K => Arrived(d, m, f[n], n)}
  <1>3. Pairs(d) = 0 .. K - 1
    BY DEF Pairs
  <1> HIDE DEF K
  <1>4. 0 \in S
    <2>1. f[0] = m
      BY <1>1, <1>2 DEF After
    <2> QED
      BY <2>1 DEF Arrived
  <1>5. ASSUME NEW n \in S PROVE n + 1 \in S
    <2>1. n \in Nat /\ n + 1 \in Nat
      OBVIOUS
    <2>2. SUFFICES ASSUME n + 1 <= K PROVE Arrived(d, m, f[n + 1], n + 1)
      BY <2>1
    <2>3. n \in 0 .. K /\ n + 1 \in 0 .. K /\ n \in Pairs(d) /\ n <= K
      BY <1>1, <1>3, <2>1, <2>2
    <2>4. f[n + 1] = PairMoved(d, f[n], n)
      <3>1. n + 1 # 0 /\ (n + 1) - 1 = n
        BY <2>1
      <3> QED
        BY <1>2, <2>3, <3>1 DEF After
    <2>5. Arrived(d, m, f[n], n)
      BY <2>3
    <2> QED
      BY <2>3, <2>4, <2>5, PairArrives
  <1>6. S = Nat
    <2>1. S \subseteq Nat
      OBVIOUS
    <2> HIDE DEF S
    <2> QED
      BY <1>4, <1>5, <2>1, Induction
  <1> QED
    BY <1>1, <1>2, <1>6 DEF K

(* Who sets the registers, and who copies.                                 *)
RegisterSet ==
    /\ mem' = mem
    /\ \/ \E byte \in {2, 5} : dma' = [dma EXCEPT !.length = EvenLow(dma.length, byte)]
       \/ \E byte \in {0, 253} : dma' = [dma EXCEPT !.source = EvenLow(dma.source, byte)]
       \/ \E byte \in {3, 254} : dma' = [dma EXCEPT !.dest = EvenLow(dma.dest, byte)]
Copied ==
    \E down \in BOOLEAN :
       /\ mem' = Transferred([dma EXCEPT !.down = down], mem)
       /\ dma' = AfterTransfer([dma EXCEPT !.down = down])

LEMMA CopySteps ==
    ASSUME [ProgramsNext]_allVars, program = "copies"
    PROVE  (dma' = dma /\ mem' = mem) \/ RegisterSet \/ Copied
  <1> USE DEF Register, SetInt, SetDisplay, SetRtc, SetEeprom, SetSound,
              cpuVars, deviceVars, Quiet
  <1>1. CASE CopiesStep
    <2>1. ASSUME NEW down \in BOOLEAN, StartDma(down) PROVE Copied
      BY <2>1 DEF StartDma, Copied
    <2>2. ASSUME NEW new, SetDma(new) PROVE dma' = new /\ mem' = mem
      BY <2>2 DEF SetDma
    <2> QED
      BY <1>1, <2>1, <2>2 DEF CopiesStep, RegisterSet
  <1>2. CASE FramesStep \/ ReaderStep \/ TimersStep \/ StreamsStep \/ TunesStep \/ StoresStep
    BY <1>2 DEF FramesStep, ReaderStep, TimersStep, StreamsStep, TunesStep, StoresStep, Did
  <1>3. CASE LineStep
    BY <1>3 DEF LineStep, Line, BeginLine, MidLine, LateLine, EndLine
  <1>4. CASE Idle \/ Answer \/ Others
    BY <1>4 DEF Idle, Answer, Others, Compute, Sleep, Wake, Emulate
  <1>5. CASE UNCHANGED allVars
    BY <1>5 DEF allVars, vars
  <1> QED
    BY <1>1, <1>2, <1>3, <1>4, <1>5 DEF ProgramsNext

DmaRegisters == [source : Room, dest : 0 .. RamBytes - 1, length : {0, 2, 4}, down : BOOLEAN]
EvenRegisters(d) == d \in DmaRegisters /\ d.source % 2 = 0 /\ d.dest % 2 = 0
CopiesInv == program = "copies" => EvenRegisters(dma)

LEMMA EvenLowIs ==
    ASSUME NEW q \in {RamBytes, Space}, NEW v \in 0 .. q - 1, NEW byte \in Byte
    PROVE  EvenLow(v, byte) \in 0 .. q - 1 /\ EvenLow(v, byte) % 2 = 0
  <1> DEFINE n == q \div 256
             m == v \div 256
             b == byte \div 2
  <1>0. n \in Nat /\ q = 256 * n
    BY WholePages
  <1> HIDE DEF n
  <1>1. m \in Nat /\ m <= n - 1
    BY <1>0
  <1>2. b \in 0 .. 127
    BY DEF Byte
  <1> HIDE DEF m, b
  <1>3. 256 * m + 2 * b \in 0 .. q - 1 /\ (256 * m + 2 * b) % 2 = 0
    BY <1>0, <1>1, <1>2
  <1> QED
    BY <1>3 DEF EvenLow, m, b

LEMMA RegistersEven ==
    ASSUME NEW d, EvenRegisters(d)
    PROVE  EvenBlock(d)
  <1>1. d.length = 0 \/ d.length = 2 \/ d.length = 4
    BY DEF EvenRegisters, DmaRegisters
  <1>2. d.length \in 0 .. RamBytes /\ d.length % 2 = 0
    BY <1>1, RamIs
  <1> QED
    BY <1>2 DEF EvenRegisters, DmaRegisters, EvenBlock

LEMMA RegisterSetEven ==
    ASSUME EvenRegisters(dma), RegisterSet
    PROVE  EvenRegisters(dma') /\ (dma.length # 0 => dma'.length # 0)
  <1>1. \A byte \in {0, 2, 3, 5, 253, 254} : byte \in Byte
    BY DEF Byte
  <1>2. dma \in DmaRegisters /\ dma.source % 2 = 0 /\ dma.dest % 2 = 0
    BY DEF EvenRegisters
  <1>3. ASSUME NEW byte \in {2, 5}, dma' = [dma EXCEPT !.length = EvenLow(dma.length, byte)]
        PROVE  EvenRegisters(dma') /\ dma'.length # 0
    <2>1. EvenLow(dma.length, byte) \in {2, 4}
      <3>1. dma.length = 0 \/ dma.length = 2 \/ dma.length = 4
        BY <1>2 DEF DmaRegisters
      <3>2. dma.length \div 256 = 0 /\ byte \div 2 \in {1, 2}
        BY <3>1
      <3> QED
        BY <3>2 DEF EvenLow
    <2> QED
      BY <1>2, <1>3, <2>1 DEF DmaRegisters, EvenRegisters
  <1>4. ASSUME NEW byte \in {0, 253}, dma' = [dma EXCEPT !.source = EvenLow(dma.source, byte)]
        PROVE  EvenRegisters(dma') /\ dma'.length = dma.length
    <2> DEFINE v == EvenLow(dma.source, byte)
    <2>1. v \in Room /\ v % 2 = 0
      <3>1. dma.source \in 0 .. Space - 1 /\ byte \in Byte
        BY <1>1, <1>2 DEF DmaRegisters, Room
      <3> QED
        BY <3>1, EvenLowIs DEF Room
    <2> HIDE DEF v
    <2>2. dma' = [dma EXCEPT !.source = v]
      BY <1>4 DEF v
    <2> QED
      BY <1>2, <2>1, <2>2 DEF DmaRegisters, EvenRegisters
  <1>5. ASSUME NEW byte \in {3, 254}, dma' = [dma EXCEPT !.dest = EvenLow(dma.dest, byte)]
        PROVE  EvenRegisters(dma') /\ dma'.length = dma.length
    <2> DEFINE v == EvenLow(dma.dest, byte)
    <2>1. v \in 0 .. RamBytes - 1 /\ v % 2 = 0
      <3>1. dma.dest \in 0 .. RamBytes - 1 /\ byte \in Byte
        BY <1>1, <1>2 DEF DmaRegisters
      <3> QED
        BY <3>1, EvenLowIs
    <2> HIDE DEF v
    <2>2. dma' = [dma EXCEPT !.dest = v]
      BY <1>5 DEF v
    <2> QED
      BY <1>2, <2>1, <2>2 DEF DmaRegisters, EvenRegisters
  <1> QED
    BY <1>3, <1>4, <1>5 DEF RegisterSet

LEMMA CopiedEven ==
    ASSUME NEW d, EvenRegisters(d)
    PROVE  /\ EvenRegisters(AfterTransfer(d))
           /\ AfterTransfer(d).length = 0 /\ AfterTransfer(d).down = d.down
  <1> DEFINE n == d.length \div 2
  <1>1. n \in Nat /\ d.source \in Int /\ d.dest \in Int /\ Step(d) \in {-2, 2}
        /\ d.source % 2 = 0 /\ d.dest % 2 = 0 /\ d \in DmaRegisters
    <2>1. n \in Nat
      BY RegistersEven, BlockSizes
    <2>2. d \in DmaRegisters /\ d.source % 2 = 0 /\ d.dest % 2 = 0
      BY DEF EvenRegisters
    <2>3. d.source \in Int
      BY <2>2, SpaceIs DEF DmaRegisters, Room
    <2>4. d.dest \in Int
      BY <2>2, RamIs DEF DmaRegisters
    <2> QED
      BY <2>1, <2>2, <2>3, <2>4 DEF Step
  <1> HIDE DEF n
  <1>2. /\ d.source + Step(d) * n \in Int /\ (d.source + Step(d) * n) % 2 = 0
        /\ d.dest + Step(d) * n \in Int /\ (d.dest + Step(d) * n) % 2 = 0
    BY <1>1
  <1>3. Source(d, n) \in Room /\ Source(d, n) % 2 = 0
    <2> DEFINE a == d.source + Step(d) * n
    <2>1. a \in Int /\ a % 2 = 0 /\ Source(d, n) = a % Space
      BY <1>2 DEF Source
    <2>2. Space \in Nat \ {0} /\ Space % 2 = 0
      BY WholePages
    <2> HIDE DEF a
    <2>3. a % Space \in 0 .. Space - 2 /\ (a % Space) % 2 = 0
      BY <2>1, <2>2, EvenRemainder
    <2> QED
      BY <2>1, <2>2, <2>3 DEF Room
  <1>4. Dest(d, n) \in 0 .. RamBytes - 1 /\ Dest(d, n) % 2 = 0
    <2> DEFINE a == d.dest + Step(d) * n
    <2>1. a \in Int /\ a % 2 = 0 /\ Dest(d, n) = a % RamBytes
      BY <1>2 DEF Dest
    <2>2. RamBytes \in Nat \ {0} /\ RamBytes % 2 = 0
      BY WholePages
    <2> HIDE DEF a
    <2>3. a % RamBytes \in 0 .. RamBytes - 2 /\ (a % RamBytes) % 2 = 0
      BY <2>1, <2>2, EvenRemainder
    <2> QED
      BY <2>1, <2>2, <2>3
  <1> DEFINE v == Source(d, n)
             w == Dest(d, n)
  <1>5. AfterTransfer(d) = [d EXCEPT !.source = v, !.dest = w, !.length = 0]
    BY DEF AfterTransfer, n
  <1>6. v \in Room /\ v % 2 = 0 /\ w \in 0 .. RamBytes - 1 /\ w % 2 = 0
    BY <1>3, <1>4
  <1> HIDE DEF v, w
  <1> QED
    BY <1>1, <1>5, <1>6 DEF DmaRegisters, EvenRegisters

LEMMA CopiesStart == ProgramsInit => CopiesInv
  <1> SUFFICES ASSUME ProgramsInit, program = "copies" PROVE EvenRegisters(dma)
    BY DEF CopiesInv
  <1>1. PICK s \in {0, 4, Space - 2}, t \in {2, RamBytes - 2} :
           dma = [NoDma EXCEPT !.source = s, !.dest = t, !.length = 4]
    BY DEF ProgramsInit
  <1>2. \A q \in {RamBytes, Space} : q - 2 \in 0 .. q - 1 /\ (q - 2) % 2 = 0
    <2>1. \A q \in Nat \ {0} : q % 2 = 0 => q - 2 \in 0 .. q - 1 /\ (q - 2) % 2 = 0
      OBVIOUS
    <2> QED
      BY <2>1, WholePages
  <1>3. s \in Room /\ s % 2 = 0
    <2>1. s = 0 \/ s = 4 \/ s = Space - 2
      OBVIOUS
    <2> QED
      BY <1>2, <2>1, SpaceIs DEF Room
  <1>4. t \in 0 .. RamBytes - 1 /\ t % 2 = 0
    <2>1. t = 2 \/ t = RamBytes - 2
      OBVIOUS
    <2> QED
      BY <1>2, <2>1, RamIs
  <1> QED
    BY <1>1, <1>3, <1>4 DEF NoDma, DmaRegisters, EvenRegisters

LEMMA CopiesContinue == CopiesInv /\ [ProgramsNext]_allVars => CopiesInv'
  <1> SUFFICES ASSUME CopiesInv, [ProgramsNext]_allVars, program' = "copies" PROVE EvenRegisters(dma')
    BY DEF CopiesInv, EvenRegisters, DmaRegisters
  <1>1. program = "copies"
    BY ProgramsKeep
  <1>2. EvenRegisters(dma)
    BY <1>1 DEF CopiesInv
  <1>3. CASE Copied
    <2>1. PICK down \in BOOLEAN : dma' = AfterTransfer([dma EXCEPT !.down = down])
      BY <1>3 DEF Copied
    <2>2. EvenRegisters([dma EXCEPT !.down = down])
      BY <1>2 DEF EvenRegisters, DmaRegisters
    <2> QED
      BY <2>1, <2>2, CopiedEven
  <1> QED
    BY <1>1, <1>2, <1>3, CopySteps, RegisterSetEven

(* The bytes of CopyArrives are those of the pairs.                        *)
LEMMA ByteOfPair ==
    ASSUME NEW d, EvenBlock(d), NEW k \in Nat, NEW r \in Bits
    PROVE  LET i == 2 * k + r
               offset == IF d.down THEN (i % 2) - 2 * (i \div 2) ELSE i
           IN  /\ (d.source + offset) % Space = Source(d, k) + r
               /\ (d.dest + offset) % RamBytes = Dest(d, k) + r
  <1> DEFINE i == 2 * k + r
             offset == IF d.down THEN (i % 2) - 2 * (i \div 2) ELSE i
  <1>1. i % 2 = r /\ i \div 2 = k
    BY DEF Bits
  <1>2. offset = Step(d) * k + r
    BY <1>1 DEF Step, Bits
  <1> HIDE DEF i, offset
  <1>3. ASSUME NEW q \in {RamBytes, Space}, NEW v \in Int, v % 2 = 0
        PROVE  (v + offset) % q = ((v + Step(d) * k) % q) + r
    <2> DEFINE a == v + Step(d) * k
    <2>1. a \in Int /\ a % 2 = 0 /\ v + offset = a + r
      BY <1>2, <1>3 DEF Step, Bits
    <2>2. q \in Nat \ {0} /\ q % 2 = 0
      BY WholePages
    <2> HIDE DEF a
    <2>3. (a + 1) % q = (a % q) + 1
      BY <2>1, <2>2, EvenRemainder
    <2>4. a % q \in Int
      BY <2>1, <2>2
    <2>5. (a + r) % q = (a % q) + r
      BY <2>1, <2>3, <2>4 DEF Bits
    <2> QED
      BY <2>1, <2>5 DEF a
  <1>4. (d.source + offset) % Space = Source(d, k) + r
    <2>1. d.source \in Int /\ d.source % 2 = 0
      BY SpaceIs DEF EvenBlock, Room
    <2> QED
      BY <1>3, <2>1 DEF Source
  <1>5. (d.dest + offset) % RamBytes = Dest(d, k) + r
    <2>1. d.dest \in Int /\ d.dest % 2 = 0
      BY RamIs DEF EvenBlock
    <2> QED
      BY <1>3, <2>1 DEF Dest
  <1> QED
    BY <1>4, <1>5 DEF i, offset

LEMMA BytesArePairs ==
    ASSUME NEW d, EvenBlock(d)
    PROVE  /\ \A i \in 0 .. d.length - 1 : \E k \in Pairs(d), r \in Bits : i = 2 * k + r
           /\ \A k \in Pairs(d), r \in Bits : 2 * k + r \in 0 .. d.length - 1
           /\ Pairs(d) \subseteq Nat
  <1>1. d.length \div 2 \in Nat /\ d.length = 2 * (d.length \div 2)
    BY BlockSizes
  <1> DEFINE K == d.length \div 2
  <1>2. Pairs(d) = 0 .. K - 1 /\ K \in Nat /\ d.length = 2 * K
    BY <1>1 DEF Pairs
  <1> HIDE DEF K
  <1>3. ASSUME NEW i \in 0 .. d.length - 1 PROVE \E k \in Pairs(d), r \in Bits : i = 2 * k + r
    <2>1. i \div 2 \in 0 .. K - 1 /\ i % 2 \in Bits /\ i = 2 * (i \div 2) + (i % 2)
      BY <1>2 DEF Bits
    <2> QED
      BY <1>2, <2>1
  <1>4. ASSUME NEW k \in Pairs(d), NEW r \in Bits PROVE 2 * k + r \in 0 .. d.length - 1
    BY <1>2 DEF Bits
  <1> QED
    BY <1>2, <1>3, <1>4

ArrivesNow ==
    LET copied == 0 .. dma.length - 1
    IN  program = "copies" /\ dma.length # 0 /\ dma'.length = 0 =>
          /\ (\A i, j \in copied : i < j => To(i) # From(j)) =>
                \A i \in copied : At(mem', To(i)) = At(mem, From(i))
          /\ \A a \in DOMAIN mem' \ {To(i) : i \in copied} : At(mem', a) = At(mem, a)

LEMMA CopyStepArrives == CopiesInv /\ [ProgramsNext]_allVars => ArrivesNow
  <1> SUFFICES ASSUME CopiesInv, [ProgramsNext]_allVars,
                      program = "copies", dma.length # 0, dma'.length = 0
               PROVE  /\ (\A i, j \in 0 .. dma.length - 1 : i < j => To(i) # From(j)) =>
                            \A i \in 0 .. dma.length - 1 : At(mem', To(i)) = At(mem, From(i))
                      /\ \A a \in DOMAIN mem' \ {To(i) : i \in 0 .. dma.length - 1} :
                            At(mem', a) = At(mem, a)
    BY DEF ArrivesNow
  <1>1. EvenRegisters(dma)
    BY DEF CopiesInv
  <1>2. Copied
    BY <1>1, CopySteps, RegisterSetEven
  <1>3. PICK down \in BOOLEAN : /\ mem' = Transferred([dma EXCEPT !.down = down], mem)
                                /\ dma' = AfterTransfer([dma EXCEPT !.down = down])
    BY <1>2 DEF Copied
  <1> DEFINE d == [dma EXCEPT !.down = down]
  <1>4. /\ EvenRegisters(d) /\ d.source = dma.source /\ d.dest = dma.dest
        /\ d.length = dma.length /\ d.down = down
    BY <1>1 DEF EvenRegisters, DmaRegisters
  <1>5. dma'.down = down /\ mem' = Transferred(d, mem)
    BY <1>3, <1>4, CopiedEven
  <1> HIDE DEF d
  <1>6. EvenBlock(d)
    BY <1>4, RegistersEven
  <1>7. ASSUME NEW k \in Pairs(d), NEW r \in Bits
        PROVE  From(2 * k + r) = Source(d, k) + r /\ To(2 * k + r) = Dest(d, k) + r
    <2>1. k \in Nat
      BY <1>6, BytesArePairs
    <2> QED
      BY <1>4, <1>5, <1>6, <2>1, ByteOfPair DEF From, To, Offset
  <1>8. Arrived(d, mem, mem', d.length \div 2)
    BY <1>5, <1>6, TransferArrives
  <1>9. /\ \A i \in 0 .. dma.length - 1 : \E k \in Pairs(d), r \in Bits : i = 2 * k + r
        /\ \A k \in Pairs(d), r \in Bits : 2 * k + r \in 0 .. dma.length - 1
    BY <1>4, <1>6, BytesArePairs
  <1>10. ASSUME \A i, j \in 0 .. dma.length - 1 : i < j => To(i) # From(j),
                NEW i \in 0 .. dma.length - 1
         PROVE  At(mem', To(i)) = At(mem, From(i))
    <2>1. NotOverwritten(d)
      BY <1>7, <1>9, <1>10 DEF NotOverwritten
    <2>2. PICK k \in Pairs(d), r \in Bits : i = 2 * k + r
      BY <1>9
    <2>3. At(mem', Dest(d, k) + r) = At(mem, Source(d, k) + r)
      BY <1>8, <2>1 DEF Arrived, Pairs
    <2> QED
      BY <1>7, <2>2, <2>3
  <1>11. ASSUME NEW a \in DOMAIN mem' \ {To(i) : i \in 0 .. dma.length - 1}
         PROVE  At(mem', a) = At(mem, a)
    <2>1. \A k \in Pairs(d), r \in Bits : a # Dest(d, k) + r
      BY <1>7, <1>9
    <2> QED
      BY <1>8, <2>1 DEF Arrived, Pairs
  <1> QED
    BY <1>10, <1>11

(* A copy that overwrites nothing it has still to read arrives, up or down *)
(* and over the ends of the RAM and of the address space, and leaves the   *)
(* bytes beside it alone.                                                  *)
THEOREM CopiesArrive == ProgramsSpec => CopyArrives
  <1>1. CopiesInv /\ [ProgramsNext]_allVars => [ArrivesNow]_allVars
    BY CopyStepArrives
  <1>2. ProgramsSpec => []CopiesInv
    BY CopiesStart, CopiesContinue, PTL DEF ProgramsSpec
  <1>3. ProgramsSpec => [][ArrivesNow]_allVars
    BY <1>1, <1>2, PTL DEF ProgramsSpec
  <1> QED
    BY <1>3, PTL DEF CopyArrives, ArrivesNow

-----------------------------------------------------------------------------
(* The sound chip.                                                         *)

(* How often a counter wraps in a run, and where it is rest, ...           *)
LEMMA WrapsAre ==
    ASSUME NEW c \in Nat \ {0}, NEW run \in Nat, NEW rate \in Nat \ {0}
    PROVE  /\ WrapsIn(c, run, rate) \in Nat
           /\ CounterLeft(c, run, rate) \in Nat \ {0}
           /\ WrapsIn(c, run, rate) # 0 => CounterLeft(c, run, rate) <= rate
  <1>1. CASE c > run
    <2>1. WrapsIn(c, run, rate) = 0 /\ CounterLeft(c, run, rate) = c - run
      BY <1>1 DEF WrapsIn, CounterLeft
    <2> QED
      BY <1>1, <2>1
  <1>2. CASE ~(c > run)
    <2> DEFINE m == (run - c) \div rate
               r == (run - c) % rate
    <2>1. m \in Nat /\ r \in 0 .. rate - 1 /\ run - c = rate * m + r
      <3>1. run - c \in Nat
        BY <1>2
      <3>2. \A x \in Nat : x \div rate \in Int /\ x % rate \in 0 .. rate - 1
                             /\ x = rate * (x \div rate) + (x % rate)
        OBVIOUS
      <3>3. m \in Int /\ r \in 0 .. rate - 1 /\ run - c = rate * m + r
        BY <3>1, <3>2
      <3>4. m <= -1 => rate * m <= -rate
        <4>1. m <= -1 => rate * (m + 1) <= 0
          BY <3>3
        <4>2. rate * (m + 1) = rate * m + rate /\ rate * m \in Int
          BY <3>3
        <4> QED
          BY <4>1, <4>2
      <3> HIDE DEF m, r
      <3>5. rate * m \in Int
        BY <3>3
      <3> QED
        BY <3>1, <3>3, <3>4, <3>5
    <2> HIDE DEF m, r
    <2>2. WrapsIn(c, run, rate) = m + 1
      BY <1>2 DEF WrapsIn, m
    <2>3. CounterLeft(c, run, rate) = c - run + rate * (m + 1)
      BY <2>2 DEF CounterLeft
    <2>4. rate * (m + 1) = rate * m + rate /\ rate * m \in Int
      BY <2>1
    <2>5. CounterLeft(c, run, rate) = rate - r
      BY <2>1, <2>3, <2>4
    <2> QED
      BY <2>1, <2>2, <2>5
  <1> QED
    BY <1>1, <1>2

(* ... and that nothing else is.                                           *)
LEMMA WrapsOnly ==
    ASSUME NEW c \in Nat \ {0}, NEW run \in Nat, NEW rate \in Nat \ {0}, NEW n \in Nat,
           c - run + rate * n \in Nat \ {0}, n # 0 => c - run + rate * n <= rate
    PROVE  n = WrapsIn(c, run, rate)
  <1>1. PICK m \in Nat : m = WrapsIn(c, run, rate)
    BY WrapsAre
  <1>2. c - run + rate * m \in Nat \ {0} /\ (m # 0 => c - run + rate * m <= rate)
    BY <1>1, WrapsAre DEF CounterLeft
  <1>3. rate * n \in Int /\ rate * m \in Int
        /\ rate * (n + 1) = rate * n + rate /\ rate * (m + 1) = rate * m + rate
    OBVIOUS
  <1>4. n >= m + 1 => rate * n >= rate * (m + 1)
    OBVIOUS
  <1>5. m >= n + 1 => rate * m >= rate * (n + 1)
    OBVIOUS
  <1>6. m = n
    BY <1>2, <1>3, <1>4, <1>5
  <1> QED
    BY <1>1, <1>6

(* Two runs wrap a counter as one does that is as long as both.            *)
WrapsOn(c, one, two, rate) ==
    LET rest == CounterLeft(c, one, rate)
    IN  /\ WrapsIn(c, one + two, rate) = WrapsIn(c, one, rate) + WrapsIn(rest, two, rate)
        /\ CounterLeft(c, one + two, rate) = CounterLeft(rest, two, rate)

LEMMA WrapsAdd ==
    ASSUME NEW c \in Nat \ {0}, NEW one \in Nat, NEW two \in Nat, NEW rate \in Nat \ {0}
    PROVE  WrapsOn(c, one, two, rate)
  <1> DEFINE rest == CounterLeft(c, one, rate)
             n == WrapsIn(c, one, rate)
             m == WrapsIn(rest, two, rate)
             last == CounterLeft(rest, two, rate)
  <1>1. n \in Nat /\ rest \in Nat \ {0} /\ (n # 0 => rest <= rate) /\ rest = c - one + rate * n
    BY WrapsAre DEF CounterLeft
  <1>2. m \in Nat /\ last \in Nat \ {0} /\ (m # 0 => last <= rate) /\ last = rest - two + rate * m
    BY <1>1, WrapsAre DEF CounterLeft
  <1> HIDE DEF rest, n, m, last
  <1>3. rate * (n + m) = rate * n + rate * m /\ rate * n \in Int /\ rate * m \in Int
    BY <1>1, <1>2
  <1>4. last = c - (one + two) + rate * (n + m)
    BY <1>1, <1>2, <1>3
  <1>5. n + m # 0 => last <= rate
    <2>1. CASE m # 0
      BY <1>2, <2>1
    <2>2. CASE m = 0 /\ n # 0
      <3>1. rate * m = 0
        BY <2>2
      <3>2. last = rest - two
        BY <1>1, <1>2, <3>1
      <3> QED
        BY <1>1, <2>2, <3>2
    <2> QED
      BY <1>1, <1>2, <2>1, <2>2
  <1>6. n + m = WrapsIn(c, one + two, rate)
    <2>1. one + two \in Nat /\ n + m \in Nat
      BY <1>1, <1>2
    <2> QED
      BY <1>2, <1>4, <1>5, <2>1, WrapsOnly
  <1>7. CounterLeft(c, one + two, rate) = last
    BY <1>4, <1>6 DEF CounterLeft
  <1> QED
    BY <1>6, <1>7 DEF rest, n, m, last, WrapsOn

(* A run of no cycles.                                                     *)
LEMMA NoRun ==
    ASSUME NEW c \in Nat \ {0}, NEW rate \in Nat \ {0}
    PROVE  WrapsIn(c, 0, rate) = 0 /\ CounterLeft(c, 0, rate) = c
  <1>1. WrapsIn(c, 0, rate) = 0 /\ rate * 0 = 0
    BY DEF WrapsIn
  <1> QED
    BY <1>1 DEF CounterLeft

(* The shift register of the noise.                                        *)
ShiftRegisters == {n \in Nat : n < 32768}
Taken3 == 0 .. 7
Hissed(x, tap, f, i) == IF i = 0 THEN x ELSE Shifted(f[i - 1], tap)
Hissing(x, tap, n) == CHOOSE f : f = [i \in 0 .. n |-> Hissed(x, tap, f, i)]

(* The bits the taps and the output of the noise read.                     *)
LEMMA BitsAre ==
    ASSUME NEW x \in Nat
    PROVE  \A n \in {0, 4, 6, 7, 8, 9, 10, 11, 13, 14} : Bit(x, n) \in 0 .. 1
  <1>1. ASSUME NEW d \in Nat \ {0} PROVE (x \div d) % 2 \in 0 .. 1
    <2>1. x \div d \in Int
      OBVIOUS
    <2> QED
      BY <2>1
  <1> DEFINE T(n) == Bit(x, n) \in 0 .. 1
  <1>2. T(0)
    BY <1>1, 2 ^ 0 = 1 DEF Bit
  <1>3. T(4)
    BY <1>1, 2 ^ 4 = 16 DEF Bit
  <1>4. T(6)
    BY <1>1, 2 ^ 6 = 64 DEF Bit
  <1>5. T(7)
    BY <1>1, 2 ^ 7 = 128 DEF Bit
  <1>6. T(8)
    BY <1>1, 2 ^ 8 = 256 DEF Bit
  <1>7. T(9)
    BY <1>1, 2 ^ 9 = 512 DEF Bit
  <1>8. T(10)
    BY <1>1, 2 ^ 10 = 1024 DEF Bit
  <1>9. T(11)
    BY <1>1, 2 ^ 11 = 2048 DEF Bit
  <1>10. T(13)
    BY <1>1, 2 ^ 13 = 8192 DEF Bit
  <1>11. T(14)
    BY <1>1, 2 ^ 14 = 16384 DEF Bit
  <1> HIDE DEF T
  <1>12. ASSUME NEW n \in {0, 4, 6, 7, 8, 9, 10, 11, 13, 14} PROVE T(n)
    <2>1. CASE n \in {0, 4, 6, 7, 8}
      BY <1>2, <1>3, <1>4, <1>5, <1>6, <2>1
    <2>2. CASE n \in {9, 10, 11, 13, 14}
      BY <1>7, <1>8, <1>9, <1>10, <1>11, <2>2
    <2> QED
      BY <2>1, <2>2
  <1> QED
    BY <1>12 DEF T

(* A shift stays in 15 bits.                                               *)
LEMMA ShiftedIs ==
    ASSUME NEW x \in ShiftRegisters, NEW tap \in Taken3
    PROVE  Shifted(x, tap) \in ShiftRegisters
  <1>1. x \in Nat /\ Taps[tap + 1] \in {4, 6, 8, 9, 10, 11, 13, 14}
    BY DEF ShiftRegisters, Taken3, Taps
  <1>2. PICK a \in 0 .. 1, b \in 0 .. 1 : a = Bit(x, 7) /\ b = Bit(x, Taps[tap + 1])
    BY <1>1, BitsAre
  <1>3. (1 + a + b) % 2 \in 0 .. 1
    BY <1>2
  <1>4. PICK d \in 0 .. 1 : d = (1 + a + b) % 2
    BY <1>3
  <1>5. Shifted(x, tap) = (2 * x + d) % 32768
    BY <1>2, <1>4 DEF Shifted
  <1>6. (2 * x + d) % 32768 \in ShiftRegisters
    BY <1>1 DEF ShiftRegisters
  <1> QED
    BY <1>5, <1>6

(* The recursive function of PlayNoise exists, for any number of shifts,   *)
(* ...                                                                     *)
LEMMA HissingExists ==
    ASSUME NEW x, NEW tap
    PROVE  \A k \in Nat : \E f : f = [n \in 0 .. k |-> Hissed(x, tap, f, n)]
  <1> DEFINE S == {k \in Nat : \E f : f = [n \in 0 .. k |-> Hissed(x, tap, f, n)]}
  <1>1. 0 \in S
    <2> DEFINE f == [n \in 0 .. 0 |-> x]
    <2>1. f = [n \in 0 .. 0 |-> Hissed(x, tap, f, n)]
      BY DEF Hissed
    <2> QED
      BY <2>1
  <1>2. ASSUME NEW k \in S PROVE k + 1 \in S
    <2>1. k \in Nat
      OBVIOUS
    <2>2. PICK f : f = [n \in 0 .. k |-> Hissed(x, tap, f, n)]
      OBVIOUS
    <2> DEFINE g == [n \in 0 .. k + 1 |-> Hissed(x, tap, f, n)]
    <2>3. ASSUME NEW n \in 0 .. k + 1 PROVE Hissed(x, tap, f, n) = Hissed(x, tap, g, n)
      <3>1. CASE n = 0
        BY <3>1 DEF Hissed
      <3>2. CASE n # 0
        <4>1. n - 1 \in 0 .. k /\ n - 1 \in 0 .. k + 1
          BY <2>1, <3>2
        <4>2. f[n - 1] = Hissed(x, tap, f, n - 1) /\ g[n - 1] = Hissed(x, tap, f, n - 1)
          BY <2>2, <4>1
        <4> QED
          BY <4>2 DEF Hissed
      <3> QED
        BY <3>1, <3>2
    <2>4. g = [n \in 0 .. k + 1 |-> Hissed(x, tap, g, n)]
      BY <2>3
    <2>5. k + 1 \in Nat
      BY <2>1
    <2> HIDE DEF g
    <2> QED
      BY <2>4, <2>5
  <1>3. S = Nat
    <2>1. S \subseteq Nat
      OBVIOUS
    <2> HIDE DEF S
    <2> QED
      BY <1>1, <1>2, <2>1, Induction
  <1> QED
    BY <1>3

(* ... starts at the register and shifts it once a time, ...               *)
LEMMA HissingIs ==
    ASSUME NEW x, NEW tap, NEW n \in Nat
    PROVE  /\ Hissing(x, tap, n)[0] = x
           /\ \A i \in 1 .. n : Hissing(x, tap, n)[i] = Shifted(Hissing(x, tap, n)[i - 1], tap)
  <1> DEFINE f == Hissing(x, tap, n)
  <1>1. f = [i \in 0 .. n |-> Hissed(x, tap, f, i)]
    <2>1. \E g : g = [i \in 0 .. n |-> Hissed(x, tap, g, i)]
      BY HissingExists
    <2> QED
      BY <2>1 DEF Hissing
  <1> HIDE DEF f
  <1>2. f[0] = x
    BY <1>1 DEF Hissed
  <1>3. ASSUME NEW i \in 1 .. n PROVE f[i] = Shifted(f[i - 1], tap)
    <2>1. i \in 0 .. n /\ i # 0
      BY <1>3
    <2> QED
      BY <1>1, <2>1 DEF Hissed
  <1> QED
    BY <1>2, <1>3 DEF f

(* ... and never leaves the 15 bits.                                       *)
LEMMA HissingTyped ==
    ASSUME NEW x \in ShiftRegisters, NEW tap \in Taken3, NEW n \in Nat, NEW i \in 0 .. n
    PROVE  Hissing(x, tap, n)[i] \in ShiftRegisters
  <1> DEFINE f == Hissing(x, tap, n)
             S == {k \in Nat : k <= n => f[k] \in ShiftRegisters}
  <1>1. f[0] = x /\ \A k \in 1 .. n : f[k] = Shifted(f[k - 1], tap)
    BY HissingIs
  <1> HIDE DEF f
  <1>2. 0 \in S
    BY <1>1
  <1>3. ASSUME NEW k \in S PROVE k + 1 \in S
    <2>1. k \in Nat /\ k + 1 \in Nat
      BY <1>3
    <2>2. ASSUME k + 1 <= n PROVE f[k + 1] \in ShiftRegisters
      <3>1. f[k] \in ShiftRegisters /\ k + 1 \in 1 .. n /\ (k + 1) - 1 = k
        BY <1>3, <2>1, <2>2
      <3> QED
        BY <1>1, <3>1, ShiftedIs
    <2> QED
      BY <2>1, <2>2
  <1>4. S = Nat
    <2>1. S \subseteq Nat
      OBVIOUS
    <2> HIDE DEF S
    <2> QED
      BY <1>2, <1>3, <2>1, Induction
  <1>5. i \in S /\ i <= n
    BY <1>4
  <1> QED
    BY <1>5 DEF f

(* A register shifted n times and then m times more.                       *)
HissesOn(x, tap, n, m) ==
    /\ \A i \in 0 .. n : Hissing(x, tap, n + m)[i] = Hissing(x, tap, n)[i]
    /\ \A i \in 0 .. m :
          Hissing(x, tap, n + m)[n + i] = Hissing(Hissing(x, tap, n)[n], tap, m)[i]

LEMMA HissingAdds ==
    ASSUME NEW x, NEW tap, NEW n \in Nat, NEW m \in Nat
    PROVE  HissesOn(x, tap, n, m)
  <1> DEFINE f == Hissing(x, tap, n)
             g == Hissing(x, tap, n + m)
             h == Hissing(f[n], tap, m)
             S == {k \in Nat : k <= n => g[k] = f[k]}
             T == {k \in Nat : k <= m => g[n + k] = h[k]}
  <1>1. f[0] = x /\ \A k \in 1 .. n : f[k] = Shifted(f[k - 1], tap)
    BY HissingIs
  <1>2. g[0] = x /\ \A k \in 1 .. n + m : g[k] = Shifted(g[k - 1], tap)
    <2>1. n + m \in Nat
      OBVIOUS
    <2> QED
      BY <2>1, HissingIs
  <1>3. h[0] = f[n] /\ \A k \in 1 .. m : h[k] = Shifted(h[k - 1], tap)
    BY HissingIs
  <1> HIDE DEF f, g, h
  <1>4. S = Nat
    <2>1. 0 \in S
      BY <1>1, <1>2
    <2>2. ASSUME NEW k \in S PROVE k + 1 \in S
      <3>1. k \in Nat /\ k + 1 \in Nat
        BY <2>2
      <3>2. ASSUME k + 1 <= n PROVE g[k + 1] = f[k + 1]
        <4>1. g[k] = f[k] /\ k + 1 \in 1 .. n /\ k + 1 \in 1 .. n + m /\ (k + 1) - 1 = k
          BY <2>2, <3>1, <3>2
        <4> QED
          BY <1>1, <1>2, <4>1
      <3> QED
        BY <3>1, <3>2
    <2>3. S \subseteq Nat
      OBVIOUS
    <2> HIDE DEF S
    <2> QED
      BY <2>1, <2>2, <2>3, Induction
  <1>5. \A i \in 0 .. n : g[i] = f[i]
    <2>1. \A i \in 0 .. n : i \in S /\ i <= n
      BY <1>4
    <2> QED
      BY <2>1
  <1>6. T = Nat
    <2>1. 0 \in T
      <3>1. n \in 0 .. n /\ n + 0 = n
        OBVIOUS
      <3> QED
        BY <1>3, <1>5, <3>1
    <2>2. ASSUME NEW k \in T PROVE k + 1 \in T
      <3>1. k \in Nat /\ k + 1 \in Nat
        BY <2>2
      <3>2. ASSUME k + 1 <= m PROVE g[n + (k + 1)] = h[k + 1]
        <4>1. /\ g[n + k] = h[k] /\ k + 1 \in 1 .. m /\ (k + 1) - 1 = k
              /\ n + (k + 1) \in 1 .. n + m /\ (n + (k + 1)) - 1 = n + k
          BY <2>2, <3>1, <3>2
        <4> QED
          BY <1>2, <1>3, <4>1
      <3> QED
        BY <3>1, <3>2
    <2>3. T \subseteq Nat
      OBVIOUS
    <2> HIDE DEF T
    <2> QED
      BY <2>1, <2>2, <2>3, Induction
  <1>7. \A i \in 0 .. m : g[n + i] = h[i]
    <2>1. \A i \in 0 .. m : i \in T /\ i <= m
      BY <1>6
    <2> QED
      BY <2>1
  <1> QED
    BY <1>5, <1>7 DEF f, g, h, HissesOn

(* A sound chip, and the two views of it HeardInTime compares: SoundRegis- *)
(* ters, and the Wave of each channel.                                     *)
Sweepers == [value : Byte, step : Byte, counter : Byte, divider : Nat \ {0}]
Heard == Seq(Nat \X Nat)
Paces == 0 .. 2047
Positions == 0 .. 31
Chips ==
    [last : Nat, control : SUBSET (0 .. 7), period : [Channels -> Paces],
     counter : [Channels -> Nat \ {0}], position : [Channels -> Positions], table : Byte,
     sweep : Sweepers, noise : BOOLEAN, tap : Taken3, nreg : ShiftRegisters,
     heard : [Channels -> Heard]]
Waves == (Nat \ {0}) \X Positions \X Heard
RegisterViews ==
    Nat \X (SUBSET (0 .. 7)) \X [Channels -> Paces] \X Byte \X Sweepers \X BOOLEAN
        \X Taken3 \X ShiftRegisters
Audible(m) == \A a \in Nat : At(m, a) \in Byte

(* What an update makes of the views, told by the views alone.             *)
Pace(r, ch) == 2048 - r[3][ch]
Silent(r, ch) == ch \notin r[2] \/ (ch = 1 /\ VOICE \in r[2])
Noisy(r, ch) == ch = 3 /\ {3, NOISE} \subseteq r[2] /\ r[6]
Sweeping(r) == {2, SWEEP} \subseteq r[2] /\ r[5].value # 0
Wrapped(r, w, ch, till) == WrapsIn(w[1], till - r[1], Pace(r, ch))
SampleTime(r, w, ch, i) == r[1] + WrapTime(w[1], Pace(r, ch), i)
NoiseTaken(r, w, till) ==
    [i \in 1 .. Wrapped(r, w, 3, till) |->
       <<SampleTime(r, w, 3, i), 15 * Bit(Hissing(r[8], r[7], Wrapped(r, w, 3, till))[i], 0)>>]
WaveTaken(r, w, m, ch, till) ==
    [i \in 1 .. Wrapped(r, w, ch, till) |->
       <<SampleTime(r, w, ch, i), Sample([table |-> r[4]], m, ch, (w[2] + i) % 32)>>]
UpWave(r, w, m, ch, till) ==
    LET rest == CounterLeft(w[1], till - r[1], Pace(r, ch))
    IN  IF Silent(r, ch) \/ (~Noisy(r, ch) /\ Pace(r, ch) <= 4) THEN w
        ELSE IF Noisy(r, ch) THEN <<rest, w[2], w[3] \o NoiseTaken(r, w, till)>>
        ELSE <<rest, (w[2] + Wrapped(r, w, ch, till)) % 32, w[3] \o WaveTaken(r, w, m, ch, till)>>
Ticks(r, till) == WrapsIn(r[5].divider, till - r[1], 8192)
First(c) == IF c = 0 THEN 256 ELSE c
UpPeriod(r, till) ==
    IF ~Sweeping(r) THEN r[3]
    ELSE [r[3] EXCEPT ![2] =
            (@ + WrapsIn(First(r[5].counter), Ticks(r, till), r[5].step + 1) * Signed(r[5].value))
               % 2048]
UpSweep(r, till) ==
    IF ~Sweeping(r) THEN r[5]
    ELSE [r[5] EXCEPT
            !.divider = CounterLeft(@, till - r[1], 8192),
            !.counter = CounterLeft(First(@), Ticks(r, till), r[5].step + 1) % 256]
UpShift(r, w, till) ==
    IF ~Noisy(r, 3) THEN r[8]
    ELSE Hissing(r[8], r[7], Wrapped(r, w, 3, till))[Wrapped(r, w, 3, till)]
UpRegisters(r, w, till) ==
    <<till, r[2], UpPeriod(r, till), r[4], UpSweep(r, till), r[6], r[7], UpShift(r, w, till)>>

(* The fields of a chip, the parts of the views.                           *)
LEMMA ChipFields ==
    ASSUME NEW s \in Chips
    PROVE  /\ s.last \in Nat /\ s.control \in SUBSET (0 .. 7) /\ s.period \in [Channels -> Paces]
           /\ s.counter \in [Channels -> Nat \ {0}] /\ s.position \in [Channels -> Positions]
           /\ s.table \in Byte /\ s.sweep \in Sweepers /\ s.noise \in BOOLEAN
           /\ s.tap \in Taken3 /\ s.nreg \in ShiftRegisters /\ s.heard \in [Channels -> Heard]
  BY DEF Chips

LEMMA Views ==
    ASSUME NEW s \in Chips
    PROVE  /\ SoundRegisters(s) \in RegisterViews
           /\ \A ch \in Channels : Wave(s, ch) \in Waves
  BY ChipFields DEF SoundRegisters, Wave, RegisterViews, Waves

LEMMA ViewParts ==
    ASSUME NEW r \in RegisterViews
    PROVE  /\ r[1] \in Nat /\ r[2] \in SUBSET (0 .. 7) /\ r[3] \in [Channels -> Paces]
           /\ r[4] \in Byte /\ r[5] \in Sweepers /\ r[6] \in BOOLEAN /\ r[7] \in Taken3
           /\ r[8] \in ShiftRegisters
           /\ \A ch \in Channels : Pace(r, ch) \in 1 .. 2048
  <1>1. /\ r[1] \in Nat /\ r[2] \in SUBSET (0 .. 7) /\ r[3] \in [Channels -> Paces]
        /\ r[4] \in Byte /\ r[5] \in Sweepers /\ r[6] \in BOOLEAN /\ r[7] \in Taken3
        /\ r[8] \in ShiftRegisters
    BY DEF RegisterViews
  <1>2. ASSUME NEW ch \in Channels PROVE Pace(r, ch) \in 1 .. 2048
    <2>1. PICK x \in 0 .. 2047 : x = r[3][ch]
      BY <1>1 DEF Paces
    <2>2. Pace(r, ch) = 2048 - x
      BY <2>1 DEF Pace
    <2> QED
      BY <2>2
  <1> QED
    BY <1>1, <1>2

LEMMA WaveParts ==
    ASSUME NEW w \in Waves
    PROVE  /\ w[1] \in Nat \ {0} /\ w[2] \in Positions /\ w[3] \in Heard
           /\ w = <<w[1], w[2], w[3]>>
  BY DEF Waves

(* The samples of a channel in a run.                                      *)
LEMMA SampleTyped ==
    ASSUME NEW m, Audible(m), NEW table \in Byte, NEW ch \in Channels, NEW p \in Positions
    PROVE  /\ Sample([table |-> table], m, ch, p) \in Nat
           /\ \E a \in Nat : a \div 64 = table /\ Sample([table |-> table], m, ch, p) =
                 IF p % 2 = 1 THEN At(m, a) \div 16 ELSE At(m, a) % 16
  <1> DEFINE a == 64 * table + 16 * ch + (p \div 2)
  <1>1. p \div 2 \in 0 .. 15 /\ table \in Nat /\ ch \in 0 .. 3
    BY DEF Positions, Byte, Channels
  <1>2. a \in Nat /\ a \div 64 = table
    BY <1>1
  <1>3. At(m, a) \in 0 .. 255
    BY <1>2 DEF Audible, Byte
  <1>4. Sample([table |-> table], m, ch, p) =
           IF p % 2 = 1 THEN At(m, a) \div 16 ELSE At(m, a) % 16
    BY DEF Sample
  <1> HIDE DEF a
  <1> QED
    BY <1>2, <1>3, <1>4

(* What is heard of a wave, and of the noise, is a sequence of samples,    *)
(* each with its time.                                                     *)
LEMMA WaveTakenTyped ==
    ASSUME NEW r \in RegisterViews, NEW w \in Waves, NEW m, Audible(m), NEW ch \in Channels,
           NEW till \in Nat, r[1] <= till
    PROVE  /\ Wrapped(r, w, ch, till) \in Nat
           /\ CounterLeft(w[1], till - r[1], Pace(r, ch)) \in Nat \ {0}
           /\ \A i \in 1 .. Wrapped(r, w, ch, till) : SampleTime(r, w, ch, i) \in Nat
           /\ WaveTaken(r, w, m, ch, till) \in Heard
  <1>1. /\ till - r[1] \in Nat /\ Pace(r, ch) \in Nat \ {0} /\ w[1] \in Nat \ {0}
        /\ r[1] \in Nat /\ w[2] \in Int /\ r[4] \in Byte
    <2>1. r[1] \in Nat /\ r[4] \in Byte /\ Pace(r, ch) \in 1 .. 2048
      BY ViewParts
    <2>2. w[1] \in Nat \ {0} /\ w[2] \in 0 .. 31
      BY WaveParts DEF Positions
    <2> QED
      BY <2>1, <2>2, SMTT(30)
  <1>2. /\ Wrapped(r, w, ch, till) \in Nat
        /\ CounterLeft(w[1], till - r[1], Pace(r, ch)) \in Nat \ {0}
    BY <1>1, WrapsAre DEF Wrapped
  <1>3. ASSUME NEW i \in Nat, i >= 1 PROVE SampleTime(r, w, ch, i) \in Nat
    <2>1. (i - 1) * Pace(r, ch) \in Nat
      BY <1>1, <1>3
    <2> QED
      BY <1>1, <2>1 DEF SampleTime, WrapTime
  <1>4. ASSUME NEW i \in Nat
        PROVE  Sample([table |-> r[4]], m, ch, (w[2] + i) % 32) \in Nat
    <2>1. (w[2] + i) % 32 \in Positions
      BY <1>1, SMTT(30) DEF Positions
    <2> QED
      BY <1>1, <2>1, SampleTyped
  <1>5. \A i \in 1 .. Wrapped(r, w, ch, till) :
           <<SampleTime(r, w, ch, i), Sample([table |-> r[4]], m, ch, (w[2] + i) % 32)>>
              \in Nat \X Nat
    BY <1>2, <1>3, <1>4
  <1>6. WaveTaken(r, w, m, ch, till) \in Seq(Nat \X Nat)
    BY <1>2, <1>5, IsASeq DEF WaveTaken
  <1> QED
    BY <1>2, <1>3, <1>6 DEF Heard

LEMMA NoiseTakenTyped ==
    ASSUME NEW r \in RegisterViews, NEW w \in Waves, NEW till \in Nat, r[1] <= till
    PROVE  NoiseTaken(r, w, till) \in Heard /\ UpShift(r, w, till) \in ShiftRegisters
  <1>1. /\ till - r[1] \in Nat /\ Pace(r, 3) \in Nat \ {0} /\ w[1] \in Nat \ {0}
        /\ r[1] \in Nat /\ r[7] \in Taken3 /\ r[8] \in ShiftRegisters
    <2>1. 3 \in Channels
      BY DEF Channels
    <2>2. r[1] \in Nat /\ r[7] \in Taken3 /\ r[8] \in ShiftRegisters /\ Pace(r, 3) \in 1 .. 2048
      BY <2>1, ViewParts
    <2>3. w[1] \in Nat \ {0}
      BY WaveParts
    <2> QED
      BY <2>2, <2>3, SMTT(30)
  <1>2. Wrapped(r, w, 3, till) \in Nat
    BY <1>1, WrapsAre DEF Wrapped
  <1>3. ASSUME NEW i \in Nat, i >= 1 PROVE SampleTime(r, w, 3, i) \in Nat
    <2>1. (i - 1) * Pace(r, 3) \in Nat
      BY <1>1, <1>3
    <2> QED
      BY <1>1, <2>1 DEF SampleTime, WrapTime
  <1>4. ASSUME NEW i \in 0 .. Wrapped(r, w, 3, till)
        PROVE  Hissing(r[8], r[7], Wrapped(r, w, 3, till))[i] \in ShiftRegisters
    BY <1>1, <1>2, HissingTyped
  <1>5. ASSUME NEW x \in ShiftRegisters PROVE 15 * Bit(x, 0) \in Nat
    <2>1. x \in Nat
      BY DEF ShiftRegisters
    <2>2. Bit(x, 0) \in 0 .. 1
      BY <2>1, BitsAre
    <2> QED
      BY <2>2
  <1>6. \A i \in 1 .. Wrapped(r, w, 3, till) :
           <<SampleTime(r, w, 3, i), 15 * Bit(Hissing(r[8], r[7], Wrapped(r, w, 3, till))[i], 0)>>
              \in Nat \X Nat
    <2>1. \A i \in 1 .. Wrapped(r, w, 3, till) : i \in Nat /\ i >= 1 /\ i \in 0 .. Wrapped(r, w, 3, till)
      BY <1>2
    <2> QED
      BY <1>3, <1>4, <1>5, <2>1
  <1>7. NoiseTaken(r, w, till) \in Seq(Nat \X Nat)
    BY <1>2, <1>6, IsASeq DEF NoiseTaken
  <1>8. Wrapped(r, w, 3, till) \in 0 .. Wrapped(r, w, 3, till)
    BY <1>2
  <1> QED
    BY <1>1, <1>4, <1>7, <1>8 DEF Heard, UpShift

(* So an update keeps the types of the views.                              *)
LEMMA UpWaveTyped ==
    ASSUME NEW r \in RegisterViews, NEW w \in Waves, NEW m, Audible(m), NEW ch \in Channels,
           NEW till \in Nat, r[1] <= till
    PROVE  UpWave(r, w, m, ch, till) \in Waves
  <1>1. w[1] \in Nat \ {0} /\ w[2] \in Positions /\ w[3] \in Heard
    BY WaveParts
  <1>2. /\ Wrapped(r, w, ch, till) \in Nat
        /\ CounterLeft(w[1], till - r[1], Pace(r, ch)) \in Nat \ {0}
        /\ WaveTaken(r, w, m, ch, till) \in Heard
    BY WaveTakenTyped
  <1>3. NoiseTaken(r, w, till) \in Heard
    BY NoiseTakenTyped
  <1>4. /\ w[3] \o NoiseTaken(r, w, till) \in Heard
        /\ w[3] \o WaveTaken(r, w, m, ch, till) \in Heard
    BY <1>1, <1>2, <1>3, ConcatProperties DEF Heard
  <1>5. (w[2] + Wrapped(r, w, ch, till)) % 32 \in Positions
    <2>1. w[2] + Wrapped(r, w, ch, till) \in Int
      BY <1>1, <1>2 DEF Positions
    <2> QED
      BY <2>1 DEF Positions
  <1> QED
    BY <1>1, <1>2, <1>4, <1>5 DEF UpWave, Waves

LEMMA UpRegistersTyped ==
    ASSUME NEW r \in RegisterViews, NEW w \in Waves, NEW till \in Nat, r[1] <= till
    PROVE  /\ UpRegisters(r, w, till) \in RegisterViews
           /\ UpPeriod(r, till) \in [Channels -> Paces] /\ UpSweep(r, till) \in Sweepers
  <1>1. /\ r[1] \in Nat /\ r[2] \in SUBSET (0 .. 7) /\ r[3] \in [Channels -> Paces]
        /\ r[4] \in Byte /\ r[5] \in Sweepers /\ r[6] \in BOOLEAN /\ r[7] \in Taken3
    BY ViewParts
  <1>2. /\ r[5].value \in Byte /\ r[5].step \in Byte /\ r[5].counter \in Byte
        /\ r[5].divider \in Nat \ {0}
    BY <1>1 DEF Sweepers
  <1>3. Ticks(r, till) \in Nat /\ CounterLeft(r[5].divider, till - r[1], 8192) \in Nat \ {0}
    <2>1. PICK c \in Nat \ {0}, run \in Nat : c = r[5].divider /\ run = till - r[1]
      BY <1>1, <1>2
    <2>2. 8192 \in Nat \ {0}
      OBVIOUS
    <2>3. WrapsIn(c, run, 8192) \in Nat /\ CounterLeft(c, run, 8192) \in Nat \ {0}
      BY <2>2, WrapsAre
    <2> QED
      BY <2>1, <2>3 DEF Ticks
  <1>4. /\ WrapsIn(First(r[5].counter), Ticks(r, till), r[5].step + 1) \in Nat
        /\ CounterLeft(First(r[5].counter), Ticks(r, till), r[5].step + 1) \in Nat \ {0}
    <2>1. First(r[5].counter) \in Nat \ {0} /\ r[5].step + 1 \in Nat \ {0}
      BY <1>2 DEF First, Byte
    <2>2. PICK c \in Nat \ {0}, d \in Nat \ {0}, run \in Nat :
             c = First(r[5].counter) /\ d = r[5].step + 1 /\ run = Ticks(r, till)
      BY <1>3, <2>1
    <2>3. WrapsIn(c, run, d) \in Nat /\ CounterLeft(c, run, d) \in Nat \ {0}
      BY WrapsAre
    <2> QED
      BY <2>2, <2>3, Zenon
  <1>5. ASSUME NEW x \in Int PROVE x % 256 \in Byte /\ x % 2048 \in Paces
    BY DEF Byte, Paces
  <1>6. Signed(r[5].value) \in Int /\ 2 \in Channels
    BY <1>2 DEF Signed, Byte, Channels
  <1>7. UpPeriod(r, till) \in [Channels -> Paces]
    <2> DEFINE k == WrapsIn(First(r[5].counter), Ticks(r, till), r[5].step + 1)
    <2>1. k * Signed(r[5].value) \in Int
      BY <1>4, <1>6
    <2>2. r[3][2] \in Int
      <3>1. \A x \in Paces : x \in Int
        BY DEF Paces
      <3> QED
        BY <1>1, <1>6, <3>1
    <2>3. (r[3][2] + k * Signed(r[5].value)) % 2048 \in Paces
      BY <1>5, <2>1, <2>2
    <2> HIDE DEF k
    <2> QED
      BY <1>1, <1>6, <2>3 DEF UpPeriod, k
  <1>8. UpSweep(r, till) \in Sweepers
    <2> DEFINE a == CounterLeft(First(r[5].counter), Ticks(r, till), r[5].step + 1) % 256
               b == CounterLeft(r[5].divider, till - r[1], 8192)
    <2>1. a \in Byte /\ b \in Nat \ {0}
      BY <1>3, <1>4, <1>5
    <2>2. UpSweep(r, till) =
             IF ~Sweeping(r) THEN r[5] ELSE [r[5] EXCEPT !.divider = b, !.counter = a]
      BY DEF UpSweep
    <2> HIDE DEF a, b
    <2>3. [r[5] EXCEPT !.divider = b, !.counter = a] \in Sweepers
      BY <1>1, <2>1 DEF Sweepers
    <2> QED
      BY <1>1, <2>2, <2>3
  <1>9. UpShift(r, w, till) \in ShiftRegisters
    BY NoiseTakenTyped
  <1> QED
    BY <1>1, <1>7, <1>8, <1>9 DEF UpRegisters, RegisterViews

(* A chip with a new wave in one channel.                                  *)
Waved(s, ch, w) ==
    [s EXCEPT !.counter[ch] = w[1], !.position[ch] = w[2], !.heard[ch] = w[3]]

(* It differs in the wave of that channel alone.                           *)
LEMMA WavedIs ==
    ASSUME NEW s \in Chips, NEW ch \in Channels, NEW w \in Waves
    PROVE  /\ Waved(s, ch, w) \in Chips
           /\ SoundRegisters(Waved(s, ch, w)) = SoundRegisters(s)
           /\ Wave(Waved(s, ch, w), ch) = w
           /\ \A c \in Channels \ {ch} : Wave(Waved(s, ch, w), c) = Wave(s, c)
  <1>1. w[1] \in Nat \ {0} /\ w[2] \in Positions /\ w[3] \in Heard /\ w = <<w[1], w[2], w[3]>>
    BY WaveParts
  <1>2. /\ s.counter \in [Channels -> Nat \ {0}] /\ s.position \in [Channels -> Positions]
        /\ s.heard \in [Channels -> Heard]
    BY ChipFields
  <1> DEFINE t == Waved(s, ch, w)
  <1>3. t = [s EXCEPT !.counter = [@ EXCEPT ![ch] = w[1]],
                      !.position = [@ EXCEPT ![ch] = w[2]],
                      !.heard = [@ EXCEPT ![ch] = w[3]]]
    BY DEF Waved, Chips
  <1>4. /\ [s.counter EXCEPT ![ch] = w[1]] \in [Channels -> Nat \ {0}]
        /\ [s.position EXCEPT ![ch] = w[2]] \in [Channels -> Positions]
        /\ [s.heard EXCEPT ![ch] = w[3]] \in [Channels -> Heard]
    BY <1>1, <1>2
  <1>5. t \in Chips
    BY <1>3, <1>4 DEF Chips
  <1>6. /\ t.last = s.last /\ t.control = s.control /\ t.period = s.period /\ t.table = s.table
        /\ t.sweep = s.sweep /\ t.noise = s.noise /\ t.tap = s.tap /\ t.nreg = s.nreg
        /\ t.counter = [s.counter EXCEPT ![ch] = w[1]]
        /\ t.position = [s.position EXCEPT ![ch] = w[2]]
        /\ t.heard = [s.heard EXCEPT ![ch] = w[3]]
    BY <1>3 DEF Chips
  <1> HIDE DEF t
  <1>7. SoundRegisters(t) = SoundRegisters(s)
    BY <1>6 DEF SoundRegisters
  <1>8. Wave(t, ch) = <<w[1], w[2], w[3]>>
    BY <1>2, <1>6 DEF Wave
  <1>9. \A c \in Channels \ {ch} : Wave(t, c) = Wave(s, c)
    BY <1>2, <1>6 DEF Wave
  <1> QED
    BY <1>1, <1>5, <1>7, <1>8, <1>9 DEF t

LEMMA WavedSame ==
    ASSUME NEW s \in Chips, NEW ch \in Channels
    PROVE  Waved(s, ch, Wave(s, ch)) = s
  <1>1. /\ s.counter \in [Channels -> Nat \ {0}] /\ s.position \in [Channels -> Positions]
        /\ s.heard \in [Channels -> Heard]
    BY ChipFields
  <1>2. /\ [s.counter EXCEPT ![ch] = s.counter[ch]] = s.counter
        /\ [s.position EXCEPT ![ch] = s.position[ch]] = s.position
        /\ [s.heard EXCEPT ![ch] = s.heard[ch]] = s.heard
    BY <1>1
  <1>3. Waved(s, ch, Wave(s, ch)) =
           [s EXCEPT !.counter = [@ EXCEPT ![ch] = s.counter[ch]],
                     !.position = [@ EXCEPT ![ch] = s.position[ch]],
                     !.heard = [@ EXCEPT ![ch] = s.heard[ch]]]
    BY DEF Waved, Wave, Chips
  <1>4. Waved(s, ch, Wave(s, ch)) =
           [s EXCEPT !.counter = s.counter, !.position = s.position, !.heard = s.heard]
    BY <1>2, <1>3 DEF Chips
  <1> QED
    BY <1>4 DEF Chips

(* What each channel does in an update.                                    *)
LEMMA PlayWaveIs ==
    ASSUME NEW s \in Chips, NEW m, NEW ch \in Channels, NEW till \in Nat,
           ~Silent(SoundRegisters(s), ch), ~Noisy(SoundRegisters(s), ch)
    PROVE  PlayWave(s, m, ch, till) =
              Waved(s, ch, UpWave(SoundRegisters(s), Wave(s, ch), m, ch, till))
  <1> DEFINE r == SoundRegisters(s)
             w == Wave(s, ch)
             n == Wrapped(r, w, ch, till)
  <1>1. /\ r[1] = s.last /\ r[3] = s.period /\ r[4] = s.table
        /\ w[1] = s.counter[ch] /\ w[2] = s.position[ch] /\ w[3] = s.heard[ch]
    BY DEF SoundRegisters, Wave
  <1>2. Pace(r, ch) = Rate(s, ch) /\ n = WrapsIn(s.counter[ch], till - s.last, Rate(s, ch))
    BY <1>1 DEF Pace, Rate, Wrapped
  <1>3. CASE Rate(s, ch) <= 4
    <2>1. PlayWave(s, m, ch, till) = s
      BY <1>3 DEF PlayWave
    <2>2. UpWave(r, w, m, ch, till) = w
      BY <1>2, <1>3 DEF UpWave
    <2> QED
      BY <2>1, <2>2, WavedSame
  <1>4. CASE ~(Rate(s, ch) <= 4)
    <2> DEFINE taken == [i \in 1 .. n |->
                  <<s.last + WrapTime(s.counter[ch], Rate(s, ch), i),
                    Sample(s, m, ch, (s.position[ch] + i) % 32)>>]
    <2>1. taken = WaveTaken(r, w, m, ch, till)
      <3>1. \A p : Sample(s, m, ch, p) = Sample([table |-> r[4]], m, ch, p)
        BY <1>1 DEF Sample
      <3> QED
        BY <1>1, <1>2, <3>1 DEF WaveTaken, SampleTime
    <2>2. UpWave(r, w, m, ch, till) =
             <<CounterLeft(s.counter[ch], till - s.last, Rate(s, ch)),
               (s.position[ch] + n) % 32, s.heard[ch] \o taken>>
      BY <1>1, <1>2, <1>4, <2>1 DEF UpWave
    <2>3. PlayWave(s, m, ch, till) =
             [s EXCEPT !.counter[ch] = CounterLeft(s.counter[ch], till - s.last, Rate(s, ch)),
                       !.position[ch] = (s.position[ch] + n) % 32,
                       !.heard[ch] = s.heard[ch] \o taken]
      BY <1>2, <1>4 DEF PlayWave, Chips
    <2> HIDE DEF r, w, n, taken
    <2>4. Waved(s, ch, UpWave(r, w, m, ch, till)) =
             [s EXCEPT !.counter[ch] = CounterLeft(s.counter[ch], till - s.last, Rate(s, ch)),
                       !.position[ch] = (s.position[ch] + n) % 32,
                       !.heard[ch] = s.heard[ch] \o taken]
      BY <2>2 DEF Waved
    <2> QED
      BY <2>3, <2>4 DEF r, w
  <1> QED
    BY <1>3, <1>4

(* The noise, played.                                                      *)
LEMMA PlayNoiseIs ==
    ASSUME NEW s \in Chips, NEW m, NEW till \in Nat,
           ~Silent(SoundRegisters(s), 3), Noisy(SoundRegisters(s), 3)
    PROVE  PlayNoise(s, till) =
              [Waved(s, 3, UpWave(SoundRegisters(s), Wave(s, 3), m, 3, till)) EXCEPT
                  !.nreg = UpShift(SoundRegisters(s), Wave(s, 3), till)]
  <1> DEFINE r == SoundRegisters(s)
             w == Wave(s, 3)
             n == WrapsIn(s.counter[3], till - s.last, Rate(s, 3))
             f == Hissing(s.nreg, s.tap, n)
             taken == [i \in 1 .. n |->
                  <<s.last + WrapTime(s.counter[3], Rate(s, 3), i), 15 * Bit(f[i], 0)>>]
             rest == CounterLeft(s.counter[3], till - s.last, Rate(s, 3))
  <1>1. /\ r[1] = s.last /\ r[3] = s.period /\ r[7] = s.tap /\ r[8] = s.nreg
        /\ w[1] = s.counter[3] /\ w[2] = s.position[3] /\ w[3] = s.heard[3]
    BY DEF SoundRegisters, Wave
  <1>2. Pace(r, 3) = Rate(s, 3) /\ n = Wrapped(r, w, 3, till)
    BY <1>1 DEF Pace, Rate, Wrapped
  <1>3. taken = NoiseTaken(r, w, till)
    BY <1>1, <1>2 DEF NoiseTaken, SampleTime
  <1>4. UpWave(r, w, m, 3, till) = <<rest, s.position[3], s.heard[3] \o taken>>
    BY <1>1, <1>2, <1>3 DEF UpWave
  <1>5. UpShift(r, w, till) = f[n]
    BY <1>1, <1>2 DEF UpShift
  <1>6. PlayNoise(s, till) =
           [s EXCEPT !.counter[3] = rest, !.nreg = f[n], !.heard[3] = s.heard[3] \o taken]
    BY DEF PlayNoise, Hissing, Hissed
  <1> HIDE DEF r, w, n, f, taken, rest
  <1>7. [s.position EXCEPT ![3] = s.position[3]] = s.position
    BY ChipFields
  <1>8. Waved(s, 3, UpWave(r, w, m, 3, till)) =
           [s EXCEPT !.counter = [@ EXCEPT ![3] = rest],
                     !.position = [@ EXCEPT ![3] = s.position[3]],
                     !.heard = [@ EXCEPT ![3] = s.heard[3] \o taken]]
    <2> DEFINE v == s.heard[3] \o taken
               p == s.position[3]
    <2> HIDE DEF v, p
    <2>1. Waved(s, 3, <<rest, p, v>>) =
             [s EXCEPT !.counter = [@ EXCEPT ![3] = rest],
                       !.position = [@ EXCEPT ![3] = p],
                       !.heard = [@ EXCEPT ![3] = v]]
      BY DEF Waved, Chips
    <2> QED
      BY <1>4, <2>1 DEF v, p
  <1>9. @ = [s EXCEPT !.counter = [@ EXCEPT ![3] = rest],
                      !.heard = [@ EXCEPT ![3] = s.heard[3] \o taken]]
    BY <1>7 DEF Chips
  <1>10. [[s EXCEPT !.counter = [@ EXCEPT ![3] = rest],
                    !.heard = [@ EXCEPT ![3] = s.heard[3] \o taken]] EXCEPT !.nreg = f[n]] =
         [s EXCEPT !.counter[3] = rest, !.nreg = f[n], !.heard[3] = s.heard[3] \o taken]
    BY DEF Chips
  <1> QED
    BY <1>5, <1>6, <1>8, <1>9, <1>10, Zenon DEF r, w

(* The sweep, played.                                                      *)
LEMMA SweptIs ==
    ASSUME NEW s \in Chips, NEW till \in Nat, Sweeping(SoundRegisters(s))
    PROVE  /\ [s.period EXCEPT ![2] = Swept(s, till).period[2]] = UpPeriod(SoundRegisters(s), till)
           /\ Swept(s, till).sweep = UpSweep(SoundRegisters(s), till)
  <1> DEFINE r == SoundRegisters(s)
             first == IF s.sweep.counter = 0 THEN 256 ELSE s.sweep.counter
             ticks == WrapsIn(s.sweep.divider, till - s.last, 8192)
  <1>1. r[1] = s.last /\ r[3] = s.period /\ r[5] = s.sweep
    BY DEF SoundRegisters
  <1>2. first = First(r[5].counter) /\ ticks = Ticks(r, till)
    BY <1>1 DEF First, Ticks
  <1>3. s.period \in [Channels -> Paces] /\ s.sweep \in Sweepers /\ 2 \in Channels
    BY ChipFields DEF Channels
  <1>4. Swept(s, till).period[2] =
          (s.period[2] + WrapsIn(first, ticks, s.sweep.step + 1) * Signed(s.sweep.value)) % 2048
    BY <1>3 DEF Swept, Chips
  <1>5. Swept(s, till).sweep =
          [s.sweep EXCEPT !.divider = CounterLeft(s.sweep.divider, till - s.last, 8192),
                          !.counter = CounterLeft(first, ticks, s.sweep.step + 1) % 256]
    BY <1>3 DEF Swept, Chips, Sweepers
  <1> HIDE DEF first, ticks
  <1>6. UpPeriod(r, till) =
          [s.period EXCEPT ![2] = (s.period[2] + WrapsIn(first, ticks, s.sweep.step + 1)
                                                    * Signed(s.sweep.value)) % 2048]
    BY <1>1, <1>2 DEF UpPeriod
  <1>7. UpSweep(r, till) =
          [s.sweep EXCEPT !.divider = CounterLeft(s.sweep.divider, till - s.last, 8192),
                          !.counter = CounterLeft(first, ticks, s.sweep.step + 1) % 256]
    BY <1>1, <1>2 DEF UpSweep
  <1>8. Swept(s, till).sweep = UpSweep(r, till)
    BY <1>5, <1>7
  <1> DEFINE p == (s.period[2] + WrapsIn(first, ticks, s.sweep.step + 1)
                                   * Signed(s.sweep.value)) % 2048
  <1>9. Swept(s, till).period[2] = p /\ UpPeriod(r, till) = [s.period EXCEPT ![2] = p]
    BY <1>4, <1>6
  <1> HIDE DEF p
  <1> QED
    BY <1>8, <1>9

Tuned(s, p, q) == [s EXCEPT !.period = p, !.sweep = q]
Stirred(s, x) == [s EXCEPT !.nreg = x]
Stamped(s, n) == [s EXCEPT !.last = n]

(* They change the registers they name, and no wave.                       *)
LEMMA TunedIs ==
    ASSUME NEW s \in Chips, NEW p \in [Channels -> Paces], NEW q \in Sweepers
    PROVE  /\ Tuned(s, p, q) \in Chips
           /\ SoundRegisters(Tuned(s, p, q)) =
                <<s.last, s.control, p, s.table, q, s.noise, s.tap, s.nreg>>
           /\ \A ch \in Channels : Wave(Tuned(s, p, q), ch) = Wave(s, ch)
  BY DEF Chips, SoundRegisters, Wave, Tuned

LEMMA StirredIs ==
    ASSUME NEW s \in Chips, NEW x \in ShiftRegisters
    PROVE  /\ Stirred(s, x) \in Chips
           /\ SoundRegisters(Stirred(s, x)) =
                <<s.last, s.control, s.period, s.table, s.sweep, s.noise, s.tap, x>>
           /\ \A ch \in Channels : Wave(Stirred(s, x), ch) = Wave(s, ch)
  BY DEF Chips, SoundRegisters, Wave, Stirred

LEMMA StampedIs ==
    ASSUME NEW s \in Chips, NEW n \in Nat
    PROVE  /\ Stamped(s, n) \in Chips
           /\ SoundRegisters(Stamped(s, n)) =
                <<n, s.control, s.period, s.table, s.sweep, s.noise, s.tap, s.nreg>>
           /\ \A ch \in Channels : Wave(Stamped(s, n), ch) = Wave(s, ch)
  BY DEF Chips, SoundRegisters, Wave, Stamped

(* The registers after one channel.                                        *)
PlayedRegisters(r, w, ch, till) ==
    <<r[1], r[2], IF ch = 2 THEN UpPeriod(r, till) ELSE r[3], r[4],
      IF ch = 2 THEN UpSweep(r, till) ELSE r[5], r[6], r[7],
      IF ch = 3 THEN UpShift(r, w, till) ELSE r[8]>>

(* Play of one channel changes the wave of that channel, as UpWave says,   *)
(* and the registers that channel alone drives.                            *)
LEMMA PlayIs ==
    ASSUME NEW s \in Chips, NEW m, Audible(m), NEW ch \in Channels, NEW till \in Nat,
           s.last <= till
    PROVE  /\ Play(s, m, ch, till) \in Chips
           /\ SoundRegisters(Play(s, m, ch, till)) =
                 PlayedRegisters(SoundRegisters(s), Wave(s, ch), ch, till)
           /\ Wave(Play(s, m, ch, till), ch) = UpWave(SoundRegisters(s), Wave(s, ch), m, ch, till)
           /\ \A c \in Channels \ {ch} : Wave(Play(s, m, ch, till), c) = Wave(s, c)
  <1> DEFINE r == SoundRegisters(s)
             w == Wave(s, ch)
             v == UpWave(r, w, m, ch, till)
             t == Play(s, m, ch, till)
             u == Waved(s, ch, v)
  <1>1. r \in RegisterViews /\ w \in Waves /\ r[1] = s.last
    BY Views DEF SoundRegisters
  <1>2. v \in Waves /\ UpPeriod(r, till) \in [Channels -> Paces] /\ UpSweep(r, till) \in Sweepers
        /\ UpShift(r, w, till) \in ShiftRegisters
    BY <1>1, UpWaveTyped, UpRegistersTyped, NoiseTakenTyped
  <1>3. r = <<s.last, s.control, s.period, s.table, s.sweep, s.noise, s.tap, s.nreg>>
    BY DEF SoundRegisters
  <1>4. /\ r[1] = s.last /\ r[2] = s.control /\ r[3] = s.period /\ r[4] = s.table
        /\ r[5] = s.sweep /\ r[6] = s.noise /\ r[7] = s.tap /\ r[8] = s.nreg
    BY <1>3
  <1>5. /\ Silent(r, ch) <=> (ch \notin s.control \/ (ch = 1 /\ VOICE \in s.control))
        /\ Noisy(r, ch) <=> ch = 3 /\ Hisses(s)
        /\ Sweeping(r) <=> Sweeps(s)
    BY <1>4 DEF Silent, Noisy, Hisses, Sweeping, Sweeps
  <1>6. /\ u \in Chips /\ SoundRegisters(u) = r /\ Wave(u, ch) = v
        /\ \A c \in Channels \ {ch} : Wave(u, c) = Wave(s, c)
    BY <1>2, WavedIs
  <1>7. /\ u.last = s.last /\ u.control = s.control /\ u.period = s.period /\ u.table = s.table
        /\ u.sweep = s.sweep /\ u.noise = s.noise /\ u.tap = s.tap /\ u.nreg = s.nreg
    BY <1>3, <1>6 DEF SoundRegisters
  <1>8. ch = 2 /\ ~Sweeps(s) => UpPeriod(r, till) = r[3] /\ UpSweep(r, till) = r[5]
    BY <1>5 DEF UpPeriod, UpSweep
  <1>9. ch = 3 /\ ~Hisses(s) => UpShift(r, w, till) = r[8]
    BY <1>5 DEF UpShift
  <1>10. CASE Silent(r, ch)
    <2>1. (ch = 2 => ~Sweeps(s)) /\ (ch = 3 => ~Hisses(s))
      BY <1>5, <1>10 DEF Sweeps, Hisses
    <2>2. t = s
      BY <1>5, <1>10, <2>1 DEF Play
    <2>3. v = w
      BY <1>10 DEF UpWave
    <2>4. PlayedRegisters(r, w, ch, till) = r
      BY <1>3, <1>4, <1>8, <1>9, <2>1 DEF PlayedRegisters
    <2> QED
      BY <2>2, <2>3, <2>4
  <1>11. CASE ~Silent(r, ch) /\ ch = 3 /\ Hisses(s)
    <2>1. t = PlayNoise(s, till)
      BY <1>5, <1>11 DEF Play
    <2>2. t = Stirred(u, UpShift(r, w, till))
      BY <1>5, <1>11, <2>1, PlayNoiseIs DEF Stirred
    <2>3. /\ t \in Chips
          /\ SoundRegisters(t) = <<u.last, u.control, u.period, u.table, u.sweep, u.noise, u.tap,
                                   UpShift(r, w, till)>>
          /\ \A c \in Channels : Wave(t, c) = Wave(u, c)
      <3> HIDE DEF t, u, r, w
      <3> QED
        BY <1>2, <1>6, <2>2, StirredIs
    <2>4. SoundRegisters(t) = PlayedRegisters(r, w, ch, till)
      BY <1>4, <1>7, <1>11, <2>3 DEF PlayedRegisters
    <2> QED
      BY <1>6, <2>3, <2>4
  <1>12. CASE ~Silent(r, ch) /\ ch = 2 /\ Sweeps(s)
    <2>1. t = [PlayWave(s, m, 2, till) EXCEPT !.period[2] = Swept(s, till).period[2],
                                              !.sweep = Swept(s, till).sweep]
      BY <1>5, <1>12 DEF Play
    <2>2. ~Noisy(r, ch)
      BY <1>12 DEF Noisy
    <2>3. PlayWave(s, m, 2, till) = u
      BY <1>12, <2>2, PlayWaveIs
    <2>4. /\ [s.period EXCEPT ![2] = Swept(s, till).period[2]] = UpPeriod(r, till)
          /\ Swept(s, till).sweep = UpSweep(r, till)
      BY <1>5, <1>12, SweptIs
    <2>5. t = Tuned(u, UpPeriod(r, till), UpSweep(r, till))
      <3>1. t = [u EXCEPT !.period = [u.period EXCEPT ![2] = Swept(s, till).period[2]],
                          !.sweep = Swept(s, till).sweep]
        BY <2>1, <2>3
      <3> QED
        BY <1>7, <2>4, <3>1 DEF Tuned
    <2>6. /\ t \in Chips
          /\ SoundRegisters(t) = <<u.last, u.control, UpPeriod(r, till), u.table,
                                   UpSweep(r, till), u.noise, u.tap, u.nreg>>
          /\ \A c \in Channels : Wave(t, c) = Wave(u, c)
      <3> HIDE DEF t, u, r, w
      <3> QED
        BY <1>2, <1>6, <2>5, TunedIs
    <2>7. SoundRegisters(t) = PlayedRegisters(r, w, ch, till)
      BY <1>4, <1>7, <1>12, <2>6 DEF PlayedRegisters
    <2> QED
      BY <1>6, <2>6, <2>7
  <1>13. CASE ~Silent(r, ch) /\ ~(ch = 3 /\ Hisses(s)) /\ ~(ch = 2 /\ Sweeps(s))
    <2>1. t = PlayWave(s, m, ch, till)
      BY <1>5, <1>13 DEF Play
    <2>2. t = u
      BY <1>5, <1>13, <2>1, PlayWaveIs
    <2>3. PlayedRegisters(r, w, ch, till) = r
      BY <1>3, <1>4, <1>8, <1>9, <1>13 DEF PlayedRegisters
    <2> QED
      BY <1>6, <2>2, <2>3
  <1> QED
    BY <1>10, <1>11, <1>12, <1>13

(* The recursive function of SoundUpdate, unrolled: channel after channel. *)
LEMMA UpdateUnrolled ==
    ASSUME NEW s, NEW m, NEW till
    PROVE  SoundUpdate(s, m, till) =
              [Play(Play(Play(Play(s, m, 0, till), m, 1, till), m, 2, till), m, 3, till)
                 EXCEPT !.last = till]
  <1> DEFINE F(f, ch) == IF ch = -1 THEN s ELSE Play(f[ch - 1], m, ch, till)
             a == Play(s, m, 0, till)
             b == Play(a, m, 1, till)
             c == Play(b, m, 2, till)
             d == Play(c, m, 3, till)
             g == [ch \in -1 .. 3 |-> IF ch = -1 THEN s ELSE IF ch = 0 THEN a
                                      ELSE IF ch = 1 THEN b ELSE IF ch = 2 THEN c ELSE d]
             h == CHOOSE f : f = [ch \in -1 .. 3 |-> F(f, ch)]
  <1>1. g = [ch \in -1 .. 3 |-> F(g, ch)]
    <2>1. g[-1] = s /\ g[0] = a /\ g[1] = b /\ g[2] = c /\ g[3] = d
      OBVIOUS
    <2>2. F(g, -1) = s /\ F(g, 0) = a /\ F(g, 1) = b /\ F(g, 2) = c /\ F(g, 3) = d
      BY <2>1
    <2>3. \A ch \in -1 .. 3 : ch = -1 \/ ch = 0 \/ ch = 1 \/ ch = 2 \/ ch = 3
      OBVIOUS
    <2> HIDE DEF F, a, b, c, d
    <2>4. \A ch \in -1 .. 3 : g[ch] = F(g, ch)
      BY <2>1, <2>2, <2>3
    <2> QED
      BY <2>4, Zenon
  <1>2. h = [ch \in -1 .. 3 |-> F(h, ch)]
    BY <1>1
  <1>3. SoundUpdate(s, m, till) = [h[3] EXCEPT !.last = till]
    BY DEF SoundUpdate
  <1> HIDE DEF h
  <1>4. h[-1] = s /\ h[0] = F(h, 0) /\ h[1] = F(h, 1) /\ h[2] = F(h, 2) /\ h[3] = F(h, 3)
    <2>1. -1 \in -1 .. 3 /\ 0 \in -1 .. 3 /\ 1 \in -1 .. 3 /\ 2 \in -1 .. 3 /\ 3 \in -1 .. 3
      OBVIOUS
    <2> HIDE DEF F
    <2>2. \A ch \in -1 .. 3 : h[ch] = F(h, ch)
      BY <1>2
    <2> QED
      BY <2>1, <2>2 DEF F
  <1>5. h[0] = a /\ h[1] = b /\ h[2] = c /\ h[3] = d
    BY <1>4
  <1> QED
    BY <1>3, <1>5 DEF a, b, c, d

(* What an update makes of a chip.                                         *)
LEMMA UpdateIs ==
    ASSUME NEW s \in Chips, NEW m, Audible(m), NEW till \in Nat, s.last <= till
    PROVE  /\ SoundUpdate(s, m, till) \in Chips
           /\ SoundUpdate(s, m, till).last = till
           /\ SoundRegisters(SoundUpdate(s, m, till)) =
                 UpRegisters(SoundRegisters(s), Wave(s, 3), till)
           /\ \A ch \in Channels : Wave(SoundUpdate(s, m, till), ch) =
                                      UpWave(SoundRegisters(s), Wave(s, ch), m, ch, till)
  <1> DEFINE r == SoundRegisters(s)
             a == Play(s, m, 0, till)
             b == Play(a, m, 1, till)
             c == Play(b, m, 2, till)
             d == Play(c, m, 3, till)
             q == SoundRegisters(c)
  <1>0. /\ r \in RegisterViews /\ \A ch \in Channels : Wave(s, ch) \in Waves
        /\ r = <<r[1], r[2], r[3], r[4], r[5], r[6], r[7], r[8]>>
        /\ \A x \in Chips : SoundRegisters(x)[1] = x.last
        /\ 0 \in Channels /\ 1 \in Channels /\ 2 \in Channels /\ 3 \in Channels
        /\ \A ch \in Channels : ch = 0 \/ ch = 1 \/ ch = 2 \/ ch = 3
    BY Views DEF SoundRegisters, Channels
  <1>1. /\ a \in Chips /\ SoundRegisters(a) = r /\ Wave(a, 0) = UpWave(r, Wave(s, 0), m, 0, till)
        /\ \A ch \in Channels \ {0} : Wave(a, ch) = Wave(s, ch)
    <2>1. PlayedRegisters(r, Wave(s, 0), 0, till) = r
      BY <1>0 DEF PlayedRegisters
    <2> QED
      BY <1>0, <2>1, PlayIs
  <1>2. a.last <= till
    BY <1>0, <1>1
  <1> HIDE DEF a, r
  <1>3. /\ b \in Chips /\ SoundRegisters(b) = r /\ Wave(b, 1) = UpWave(r, Wave(s, 1), m, 1, till)
        /\ \A ch \in Channels \ {1} : Wave(b, ch) = Wave(a, ch)
    <2>1. PlayedRegisters(r, Wave(a, 1), 1, till) = r
      BY <1>0 DEF PlayedRegisters
    <2> QED
      BY <1>0, <1>1, <1>2, <2>1, PlayIs
  <1>4. b.last <= till
    BY <1>0, <1>1, <1>2, <1>3
  <1> HIDE DEF b
  <1>5. /\ c \in Chips /\ q = PlayedRegisters(r, Wave(b, 2), 2, till)
        /\ Wave(c, 2) = UpWave(r, Wave(s, 2), m, 2, till)
        /\ \A ch \in Channels \ {2} : Wave(c, ch) = Wave(b, ch)
    BY <1>0, <1>1, <1>3, <1>4, PlayIs
  <1>6. /\ q[1] = r[1] /\ q[2] = r[2] /\ q[3] = UpPeriod(r, till) /\ q[4] = r[4]
        /\ q[5] = UpSweep(r, till) /\ q[6] = r[6] /\ q[7] = r[7] /\ q[8] = r[8]
    BY <1>5 DEF PlayedRegisters
  <1>7. c.last <= till
    BY <1>0, <1>1, <1>2, <1>5, <1>6
  <1>8. Pace(q, 3) = Pace(r, 3)
    <2>1. r[3] \in [Channels -> Paces]
      BY <1>0, ViewParts
    <2>2. UpPeriod(r, till)[3] = r[3][3]
      BY <1>0, <2>1 DEF UpPeriod
    <2> QED
      BY <1>6, <2>2 DEF Pace
  <1> HIDE DEF c, q
  <1>9. ASSUME NEW w
        PROVE  /\ UpWave(q, w, m, 3, till) = UpWave(r, w, m, 3, till)
               /\ UpShift(q, w, till) = UpShift(r, w, till)
    <2>1. /\ Silent(q, 3) = Silent(r, 3) /\ Noisy(q, 3) = Noisy(r, 3)
          /\ Wrapped(q, w, 3, till) = Wrapped(r, w, 3, till)
          /\ \A i : SampleTime(q, w, 3, i) = SampleTime(r, w, 3, i)
      BY <1>6, <1>8 DEF Silent, Noisy, Wrapped, SampleTime
    <2>2. NoiseTaken(q, w, till) = NoiseTaken(r, w, till)
      BY <1>6, <2>1 DEF NoiseTaken
    <2>3. WaveTaken(q, w, m, 3, till) = WaveTaken(r, w, m, 3, till)
      BY <1>6, <2>1 DEF WaveTaken
    <2>4. UpWave(q, w, m, 3, till) = UpWave(r, w, m, 3, till)
      BY <1>6, <1>8, <2>1, <2>2, <2>3 DEF UpWave
    <2>5. UpShift(q, w, till) = UpShift(r, w, till)
      BY <1>6, <2>1 DEF UpShift
    <2> QED
      BY <2>4, <2>5
  <1>10. Wave(c, 3) = Wave(s, 3)
    BY <1>0, <1>1, <1>3, <1>5
  <1>11. /\ d \in Chips /\ SoundRegisters(d) = PlayedRegisters(q, Wave(s, 3), 3, till)
         /\ Wave(d, 3) = UpWave(r, Wave(s, 3), m, 3, till)
         /\ \A ch \in Channels \ {3} : Wave(d, ch) = Wave(c, ch)
    <2>1. SoundRegisters(c) = q
      BY DEF q
    <2>2. /\ d \in Chips /\ SoundRegisters(d) = PlayedRegisters(q, Wave(s, 3), 3, till)
          /\ Wave(d, 3) = UpWave(q, Wave(s, 3), m, 3, till)
          /\ \A ch \in Channels \ {3} : Wave(d, ch) = Wave(c, ch)
      BY <1>0, <1>5, <1>7, <1>10, <2>1, PlayIs
    <2> QED
      BY <1>9, <2>2
  <1>12. SoundUpdate(s, m, till) = Stamped(d, till)
    BY UpdateUnrolled DEF Stamped, a, b, c
  <1>13. /\ SoundRegisters(d)[2] = r[2] /\ SoundRegisters(d)[3] = UpPeriod(r, till)
         /\ SoundRegisters(d)[4] = r[4] /\ SoundRegisters(d)[5] = UpSweep(r, till)
         /\ SoundRegisters(d)[6] = r[6] /\ SoundRegisters(d)[7] = r[7]
         /\ SoundRegisters(d)[8] = UpShift(r, Wave(s, 3), till)
    BY <1>6, <1>9, <1>11 DEF PlayedRegisters
  <1>14. \A ch \in Channels : Wave(d, ch) = UpWave(r, Wave(s, ch), m, ch, till)
    BY <1>0, <1>1, <1>3, <1>5, <1>11
  <1> HIDE DEF d
  <1>15. /\ Stamped(d, till) \in Chips
         /\ SoundRegisters(Stamped(d, till)) =
               <<till, d.control, d.period, d.table, d.sweep, d.noise, d.tap, d.nreg>>
         /\ \A ch \in Channels : Wave(Stamped(d, till), ch) = Wave(d, ch)
    BY <1>11, StampedIs
  <1>16. SoundRegisters(Stamped(d, till)) = UpRegisters(r, Wave(s, 3), till)
    <2>1. /\ d.control = SoundRegisters(d)[2] /\ d.period = SoundRegisters(d)[3]
          /\ d.table = SoundRegisters(d)[4] /\ d.sweep = SoundRegisters(d)[5]
          /\ d.noise = SoundRegisters(d)[6] /\ d.tap = SoundRegisters(d)[7]
          /\ d.nreg = SoundRegisters(d)[8]
      BY DEF SoundRegisters
    <2> QED
      BY <1>13, <1>15, <2>1 DEF UpRegisters
  <1>17. Stamped(d, till).last = till
    <2>1. SoundRegisters(Stamped(d, till))[1] = till
      BY <1>15
    <2> QED
      BY <1>0, <1>15, <2>1
  <1> QED
    BY <1>12, <1>14, <1>15, <1>16, <1>17 DEF r

(* When a sequence is two others, one behind the other.                    *)
LEMMA JoinedIs ==
    ASSUME NEW S, NEW a \in Seq(S), NEW b \in Seq(S), NEW c \in Seq(S),
           Len(c) = Len(a) + Len(b), \A i \in 1 .. Len(a) : c[i] = a[i],
           \A i \in 1 .. Len(b) : c[Len(a) + i] = b[i]
    PROVE  c = a \o b
  <1>1. Len(a) \in Nat /\ Len(b) \in Nat
    BY LenProperties
  <1>2. /\ a \o b \in Seq(S) /\ Len(a \o b) = Len(a) + Len(b)
        /\ \A i \in 1 .. Len(a) + Len(b) :
              (a \o b)[i] = IF i <= Len(a) THEN a[i] ELSE b[i - Len(a)]
    BY ConcatProperties
  <1>3. ASSUME NEW i \in 1 .. Len(c) PROVE c[i] = (a \o b)[i]
    <2>1. CASE i <= Len(a)
      BY <1>1, <1>2, <1>3, <2>1
    <2>2. CASE ~(i <= Len(a))
      <3>1. i - Len(a) \in 1 .. Len(b) /\ Len(a) + (i - Len(a)) = i /\ i \in 1 .. Len(a) + Len(b)
        BY <1>1, <1>3, <2>2
      <3>2. c[i] = b[i - Len(a)]
        BY <3>1
      <3> QED
        BY <1>2, <2>2, <3>1, <3>2
    <2> QED
      BY <2>1, <2>2
  <1> QED
    BY <1>2, <1>3, SeqEqual

(* What an update leaves of the registers for the next: all that matters,  *)
(* but for a sweep the pace of channel 2.                                  *)
LEMMA PacesStay ==
    ASSUME NEW r \in RegisterViews, NEW w \in Waves, NEW till \in Nat, r[1] <= till,
           NEW ch \in Channels
    PROVE  LET q == UpRegisters(r, w, till)
           IN  /\ q \in RegisterViews
               /\ q[1] = till /\ q[2] = r[2] /\ q[4] = r[4] /\ q[6] = r[6] /\ q[7] = r[7]
               /\ Sweeping(q) = Sweeping(r) /\ Silent(q, ch) = Silent(r, ch)
               /\ Noisy(q, ch) = Noisy(r, ch)
               /\ ch # 2 \/ ~Sweeping(r) => Pace(q, ch) = Pace(r, ch)
  <1> DEFINE q == UpRegisters(r, w, till)
  <1>1. /\ q[1] = till /\ q[2] = r[2] /\ q[3] = UpPeriod(r, till) /\ q[4] = r[4]
        /\ q[5] = UpSweep(r, till) /\ q[6] = r[6] /\ q[7] = r[7]
    BY DEF UpRegisters
  <1>2. r[3] \in [Channels -> Paces] /\ r[5] \in Sweepers
    BY ViewParts
  <1>3. q[5].value = r[5].value
    BY <1>1, <1>2 DEF UpSweep, Sweepers
  <1>4. q \in RegisterViews
    BY UpRegistersTyped
  <1> HIDE DEF q
  <1>5. ch # 2 \/ ~Sweeping(r) => q[3][ch] = r[3][ch]
    BY <1>1, <1>2 DEF UpPeriod
  <1> QED
    BY <1>1, <1>3, <1>4, <1>5 DEF Sweeping, Silent, Noisy, Pace, q

(* Two runs at one pace wrap as often, and at the same times, as one run   *)
(* that is as long as both.                                                *)
InTime(r, w, q, v, ch, till) ==
    /\ Wrapped(r, w, ch, q[1]) \in Nat /\ Wrapped(q, v, ch, till) \in Nat
    /\ Wrapped(r, w, ch, till) = Wrapped(r, w, ch, q[1]) + Wrapped(q, v, ch, till)
    /\ CounterLeft(w[1], till - r[1], Pace(r, ch)) = CounterLeft(v[1], till - q[1], Pace(r, ch))
    /\ \A i \in Nat : SampleTime(r, w, ch, Wrapped(r, w, ch, q[1]) + i) = SampleTime(q, v, ch, i)

LEMMA TimesAdd ==
    ASSUME NEW r \in RegisterViews, NEW w \in Waves, NEW q \in RegisterViews, NEW v \in Waves,
           NEW ch \in Channels, NEW till \in Nat, r[1] <= q[1], q[1] <= till,
           Pace(q, ch) = Pace(r, ch), v[1] = CounterLeft(w[1], q[1] - r[1], Pace(r, ch))
    PROVE  InTime(r, w, q, v, ch, till)
  <1>1. PICK c \in Nat \ {0}, one \in Nat, two \in Nat, p \in Nat \ {0} :
           c = w[1] /\ one = q[1] - r[1] /\ two = till - q[1] /\ p = Pace(r, ch)
    <2>1. w[1] \in Nat \ {0}
      BY WaveParts
    <2>2. r[1] \in Nat /\ q[1] \in Nat /\ Pace(r, ch) \in 1 .. 2048
      BY ViewParts
    <2>3. q[1] - r[1] \in Nat /\ till - q[1] \in Nat /\ Pace(r, ch) \in Nat \ {0}
      BY <2>2, SMTT(30)
    <2> QED
      BY <2>1, <2>3, Zenon
  <1>2. r[1] \in Nat /\ q[1] \in Nat /\ till - r[1] = one + two
    BY <1>1, ViewParts
  <1>3. PICK n \in Nat, d \in Nat \ {0} :
           n = WrapsIn(c, one, p) /\ d = CounterLeft(c, one, p) /\ d = c - one + p * n
    BY WrapsAre DEF CounterLeft
  <1>4. /\ WrapsIn(c, one + two, p) = n + WrapsIn(d, two, p)
        /\ CounterLeft(c, one + two, p) = CounterLeft(d, two, p)
        /\ WrapsIn(d, two, p) \in Nat
    <2>1. WrapsOn(c, one, two, p)
      BY WrapsAdd
    <2>2. WrapsIn(d, two, p) \in Nat
      BY WrapsAre
    <2> QED
      BY <1>3, <2>1, <2>2 DEF WrapsOn
  <1>5. v[1] = d
    BY <1>1, <1>3
  <1>6. /\ Wrapped(r, w, ch, q[1]) = n /\ Wrapped(q, v, ch, till) = WrapsIn(d, two, p)
        /\ Wrapped(r, w, ch, till) = WrapsIn(c, one + two, p)
    BY <1>1, <1>2, <1>3, <1>5 DEF Wrapped
  <1>7. ASSUME NEW i \in Nat
        PROVE  SampleTime(r, w, ch, n + i) = SampleTime(q, v, ch, i)
    <2>1. (n + i - 1) * p = p * n + (i - 1) * p /\ p * n \in Int /\ (i - 1) * p \in Int
      OBVIOUS
    <2>2. SampleTime(r, w, ch, n + i) = r[1] + (c + (n + i - 1) * p)
      BY <1>1 DEF SampleTime, WrapTime
    <2>3. SampleTime(q, v, ch, i) = q[1] + (d + (i - 1) * p)
      BY <1>1, <1>5 DEF SampleTime, WrapTime
    <2>4. q[1] = r[1] + one
      BY <1>1, <1>2
    <2> QED
      BY <1>2, <1>3, <2>1, <2>2, <2>3, <2>4
  <1> QED
    BY <1>1, <1>2, <1>4, <1>5, <1>6, <1>7 DEF InTime

(* So what a wave plays in two runs, joined, is what it plays in one, ...  *)
WavesOn(r, w, q, v, m, ch, till) ==
    /\ WaveTaken(r, w, m, ch, till) = WaveTaken(r, w, m, ch, q[1]) \o WaveTaken(q, v, m, ch, till)
    /\ (v[2] + Wrapped(q, v, ch, till)) % 32 = (w[2] + Wrapped(r, w, ch, till)) % 32

LEMMA WavesJoin ==
    ASSUME NEW r \in RegisterViews, NEW w \in Waves, NEW q \in RegisterViews, NEW v \in Waves,
           NEW m, Audible(m),
           NEW ch \in Channels, NEW till \in Nat, r[1] <= q[1], q[1] <= till,
           Pace(q, ch) = Pace(r, ch), v[1] = CounterLeft(w[1], q[1] - r[1], Pace(r, ch)),
           v[2] = (w[2] + Wrapped(r, w, ch, q[1])) % 32, q[4] = r[4]
    PROVE  WavesOn(r, w, q, v, m, ch, till)
  <1> DEFINE a == WaveTaken(r, w, m, ch, q[1])
             b == WaveTaken(q, v, m, ch, till)
             c == WaveTaken(r, w, m, ch, till)
  <1>1. PICK n \in Nat, k \in Nat : n = Wrapped(r, w, ch, q[1]) /\ k = Wrapped(q, v, ch, till)
    BY TimesAdd DEF InTime
  <1>2. /\ Wrapped(r, w, ch, till) = n + k
        /\ \A i \in Nat : SampleTime(r, w, ch, n + i) = SampleTime(q, v, ch, i)
    BY <1>1, TimesAdd DEF InTime
  <1>3. PICK p \in Nat : p = w[2]
    BY WaveParts DEF Positions
  <1>4. v[2] = (p + n) % 32 /\ \A i \in Nat : (((p + n) % 32) + i) % 32 = (p + (n + i)) % 32
    BY <1>1, <1>3
  <1>5. r[1] \in Nat /\ q[1] \in Nat /\ r[1] <= till
    BY ViewParts
  <1>6. a \in Heard /\ b \in Heard /\ c \in Heard
    BY <1>5, WaveTakenTyped
  <1>7. /\ a = [i \in 1 .. n |-> <<SampleTime(r, w, ch, i),
                                   Sample([table |-> r[4]], m, ch, (p + i) % 32)>>]
        /\ b = [i \in 1 .. k |-> <<SampleTime(q, v, ch, i),
                                   Sample([table |-> r[4]], m, ch, (((p + n) % 32) + i) % 32)>>]
        /\ c = [i \in 1 .. n + k |-> <<SampleTime(r, w, ch, i),
                                   Sample([table |-> r[4]], m, ch, (p + i) % 32)>>]
    BY <1>1, <1>2, <1>3, <1>4 DEF WaveTaken
  <1> HIDE DEF a, b, c, WavesOn
  <1>8. Len(a) = n /\ Len(b) = k /\ Len(c) = n + k
    <2>1. /\ a \in Seq(Nat \X Nat) /\ DOMAIN a = 1 .. n /\ b \in Seq(Nat \X Nat)
          /\ DOMAIN b = 1 .. k /\ c \in Seq(Nat \X Nat) /\ DOMAIN c = 1 .. n + k
      BY <1>6, <1>7 DEF Heard
    <2> QED
      BY <1>1, <2>1, LenProperties
  <1>9. \A i \in 1 .. n : c[i] = a[i]
    <2>1. \A i \in 1 .. n : i \in 1 .. n + k
      OBVIOUS
    <2> QED
      BY <1>7, <2>1
  <1>10. ASSUME NEW i \in 1 .. k PROVE c[n + i] = b[i]
    <2>1. n + i \in 1 .. n + k /\ i \in Nat
      BY <1>10
    <2>2. SampleTime(r, w, ch, n + i) = SampleTime(q, v, ch, i)
      BY <1>2, <2>1
    <2>3. (((p + n) % 32) + i) % 32 = (p + (n + i)) % 32
      BY <1>4, <2>1
    <2> QED
      BY <1>7, <1>10, <2>1, <2>2, <2>3
  <1>11. c = a \o b
    <2> DEFINE S == Nat \X Nat
    <2>1. a \in Seq(S) /\ b \in Seq(S) /\ c \in Seq(S)
      BY <1>6 DEF Heard
    <2>2. /\ Len(c) = Len(a) + Len(b) /\ \A i \in 1 .. Len(a) : c[i] = a[i]
          /\ \A i \in 1 .. Len(b) : c[Len(a) + i] = b[i]
      BY <1>8, <1>9, <1>10
    <2> HIDE DEF S
    <2> QED
      BY <2>1, <2>2, JoinedIs
  <1>12. (v[2] + k) % 32 = (w[2] + (n + k)) % 32
    BY <1>3, <1>4
  <1> QED
    BY <1>1, <1>2, <1>11, <1>12 DEF a, b, c, WavesOn

(* ... and the noise plays, and leaves in its shift register, the same.    *)
Shifts(r, w, till) == Hissing(r[8], r[7], Wrapped(r, w, 3, till))[Wrapped(r, w, 3, till)]
NoisesOn(r, w, q, v, till) ==
    /\ NoiseTaken(r, w, till) = NoiseTaken(r, w, q[1]) \o NoiseTaken(q, v, till)
    /\ Shifts(r, w, till) = Shifts(q, v, till)

LEMMA NoisesJoin ==
    ASSUME NEW r \in RegisterViews, NEW w \in Waves, NEW q \in RegisterViews, NEW v \in Waves,
           NEW till \in Nat, r[1] <= q[1], q[1] <= till, Pace(q, 3) = Pace(r, 3),
           v[1] = CounterLeft(w[1], q[1] - r[1], Pace(r, 3)), q[7] = r[7],
           q[8] = Shifts(r, w, q[1])
    PROVE  NoisesOn(r, w, q, v, till)
  <1> DEFINE a == NoiseTaken(r, w, q[1])
             b == NoiseTaken(q, v, till)
             c == NoiseTaken(r, w, till)
  <1>0. 3 \in Channels
    BY DEF Channels
  <1>1. PICK n \in Nat, k \in Nat : n = Wrapped(r, w, 3, q[1]) /\ k = Wrapped(q, v, 3, till)
    BY <1>0, TimesAdd DEF InTime
  <1>2. /\ Wrapped(r, w, 3, till) = n + k
        /\ \A i \in Nat : SampleTime(r, w, 3, n + i) = SampleTime(q, v, 3, i)
    BY <1>0, <1>1, TimesAdd DEF InTime
  <1> DEFINE f == Hissing(r[8], r[7], n)
             g == Hissing(r[8], r[7], n + k)
             h == Hissing(q[8], q[7], k)
  <1>3. h = Hissing(f[n], r[7], k)
    BY <1>1 DEF Shifts
  <1>4. /\ \A i \in 0 .. n : g[i] = f[i]
        /\ \A i \in 0 .. k : g[n + i] = h[i]
    <2>1. PICK x, tap : x = r[8] /\ tap = r[7]
      OBVIOUS
    <2>2. HissesOn(x, tap, n, k)
      BY HissingAdds
    <2>3. f = Hissing(x, tap, n) /\ g = Hissing(x, tap, n + k) /\ h = Hissing(f[n], tap, k)
      BY <1>3, <2>1
    <2> HIDE DEF f, g, h
    <2> QED
      BY <2>2, <2>3 DEF HissesOn
  <1>5. r[1] \in Nat /\ q[1] \in Nat /\ r[1] <= till
    BY ViewParts
  <1>6. a \in Heard /\ b \in Heard /\ c \in Heard
    BY <1>5, NoiseTakenTyped
  <1>7. /\ a = [i \in 1 .. n |-> <<SampleTime(r, w, 3, i), 15 * Bit(f[i], 0)>>]
        /\ b = [i \in 1 .. k |-> <<SampleTime(q, v, 3, i), 15 * Bit(h[i], 0)>>]
        /\ c = [i \in 1 .. n + k |-> <<SampleTime(r, w, 3, i), 15 * Bit(g[i], 0)>>]
    BY <1>1, <1>2 DEF NoiseTaken
  <1> HIDE DEF a, b, c, f, g, h, NoisesOn, Shifts
  <1>8. Len(a) = n /\ Len(b) = k /\ Len(c) = n + k
    <2>1. /\ a \in Seq(Nat \X Nat) /\ DOMAIN a = 1 .. n /\ b \in Seq(Nat \X Nat)
          /\ DOMAIN b = 1 .. k /\ c \in Seq(Nat \X Nat) /\ DOMAIN c = 1 .. n + k
      BY <1>6, <1>7 DEF Heard
    <2> QED
      BY <1>1, <2>1, LenProperties
  <1>9. \A i \in 1 .. n : c[i] = a[i]
    <2>1. \A i \in 1 .. n : i \in 1 .. n + k /\ g[i] = f[i]
      BY <1>4
    <2> QED
      BY <1>7, <2>1
  <1>10. ASSUME NEW i \in 1 .. k PROVE c[n + i] = b[i]
    <2>1. n + i \in 1 .. n + k /\ i \in Nat /\ i \in 0 .. k
      BY <1>10
    <2>2. SampleTime(r, w, 3, n + i) = SampleTime(q, v, 3, i) /\ g[n + i] = h[i]
      BY <1>2, <1>4, <2>1
    <2>3. c[n + i] = <<SampleTime(r, w, 3, n + i), 15 * Bit(g[n + i], 0)>>
      BY <1>7, <2>1
    <2> QED
      BY <1>7, <1>10, <2>2, <2>3
  <1>11. c = a \o b
    <2> DEFINE S == Nat \X Nat
    <2>1. a \in Seq(S) /\ b \in Seq(S) /\ c \in Seq(S)
      BY <1>6 DEF Heard
    <2>2. /\ Len(c) = Len(a) + Len(b) /\ \A i \in 1 .. Len(a) : c[i] = a[i]
          /\ \A i \in 1 .. Len(b) : c[Len(a) + i] = b[i]
      BY <1>8, <1>9, <1>10
    <2> HIDE DEF S
    <2> QED
      BY <2>1, <2>2, JoinedIs
  <1>12. g[n + k] = h[k]
    BY <1>4
  <1> QED
    BY <1>1, <1>2, <1>11, <1>12 DEF a, b, c, f, g, h, NoisesOn, Shifts

(* A sweep that is caught up twice.                                        *)
LEMMA SweepsJoin ==
    ASSUME NEW r \in RegisterViews, NEW w \in Waves, NEW one \in Nat, NEW two \in Nat,
           r[1] <= one, one <= two
    PROVE  /\ UpPeriod(UpRegisters(r, w, one), two) = UpPeriod(r, two)
           /\ UpSweep(UpRegisters(r, w, one), two) = UpSweep(r, two)
  <1> DEFINE q == UpRegisters(r, w, one)
  <1>1. q[1] = one /\ q[2] = r[2] /\ q[3] = UpPeriod(r, one) /\ q[5] = UpSweep(r, one)
    BY DEF UpRegisters
  <1>2. 0 \in Channels /\ Sweeping(q) = Sweeping(r)
    <2>1. 0 \in Channels
      BY DEF Channels
    <2> QED
      BY <2>1, PacesStay
  <1> HIDE DEF q
  <1>3. CASE ~Sweeping(r)
    BY <1>1, <1>2, <1>3 DEF UpPeriod, UpSweep, q
  <1>4. CASE Sweeping(r)
    <2>1. PICK e \in Sweepers : e = r[5]
      BY ViewParts
    <2>2. /\ e.value \in Byte /\ e.step \in Byte /\ e.counter \in Byte /\ e.divider \in Nat \ {0}
      BY DEF Sweepers
    <2>3. PICK c \in Nat \ {0}, d \in Nat \ {0}, p \in Nat \ {0} :
             c = First(e.counter) /\ d = e.divider /\ p = e.step + 1 /\ c <= 256 /\ p <= 256
      <3>1. First(e.counter) \in 1 .. 256 /\ e.step + 1 \in 1 .. 256
        BY <2>2 DEF First, Byte
      <3>2. First(e.counter) \in Nat \ {0} /\ e.step + 1 \in Nat \ {0} /\ First(e.counter) <= 256
            /\ e.step + 1 <= 256
        BY <3>1
      <3> QED
        BY <2>2, <3>2, Zenon
    <2>4. r[1] \in Nat /\ one - r[1] \in Nat /\ two - one \in Nat
          /\ two - r[1] = (one - r[1]) + (two - one)
      BY ViewParts
    <2> DEFINE x == one - r[1]
               y == two - one
               rest == CounterLeft(d, x, 8192)
               i == WrapsIn(d, x, 8192)
               j == WrapsIn(rest, y, 8192)
               c1 == CounterLeft(c, i, p)
    <2>5. x \in Nat /\ y \in Nat /\ two - r[1] = x + y
      BY <2>4
    <2> HIDE DEF x, y
    <2>6. rest \in Nat \ {0} /\ i \in Nat /\ j \in Nat
      <3>1. 8192 \in Nat \ {0}
        OBVIOUS
      <3>2. rest \in Nat \ {0} /\ i \in Nat
        BY <2>5, <3>1, WrapsAre
      <3> HIDE DEF rest, i
      <3>3. j \in Nat
        BY <2>5, <3>1, <3>2, WrapsAre
      <3> QED
        BY <3>2, <3>3
    <2>7. WrapsIn(d, x + y, 8192) = i + j /\ CounterLeft(d, x + y, 8192) = CounterLeft(rest, y, 8192)
      <3>1. 8192 \in Nat \ {0}
        OBVIOUS
      <3>2. WrapsOn(d, x, y, 8192)
        BY <2>5, <3>1, WrapsAdd
      <3> QED
        BY <3>2 DEF WrapsOn
    <2> HIDE DEF rest, i, j
    <2>8. /\ c1 \in Nat \ {0} /\ WrapsIn(c, i, p) \in Nat /\ WrapsIn(c1, j, p) \in Nat
          /\ c1 <= 256
      <3>1. c1 \in Nat \ {0} /\ WrapsIn(c, i, p) \in Nat /\ (WrapsIn(c, i, p) # 0 => c1 <= p)
        BY <2>6, WrapsAre
      <3>2. WrapsIn(c, i, p) = 0 => c1 = c - i
        <4>1. p * 0 = 0
          OBVIOUS
        <4> QED
          BY <2>6, <4>1 DEF CounterLeft
      <3>3. c1 <= 256
        BY <2>3, <2>6, <3>1, <3>2
      <3> HIDE DEF c1
      <3>4. WrapsIn(c1, j, p) \in Nat
        BY <2>6, <3>1, WrapsAre
      <3> QED
        BY <3>1, <3>3, <3>4
    <2>9. /\ WrapsIn(c, i + j, p) = WrapsIn(c, i, p) + WrapsIn(c1, j, p)
          /\ CounterLeft(c, i + j, p) = CounterLeft(c1, j, p)
      <3>1. WrapsOn(c, i, j, p)
        BY <2>6, WrapsAdd
      <3> QED
        BY <3>1 DEF WrapsOn
    <2> HIDE DEF c1
    <2>10. First(c1 % 256) = c1
      BY <2>8 DEF First
    <2>11. UpSweep(r, one) = [e EXCEPT !.divider = rest, !.counter = c1 % 256]
      BY <1>4, <2>1, <2>3 DEF UpSweep, Ticks, x, rest, i, c1
    <2> DEFINE z == c1 % 256
    <2>12. q[5] = [e EXCEPT !.divider = rest, !.counter = z]
      BY <1>1, <2>11
    <2> HIDE DEF z
    <2>13. q[5].value = e.value /\ q[5].step = e.step /\ q[5].divider = rest /\ q[5].counter = z
      BY <2>12 DEF Sweepers
    <2>14. Ticks(q, two) = j /\ Ticks(r, two) = i + j
      BY <1>1, <2>1, <2>3, <2>5, <2>7, <2>13 DEF Ticks, j, y
    <2>15. First(q[5].counter) = c1
      BY <2>10, <2>13 DEF z
    <2> DEFINE o == CounterLeft(c1, j, p) % 256
               t == CounterLeft(rest, y, 8192)
    <2>16. UpSweep(q, two) = [q[5] EXCEPT !.divider = t, !.counter = o]
      <3> DEFINE a == CounterLeft(q[5].divider, two - q[1], 8192)
                 b == CounterLeft(First(q[5].counter), Ticks(q, two), q[5].step + 1) % 256
      <3>1. UpSweep(q, two) = [q[5] EXCEPT !.divider = a, !.counter = b]
        BY <1>2, <1>4 DEF UpSweep
      <3>2. a = t /\ b = o
        BY <1>1, <2>3, <2>13, <2>14, <2>15 DEF y
      <3> HIDE DEF a, b, t, o
      <3> QED
        BY <3>1, <3>2
    <2>17. UpSweep(r, two) = [e EXCEPT !.divider = t, !.counter = o]
      <3> DEFINE a == CounterLeft(r[5].divider, two - r[1], 8192)
                 b == CounterLeft(First(r[5].counter), Ticks(r, two), r[5].step + 1) % 256
      <3>1. UpSweep(r, two) = [r[5] EXCEPT !.divider = a, !.counter = b]
        BY <1>4 DEF UpSweep
      <3>2. a = t /\ b = o
        BY <2>1, <2>3, <2>5, <2>7, <2>9, <2>14
      <3> HIDE DEF a, b, t, o
      <3> QED
        BY <2>1, <3>1, <3>2
    <2> HIDE DEF o, t
    <2>18. UpSweep(q, two) = UpSweep(r, two)
      BY <2>12, <2>16, <2>17 DEF Sweepers
    <2>19. PICK s \in Int, n \in Nat, k \in Nat :
              s = Signed(e.value) /\ n = WrapsIn(c, i, p) /\ k = WrapsIn(c1, j, p)
      <3>1. Signed(e.value) \in Int
        BY <2>2 DEF Signed, Byte
      <3> QED
        BY <2>8, <3>1, Zenon
    <2>20. PICK u \in Int : u = r[3][2]
      <3>1. r[3] \in [Channels -> Paces] /\ 2 \in Channels
        BY ViewParts DEF Channels
      <3>2. \A pace \in Paces : pace \in Int
        BY DEF Paces
      <3>3. r[3][2] \in Int
        BY <3>1, <3>2
      <3> QED
        BY <3>3, Zenon
    <2>21. r[3] \in [Channels -> Paces] /\ 2 \in Channels
      BY ViewParts DEF Channels
    <2>22. UpPeriod(r, one) = [r[3] EXCEPT ![2] = (u + n * s) % 2048]
      BY <1>4, <2>1, <2>3, <2>19, <2>20 DEF UpPeriod, Ticks, i, x
    <2>23. UpPeriod(r, two) = [r[3] EXCEPT ![2] = (u + (n + k) * s) % 2048]
      BY <1>4, <2>1, <2>3, <2>9, <2>14, <2>19, <2>20 DEF UpPeriod
    <2>24. q[3][2] = (u + n * s) % 2048
      BY <1>1, <2>21, <2>22
    <2>25. UpPeriod(q, two) = [q[3] EXCEPT ![2] = (((u + n * s) % 2048) + k * s) % 2048]
      BY <1>2, <1>4, <2>3, <2>13, <2>14, <2>15, <2>19, <2>24 DEF UpPeriod
    <2>26. (((u + n * s) % 2048) + k * s) % 2048 = (u + (n + k) * s) % 2048
      <3>1. n * s \in Int /\ k * s \in Int /\ (n + k) * s = n * s + k * s
        OBVIOUS
      <3>2. \A a, b \in Int : (((u + a) % 2048) + b) % 2048 = (u + (a + b)) % 2048
        OBVIOUS
      <3> QED
        BY <3>1, <3>2
    <2> DEFINE v == (u + n * s) % 2048
               m == (u + (n + k) * s) % 2048
    <2> HIDE DEF v, m
    <2>27. [[r[3] EXCEPT ![2] = v] EXCEPT ![2] = m] = [r[3] EXCEPT ![2] = m]
      BY <2>21
    <2>28. UpPeriod(q, two) = UpPeriod(r, two)
      BY <1>1, <2>22, <2>23, <2>25, <2>26, <2>27 DEF v, m
    <2> QED
      BY <2>18, <2>28 DEF q
  <1> QED
    BY <1>3, <1>4

(* To catch up twice is to catch up once: the registers, ...               *)
LEMMA RegistersSplit ==
    ASSUME NEW r \in RegisterViews, NEW w \in Waves, NEW m, Audible(m), NEW one \in Nat,
           NEW two \in Nat, r[1] <= one, one <= two
    PROVE  UpRegisters(UpRegisters(r, w, one), UpWave(r, w, m, 3, one), two) =
              UpRegisters(r, w, two)
  <1> DEFINE q == UpRegisters(r, w, one)
             v == UpWave(r, w, m, 3, one)
  <1>0. 3 \in Channels /\ r[1] \in Nat
    BY ViewParts DEF Channels
  <1>1. /\ q \in RegisterViews /\ q[1] = one /\ q[2] = r[2] /\ q[4] = r[4] /\ q[6] = r[6]
        /\ q[7] = r[7] /\ Noisy(q, 3) = Noisy(r, 3) /\ Pace(q, 3) = Pace(r, 3)
    BY <1>0, PacesStay
  <1>2. q[8] = UpShift(r, w, one) /\ v \in Waves
    <2>1. v \in Waves
      BY <1>0, UpWaveTyped
    <2> QED
      BY <2>1 DEF UpRegisters
  <1>3. UpPeriod(q, two) = UpPeriod(r, two) /\ UpSweep(q, two) = UpSweep(r, two)
    BY SweepsJoin
  <1>4. UpShift(q, v, two) = UpShift(r, w, two)
    <2>1. CASE ~Noisy(r, 3)
      <3> HIDE DEF q, v
      <3> QED
        BY <1>1, <1>2, <2>1 DEF UpShift
    <2>2. CASE Noisy(r, 3)
      <3>1. v[1] = CounterLeft(w[1], q[1] - r[1], Pace(r, 3))
        <4>1. ~Silent(r, 3)
          BY <2>2 DEF Noisy, Silent
        <4> HIDE DEF q
        <4> QED
          BY <1>1, <2>2, <4>1 DEF UpWave
      <3> HIDE DEF q, v
      <3>2. q[8] = Shifts(r, w, q[1])
        BY <1>1, <1>2, <2>2 DEF UpShift, Shifts
      <3>3. NoisesOn(r, w, q, v, two)
        BY <1>1, <1>2, <3>1, <3>2, NoisesJoin
      <3> QED
        BY <1>1, <2>2, <3>3 DEF UpShift, NoisesOn, Shifts
    <2> QED
      BY <2>1, <2>2
  <1> HIDE DEF q, v
  <1>5. UpRegisters(q, v, two) = UpRegisters(r, w, two)
    BY <1>1, <1>3, <1>4 DEF UpRegisters
  <1> QED
    BY <1>5 DEF q, v

(* ... and every wave, but for that of channel 2 while it sweeps.          *)
LEMMA WavesSplit ==
    ASSUME NEW r \in RegisterViews, NEW w \in Waves, NEW w3 \in Waves, NEW m, Audible(m),
           NEW ch \in Channels, NEW one \in Nat, NEW two \in Nat, r[1] <= one, one <= two,
           ch = 3 => w = w3, ch # 2 \/ ~Sweeping(r)
    PROVE  UpWave(UpRegisters(r, w3, one), UpWave(r, w, m, ch, one), m, ch, two) =
              UpWave(r, w, m, ch, two)
  <1> DEFINE q == UpRegisters(r, w3, one)
             v == UpWave(r, w, m, ch, one)
  <1>0. r[1] \in Nat
    BY ViewParts
  <1>1. /\ q \in RegisterViews /\ q[1] = one /\ q[4] = r[4] /\ q[7] = r[7]
        /\ Noisy(q, ch) = Noisy(r, ch) /\ Silent(q, ch) = Silent(r, ch)
        /\ Pace(q, ch) = Pace(r, ch)
    BY PacesStay
  <1>2. q[8] = UpShift(r, w3, one) /\ v \in Waves
    <2>1. v \in Waves
      BY <1>0, UpWaveTyped
    <2> QED
      BY <2>1 DEF UpRegisters
  <1>3. v = UpWave(r, w, m, ch, one)
    OBVIOUS
  <1> HIDE DEF q, v
  <1>4. CASE Silent(r, ch) \/ (~Noisy(r, ch) /\ Pace(r, ch) <= 4)
    BY <1>1, <1>3, <1>4 DEF UpWave, q, v
  <1>5. CASE ~Silent(r, ch) /\ Noisy(r, ch)
    <2>1. ch = 3 /\ w = w3
      BY <1>5 DEF Noisy
    <2>2. v = <<CounterLeft(w[1], one - r[1], Pace(r, 3)), w[2], w[3] \o NoiseTaken(r, w, one)>>
      BY <1>3, <1>5, <2>1 DEF UpWave
    <2>3. v[1] = CounterLeft(w[1], q[1] - r[1], Pace(r, 3)) /\ v[2] = w[2]
          /\ v[3] = w[3] \o NoiseTaken(r, w, one)
      BY <1>1, <2>2
    <2>4. q[8] = Shifts(r, w, q[1])
      BY <1>1, <1>2, <1>5, <2>1 DEF UpShift, Shifts
    <2>5. NoiseTaken(r, w, two) = NoiseTaken(r, w, q[1]) \o NoiseTaken(q, v, two)
      <3>1. Pace(q, 3) = Pace(r, 3)
        BY <1>1, <2>1
      <3>2. NoisesOn(r, w, q, v, two)
        BY <1>1, <1>2, <2>3, <2>4, <3>1, NoisesJoin
      <3> QED
        BY <3>2 DEF NoisesOn
    <2>6. CounterLeft(w[1], two - r[1], Pace(r, 3)) = CounterLeft(v[1], two - q[1], Pace(r, 3))
      <3>1. v[1] = CounterLeft(w[1], q[1] - r[1], Pace(r, ch))
        BY <2>1, <2>3, Zenon
      <3>2. InTime(r, w, q, v, ch, two)
        BY <1>1, <1>2, <3>1, TimesAdd
      <3> QED
        BY <2>1, <3>2 DEF InTime
    <2>7. v[3] \o NoiseTaken(q, v, two) = w[3] \o NoiseTaken(r, w, two)
      <3>1. w[3] \in Heard /\ NoiseTaken(r, w, one) \in Heard /\ NoiseTaken(q, v, two) \in Heard
        <4>1. w[3] \in Heard
          BY WaveParts
        <4>2. NoiseTaken(r, w, one) \in Heard
          BY <1>0, NoiseTakenTyped
        <4>3. NoiseTaken(q, v, two) \in Heard
          BY <1>1, <1>2, NoiseTakenTyped
        <4> QED
          BY <4>1, <4>2, <4>3
      <3> DEFINE a == w[3]
                 b == NoiseTaken(r, w, one)
                 c == NoiseTaken(q, v, two)
                 S == Nat \X Nat
      <3>2. a \in Seq(S) /\ b \in Seq(S) /\ c \in Seq(S)
        BY <3>1 DEF Heard
      <3> HIDE DEF a, b, c, S
      <3>3. (a \o b) \o c = a \o (b \o c)
        BY <3>2, ConcatAssociative, SMTT(30)
      <3> QED
        BY <1>1, <2>3, <2>5, <3>3 DEF a, b, c
    <2>8. UpWave(q, v, m, ch, two) =
             <<CounterLeft(v[1], two - q[1], Pace(q, 3)), v[2], v[3] \o NoiseTaken(q, v, two)>>
      BY <1>1, <1>5, <2>1 DEF UpWave
    <2>9. UpWave(r, w, m, ch, two) =
             <<CounterLeft(w[1], two - r[1], Pace(r, 3)), w[2], w[3] \o NoiseTaken(r, w, two)>>
      BY <1>5, <2>1 DEF UpWave
    <2> QED
      BY <1>1, <2>1, <2>3, <2>6, <2>7, <2>8, <2>9 DEF q, v
  <1>6. CASE ~Silent(r, ch) /\ ~Noisy(r, ch) /\ ~(Pace(r, ch) <= 4)
    <2>2. v = <<CounterLeft(w[1], one - r[1], Pace(r, ch)), (w[2] + Wrapped(r, w, ch, one)) % 32,
                w[3] \o WaveTaken(r, w, m, ch, one)>>
      BY <1>3, <1>6 DEF UpWave
    <2>3. v[1] = CounterLeft(w[1], q[1] - r[1], Pace(r, ch))
          /\ v[2] = (w[2] + Wrapped(r, w, ch, q[1])) % 32
          /\ v[3] = w[3] \o WaveTaken(r, w, m, ch, one)
      BY <1>1, <2>2
    <2>5. /\ WaveTaken(r, w, m, ch, two) =
                WaveTaken(r, w, m, ch, q[1]) \o WaveTaken(q, v, m, ch, two)
          /\ (v[2] + Wrapped(q, v, ch, two)) % 32 = (w[2] + Wrapped(r, w, ch, two)) % 32
      <3>1. WavesOn(r, w, q, v, m, ch, two)
        BY <1>1, <1>2, <2>3, WavesJoin
      <3> QED
        BY <3>1 DEF WavesOn
    <2>6. CounterLeft(w[1], two - r[1], Pace(r, ch)) = CounterLeft(v[1], two - q[1], Pace(r, ch))
      <3>1. InTime(r, w, q, v, ch, two)
        BY <1>1, <1>2, <2>3, TimesAdd
      <3> QED
        BY <3>1 DEF InTime
    <2>7. v[3] \o WaveTaken(q, v, m, ch, two) = w[3] \o WaveTaken(r, w, m, ch, two)
      <3>1. /\ w[3] \in Heard /\ WaveTaken(r, w, m, ch, one) \in Heard
            /\ WaveTaken(q, v, m, ch, two) \in Heard
        <4>1. w[3] \in Heard
          BY WaveParts
        <4>2. WaveTaken(r, w, m, ch, one) \in Heard
          BY <1>0, WaveTakenTyped
        <4>3. WaveTaken(q, v, m, ch, two) \in Heard
          BY <1>1, <1>2, WaveTakenTyped
        <4> QED
          BY <4>1, <4>2, <4>3
      <3> DEFINE a == w[3]
                 b == WaveTaken(r, w, m, ch, one)
                 c == WaveTaken(q, v, m, ch, two)
                 S == Nat \X Nat
      <3>2. a \in Seq(S) /\ b \in Seq(S) /\ c \in Seq(S)
        BY <3>1 DEF Heard
      <3> HIDE DEF a, b, c, S
      <3>3. (a \o b) \o c = a \o (b \o c)
        BY <3>2, ConcatAssociative
      <3> QED
        BY <1>1, <2>3, <2>5, <3>3 DEF a, b, c
    <2>8. UpWave(q, v, m, ch, two) =
             <<CounterLeft(v[1], two - q[1], Pace(q, ch)), (v[2] + Wrapped(q, v, ch, two)) % 32,
               v[3] \o WaveTaken(q, v, m, ch, two)>>
      BY <1>1, <1>6 DEF UpWave
    <2>9. UpWave(r, w, m, ch, two) =
             <<CounterLeft(w[1], two - r[1], Pace(r, ch)), (w[2] + Wrapped(r, w, ch, two)) % 32,
               w[3] \o WaveTaken(r, w, m, ch, two)>>
      BY <1>6 DEF UpWave
    <2> QED
      BY <1>1, <2>5, <2>6, <2>7, <2>8, <2>9 DEF q, v
  <1> QED
    BY <1>4, <1>5, <1>6

(* An update at the moment of the last one changes nothing.                *)
LEMMA NothingNew ==
    ASSUME NEW r \in RegisterViews, NEW w \in Waves
    PROVE  /\ UpRegisters(r, w, r[1]) = r
           /\ \A m : \A ch \in Channels : UpWave(r, w, m, ch, r[1]) = w
  <1>1. r[1] \in Nat /\ r[1] - r[1] = 0
    BY ViewParts
  <1>2. /\ w[1] \in Nat \ {0} /\ w[2] \in Positions /\ w[3] \in Heard /\ w = <<w[1], w[2], w[3]>>
    BY WaveParts
  <1>3. ASSUME NEW ch \in Channels
        PROVE  Wrapped(r, w, ch, r[1]) = 0 /\ CounterLeft(w[1], r[1] - r[1], Pace(r, ch)) = w[1]
    <2>1. PICK c \in Nat \ {0}, p \in Nat \ {0} : c = w[1] /\ p = Pace(r, ch)
      <3>1. Pace(r, ch) \in 1 .. 2048
        BY ViewParts
      <3>2. Pace(r, ch) \in Nat \ {0}
        BY <3>1, SMTT(30)
      <3> QED
        BY <1>2, <3>2, Zenon
    <2>2. WrapsIn(c, 0, p) = 0 /\ CounterLeft(c, 0, p) = c
      BY NoRun
    <2> QED
      BY <1>1, <2>1, <2>2 DEF Wrapped
  <1>4. w[3] \o <<>> = w[3] /\ (w[2] + 0) % 32 = w[2]
    <2>1. w[3] \o <<>> = w[3]
      <3> DEFINE S == Nat \X Nat
      <3>1. w[3] \in Seq(S)
        BY <1>2 DEF Heard
      <3> HIDE DEF S
      <3> QED
        BY <3>1, ConcatEmptySeq
    <2>2. (w[2] + 0) % 32 = w[2]
      BY <1>2 DEF Positions
    <2> QED
      BY <2>1, <2>2
  <1>5. ASSUME NEW m, NEW ch \in Channels PROVE UpWave(r, w, m, ch, r[1]) = w
    <2>1. WaveTaken(r, w, m, ch, r[1]) = <<>>
      BY <1>3 DEF WaveTaken
    <2>2. Noisy(r, ch) => NoiseTaken(r, w, r[1]) = <<>>
      BY <1>3 DEF NoiseTaken, Noisy
    <2> QED
      BY <1>2, <1>3, <1>4, <2>1, <2>2 DEF UpWave
  <1>6. UpPeriod(r, r[1]) = r[3] /\ UpSweep(r, r[1]) = r[5]
    <2>1. CASE ~Sweeping(r)
      BY <2>1 DEF UpPeriod, UpSweep
    <2>2. CASE Sweeping(r)
      <3>1. PICK e \in Sweepers : e = r[5]
        BY ViewParts
      <3>2. e.value \in Byte /\ e.step \in Byte /\ e.counter \in Byte /\ e.divider \in Nat \ {0}
        BY DEF Sweepers
      <3>3. PICK c \in Nat \ {0}, d \in Nat \ {0}, p \in Nat \ {0} :
               c = First(e.counter) /\ d = e.divider /\ p = e.step + 1 /\ c % 256 = e.counter
        <4>1. First(e.counter) \in 1 .. 256 /\ e.step + 1 \in 1 .. 256
          BY <3>2 DEF First, Byte
        <4>2. First(e.counter) \in Nat \ {0} /\ e.step + 1 \in Nat \ {0}
          BY <4>1
        <4>3. First(e.counter) % 256 = e.counter
          BY <3>2 DEF First, Byte
        <4> QED
          BY <3>2, <4>2, <4>3, Zenon
      <3>4. WrapsIn(d, 0, 8192) = 0 /\ CounterLeft(d, 0, 8192) = d
        <4>1. 8192 \in Nat \ {0}
          OBVIOUS
        <4> QED
          BY <4>1, NoRun
      <3>5. Ticks(r, r[1]) = 0
        BY <1>1, <3>1, <3>3, <3>4 DEF Ticks
      <3>6. WrapsIn(c, 0, p) = 0 /\ CounterLeft(c, 0, p) = c
        BY NoRun
      <3>7. UpSweep(r, r[1]) = [e EXCEPT !.divider = e.divider, !.counter = e.counter]
        <4> DEFINE a == CounterLeft(r[5].divider, r[1] - r[1], 8192)
                   b == CounterLeft(First(r[5].counter), Ticks(r, r[1]), r[5].step + 1) % 256
        <4>1. UpSweep(r, r[1]) = [r[5] EXCEPT !.divider = a, !.counter = b]
          BY <2>2 DEF UpSweep
        <4>2. a = e.divider /\ b = e.counter
          BY <1>1, <3>1, <3>3, <3>4, <3>5, <3>6
        <4> HIDE DEF a, b
        <4> QED
          BY <3>1, <4>1, <4>2
      <3>8. [e EXCEPT !.divider = e.divider, !.counter = e.counter] = e
        BY DEF Sweepers
      <3>9. r[3] \in [Channels -> Paces] /\ 2 \in Channels
        BY ViewParts DEF Channels
      <3>10. (r[3][2] + 0 * Signed(r[5].value)) % 2048 = r[3][2]
        <4>1. Signed(e.value) \in Int
          BY <3>2 DEF Signed, Byte
        <4>2. PICK s \in Int : s = Signed(r[5].value)
          BY <3>1, <4>1
        <4>3. PICK u \in 0 .. 2047 : u = r[3][2]
          BY <3>9 DEF Paces
        <4>4. (u + 0 * s) % 2048 = u
          OBVIOUS
        <4> QED
          BY <4>2, <4>3, <4>4
      <3>11. UpPeriod(r, r[1]) = [r[3] EXCEPT ![2] = r[3][2]]
        <4> DEFINE b == (r[3][2] + WrapsIn(First(r[5].counter), Ticks(r, r[1]), r[5].step + 1)
                            * Signed(r[5].value)) % 2048
        <4>1. UpPeriod(r, r[1]) = [r[3] EXCEPT ![2] = b]
          BY <2>2 DEF UpPeriod
        <4>2. b = r[3][2]
          BY <3>1, <3>3, <3>5, <3>6, <3>10
        <4> HIDE DEF b
        <4> QED
          BY <4>1, <4>2
      <3> QED
        BY <3>1, <3>7, <3>8, <3>9, <3>11
    <2> QED
      BY <2>1, <2>2
  <1>7. UpShift(r, w, r[1]) = r[8]
    <2>1. Hissing(r[8], r[7], 0)[0] = r[8]
      BY HissingIs
    <2>2. 3 \in Channels
      BY DEF Channels
    <2> QED
      BY <1>3, <2>1, <2>2 DEF UpShift
  <1>8. r = <<r[1], r[2], r[3], r[4], r[5], r[6], r[7], r[8]>>
    BY DEF RegisterViews
  <1> QED
    BY <1>5, <1>6, <1>7, <1>8 DEF UpRegisters

-----------------------------------------------------------------------------
(* Two sound chips that differ at most in what some channels play.         *)
Alike(s, t, skipped) ==
    /\ SoundRegisters(s) = SoundRegisters(t)
    /\ \A ch \in Channels \ skipped : Wave(s, ch) = Wave(t, ch)

(* The fields that are equal then.                                         *)
LEMMA AlikeFields ==
    ASSUME NEW s, NEW t, NEW skipped, Alike(s, t, skipped)
    PROVE  /\ s.last = t.last /\ s.control = t.control /\ s.period = t.period
           /\ s.table = t.table /\ s.sweep = t.sweep /\ s.noise = t.noise /\ s.tap = t.tap
           /\ s.nreg = t.nreg
           /\ \A ch \in Channels \ skipped :
                 /\ s.counter[ch] = t.counter[ch] /\ s.position[ch] = t.position[ch]
                 /\ s.heard[ch] = t.heard[ch]
  BY DEF Alike, SoundRegisters, Wave

(* Two bytes make a period of 11 bits, ...                                 *)
LEMMA PaceBytes ==
    ASSUME NEW p \in Paces, NEW byte \in Byte
    PROVE  256 * (p \div 256) + byte \in Paces /\ (p % 256) + 256 * (byte % 8) \in Paces
  <1>1. PICK a \in 0 .. 7 : a = p \div 256
    BY DEF Paces
  <1>2. PICK b \in 0 .. 255 : b = p % 256
    BY DEF Paces
  <1>3. PICK c \in 0 .. 7 : c = byte % 8
    BY DEF Byte
  <1>4. PICK d \in 0 .. 255 : d = byte
    BY DEF Byte
  <1>5. 256 * a + d \in 0 .. 2047 /\ b + 256 * c \in 0 .. 2047
    OBVIOUS
  <1> QED
    BY <1>1, <1>2, <1>3, <1>4, <1>5 DEF Paces

(* ... and a shift register of 15.                                         *)
LEMMA ShiftBytes ==
    ASSUME NEW n \in ShiftRegisters, NEW byte \in Byte
    PROVE  /\ 256 * (n \div 256) + byte \in ShiftRegisters
           /\ (n % 256) + 256 * (byte % 128) \in ShiftRegisters
  <1>1. PICK a \in 0 .. 127 : a = n \div 256
    BY DEF ShiftRegisters
  <1>2. PICK b \in 0 .. 255 : b = n % 256
    BY DEF ShiftRegisters
  <1>3. PICK c \in 0 .. 127 : c = byte % 128
    BY DEF Byte
  <1>4. PICK d \in 0 .. 255 : d = byte
    BY DEF Byte
  <1>5. 256 * a + d \in ShiftRegisters /\ b + 256 * c \in ShiftRegisters
    BY DEF ShiftRegisters
  <1> QED
    BY <1>1, <1>2, <1>3, <1>4, <1>5

(* The writes of the ports, one after the other: chips that are alike      *)
(* before one are alike behind it.                                         *)
LEMMA PeriodBytes ==
    ASSUME NEW s \in Chips, NEW ch \in Channels, NEW byte \in Byte
    PROVE  /\ PeriodLow(s, ch, byte) =
                 Tuned(s, [s.period EXCEPT ![ch] = 256 * (@ \div 256) + byte], s.sweep)
           /\ PeriodHigh(s, ch, byte) =
                 Tuned(s, [s.period EXCEPT ![ch] = (@ % 256) + 256 * (byte % 8)], s.sweep)
           /\ [s.period EXCEPT ![ch] = 256 * (@ \div 256) + byte] \in [Channels -> Paces]
           /\ [s.period EXCEPT ![ch] = (@ % 256) + 256 * (byte % 8)] \in [Channels -> Paces]
           /\ s.sweep \in Sweepers
  <1>1. s.period \in [Channels -> Paces] /\ s.sweep \in Sweepers
    BY ChipFields
  <1> DEFINE p == s.period[ch]
             x == 256 * (p \div 256) + byte
             y == (p % 256) + 256 * (byte % 8)
  <1>2. x \in Paces /\ y \in Paces
    <2>1. p \in Paces
      BY <1>1
    <2> HIDE DEF p
    <2> QED
      BY <2>1, PaceBytes
  <1>3. /\ PeriodLow(s, ch, byte) = [s EXCEPT !.period[ch] = x]
        /\ PeriodHigh(s, ch, byte) = [s EXCEPT !.period[ch] = y]
    BY DEF PeriodLow, PeriodHigh
  <1>4. /\ [s.period EXCEPT ![ch] = 256 * (@ \div 256) + byte] = [s.period EXCEPT ![ch] = x]
        /\ [s.period EXCEPT ![ch] = (@ % 256) + 256 * (byte % 8)] = [s.period EXCEPT ![ch] = y]
    OBVIOUS
  <1> HIDE DEF p, x, y
  <1>5. ASSUME NEW z PROVE [s EXCEPT !.period[ch] = z] = Tuned(s, [s.period EXCEPT ![ch] = z], s.sweep)
    BY DEF Tuned, Chips
  <1>6. ASSUME NEW z \in Paces PROVE [s.period EXCEPT ![ch] = z] \in [Channels -> Paces]
    BY <1>1
  <1> DEFINE f == [s.period EXCEPT ![ch] = x]
             g == [s.period EXCEPT ![ch] = y]
  <1>7. /\ PeriodLow(s, ch, byte) = Tuned(s, f, s.sweep) /\ f \in [Channels -> Paces]
        /\ PeriodHigh(s, ch, byte) = Tuned(s, g, s.sweep) /\ g \in [Channels -> Paces]
    BY <1>2, <1>3, <1>5, <1>6
  <1>8. /\ [s.period EXCEPT ![ch] = 256 * (@ \div 256) + byte] = f
        /\ [s.period EXCEPT ![ch] = (@ % 256) + 256 * (byte % 8)] = g
    BY <1>4
  <1> HIDE DEF f, g
  <1> QED
    BY <1>1, <1>7, <1>8

LEMMA PeriodsAlike ==
    ASSUME NEW s \in Chips, NEW t \in Chips, NEW skipped, Alike(s, t, skipped),
           NEW ch \in Channels, NEW byte \in Byte
    PROVE  /\ PeriodLow(s, ch, byte) \in Chips /\ PeriodHigh(s, ch, byte) \in Chips
           /\ Alike(PeriodLow(s, ch, byte), PeriodLow(t, ch, byte), skipped)
           /\ Alike(PeriodHigh(s, ch, byte), PeriodHigh(t, ch, byte), skipped)
  <1>1. /\ s.last = t.last /\ s.control = t.control /\ s.period = t.period
        /\ s.table = t.table /\ s.sweep = t.sweep /\ s.noise = t.noise /\ s.tap = t.tap
        /\ s.nreg = t.nreg
    BY AlikeFields
  <1> DEFINE x == [s.period EXCEPT ![ch] = 256 * (@ \div 256) + byte]
             y == [s.period EXCEPT ![ch] = (@ % 256) + 256 * (byte % 8)]
             q == s.sweep
  <1>2. /\ PeriodLow(s, ch, byte) = Tuned(s, x, q) /\ PeriodLow(t, ch, byte) = Tuned(t, x, q)
        /\ PeriodHigh(s, ch, byte) = Tuned(s, y, q) /\ PeriodHigh(t, ch, byte) = Tuned(t, y, q)
        /\ x \in [Channels -> Paces] /\ y \in [Channels -> Paces] /\ q \in Sweepers
    BY <1>1, PeriodBytes
  <1> HIDE DEF x, y, q
  <1>3. ASSUME NEW p \in [Channels -> Paces]
        PROVE  Tuned(s, p, q) \in Chips /\ Alike(Tuned(s, p, q), Tuned(t, p, q), skipped)
    BY <1>1, <1>2, TunedIs DEF Alike
  <1> QED
    BY <1>2, <1>3

LEMMA SweepsAlike ==
    ASSUME NEW s \in Chips, NEW t \in Chips, NEW skipped, Alike(s, t, skipped), NEW byte \in Byte
    PROVE  /\ SweepValue(s, byte) \in Chips /\ SweepStep(s, byte) \in Chips
           /\ Alike(SweepValue(s, byte), SweepValue(t, byte), skipped)
           /\ Alike(SweepStep(s, byte), SweepStep(t, byte), skipped)
           /\ SweepValue(s, byte).last = s.last /\ SweepStep(s, byte).last = s.last
  <1>1. /\ s.last = t.last /\ s.control = t.control /\ s.period = t.period
        /\ s.table = t.table /\ s.sweep = t.sweep /\ s.noise = t.noise /\ s.tap = t.tap
        /\ s.nreg = t.nreg
    BY AlikeFields
  <1>2. s.period \in [Channels -> Paces] /\ s.sweep \in Sweepers
    BY ChipFields
  <1> DEFINE x == [s.sweep EXCEPT !.value = byte]
             y == [value |-> s.sweep.value, step |-> byte, counter |-> (byte + 1) % 256,
                   divider |-> 8192]
             p == s.period
  <1>3. x \in Sweepers /\ y \in Sweepers
    <2>1. (byte + 1) % 256 \in Byte /\ 8192 \in Nat \ {0}
      BY DEF Byte
    <2>2. s.sweep.value \in Byte
      BY <1>2 DEF Sweepers
    <2> QED
      BY <1>2, <2>1, <2>2 DEF Sweepers
  <1>4. ASSUME NEW u \in Chips, u.sweep = s.sweep, u.period = s.period
        PROVE  SweepValue(u, byte) = Tuned(u, p, x) /\ SweepStep(u, byte) = Tuned(u, p, y)
    <2>1. SweepValue(u, byte) = [u EXCEPT !.sweep = x]
      BY <1>4 DEF SweepValue, Chips
    <2>2. SweepStep(u, byte) = [u EXCEPT !.sweep = y]
      BY <1>4 DEF SweepStep, Chips
    <2> HIDE DEF x, y
    <2> QED
      BY <1>4, <2>1, <2>2 DEF Tuned, Chips
  <1>5. /\ SweepValue(s, byte) = Tuned(s, p, x) /\ SweepStep(s, byte) = Tuned(s, p, y)
        /\ SweepValue(t, byte) = Tuned(t, p, x) /\ SweepStep(t, byte) = Tuned(t, p, y)
    BY <1>1, <1>4
  <1> HIDE DEF x, y, p
  <1>6. ASSUME NEW q \in Sweepers
        PROVE  Tuned(s, p, q) \in Chips /\ Alike(Tuned(s, p, q), Tuned(t, p, q), skipped)
    BY <1>1, <1>2, TunedIs DEF Alike, p
  <1>7. ASSUME NEW q PROVE Tuned(s, p, q).last = s.last
    BY DEF Tuned, Chips
  <1> QED
    BY <1>3, <1>5, <1>6, <1>7

(* The noise control.                                                      *)
Hushed(s, tap, on, x) == [s EXCEPT !.tap = tap, !.noise = on, !.nreg = x]
LEMMA HushedIs ==
    ASSUME NEW s \in Chips, NEW tap \in Taken3, NEW on \in BOOLEAN, NEW x \in ShiftRegisters
    PROVE  /\ Hushed(s, tap, on, x) \in Chips
           /\ SoundRegisters(Hushed(s, tap, on, x)) =
                <<s.last, s.control, s.period, s.table, s.sweep, on, tap, x>>
           /\ \A ch \in Channels : Wave(Hushed(s, tap, on, x), ch) = Wave(s, ch)
  BY DEF Chips, SoundRegisters, Wave, Hushed

LEMMA NoisesAlike ==
    ASSUME NEW s \in Chips, NEW t \in Chips, NEW skipped, Alike(s, t, skipped),
           NEW tap \in 0 .. 7, NEW clear \in BOOLEAN, NEW on \in BOOLEAN
    PROVE  /\ NoiseControl(s, tap, clear, on) \in Chips
           /\ Alike(NoiseControl(s, tap, clear, on), NoiseControl(t, tap, clear, on), skipped)
  <1>1. /\ s.last = t.last /\ s.control = t.control /\ s.period = t.period
        /\ s.table = t.table /\ s.sweep = t.sweep /\ s.nreg = t.nreg
    BY AlikeFields
  <1> DEFINE x == IF clear THEN 0 ELSE s.nreg
  <1>2. x \in ShiftRegisters /\ tap \in Taken3
    <2>1. 0 \in ShiftRegisters
      BY DEF ShiftRegisters
    <2>2. s.nreg \in ShiftRegisters
      BY ChipFields
    <2>3. tap \in Taken3
      BY DEF Taken3
    <2> QED
      BY <2>1, <2>2, <2>3
  <1>3. /\ NoiseControl(s, tap, clear, on) = Hushed(s, tap, on, x)
        /\ NoiseControl(t, tap, clear, on) = Hushed(t, tap, on, x)
    BY <1>1 DEF NoiseControl, Hushed, Chips
  <1> HIDE DEF x
  <1>4. /\ Hushed(s, tap, on, x) \in Chips
        /\ Alike(Hushed(s, tap, on, x), Hushed(t, tap, on, x), skipped)
    BY <1>1, <1>2, HushedIs DEF Alike
  <1> QED
    BY <1>3, <1>4

LEMMA ShiftsAlike ==
    ASSUME NEW s \in Chips, NEW t \in Chips, NEW skipped, Alike(s, t, skipped), NEW byte \in Byte
    PROVE  /\ ShiftLow(s, byte) \in Chips /\ ShiftHigh(s, byte) \in Chips
           /\ Alike(ShiftLow(s, byte), ShiftLow(t, byte), skipped)
           /\ Alike(ShiftHigh(s, byte), ShiftHigh(t, byte), skipped)
  <1>1. /\ s.last = t.last /\ s.control = t.control /\ s.period = t.period
        /\ s.table = t.table /\ s.sweep = t.sweep /\ s.noise = t.noise /\ s.tap = t.tap
        /\ s.nreg = t.nreg
    BY AlikeFields
  <1> DEFINE n == s.nreg
             x == 256 * (n \div 256) + byte
             y == (n % 256) + 256 * (byte % 128)
  <1>2. x \in ShiftRegisters /\ y \in ShiftRegisters
    <2>1. n \in ShiftRegisters
      BY ChipFields
    <2> HIDE DEF n
    <2> QED
      BY <2>1, ShiftBytes
  <1>3. /\ ShiftLow(s, byte) = Stirred(s, x) /\ ShiftHigh(s, byte) = Stirred(s, y)
        /\ ShiftLow(t, byte) = Stirred(t, x) /\ ShiftHigh(t, byte) = Stirred(t, y)
    BY <1>1 DEF ShiftLow, ShiftHigh, Stirred
  <1> HIDE DEF n, x, y
  <1>6. ASSUME NEW z \in ShiftRegisters
        PROVE  Stirred(s, z) \in Chips /\ Alike(Stirred(s, z), Stirred(t, z), skipped)
    BY <1>1, StirredIs DEF Alike
  <1> QED
    BY <1>2, <1>3, <1>6

LEMMA TablesAlike ==
    ASSUME NEW s \in Chips, NEW t \in Chips, NEW skipped, Alike(s, t, skipped), NEW byte \in Byte
    PROVE  /\ Table(s, byte) \in Chips
           /\ Alike(Table(s, byte), Table(t, byte), skipped)
  <1>1. /\ s.last = t.last /\ s.control = t.control /\ s.period = t.period
        /\ s.table = t.table /\ s.sweep = t.sweep /\ s.noise = t.noise /\ s.tap = t.tap
        /\ s.nreg = t.nreg
    BY AlikeFields
  <1>2. ASSUME NEW u \in Chips
        PROVE  /\ Table(u, byte) \in Chips
               /\ SoundRegisters(Table(u, byte)) =
                    <<u.last, u.control, u.period, byte, u.sweep, u.noise, u.tap, u.nreg>>
               /\ \A ch \in Channels : Wave(Table(u, byte), ch) = Wave(u, ch)
    BY DEF Table, Chips, SoundRegisters, Wave
  <1> QED
    BY <1>1, <1>2 DEF Alike

(* The control port, which starts channels.                                *)
Started(s, bits, c, p) == [s EXCEPT !.control = bits, !.counter = c, !.position = p]
LEMMA StartedIs ==
    ASSUME NEW s \in Chips, NEW bits \in SUBSET (0 .. 7), NEW c \in [Channels -> Nat \ {0}],
           NEW p \in [Channels -> Positions]
    PROVE  /\ Started(s, bits, c, p) \in Chips
           /\ SoundRegisters(Started(s, bits, c, p)) =
                <<s.last, bits, s.period, s.table, s.sweep, s.noise, s.tap, s.nreg>>
           /\ \A ch \in Channels :
                 Wave(Started(s, bits, c, p), ch) = <<c[ch], p[ch], s.heard[ch]>>
  BY DEF Started, Chips, SoundRegisters, Wave

LEMMA ControlsAlike ==
    ASSUME NEW s \in Chips, NEW t \in Chips, NEW skipped, Alike(s, t, skipped),
           NEW bits \in SUBSET (0 .. 7)
    PROVE  /\ Control(s, bits) \in Chips
           /\ Alike(Control(s, bits), Control(t, bits), skipped)
  <1>1. /\ s.last = t.last /\ s.control = t.control /\ s.period = t.period
        /\ s.table = t.table /\ s.sweep = t.sweep /\ s.noise = t.noise /\ s.tap = t.tap
        /\ s.nreg = t.nreg
        /\ \A ch \in Channels \ skipped :
              /\ s.counter[ch] = t.counter[ch] /\ s.position[ch] = t.position[ch]
              /\ s.heard[ch] = t.heard[ch]
    BY AlikeFields
  <1> DEFINE starts == (bits \ s.control) \cap Channels
             C(u) == [ch \in Channels |-> IF ch \in starts THEN 1 ELSE u.counter[ch]]
             P(u) == [ch \in Channels |-> IF ch \in starts THEN 31 ELSE u.position[ch]]
  <1>2. ASSUME NEW u \in Chips, u.control = s.control
        PROVE  Control(u, bits) = Started(u, bits, C(u), P(u))
    BY <1>2 DEF Control, Started, Chips
  <1>3. ASSUME NEW u \in Chips PROVE C(u) \in [Channels -> Nat \ {0}] /\ P(u) \in [Channels -> Positions]
    <2>1. u.counter \in [Channels -> Nat \ {0}] /\ u.position \in [Channels -> Positions]
      BY ChipFields
    <2>2. 1 \in Nat \ {0} /\ 31 \in Positions
      BY DEF Positions
    <2> HIDE DEF starts
    <2> QED
      BY <2>1, <2>2
  <1>4. \A ch \in Channels \ skipped : C(s)[ch] = C(t)[ch] /\ P(s)[ch] = P(t)[ch]
    BY <1>1
  <1> HIDE DEF C, P, starts
  <1> DEFINE cs == C(s)
             ps == P(s)
             ct == C(t)
             pt == P(t)
             x == Control(s, bits)
             y == Control(t, bits)
  <1>5. /\ x = Started(s, bits, cs, ps) /\ y = Started(t, bits, ct, pt)
        /\ cs \in [Channels -> Nat \ {0}] /\ ps \in [Channels -> Positions]
        /\ ct \in [Channels -> Nat \ {0}] /\ pt \in [Channels -> Positions]
    BY <1>1, <1>2, <1>3
  <1>10. \A ch \in Channels \ skipped : cs[ch] = ct[ch] /\ ps[ch] = pt[ch]
    BY <1>4
  <1> HIDE DEF cs, ps, ct, pt, x, y
  <1>6. /\ x \in Chips
        /\ SoundRegisters(x) = <<s.last, bits, s.period, s.table, s.sweep, s.noise, s.tap, s.nreg>>
        /\ \A ch \in Channels : Wave(x, ch) = <<cs[ch], ps[ch], s.heard[ch]>>
    BY <1>5, StartedIs
  <1>7. /\ y \in Chips
        /\ SoundRegisters(y) = <<t.last, bits, t.period, t.table, t.sweep, t.noise, t.tap, t.nreg>>
        /\ \A ch \in Channels : Wave(y, ch) = <<ct[ch], pt[ch], t.heard[ch]>>
    BY <1>5, StartedIs
  <1>8. SoundRegisters(x) = SoundRegisters(y)
    BY <1>1, <1>6, <1>7
  <1>9. ASSUME NEW ch \in Channels \ skipped PROVE Wave(x, ch) = Wave(y, ch)
    BY <1>1, <1>10, <1>6, <1>7
  <1> QED
    BY <1>6, <1>8, <1>9 DEF Alike, x, y

(* Chips that are alike are alike after any change of a program.           *)
LEMMA ChangesAlike ==
    ASSUME NEW s \in Chips, NEW t \in Chips, NEW skipped, Alike(s, t, skipped),
           NEW change \in Changes
    PROVE  /\ Changed(s, change) \in Chips
           /\ Alike(Changed(s, change), Changed(t, change), skipped)
           /\ Changed(s, change).last = s.last
  <1>1. 255 \in Byte /\ 252 \in Byte /\ 1 \in Byte /\ 128 \in Byte /\ 0 \in Channels
    BY DEF Byte, Channels
  <1>2. /\ {0, 3} \in SUBSET (0 .. 7) /\ {0, 3, NOISE} \in SUBSET (0 .. 7)
        /\ {2, SWEEP} \in SUBSET (0 .. 7) /\ {1, VOICE} \in SUBSET (0 .. 7)
    BY DEF NOISE, SWEEP, VOICE
  <1>3. /\ Changed(s, change) \in Chips
        /\ Alike(Changed(s, change), Changed(t, change), skipped)
    <2>1. CASE change \in {"wave", "noise", "sweep", "off"}
      BY <1>2, <2>1, ControlsAlike DEF Changed
    <2>2. CASE change \in {"high", "low"}
      <3>1. /\ PeriodHigh(s, 0, 255) \in Chips /\ PeriodLow(s, 0, 252) \in Chips
            /\ Alike(PeriodHigh(s, 0, 255), PeriodHigh(t, 0, 255), skipped)
            /\ Alike(PeriodLow(s, 0, 252), PeriodLow(t, 0, 252), skipped)
        BY <1>1, PeriodsAlike
      <3> QED
        BY <2>2, <3>1 DEF Changed
    <2>3. CASE change \in {"value", "step"}
      <3>1. /\ SweepValue(s, 255) \in Chips /\ SweepStep(s, 1) \in Chips
            /\ Alike(SweepValue(s, 255), SweepValue(t, 255), skipped)
            /\ Alike(SweepStep(s, 1), SweepStep(t, 1), skipped)
        BY <1>1, SweepsAlike
      <3> QED
        BY <2>3, <3>1 DEF Changed
    <2>4. CASE change = "tap"
      <3>1. 3 \in 0 .. 7 /\ TRUE \in BOOLEAN
        OBVIOUS
      <3>2. /\ NoiseControl(s, 3, TRUE, TRUE) \in Chips
            /\ Alike(NoiseControl(s, 3, TRUE, TRUE), NoiseControl(t, 3, TRUE, TRUE), skipped)
        BY <3>1, NoisesAlike, Zenon
      <3> QED
        BY <2>4, <3>2 DEF Changed
    <2>5. CASE change = "table"
      BY <1>1, <2>5, TablesAlike DEF Changed
    <2>6. CASE change = "shift"
      <3> DEFINE a == ShiftHigh(s, 255)
                 b == ShiftHigh(t, 255)
      <3>1. Alike(t, s, skipped)
        BY DEF Alike
      <3>2. a \in Chips /\ b \in Chips /\ Alike(a, b, skipped)
        BY <1>1, <3>1, ShiftsAlike
      <3> HIDE DEF a, b
      <3>3. ShiftLow(a, 128) \in Chips /\ Alike(ShiftLow(a, 128), ShiftLow(b, 128), skipped)
        BY <1>1, <3>2, ShiftsAlike
      <3> QED
        BY <2>6, <3>3 DEF Changed, a, b
    <2>7. CASE change = "read"
      BY <2>7 DEF Changed
    <2> QED
      BY <2>1, <2>2, <2>3, <2>4, <2>5, <2>6, <2>7 DEF Changes
  <1>4. Changed(s, change).last = s.last
    <2>1. CASE change \in {"wave", "noise", "sweep", "off"}
      BY <2>1 DEF Changed, Control, Chips
    <2>2. CASE change \in {"high", "low"}
      BY <2>2 DEF Changed, PeriodHigh, PeriodLow, Chips
    <2>3. CASE change \in {"value", "step"}
      <3>1. SweepValue(s, 255).last = s.last /\ SweepStep(s, 1).last = s.last
        BY <1>1, SweepsAlike
      <3> QED
        BY <2>3, <3>1 DEF Changed
    <2>4. CASE change \in {"tap", "table", "shift", "read"}
      BY <2>4 DEF Changed, NoiseControl, Table, ShiftLow, ShiftHigh, Chips
    <2> QED
      BY <2>1, <2>2, <2>3, <2>4 DEF Changes
  <1> QED
    BY <1>3, <1>4

-----------------------------------------------------------------------------
(* Updates of chips that are alike, twice over, and of one that is up to   *)
(* date.                                                                   *)
LEMMA SweepsIs ==
    ASSUME NEW s
    PROVE  Sweeps(s) = Sweeping(SoundRegisters(s))
  BY DEF Sweeps, Sweeping, SoundRegisters

(* Chips that are alike are so when both are caught up.                    *)
LEMMA UpdatesAlike ==
    ASSUME NEW s \in Chips, NEW t \in Chips, NEW skipped, Alike(s, t, skipped), 3 \notin skipped,
           NEW m, Audible(m), NEW till \in Nat, s.last <= till
    PROVE  Alike(SoundUpdate(s, m, till), SoundUpdate(t, m, till), skipped)
  <1>1. t.last = s.last /\ 3 \in Channels
    BY AlikeFields DEF Channels
  <1>2. /\ SoundRegisters(s) = SoundRegisters(t) /\ Wave(s, 3) = Wave(t, 3)
        /\ \A ch \in Channels \ skipped : Wave(s, ch) = Wave(t, ch)
    BY <1>1 DEF Alike
  <1>3. /\ SoundRegisters(SoundUpdate(s, m, till)) = UpRegisters(SoundRegisters(s), Wave(s, 3), till)
        /\ \A ch \in Channels : Wave(SoundUpdate(s, m, till), ch) =
                                   UpWave(SoundRegisters(s), Wave(s, ch), m, ch, till)
    BY UpdateIs
  <1>4. /\ SoundRegisters(SoundUpdate(t, m, till)) = UpRegisters(SoundRegisters(t), Wave(t, 3), till)
        /\ \A ch \in Channels : Wave(SoundUpdate(t, m, till), ch) =
                                   UpWave(SoundRegisters(t), Wave(t, ch), m, ch, till)
    BY <1>1, UpdateIs
  <1> QED
    BY <1>2, <1>3, <1>4 DEF Alike

(* A chip that is up to date is not changed by an update.                  *)
LEMMA UpdateAgain ==
    ASSUME NEW s \in Chips, NEW m, Audible(m)
    PROVE  /\ SoundUpdate(s, m, s.last) \in Chips
           /\ SoundUpdate(s, m, s.last).last = s.last
           /\ Alike(SoundUpdate(s, m, s.last), s, {})
  <1> DEFINE r == SoundRegisters(s)
  <1>1. s.last \in Nat /\ 3 \in Channels /\ r[1] = s.last
    BY ChipFields DEF Channels, SoundRegisters
  <1>2. r \in RegisterViews /\ \A ch \in Channels : Wave(s, ch) \in Waves
    BY Views
  <1>3. /\ SoundUpdate(s, m, s.last) \in Chips
        /\ SoundUpdate(s, m, s.last).last = s.last
        /\ SoundRegisters(SoundUpdate(s, m, s.last)) = UpRegisters(r, Wave(s, 3), s.last)
        /\ \A ch \in Channels : Wave(SoundUpdate(s, m, s.last), ch) =
                                   UpWave(r, Wave(s, ch), m, ch, s.last)
    BY <1>1, UpdateIs
  <1> HIDE DEF r
  <1>4. UpRegisters(r, Wave(s, 3), s.last) = r
    BY <1>1, <1>2, NothingNew
  <1>5. ASSUME NEW ch \in Channels PROVE UpWave(r, Wave(s, ch), m, ch, s.last) = Wave(s, ch)
    BY <1>1, <1>2, NothingNew
  <1> QED
    BY <1>3, <1>4, <1>5 DEF Alike, r

(* A chip caught up twice is like the chip caught up once, but for a       *)
(* sweep.                                                                  *)
LEMMA UpdateTwice ==
    ASSUME NEW s \in Chips, NEW m, Audible(m), NEW one \in Nat, NEW two \in Nat, s.last <= one,
           one <= two, NEW skipped, Sweeps(s) => 2 \in skipped
    PROVE  Alike(SoundUpdate(SoundUpdate(s, m, one), m, two), SoundUpdate(s, m, two), skipped)
  <1> DEFINE r == SoundRegisters(s)
             t == SoundUpdate(s, m, one)
             w3 == Wave(s, 3)
             v == SoundUpdate(t, m, two)
             u == SoundUpdate(s, m, two)
  <1>1. 3 \in Channels /\ r[1] = s.last /\ r \in RegisterViews
        /\ \A ch \in Channels : Wave(s, ch) \in Waves
    BY Views DEF Channels, SoundRegisters
  <1>2. /\ t \in Chips /\ t.last = one /\ SoundRegisters(t) = UpRegisters(r, w3, one)
        /\ \A ch \in Channels : Wave(t, ch) = UpWave(r, Wave(s, ch), m, ch, one)
    BY UpdateIs
  <1>3. s.last \in Nat /\ s.last <= two
    BY ChipFields
  <1>4. /\ SoundRegisters(u) = UpRegisters(r, w3, two)
        /\ \A ch \in Channels : Wave(u, ch) = UpWave(r, Wave(s, ch), m, ch, two)
    BY <1>3, UpdateIs
  <1> HIDE DEF t, u, r
  <1>5. /\ SoundRegisters(v) = UpRegisters(SoundRegisters(t), Wave(t, 3), two)
        /\ \A ch \in Channels : Wave(v, ch) = UpWave(SoundRegisters(t), Wave(t, ch), m, ch, two)
    BY <1>2, UpdateIs
  <1> HIDE DEF v, w3
  <1>6. w3 \in Waves /\ Wave(t, 3) = UpWave(r, w3, m, 3, one)
    BY <1>1, <1>2 DEF w3
  <1>7. SoundRegisters(v) = SoundRegisters(u)
    <2>1. UpRegisters(UpRegisters(r, w3, one), UpWave(r, w3, m, 3, one), two) =
              UpRegisters(r, w3, two)
      BY <1>1, <1>6, RegistersSplit
    <2> QED
      BY <1>2, <1>4, <1>5, <1>6, <2>1
  <1>8. ASSUME NEW ch \in Channels \ skipped PROVE Wave(v, ch) = Wave(u, ch)
    <2> DEFINE w == Wave(s, ch)
    <2>1. w \in Waves /\ (ch = 3 => w = w3)
      BY <1>1 DEF w3
    <2>2. ch # 2 \/ ~Sweeping(r)
      BY <1>8, SweepsIs DEF r
    <2>3. Wave(t, ch) = UpWave(r, w, m, ch, one) /\ Wave(u, ch) = UpWave(r, w, m, ch, two)
          /\ Wave(v, ch) = UpWave(SoundRegisters(t), Wave(t, ch), m, ch, two)
      BY <1>2, <1>4, <1>5
    <2> HIDE DEF w
    <2>4. UpWave(UpRegisters(r, w3, one), UpWave(r, w, m, ch, one), m, ch, two) =
              UpWave(r, w, m, ch, two)
      BY <1>1, <1>6, <2>1, <2>2, WavesSplit
    <2> QED
      BY <1>2, <2>3, <2>4
  <1> QED
    BY <1>7, <1>8 DEF Alike, t, u, v

(* A byte that is not in the wave table is not heard.                      *)
LEMMA OtherBytes ==
    ASSUME NEW s \in Chips, NEW m, Audible(m), NEW a \in Nat, NEW byte \in Byte,
           a \div 64 # s.table, NEW till \in Nat, s.last <= till
    PROVE  /\ Audible(Put(m, a, byte))
           /\ Alike(SoundUpdate(s, Put(m, a, byte), till), SoundUpdate(s, m, till), {})
  <1> DEFINE n == Put(m, a, byte)
             r == SoundRegisters(s)
  <1>1. \A x : At(n, x) = IF x = a THEN byte ELSE At(m, x)
    BY PutIs
  <1> HIDE DEF n
  <1>2. Audible(n)
    BY <1>1 DEF Audible
  <1>3. r \in RegisterViews /\ r[4] = s.table /\ s.table \in Byte
        /\ \A ch \in Channels : Wave(s, ch) \in Waves
    BY Views, ChipFields DEF SoundRegisters
  <1>4. ASSUME NEW ch \in Channels, NEW p \in Positions
        PROVE  Sample([table |-> r[4]], n, ch, p) = Sample([table |-> r[4]], m, ch, p)
    <2>1. PICK table \in Byte : table = r[4]
      BY <1>3
    <2> DEFINE x == 64 * table + 16 * ch + (p \div 2)
    <2>2. p \div 2 \in 0 .. 15 /\ table \in Nat /\ ch \in 0 .. 3
      BY DEF Positions, Byte, Channels
    <2>3. x \div 64 = table
      BY <2>2
    <2>4. Sample([table |-> table], n, ch, p) = IF p % 2 = 1 THEN At(n, x) \div 16 ELSE At(n, x) % 16
      BY DEF Sample
    <2>5. Sample([table |-> table], m, ch, p) = IF p % 2 = 1 THEN At(m, x) \div 16 ELSE At(m, x) % 16
      BY DEF Sample
    <2> HIDE DEF x
    <2>6. At(n, x) = At(m, x)
      BY <1>1, <1>3, <2>1, <2>3
    <2> QED
      BY <2>1, <2>4, <2>5, <2>6
  <1>5. ASSUME NEW ch \in Channels, NEW w \in Waves
        PROVE  UpWave(r, w, n, ch, till) = UpWave(r, w, m, ch, till)
    <2>1. WaveTaken(r, w, n, ch, till) = WaveTaken(r, w, m, ch, till)
      <3>1. PICK p \in 0 .. 31 : p = w[2]
        BY WaveParts DEF Positions
      <3>2. Wrapped(r, w, ch, till) \in Nat
        <4>1. r[1] <= till
          BY DEF SoundRegisters
        <4> HIDE DEF r
        <4> QED
          BY <1>3, <4>1, WaveTakenTyped
      <3> HIDE DEF r
      <3>3. ASSUME NEW i \in 1 .. Wrapped(r, w, ch, till)
            PROVE  Sample([table |-> r[4]], n, ch, (w[2] + i) % 32) =
                      Sample([table |-> r[4]], m, ch, (w[2] + i) % 32)
        <4>1. (p + i) % 32 \in Positions
          BY <3>2 DEF Positions
        <4> QED
          BY <1>4, <3>1, <4>1
      <3> QED
        BY <3>3 DEF WaveTaken
    <2> QED
      BY <2>1 DEF UpWave
  <1>6. /\ SoundRegisters(SoundUpdate(s, n, till)) = UpRegisters(r, Wave(s, 3), till)
        /\ \A ch \in Channels : Wave(SoundUpdate(s, n, till), ch) =
                                   UpWave(r, Wave(s, ch), n, ch, till)
    BY <1>2, UpdateIs
  <1>7. /\ SoundRegisters(SoundUpdate(s, m, till)) = UpRegisters(r, Wave(s, 3), till)
        /\ \A ch \in Channels : Wave(SoundUpdate(s, m, till), ch) =
                                   UpWave(r, Wave(s, ch), m, ch, till)
    BY UpdateIs
  <1> HIDE DEF r
  <1>8. ASSUME NEW ch \in Channels
        PROVE  Wave(SoundUpdate(s, n, till), ch) = Wave(SoundUpdate(s, m, till), ch)
    BY <1>3, <1>5, <1>6, <1>7
  <1> QED
    BY <1>2, <1>6, <1>7, <1>8 DEF Alike, n

(* A frame's end.                                                          *)
Flushed(s) == [s EXCEPT !.last = 0, !.heard = [ch \in Channels |-> <<>>]]
(* The time goes back to 0, and what was heard is handed out.              *)
LEMMA FlushedIs ==
    ASSUME NEW s \in Chips
    PROVE  /\ Flushed(s) \in Chips /\ Flushed(s).last = 0
           /\ SoundRegisters(Flushed(s)) =
                <<0, s.control, s.period, s.table, s.sweep, s.noise, s.tap, s.nreg>>
           /\ \A ch \in Channels : Wave(Flushed(s), ch) = <<s.counter[ch], s.position[ch], <<>> >>
  <1> DEFINE none == [ch \in Channels |-> <<>>]
  <1>1. none \in [Channels -> Heard]
    BY DEF Heard
  <1>2. \A ch \in Channels : none[ch] = <<>>
    OBVIOUS
  <1> HIDE DEF none
  <1>3. Flushed(s) = [s EXCEPT !.last = 0, !.heard = none]
    BY DEF Flushed, none
  <1>4. 0 \in Nat
    OBVIOUS
  <1> DEFINE t == [s EXCEPT !.last = 0, !.heard = none]
  <1>5. t \in Chips /\ t.last = 0
    BY <1>1, <1>4 DEF Chips
  <1>6. SoundRegisters(t) = <<0, s.control, s.period, s.table, s.sweep, s.noise, s.tap, s.nreg>>
    BY DEF Chips, SoundRegisters
  <1>7. ASSUME NEW ch \in Channels PROVE Wave(t, ch) = <<s.counter[ch], s.position[ch], <<>> >>
    BY <1>2 DEF Chips, Wave
  <1> QED
    BY <1>3, <1>5, <1>6, <1>7

LEMMA FlushesAlike ==
    ASSUME NEW s \in Chips, NEW t \in Chips, NEW skipped, Alike(s, t, skipped)
    PROVE  Alike(Flushed(s), Flushed(t), skipped)
  <1>1. /\ s.control = t.control /\ s.period = t.period
        /\ s.table = t.table /\ s.sweep = t.sweep /\ s.noise = t.noise /\ s.tap = t.tap
        /\ s.nreg = t.nreg
        /\ \A ch \in Channels \ skipped :
              s.counter[ch] = t.counter[ch] /\ s.position[ch] = t.position[ch]
    BY AlikeFields
  <1>2. SoundRegisters(Flushed(s)) = SoundRegisters(Flushed(t))
    BY <1>1, FlushedIs
  <1>3. ASSUME NEW ch \in Channels \ skipped PROVE Wave(Flushed(s), ch) = Wave(Flushed(t), ch)
    <2>1. Wave(Flushed(s), ch) = <<s.counter[ch], s.position[ch], <<>> >>
      BY FlushedIs
    <2>2. Wave(Flushed(t), ch) = <<t.counter[ch], t.position[ch], <<>> >>
      BY FlushedIs
    <2> QED
      BY <1>1, <2>1, <2>2
  <1> QED
    BY <1>2, <1>3 DEF Alike

-----------------------------------------------------------------------------
(* The chips of WsPrograms, from one step to the next.  Apart is the       *)
(* channel a sweep sets apart.                                             *)
Apart == IF swept THEN {2} ELSE {}
InStep(s, t, m, n, skipped) ==
    /\ s \in Chips /\ t \in Chips /\ Audible(m) /\ n \in Nat /\ s.last <= n
    /\ Sweeps(s) => 2 \in skipped
    /\ 3 \notin skipped
    /\ Alike(SoundUpdate(s, m, n), t, skipped)
TunesInv ==
    program = "tunes" => /\ InStep(sound, eager, mem, now, Apart)
                         /\ left \in Int /\ ~halted

(* An update does not switch the sweep on or off.                          *)
LEMMA SweepsKept ==
    ASSUME NEW s \in Chips, NEW m, Audible(m), NEW till \in Nat, s.last <= till
    PROVE  Sweeps(SoundUpdate(s, m, till)) = Sweeps(s)
  <1>1. /\ SoundRegisters(SoundUpdate(s, m, till)) = UpRegisters(SoundRegisters(s), Wave(s, 3), till)
        /\ SoundRegisters(s) \in RegisterViews /\ Wave(s, 3) \in Waves
        /\ SoundRegisters(s)[1] = s.last /\ 3 \in Channels
    BY UpdateIs, Views DEF SoundRegisters, Channels
  <1> DEFINE r == SoundRegisters(s)
             w == Wave(s, 3)
  <1>2. r \in RegisterViews /\ w \in Waves /\ r[1] <= till /\ 3 \in Channels
    BY <1>1
  <1> HIDE DEF r, w
  <1>3. Sweeping(UpRegisters(r, w, till)) = Sweeping(r)
    BY <1>2, PacesStay
  <1> QED
    BY <1>1, <1>3, SweepsIs DEF r, w

(* The chip catches up, and the memory may then change.                    *)
LEMMA CaughtInStep ==
    ASSUME NEW s, NEW t, NEW m, NEW n, NEW skipped, InStep(s, t, m, n, skipped),
           NEW mem2, Audible(mem2)
    PROVE  InStep(SoundUpdate(s, m, n), t, mem2, n, skipped)
  <1> DEFINE c == SoundUpdate(s, m, n)
  <1>1. c \in Chips /\ c.last = n /\ Sweeps(c) = Sweeps(s)
    BY UpdateIs, SweepsKept DEF InStep
  <1> HIDE DEF c
  <1>2. Alike(SoundUpdate(c, mem2, n), c, {})
    BY <1>1, UpdateAgain
  <1>3. Alike(c, t, skipped)
    BY DEF InStep, c
  <1>4. Alike(SoundUpdate(c, mem2, n), t, skipped)
    BY <1>2, <1>3 DEF Alike
  <1>5. InStep(c, t, mem2, n, skipped)
    BY <1>1, <1>4 DEF InStep
  <1> QED
    BY <1>5 DEF c

(* A register changes, between two updates.                                *)
LEMMA ChangedInStep ==
    ASSUME NEW s, NEW t, NEW m, NEW n, NEW skipped, InStep(s, t, m, n, skipped),
           NEW change \in Changes, NEW more,
           LET new == SoundUpdate(Changed(SoundUpdate(s, m, n), change), m, n)
           IN  more = IF Sweeps(new) THEN skipped \cup {2} ELSE skipped
    PROVE  InStep(SoundUpdate(Changed(SoundUpdate(s, m, n), change), m, n), Changed(t, change),
                  m, n, more)
  <1> DEFINE c == SoundUpdate(s, m, n)
             d == Changed(c, change)
             e == SoundUpdate(d, m, n)
  <1>1. c \in Chips /\ c.last = n /\ t \in Chips /\ Audible(m) /\ n \in Nat /\ 3 \notin skipped
    BY UpdateIs DEF InStep
  <1>2. Alike(c, t, skipped) /\ Alike(t, c, skipped)
    BY DEF InStep, Alike
  <1>3. more = IF Sweeps(e) THEN skipped \cup {2} ELSE skipped
    OBVIOUS
  <1> HIDE DEF c
  <1>4. /\ d \in Chips /\ Alike(d, Changed(t, change), skipped) /\ d.last = n
        /\ Changed(t, change) \in Chips
    BY <1>1, <1>2, ChangesAlike
  <1> HIDE DEF d
  <1>5. e \in Chips /\ e.last = n /\ Alike(e, d, {})
    BY <1>1, <1>4, UpdateAgain
  <1> HIDE DEF e
  <1>6. Alike(SoundUpdate(e, m, n), e, {})
    BY <1>1, <1>5, UpdateAgain
  <1>7. Alike(SoundUpdate(e, m, n), Changed(t, change), more)
    BY <1>3, <1>4, <1>5, <1>6 DEF Alike
  <1>8. InStep(e, Changed(t, change), m, n, more)
    BY <1>1, <1>3, <1>4, <1>5, <1>7 DEF InStep
  <1> QED
    BY <1>8 DEF c, d, e

(* Time passes.                                                            *)
LEMMA TimeInStep ==
    ASSUME NEW s, NEW t, NEW m, NEW n, NEW skipped, InStep(s, t, m, n, skipped),
           NEW later \in Nat, n <= later
    PROVE  InStep(s, SoundUpdate(t, m, later), m, later, skipped)
  <1> DEFINE c == SoundUpdate(s, m, n)
  <1>1. /\ s \in Chips /\ t \in Chips /\ Audible(m) /\ n \in Nat /\ s.last <= n
        /\ s.last \in Nat /\ (Sweeps(s) => 2 \in skipped) /\ 3 \notin skipped
    BY ChipFields DEF InStep
  <1>2. c \in Chips /\ c.last = n
    BY <1>1, UpdateIs
  <1>3. Alike(SoundUpdate(c, m, later), SoundUpdate(s, m, later), skipped)
    BY <1>1, UpdateTwice
  <1> HIDE DEF c
  <1>4. Alike(c, t, skipped)
    BY DEF InStep, c
  <1>5. Alike(SoundUpdate(c, m, later), SoundUpdate(t, m, later), skipped)
    BY <1>1, <1>2, <1>4, UpdatesAlike
  <1>6. Alike(SoundUpdate(s, m, later), SoundUpdate(t, m, later), skipped)
    BY <1>3, <1>5 DEF Alike
  <1>7. t.last = n
    BY <1>2, <1>4, AlikeFields
  <1>8. SoundUpdate(t, m, later) \in Chips
    BY <1>1, <1>7, UpdateIs
  <1>9. s.last <= later
    BY <1>1
  <1> QED
    BY <1>1, <1>6, <1>8, <1>9 DEF InStep

(* A byte is written outside the wave table.                               *)
LEMMA ByteInStep ==
    ASSUME NEW s, NEW t, NEW m, NEW n, NEW skipped, InStep(s, t, m, n, skipped),
           NEW a \in Nat, NEW byte \in Byte, a \div 64 # s.table
    PROVE  InStep(s, t, Put(m, a, byte), n, skipped)
  <1>1. s \in Chips /\ Audible(m) /\ n \in Nat /\ s.last <= n
    BY DEF InStep
  <1>2. /\ Audible(Put(m, a, byte))
        /\ Alike(SoundUpdate(s, Put(m, a, byte), n), SoundUpdate(s, m, n), {})
    BY <1>1, OtherBytes
  <1> QED
    BY <1>2 DEF InStep, Alike

(* A frame ends.                                                           *)
LEMMA FlushedInStep ==
    ASSUME NEW s, NEW t, NEW m, NEW n, NEW skipped, InStep(s, t, m, n, skipped)
    PROVE  InStep(SoundFlush(s, m, n), SoundFlush(t, m, n), m, 0, skipped)
  <1> DEFINE c == SoundUpdate(s, m, n)
             d == SoundUpdate(t, m, n)
  <1>1. /\ s \in Chips /\ t \in Chips /\ Audible(m) /\ n \in Nat /\ s.last <= n
        /\ (Sweeps(s) => 2 \in skipped) /\ 3 \notin skipped
    BY DEF InStep
  <1>2. c \in Chips /\ c.last = n /\ Sweeps(c) = Sweeps(s) /\ Alike(c, t, skipped)
    BY <1>1, UpdateIs, SweepsKept DEF InStep
  <1>3. SoundFlush(s, m, n) = Flushed(c) /\ SoundFlush(t, m, n) = Flushed(d)
    BY DEF SoundFlush, Flushed
  <1>4. t.last = n
    <2> HIDE DEF c
    <2> QED
      BY <1>2, AlikeFields
  <1>5. d \in Chips /\ Alike(d, t, {})
    BY <1>1, <1>4, UpdateAgain
  <1>6. Alike(c, d, skipped)
    BY <1>2, <1>5 DEF Alike
  <1> HIDE DEF c, d
  <1>7. Alike(Flushed(c), Flushed(d), skipped)
    BY <1>2, <1>5, <1>6, FlushesAlike
  <1>8. Flushed(c) \in Chips /\ Flushed(d) \in Chips /\ Flushed(c).last = 0
    BY <1>2, <1>5, FlushedIs
  <1>9. Sweeps(Flushed(c)) = Sweeps(c)
    BY DEF Sweeps, Flushed, Chips
  <1> DEFINE f == Flushed(c)
             g == Flushed(d)
  <1>10. f \in Chips /\ g \in Chips /\ f.last = 0 /\ Sweeps(f) = Sweeps(s) /\ Alike(f, g, skipped)
    BY <1>2, <1>7, <1>8, <1>9
  <1> HIDE DEF f, g
  <1>11. Alike(SoundUpdate(f, m, 0), f, {})
    BY <1>1, <1>10, UpdateAgain
  <1>12. Alike(SoundUpdate(f, m, 0), g, skipped)
    BY <1>10, <1>11 DEF Alike
  <1>13. InStep(f, g, m, 0, skipped)
    BY <1>1, <1>10, <1>12 DEF InStep
  <1> QED
    BY <1>3, <1>13 DEF f, g

(* The invariant holds at first, ...                                       *)
LEMMA TunesBegin ==
    ASSUME ProgramsInit
    PROVE  TunesInv
  <1> SUFFICES ASSUME program = "tunes"
               PROVE  InStep(sound, eager, mem, now, Apart) /\ left \in Int /\ ~halted
    BY DEF TunesInv
  <1>1. /\ mem = [a \in 0 .. 8 |-> 17 * (a + 1)]
        /\ now = 0 /\ left = 128 /\ halted = FALSE /\ eager = sound /\ swept = FALSE
        /\ sound = [SweepStep(SoundReset, 31) EXCEPT
                      !.sweep.counter = 1, !.period = [ch \in Channels |-> 2040 - ch],
                      !.sweep.divider = 40]
    BY Zenon DEF ProgramsInit
  <1>2. Audible(mem)
    <2>1. ASSUME NEW a \in Nat PROVE At(mem, a) \in Byte
      <3>1. ASSUME a <= 8 PROVE 17 * (a + 1) \in 0 .. 255
        BY <3>1
      <3> QED
        BY <1>1, <3>1 DEF At, Byte
    <2> QED
      BY <2>1 DEF Audible
  <1>3. SoundReset \in Chips /\ SoundReset.last = 0 /\ SoundReset.control = {}
    <2> DEFINE zero == [ch \in Channels |-> 0]
               one == [ch \in Channels |-> 1]
               none == [ch \in Channels |-> <<>>]
               q == [value |-> 0, step |-> 0, counter |-> 0, divider |-> 8192]
    <2>1. /\ zero \in [Channels -> Positions] /\ zero \in [Channels -> Paces]
          /\ one \in [Channels -> Nat \ {0}] /\ none \in [Channels -> Heard]
      <3>1. 0 \in Positions /\ 0 \in Paces /\ <<>> \in Heard
        BY DEF Paces, Positions, Heard
      <3> QED
        BY <3>1
    <2>2. q \in Sweepers /\ 0 \in Byte /\ 0 \in ShiftRegisters /\ 0 \in Taken3 /\ 0 \in Nat
      BY DEF Byte, Sweepers, ShiftRegisters, Taken3
    <2>3. SoundReset = [last |-> 0, control |-> {}, period |-> zero, counter |-> one,
                        position |-> zero, table |-> 0, sweep |-> q, noise |-> FALSE, tap |-> 0,
                        nreg |-> 0, heard |-> none]
      BY DEF SoundReset
    <2> HIDE DEF zero, one, none, q
    <2> QED
      BY <2>1, <2>2, <2>3 DEF Chips
  <1> DEFINE x == SweepStep(SoundReset, 31)
             p == [ch \in Channels |-> 2040 - ch]
             q == [x.sweep EXCEPT !.counter = 1, !.divider = 40]
  <1>4. x \in Chips /\ x.last = 0 /\ x.control = {}
    <2>1. Alike(SoundReset, SoundReset, {}) /\ 31 \in Byte
      BY DEF Alike, Byte
    <2>2. x \in Chips /\ x.last = 0
      BY <1>3, <2>1, SweepsAlike
    <2>3. x.control = SoundReset.control
      BY <1>3 DEF SweepStep, Chips
    <2> QED
      BY <1>3, <2>2, <2>3
  <1>5. p \in [Channels -> Paces]
    <2>1. \A ch \in Channels : 2040 - ch \in Paces
      BY DEF Channels, Paces
    <2> QED
      BY <2>1
  <1>6. sound = [x EXCEPT !.sweep.counter = 1, !.period = p, !.sweep.divider = 40]
    BY <1>1
  <1> HIDE DEF x, p
  <1>7. q \in Sweepers
    <2>1. x.sweep \in Sweepers /\ 1 \in Byte /\ 40 \in Nat \ {0}
      BY <1>4, ChipFields DEF Byte
    <2> QED
      BY <2>1 DEF Sweepers
  <1>8. sound = Tuned(x, p, q)
    BY <1>4, <1>6 DEF Tuned, Chips
  <1> HIDE DEF q
  <1>9. sound \in Chips /\ sound.last = 0 /\ ~Sweeps(sound)
    <2>1. sound \in Chips
      BY <1>4, <1>5, <1>7, <1>8, TunedIs
    <2>2. sound.last = x.last /\ sound.control = x.control
      BY <1>4, <1>8 DEF Tuned, Chips
    <2> QED
      BY <1>4, <2>1, <2>2 DEF Sweeps
  <1>10. Alike(SoundUpdate(sound, mem, 0), sound, {})
    BY <1>2, <1>9, UpdateAgain
  <1> QED
    BY <1>1, <1>2, <1>9, <1>10 DEF InStep, Apart

(* ... after what the program does, ...                                    *)
LEMMA TunesStepInv ==
    ASSUME TunesInv, program = "tunes", TunesStep
    PROVE  InStep(sound', eager', mem', now', Apart') /\ left' \in Int /\ ~halted'
  <1>1. InStep(sound, eager, mem, now, Apart) /\ left \in Int /\ ~halted
    BY DEF TunesInv
  <1>2. now \in Nat /\ (Sweeps(sound) => swept)
    BY <1>1 DEF InStep, Apart
  <1>3. swept' = (swept \/ Sweeps(sound'))
    BY DEF TunesStep
  <1>4. ASSUME NEW change \in Changes, SetSound(Changed(Caught, change)),
               eager' = Changed(eager, change)
        PROVE  InStep(sound', eager', mem', now', Apart') /\ left' \in Int /\ ~halted'
    <2>1. /\ sound' = SoundUpdate(Changed(SoundUpdate(sound, mem, now), change), mem, now)
          /\ mem' = mem /\ now' = now /\ left' = left /\ halted' = halted
      BY <1>4 DEF SetSound, Register, cpuVars, Caught
    <2>2. Apart' = IF Sweeps(sound') THEN Apart \cup {2} ELSE Apart
      BY <1>3 DEF Apart
    <2>3. InStep(sound', eager', mem, now, Apart')
      BY <1>1, <1>4, <2>1, <2>2, ChangedInStep
    <2> QED
      BY <1>1, <2>1, <2>3
  <1>5. ASSUME NEW a \in {0, 66}, RamWrite(a, 90), UNCHANGED eager
        PROVE  InStep(sound', eager', mem', now', Apart') /\ left' \in Int /\ ~halted'
    <2>1. /\ sound' = IF a \div 64 = sound.table THEN SoundUpdate(sound, mem, now) ELSE sound
          /\ mem' = Put(mem, a, 90) /\ now' = now /\ left' = left /\ halted' = halted
          /\ eager' = eager
      BY <1>5 DEF RamWrite, RamWriteHeard, Register, cpuVars, Caught
    <2>2. Audible(Put(mem, a, 90)) /\ a \in Nat /\ 90 \in Byte
      <3>1. 90 \in Byte /\ a \in Nat
        BY DEF Byte
      <3>2. Audible(mem)
        BY <1>1 DEF InStep
      <3> QED
        BY <3>1, <3>2, PutIs DEF Audible
    <2>3. InStep(sound', eager, mem', now, Apart)
      <3>1. CASE a \div 64 = sound.table
        BY <1>1, <2>1, <2>2, <3>1, CaughtInStep
      <3>2. CASE a \div 64 # sound.table
        BY <1>1, <2>1, <2>2, <3>2, ByteInStep
      <3> QED
        BY <3>1, <3>2
    <2>4. Apart' = Apart
      <3>1. Sweeps(sound') => swept
        BY <2>3 DEF InStep, Apart
      <3> QED
        BY <1>3, <3>1 DEF Apart
    <2> QED
      BY <1>1, <2>1, <2>3, <2>4
  <1>6. ASSUME NEW cycles \in Costs, Compute(cycles), eager' = SoundUpdate(eager, mem, now')
        PROVE  InStep(sound', eager', mem', now', Apart') /\ left' \in Int /\ ~halted'
    <2>1. /\ sound' = sound /\ mem' = mem /\ now' = now + cycles /\ left' = left - cycles
          /\ halted' = halted /\ cycles \in Nat
      BY <1>6, ProgramsAssumption DEF Compute, Takes, deviceVars
    <2>2. now' \in Nat /\ now <= now' /\ left' \in Int
      BY <1>1, <1>2, <2>1
    <2>3. InStep(sound, eager', mem, now', Apart)
      BY <1>1, <1>6, <2>2, TimeInStep
    <2>4. Apart' = Apart
      BY <1>2, <1>3, <2>1 DEF Apart
    <2> QED
      BY <1>1, <2>1, <2>2, <2>3, <2>4
  <1> QED
    BY <1>4, <1>5, <1>6 DEF TunesStep

(* ... after every part of a line, ...                                     *)
LEMMA TunesLineInv ==
    ASSUME TunesInv, program = "tunes", LineStep
    PROVE  InStep(sound', eager', mem', now', Apart') /\ left' \in Int /\ ~halted'
  <1>1. InStep(sound, eager, mem, now, Apart) /\ left \in Int /\ ~halted
    BY DEF TunesInv
  <1>2. /\ eager' = IF pc = "cpu3" /\ ends THEN SoundFlush(eager, mem, now) ELSE eager
        /\ Apart' = Apart /\ Line
    BY DEF LineStep, Apart
  <1>3. Audible(mem) /\ 128 \in Int /\ 96 \in Int /\ 32 \in Int
    BY <1>1 DEF InStep
  <1>4. InStep(SoundUpdate(sound, mem, now), eager, mem, now, Apart)
    BY <1>1, <1>3, CaughtInStep
  <1>5. CASE BeginLine
    <2>1. /\ sound' = IF Due(sdma) THEN SoundUpdate(sound, mem, now) ELSE sound
          /\ mem' = mem /\ now' = now /\ halted' = halted /\ left' = left + 128
          /\ pc = "line"
      BY <1>5 DEF BeginLine, SoundDma, Caught
    <2>2. eager' = eager /\ left' \in Int
      BY <1>1, <1>2, <2>1
    <2> QED
      BY <1>1, <1>2, <1>4, <2>1, <2>2
  <1>6. CASE MidLine
    <2>1. /\ sound' = IF Due(sdma) THEN SoundUpdate(sound, mem, now) ELSE sound
          /\ mem' = mem /\ now' = now /\ halted' = halted /\ left' = left + 96
          /\ pc = "cpu1"
      BY <1>6 DEF MidLine, SoundDma, Caught
    <2>2. eager' = eager /\ left' \in Int
      BY <1>1, <1>2, <2>1
    <2> QED
      BY <1>1, <1>2, <1>4, <2>1, <2>2
  <1>7. CASE LateLine
    <2>1. /\ sound' = sound /\ mem' = mem /\ now' = now /\ halted' = halted /\ left' = left + 32
          /\ pc = "cpu2"
      BY <1>7 DEF LateLine
    <2>2. eager' = eager /\ left' \in Int
      BY <1>1, <1>2, <2>1
    <2> QED
      BY <1>1, <1>2, <2>1, <2>2
  <1>8. CASE EndLine
    <2>1. /\ now' = IF ends THEN 0 ELSE now
          /\ sound' = IF ends THEN SoundFlush(sound, mem, now) ELSE sound
          /\ mem' = mem /\ halted' = halted /\ left' = left /\ pc = "cpu3"
      BY <1>8 DEF EndLine
    <2>2. CASE ends
      <3>1. InStep(SoundFlush(sound, mem, now), SoundFlush(eager, mem, now), mem, 0, Apart)
        BY <1>1, FlushedInStep
      <3> QED
        BY <1>1, <1>2, <2>1, <2>2, <3>1
    <2>3. CASE ~ends
      BY <1>1, <1>2, <2>1, <2>3
    <2> QED
      BY <2>2, <2>3
  <1> QED
    BY <1>2, <1>5, <1>6, <1>7, <1>8 DEF Line

(* ... and after any step.                                                 *)
LEMMA TunesNextInv ==
    ASSUME TunesInv, [ProgramsNext]_allVars
    PROVE  TunesInv'
  <1> SUFFICES ASSUME program' = "tunes"
               PROVE  InStep(sound', eager', mem', now', Apart') /\ left' \in Int /\ ~halted'
    BY DEF TunesInv
  <1>1. CASE UNCHANGED allVars
    <2>1. /\ sound' = sound /\ mem' = mem /\ now' = now /\ left' = left /\ halted' = halted
          /\ eager' = eager /\ swept' = swept /\ program' = program
      BY <1>1 DEF allVars, vars, deviceVars, cpuVars
    <2> QED
      BY <2>1 DEF TunesInv, Apart
  <1>2. CASE ReaderStep
    BY <1>2 DEF ReaderStep, Did, Quiet
  <1>3. CASE FramesStep
    BY <1>3 DEF FramesStep, Did, Quiet
  <1>4. CASE TimersStep
    BY <1>4 DEF TimersStep, Did, Quiet
  <1>5. CASE StreamsStep
    BY <1>5 DEF StreamsStep, Did, Quiet
  <1>6. CASE StoresStep
    BY <1>6 DEF StoresStep, Did, Quiet
  <1>7. CASE CopiesStep
    BY <1>7 DEF CopiesStep, Did, Quiet
  <1>8. CASE Answer
    BY <1>8 DEF Answer, Quiet
  <1>9. CASE TunesStep
    <2>1. program = "tunes"
      BY <1>9 DEF TunesStep, Did
    <2> QED
      BY <1>9, <2>1, TunesStepInv
  <1>10. CASE LineStep
    <2>1. program = "tunes"
      BY <1>10 DEF LineStep
    <2> QED
      BY <1>10, <2>1, TunesLineInv
  <1>11. CASE Idle
    <2>1. /\ program = "tunes" /\ sound' = sound /\ mem' = mem /\ now' = now + left /\ left > 0
          /\ left' = left - left /\ halted' = halted /\ swept' = swept
          /\ eager' = SoundUpdate(eager, mem, now')
      BY <1>11 DEF Idle, Compute, Running, Takes, deviceVars
    <2>2. InStep(sound, eager, mem, now, Apart) /\ left \in Int /\ ~halted
      BY <2>1 DEF TunesInv
    <2>3. now' \in Nat /\ now <= now' /\ left' \in Int
      BY <2>1, <2>2 DEF InStep
    <2>4. InStep(sound, eager', mem, now', Apart)
      BY <2>1, <2>2, <2>3, TimeInStep
    <2> QED
      BY <2>1, <2>2, <2>3, <2>4 DEF Apart
  <1>12. CASE Others
    <2>1. program = "tunes" /\ eager' = eager /\ swept' = swept
      BY <1>12 DEF Others, Quiet
    <2>2. InStep(sound, eager, mem, now, Apart) /\ left \in Int /\ ~halted
      BY <2>1 DEF TunesInv
    <2>3. Emulate
      BY <1>12, <2>2 DEF Others, Sleep, Wake
    <2>4. sound' = sound /\ mem' = mem /\ now' = now /\ left' = left /\ halted' = halted
      BY <2>3 DEF Emulate, deviceVars
    <2> QED
      BY <2>1, <2>2, <2>4 DEF Apart
  <1> QED
    BY <1>1, <1>2, <1>3, <1>4, <1>5, <1>6, <1>7, <1>8, <1>9, <1>10, <1>11, <1>12
       DEF ProgramsNext

(* In the program that plays, whatever it writes and whenever, the sound   *)
(* chip that catches up only when it is touched plays what one that runs   *)
(* all the time would.                                                     *)
THEOREM HeardInTimeAlways == ProgramsSpec => []HeardInTime
  <1>1. ProgramsInit => TunesInv
    BY TunesBegin
  <1>2. TunesInv /\ [ProgramsNext]_allVars => TunesInv'
    BY TunesNextInv
  <1>3. TunesInv => HeardInTime
    BY DEF TunesInv, InStep, HeardInTime, Alike, Apart
  <1> QED
    BY <1>1, <1>2, <1>3, PTL DEF ProgramsSpec
=============================================================================
