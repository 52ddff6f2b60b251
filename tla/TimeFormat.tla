------------------------------ MODULE TimeFormat ------------------------------
(***************************************************************************)
(* The conversions between times and column values: TimeFormat.Encode and  *)
(* Decode (time.go) and the driver's maybeTime (driver/time.go).           *)
(*                                                                         *)
(* A time is an instant, in nanoseconds since the Unix epoch, and a zone   *)
(* offset.  The units of time are scaled down: K nanoseconds make a        *)
(* microsecond, K microseconds a millisecond, and so on.  A text is the    *)
(* list of its fields, which Format and Parse write and read the way       *)
(* package time does with the layouts of time.go: Parse takes years of     *)
(* four digits only, and offsets are written without their seconds.        *)
(***************************************************************************)
EXTENDS Integers, Sequences

CONSTANTS
    K,              \* how many nanoseconds, microseconds, milliseconds make up
                    \* the next unit: 1000
    Minute, Day,    \* in seconds
    YearEnd,        \* the end of the year 9999: 253402300800 seconds
    EpochDays,      \* the Julian day that the Unix epoch is half past: 2440587
    BeforeEpoch,    \* days from 0000-01-01 to the Unix epoch
    Y2K,            \* days from there to 2000-01-01
    FloatStep,      \* nanoseconds between the float64 values of two times
    Precision       \* the text of a float64 is off by 1 in 2 * 10^14 at most

Micro == K
Milli == K * K
Sec == K * K * K
DayLen == Day * Sec
Year0 == 0 - BeforeEpoch

(* Values: integers, floats and texts.  A float v is kept as v * DayLen, and a
   text may be the digits of an integer or of a float. *)
Number(kind, n) == [kind |-> kind, n |-> n]

\* The nearest float.
Rounded(n) == ((n + FloatStep \div 2) \div FloatStep) * FloatStep

\* How far the text of a float, which has 15 significant digits, may be from it.
TextError(n) == (IF n < 0 THEN -n ELSE n) \div Precision

\* What a column with TEXT affinity makes of a value.
Texts(v) ==
    CASE v.kind = "int" -> {Number("intText", v.n)}
      [] v.kind = "float" ->
             {Number("floatText", n) : n \in v.n - TextError(v.n) .. v.n + TextError(v.n)}
      [] OTHER -> {}

-------------------------------------------------------------------------------
(* Layouts and package time.  sep is what divides date and time: "time" if the
   time is alone, "date" if the date is.  digits is how many groups of
   fractional digits there are, -1 if there are no seconds either. *)
Layout(sep, digits, tz) == [sep |-> sep, digits |-> digits, tz |-> tz]

TimeFormat1 == Layout("date", -1, FALSE)
RFC3339Nano == Layout("T", 3, TRUE)
DateTimes == [sep : {"space", "T"}, digits : {-1, 0, 1}, tz : BOOLEAN]  \* 2 to 7
DayTimes == [sep : {"time"}, digits : {-1, 0, 1}, tz : BOOLEAN]         \* 8 to 10
TextFormats == {TimeFormat1} \cup DateTimes \cup DayTimes

\* What a time is cut to when it has d groups of fractional digits.
Unit(d) == CASE d = -1 -> Minute * Sec [] d = 0 -> Sec [] d = 1 -> Milli
             [] d = 2 -> Micro [] d = 3 -> 1

Cut(n, unit) == n - (n % unit)

\* The years from 0000 to 9999.
FourDigitYear(day) == Year0 <= day /\ day * Day < YearEnd

\* An offset in whole minutes, towards zero, which is what "Z07:00" writes.
Offset(zone) == IF zone < 0 THEN -Cut(-zone, Minute * Sec) ELSE Cut(zone, Minute * Sec)

\* Zeros at the end of a fraction are left out by RFC3339Nano only.
Format(l, t) ==
    LET local == t.tick + t.zone
        at == local % DayLen
        digits == IF l.digits < 3 THEN l.digits
                  ELSE CHOOSE d \in 0 .. 3 : /\ at % Unit(d) = 0
                                             /\ \A e \in 0 .. d - 1 : at % Unit(e) # 0
    IN [kind |-> "text", sep |-> l.sep, digits |-> digits,
        day |-> IF l.sep = "time" THEN Year0 ELSE local \div DayLen,
        at |-> IF l.sep = "date" THEN 0 ELSE Cut(at, Unit(digits)),
        tz |-> IF ~l.tz THEN "none" ELSE IF t.zone = 0 THEN "Z" ELSE "offset",
        zone |-> IF l.tz THEN Offset(t.zone) ELSE 0]

\* A fraction may follow the seconds, even if the layout has none.  A year is
\* read as four digits.  The empty set is the error.
Parse(l, x) ==
    IF /\ x.kind = "text"
       /\ x.sep = l.sep
       /\ x.digits = -1 <=> l.digits = -1
       /\ l.tz <=> x.tz # "none"
       /\ x.sep = "time" \/ FourDigitYear(x.day)
    THEN {[tick |-> x.day * DayLen + x.at - x.zone, zone |-> x.zone]}
    ELSE {}

\* t.AddDate(2000, 0, 0)
AddDate2000(T) == {[t EXCEPT !.tick = @ + (Y2K - Year0) * DayLen] : t \in T}

-------------------------------------------------------------------------------
(* Encode. *)
Unix == Layout("unixepoch", 0, FALSE)
UnixFrac == Layout("unixepoch_frac", 3, FALSE)
UnixMilli == Layout("unixepoch_milli", 1, FALSE)
UnixMicro == Layout("unixepoch_micro", 2, FALSE)
UnixNano == Layout("unixepoch_nano", 3, FALSE)
JulianDay == Layout("julianday", 3, FALSE)
TimeFormatAuto == Layout("auto", 3, TRUE)
NumericFormats == {JulianDay, Unix, UnixFrac, UnixMilli, UnixMicro, UnixNano}

Epoch == EpochDays * DayLen + DayLen \div 2

\* Mutant: times are not converted to UTC.
EncodeTextLocal(f, t) == Format(f, t)

EncodeText(f, t) == Format(f, IF f.tz THEN t ELSE [t EXCEPT !.zone = 0])

EncodeNumber(f, t) ==
    CASE f = JulianDay -> Number("float", Rounded(t.tick) + Epoch)
      [] f = Unix -> Number("int", t.tick \div Sec)
      [] f = UnixFrac -> Number("float", Rounded(t.tick) * Day)
      [] f = UnixMilli -> Number("int", t.tick \div Milli)
      [] f = UnixMicro -> Number("int", t.tick \div Micro)
      [] f = UnixNano -> Number("int", t.tick)

Encode(f, t) ==
    CASE f \in NumericFormats -> EncodeNumber(f, t)
      [] f \in {RFC3339Nano, TimeFormatAuto} -> Format(RFC3339Nano, t)
      [] OTHER -> EncodeText(f, t)

-------------------------------------------------------------------------------
(* Decode: the times that may result, none if it is an error. *)
UTC(n) == {[tick |-> n, zone |-> 0]}

\* math.Floor of the fraction of a float may lose a nanosecond.
FloatTime(n) == UTC(n - 1) \cup UTC(n)

\* math.Floor of a float.
Floor(n) == n \div DayLen

DecodeJulianDay(v) ==
    CASE v.kind \in {"float", "floatText"} -> FloatTime(v.n - Epoch)
      [] v.kind \in {"int", "intText"} -> UTC(v.n * DayLen - Epoch)
      [] OTHER -> {}

DecodeUnix(v) ==
    CASE v.kind \in {"float", "floatText"} -> FloatTime(v.n \div Day)
      [] v.kind \in {"int", "intText"} -> UTC(v.n * Sec)
      [] OTHER -> {}

\* ParseInt refuses the digits of a float.
DecodeUnits(unit, v) ==
    CASE v.kind = "float" -> UTC(Floor(v.n) * unit)
      [] v.kind \in {"int", "intText"} -> UTC(v.n * unit)
      [] OTHER -> {}

DecodeNumber(f, v) ==
    CASE f = JulianDay -> DecodeJulianDay(v)
      [] f \in {Unix, UnixFrac} -> DecodeUnix(v)
      [] f = UnixMilli -> DecodeUnits(Milli, v)
      [] f = UnixMicro -> DecodeUnits(Micro, v)
      [] f = UnixNano -> DecodeUnits(1, v)

\* The time of the first of some layouts that parses.
FirstParsed(layouts, x) ==
    LET parsed == {i \in DOMAIN layouts : Parse(layouts[i], x) # {}}
        first == CHOOSE i \in parsed : \A j \in parsed : i <= j
    IN IF parsed = {} THEN {} ELSE Parse(layouts[first], x)

\* Mutant: the zone must be the one of the layout.
ParseExactly(f, x) == Parse(Layout(f.sep, IF f.digits = 1 THEN 0 ELSE f.digits, f.tz), x)

parseRelaxed(f, x) ==
    LET digits == IF f.digits = 1 THEN 0 ELSE f.digits
    IN FirstParsed(<<Layout(f.sep, digits, TRUE), Layout(f.sep, digits, FALSE)>>, x)

DecodeText(f, x) ==
    CASE f \in DateTimes -> parseRelaxed(f, x)
      [] f \in DayTimes -> AddDate2000(parseRelaxed(f, x))
      [] OTHER -> Parse(f, x)

\* The layouts that TimeFormatAuto tries, without the digits of fractions.
Dates == <<Layout("T", 0, TRUE), Layout("T", 0, FALSE),
           Layout("space", 0, TRUE), Layout("space", 0, FALSE),
           Layout("T", -1, TRUE), Layout("T", -1, FALSE),
           Layout("space", -1, TRUE), Layout("space", -1, FALSE), TimeFormat1>>

\* Mutant: the times without seconds are left out.
TimesWithSeconds == <<Layout("time", 0, TRUE), Layout("time", 0, FALSE)>>

Times == <<Layout("time", 0, TRUE), Layout("time", 0, FALSE),
           Layout("time", -1, TRUE), Layout("time", -1, FALSE)>>

DecodeAutoText(x) ==
    LET date == FirstParsed(Dates, x)
    IN IF date # {} THEN date ELSE AddDate2000(FirstParsed(Times, x))

\* Mutant: the Julian days are counted from the Unix epoch.
JulianEndUnix == YearEnd * Sec

\* 5373484.5 is the Julian day of YearEnd, and 5373485 the first integer above.
JulianEnd == YearEnd * Sec + Epoch

\* The float64 values of times, and their texts, are less than a second off, and
\* YearEnd in milliseconds, as an instant, is more than a second after 5373484.5
\* seconds.
ASSUME TimeAssumption ==
    /\ {K, Minute, Day, FloatStep, Precision} \subseteq Nat \ {0}
    /\ {YearEnd, EpochDays, BeforeEpoch, Y2K} \subseteq Nat
    /\ FloatStep + JulianEnd \div Precision <= Sec
    /\ FloatStep * Day + (YearEnd * DayLen) \div Precision <= DayLen
    /\ JulianEnd + DayLen <= YearEnd * Milli * Day

\* The format of the number n / DayLen.
AutoFormat(n) ==
    IF 0 <= n /\ n < JulianEnd THEN JulianDay
    ELSE IF n < YearEnd * DayLen THEN UnixFrac
    ELSE IF n < YearEnd * K * DayLen THEN UnixMilli
    ELSE IF n < YearEnd * K * K * DayLen THEN UnixMicro
    ELSE UnixNano

DecodeAuto(v) ==
    CASE v.kind = "text" -> DecodeAutoText(v)
      [] v.kind \in {"float", "floatText"} ->
             DecodeNumber(AutoFormat(v.n), Number("float", v.n))
      [] v.kind \in {"int", "intText"} ->
             DecodeNumber(AutoFormat(v.n * DayLen), Number("int", v.n))

Decode(f, v) ==
    CASE f \in NumericFormats -> DecodeNumber(f, v)
      [] f = TimeFormatAuto -> DecodeAuto(v)
      [] OTHER -> DecodeText(f, v)

-------------------------------------------------------------------------------
(* maybeTime. *)
\* The length of a text with a year of four digits, seconds and fraction.
Length(x) == 19 + (IF x.digits > 0 THEN 1 + 3 * x.digits ELSE 0)
                + (CASE x.tz = "none" -> 0 [] x.tz = "Z" -> 1 [] x.tz = "offset" -> 6)

\* Mutant: any text that parses is a time.
maybeTimeParsed(x) == Parse(RFC3339Nano, x)

\* Mutant: the longest texts are weeded out.
maybeTimeShorter(x) ==
    IF /\ FourDigitYear(x.day) /\ x.sep = "T" /\ x.digits # -1
       /\ Length(x) >= 20 /\ Length(x) < 35
    THEN {t \in Parse(RFC3339Nano, x) : Format(RFC3339Nano, t) = x}
    ELSE {}

\* The text is returned if the result is empty.  text[4], text[10] and text[16]
\* are looked at before the text is parsed.
maybeTime(x) ==
    IF /\ FourDigitYear(x.day) /\ x.sep = "T" /\ x.digits # -1
       /\ Length(x) >= 20 /\ Length(x) <= 35
    THEN {t \in Parse(RFC3339Nano, x) : Format(RFC3339Nano, t) = x}
    ELSE {}
===============================================================================
