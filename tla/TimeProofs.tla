------------------------------- MODULE TimeProofs ------------------------------
(***************************************************************************)
(* Proofs about the times that statements store: what is recovered of a    *)
(* time from a number and from a text, in every format that should read    *)
(* it, for any units, thresholds, instants and zones that TimeAssumption   *)
(* and InstantsAssumption allow.                                           *)
(***************************************************************************)
EXTENDS Connections, WellFoundedInduction, TLAPS

\* The times to bind are instants with a zone.
LEMMA InstantsAre == ASSUME NEW t \in Instants PROVE t \in [tick : Int, zone : Int]
<1>1. t.tick \in -Ticks .. Ticks /\ t.zone \in Zones /\ t = [tick |-> t.tick, zone |-> t.zone]
  BY DEF Instants
<1>2. t.tick \in Int /\ t.zone \in Int
  BY <1>1, InstantsAssumption
<1> QED
  BY <1>1, <1>2

-------------------------------------------------------------------------------
(* Numbers for times. *)
\* The units of time are positive, and what is assumed of the constants.
LEMMA Units ==
    /\ K \in Nat \ {0} /\ Day \in Nat \ {0} /\ FloatStep \in Nat \ {0}
    /\ Micro \in Nat \ {0} /\ Milli \in Nat \ {0} /\ Sec \in Nat \ {0}
    /\ DayLen \in Nat \ {0} /\ Minute * Sec \in Nat \ {0}
    /\ YearEnd \in Nat /\ Epoch \in Nat /\ JulianEnd \in Nat
    /\ Year0 \in Int /\ Y2K \in Int
    /\ Precision \in Nat \ {0} /\ FloatStep + JulianEnd \div Precision <= Sec
    /\ FloatStep * Day + (YearEnd * DayLen) \div Precision <= DayLen
    /\ JulianEnd + DayLen <= YearEnd * Milli * Day
    /\ Micro = K /\ Milli = K * Micro /\ Sec = K * Milli /\ DayLen = Day * Sec
    /\ JulianEnd = YearEnd * Sec + Epoch
<1>1. /\ K \in Nat /\ K # 0 /\ Day \in Nat /\ Day # 0 /\ FloatStep \in Nat /\ FloatStep # 0
      /\ Minute \in Nat /\ Minute # 0 /\ Precision \in Nat /\ Precision # 0
      /\ YearEnd \in Nat /\ EpochDays \in Nat /\ Y2K \in Nat /\ BeforeEpoch \in Nat
  BY TimeAssumption
<1>0. \A a, b \in Nat : a # 0 /\ b # 0 => a * b \in Nat /\ a * b # 0
  OBVIOUS
<1>2. Micro = K /\ Milli = K * Micro /\ Sec = K * Milli /\ DayLen = Day * Sec
  BY <1>1 DEF Micro, Milli, Sec, DayLen
<1>3. Milli \in Nat /\ Milli # 0
  BY <1>0, <1>1, <1>2
<1>4. Sec \in Nat /\ Sec # 0
  BY <1>0, <1>1, <1>2, <1>3
<1>5. DayLen \in Nat /\ DayLen # 0 /\ Minute * Sec \in Nat /\ Minute * Sec # 0
  BY <1>0, <1>1, <1>2, <1>4
<1>6. Epoch \in Nat
  <2>1. EpochDays * DayLen \in Nat /\ DayLen \div 2 \in Nat
    BY <1>1, <1>5
  <2> QED
    BY <2>1 DEF Epoch
<1>7. YearEnd * Sec \in Nat
  BY <1>1, <1>4
<1>8. JulianEnd = YearEnd * Sec + Epoch /\ JulianEnd \in Nat
  BY <1>6, <1>7 DEF JulianEnd
<1>9. Year0 \in Int /\ Y2K \in Int
  BY <1>1 DEF Year0
<1> QED
  BY Zenon, TimeAssumption, <1>1, <1>2, <1>3, <1>4, <1>5, <1>6, <1>8, <1>9

\* Division with remainder.
LEMMA Division ==
    ASSUME NEW n \in Int, NEW d \in Nat \ {0}
    PROVE  /\ n \div d \in Int /\ n % d \in 0 .. d - 1
           /\ n = (n \div d) * d + (n % d)
OBVIOUS

\* What cutting to a unit leaves.
LEMMA CutIs ==
    ASSUME NEW n \in Int, NEW d \in Nat \ {0}
    PROVE  Cut(n, d) = (n \div d) * d /\ Cut(n, d) \in Int
<1>1. /\ n \div d \in Int /\ n % d \in 0 .. d - 1
      /\ n = (n \div d) * d + (n % d) /\ (n \div d) * d \in Int
  BY Division
<1> QED
  BY <1>1 DEF Cut

\* n \div d is at least q if n is at least q * d.
LEMMA DivBounds ==
    ASSUME NEW n \in Int, NEW d \in Nat \ {0}, NEW q \in Int
    PROVE  /\ q * d <= n => q <= n \div d
           /\ n < q * d => n \div d < q
           /\ (q * d) \div d = q
OBVIOUS

\* The nearest float is at most half a step away.
LEMMA RoundedIs ==
    ASSUME NEW n \in Int
    PROVE  /\ Rounded(n) \in Int
           /\ 2 * (Rounded(n) - n) \in -FloatStep .. FloatStep
           /\ n - FloatStep <= Rounded(n) /\ Rounded(n) <= n + FloatStep
<1> DEFINE h == FloatStep \div 2
           q == (n + h) \div FloatStep
           p == q * FloatStep
<1>1. FloatStep \in Nat \ {0}
  BY Units
<1>2. h \in Int /\ 2 * h <= FloatStep /\ FloatStep <= 2 * h + 1
  BY <1>1
<1> HIDE DEF h
<1>3. p \in Int /\ p <= n + h /\ n + h < p + FloatStep
  <2> DEFINE m == n + h
  <2>1. m \in Int
    BY <1>2
  <2> HIDE DEF m
  <2>2. /\ m \div FloatStep \in Int /\ m % FloatStep \in 0 .. FloatStep - 1
        /\ m = (m \div FloatStep) * FloatStep + (m % FloatStep)
    BY <1>1, <2>1, Division
  <2>3. (m \div FloatStep) * FloatStep \in Int
    BY <1>1, <2>2
  <2>4. p = (m \div FloatStep) * FloatStep
    BY DEF m
  <2> HIDE DEF p
  <2>5. p \in Int /\ p <= m /\ m < p + FloatStep
    BY <1>1, <2>1, <2>2, <2>3, <2>4
  <2> QED
    BY <2>5 DEF m
<1>4. Rounded(n) = p
  BY DEF Rounded, h
<1> HIDE DEF p
<1> QED
  BY <1>1, <1>2, <1>3, <1>4

\* The text of a float is off by no more than the float, or than that of a
\* larger one.
LEMMA TextErrorIs ==
    ASSUME NEW n \in Int
    PROVE  /\ TextError(n) \in Nat
           /\ 0 <= n => TextError(n) <= n
           /\ \A m \in Int : 0 <= n /\ n <= m => TextError(n) <= m \div Precision
<1> DEFINE a == IF n < 0 THEN -n ELSE n
           e == a \div Precision
<1>1. Precision \in Nat \ {0}
  BY Units
<1>2. a \in Int /\ 0 <= a /\ (0 <= n => a = n)
  OBVIOUS
<1>3. TextError(n) = e
  BY DEF TextError
<1> HIDE DEF a
<1>4. e \in Int
  BY <1>1, <1>2, Division
<1>5. 0 <= e
  <2>1. 0 * Precision <= a
    BY <1>1, <1>2
  <2> QED
    BY <1>1, <1>2, <2>1, DivBounds
<1>6. e <= a
  <2>1. a < (a + 1) * Precision
    BY <1>1, <1>2
  <2>2. e < a + 1
    BY <1>1, <1>2, <2>1, DivBounds
  <2> HIDE DEF e
  <2> QED
    BY <1>2, <1>4, <2>2
<1>7. ASSUME NEW m \in Int, a <= m PROVE e <= m \div Precision
  <2> DEFINE q == m \div Precision
  <2>1. /\ q \in Int /\ m % Precision \in 0 .. Precision - 1
        /\ m = q * Precision + (m % Precision) /\ q * Precision \in Int
    BY <1>1, Division
  <2> HIDE DEF q
  <2>2. m < q * Precision + Precision
    BY <1>1, <2>1
  <2>3. (q + 1) * Precision = q * Precision + Precision
    BY <1>1, <2>1
  <2>4. a < (q + 1) * Precision
    BY <1>1, <1>2, <1>7, <2>1, <2>2, <2>3
  <2>5. e < q + 1
    <3>1. q + 1 \in Int
      BY <2>1
    <3> QED
      BY Zenon, <1>1, <1>2, <2>4, <3>1, DivBounds
  <2>6. e <= q
    <3> HIDE DEF e
    <3> QED
      BY <1>4, <2>1, <2>5
  <2> QED
    BY <2>6 DEF q
<1> HIDE DEF e
<1> QED
  BY <1>2, <1>3, <1>4, <1>5, <1>6, <1>7

\* The formats of numbers have names of their own.
LEMMA FormatsDiffer ==
    /\ JulianDay \notin {Unix, UnixFrac, UnixMilli, UnixMicro, UnixNano}
    /\ Unix \notin {UnixFrac, UnixMilli, UnixMicro, UnixNano}
    /\ UnixFrac \notin {UnixMilli, UnixMicro, UnixNano}
    /\ UnixMilli \notin {UnixMicro, UnixNano} /\ UnixMicro # UnixNano
    /\ TimeFormatAuto \notin NumericFormats /\ RFC3339Nano \notin NumericFormats
    /\ TextFormats \cap NumericFormats = {}
    /\ RFC3339Nano # TimeFormatAuto
    /\ RFC3339Nano \notin TextFormats /\ TimeFormatAuto \notin TextFormats
<1> USE DEF Layout
<1>1. /\ JulianDay.sep = "julianday" /\ Unix.sep = "unixepoch" /\ UnixFrac.sep = "unixepoch_frac"
      /\ UnixMilli.sep = "unixepoch_milli" /\ UnixMicro.sep = "unixepoch_micro"
      /\ UnixNano.sep = "unixepoch_nano" /\ TimeFormatAuto.sep = "auto"
      /\ RFC3339Nano.sep = "T" /\ RFC3339Nano.digits = 3
  BY DEF JulianDay, Unix, UnixFrac, UnixMilli, UnixMicro, UnixNano, TimeFormatAuto, RFC3339Nano
<1>2. \A f \in TextFormats : f.sep \in {"date", "space", "T", "time"} /\ f.digits \in {-1, 0, 1}
  BY DEF TextFormats, TimeFormat1, DateTimes, DayTimes
<1>3. /\ TimeFormatAuto \notin NumericFormats /\ RFC3339Nano \notin NumericFormats
      /\ TextFormats \cap NumericFormats = {}
  BY <1>1, <1>2 DEF NumericFormats
<1>4. RFC3339Nano \notin TextFormats /\ TimeFormatAuto \notin TextFormats
  BY <1>1, <1>2
<1> QED
  BY <1>1, <1>3, <1>4

\* What Encode makes of a time, in each format of numbers.
LEMMA NumbersEncoded ==
    ASSUME NEW t
    PROVE  /\ Encode(JulianDay, t) = Number("float", Rounded(t.tick) + Epoch)
           /\ Encode(Unix, t) = Number("int", t.tick \div Sec)
           /\ Encode(UnixFrac, t) = Number("float", Rounded(t.tick) * Day)
           /\ Encode(UnixMilli, t) = Number("int", t.tick \div Milli)
           /\ Encode(UnixMicro, t) = Number("int", t.tick \div Micro)
           /\ Encode(UnixNano, t) = Number("int", t.tick)
<1>1. \A f \in NumericFormats : Encode(f, t) = EncodeNumber(f, t)
  BY FormatsDiffer DEF Encode
<1>2. NumericFormats = {JulianDay, Unix, UnixFrac, UnixMilli, UnixMicro, UnixNano}
  BY DEF NumericFormats
<1>3. /\ EncodeNumber(JulianDay, t) = Number("float", Rounded(t.tick) + Epoch)
      /\ EncodeNumber(Unix, t) = Number("int", t.tick \div Sec)
      /\ EncodeNumber(UnixFrac, t) = Number("float", Rounded(t.tick) * Day)
      /\ EncodeNumber(UnixMilli, t) = Number("int", t.tick \div Milli)
      /\ EncodeNumber(UnixMicro, t) = Number("int", t.tick \div Micro)
      /\ EncodeNumber(UnixNano, t) = Number("int", t.tick)
  BY FormatsDiffer DEF EncodeNumber
<1> QED
  BY <1>1, <1>2, <1>3

\* What Decode makes of a number, in each format of numbers.
LEMMA NumbersDecoded ==
    ASSUME NEW n
    PROVE  /\ \A k \in {"float", "floatText"} :
                 /\ DecodeNumber(JulianDay, Number(k, n)) = FloatTime(n - Epoch)
                 /\ DecodeNumber(UnixFrac, Number(k, n)) = FloatTime(n \div Day)
           /\ \A k \in {"int", "intText"} :
                 /\ DecodeNumber(Unix, Number(k, n)) = UTC(n * Sec)
                 /\ DecodeNumber(UnixFrac, Number(k, n)) = UTC(n * Sec)
                 /\ DecodeNumber(UnixMilli, Number(k, n)) = UTC(n * Milli)
                 /\ DecodeNumber(UnixMicro, Number(k, n)) = UTC(n * Micro)
                 /\ DecodeNumber(UnixNano, Number(k, n)) = UTC(n * 1)
<1>1. \A v : /\ DecodeNumber(JulianDay, v) = DecodeJulianDay(v)
             /\ DecodeNumber(Unix, v) = DecodeUnix(v)
             /\ DecodeNumber(UnixFrac, v) = DecodeUnix(v)
             /\ DecodeNumber(UnixMilli, v) = DecodeUnits(Milli, v)
             /\ DecodeNumber(UnixMicro, v) = DecodeUnits(Micro, v)
             /\ DecodeNumber(UnixNano, v) = DecodeUnits(1, v)
  BY FormatsDiffer DEF DecodeNumber
<1>2. \A k : Number(k, n).kind = k /\ Number(k, n).n = n
  BY DEF Number
<1>3. ASSUME NEW k \in {"float", "floatText"}
      PROVE  /\ DecodeJulianDay(Number(k, n)) = FloatTime(n - Epoch)
             /\ DecodeUnix(Number(k, n)) = FloatTime(n \div Day)
  BY <1>2, <1>3 DEF DecodeJulianDay, DecodeUnix
<1>4. ASSUME NEW k \in {"int", "intText"}
      PROVE  /\ DecodeUnix(Number(k, n)) = UTC(n * Sec)
             /\ \A unit : DecodeUnits(unit, Number(k, n)) = UTC(n * unit)
  BY <1>2, <1>4 DEF DecodeUnix, DecodeUnits
<1> QED
  BY <1>1, <1>3, <1>4


\* The format that TimeFormatAuto takes a number for.
LEMMA AutoNumber ==
    ASSUME NEW n \in Int
    PROVE  /\ Decode(TimeFormatAuto, Number("float", n)) = DecodeNumber(AutoFormat(n), Number("float", n))
           /\ Decode(TimeFormatAuto, Number("floatText", n)) = DecodeNumber(AutoFormat(n), Number("float", n))
           /\ Decode(TimeFormatAuto, Number("int", n)) =
                 DecodeNumber(AutoFormat(n * DayLen), Number("int", n))
           /\ Decode(TimeFormatAuto, Number("intText", n)) =
                 DecodeNumber(AutoFormat(n * DayLen), Number("int", n))
<1>1. \A v : Decode(TimeFormatAuto, v) = DecodeAuto(v)
  BY FormatsDiffer DEF Decode
<1>2. \A k : Number(k, n).kind = k /\ Number(k, n).n = n
  BY DEF Number
<1>3. /\ \A k \in {"float", "floatText"} :
            DecodeAuto(Number(k, n)) = DecodeNumber(AutoFormat(n), Number("float", n))
      /\ \A k \in {"int", "intText"} :
            DecodeAuto(Number(k, n)) = DecodeNumber(AutoFormat(n * DayLen), Number("int", n))
  BY <1>2 DEF DecodeAuto
<1> QED
  BY <1>1, <1>3

\* A format of numbers decodes as itself.
LEMMA SelfNumber ==
    ASSUME NEW f \in NumericFormats, NEW v
    PROVE  Decode(f, v) = DecodeNumber(f, v)
BY FormatsDiffer DEF Decode

\* The values that a column may have when b is bound.
ColumnOf(b) == {b} \cup Texts(b)

\* The values of a column of numbers and of texts.
LEMMA Columns ==
    /\ \A n : ColumnOf(Number("int", n)) = {Number("int", n), Number("intText", n)}
    /\ \A n : \A v \in ColumnOf(Number("float", n)) :
          \/ v = Number("float", n)
          \/ \E m \in n - TextError(n) .. n + TextError(n) : v = Number("floatText", m)
    /\ \A b : b.kind = "text" => ColumnOf(b) = {b}
<1>1. \A k, n : Number(k, n).kind = k /\ Number(k, n).n = n
  BY DEF Number
<1>2. /\ \A n : Texts(Number("int", n)) = {Number("intText", n)}
      /\ \A n : Texts(Number("float", n)) =
                   {Number("floatText", m) : m \in n - TextError(n) .. n + TextError(n)}
      /\ \A b : b.kind = "text" => Texts(b) = {}
  BY <1>1 DEF Texts
<1> QED
  BY <1>2 DEF ColumnOf

\* What it means to recover a time from a number.
LEMMA RecoveredNumber ==
    ASSUME NEW t, NEW column, NEW decoded
    PROVE  \A f \in {Unix, UnixMilli, UnixMicro, UnixNano} :
               Recovered(f, t, column, decoded) <=>
                   \E u \in decoded : decoded = {u} /\ u.tick = Cut(t.tick, Unit(f.digits))
<1> TAKE f \in {Unix, UnixMilli, UnixMicro, UnixNano}
<1>1. f \in NumericFormats /\ f \notin {JulianDay, UnixFrac}
  BY FormatsDiffer DEF NumericFormats
<1> QED
  BY Zenon, <1>1 DEF Recovered

\* A time is recovered from a float, or from its text, up to what its conversions
\* lose.
LEMMA FloatRecovered ==
    ASSUME NEW f \in {JulianDay, UnixFrac}, NEW t, t.tick \in Int, NEW column, NEW loss \in Nat,
           loss = IF column.kind = "float" THEN 0 ELSE TextLoss(f, Encode(f, t).n),
           NEW q \in Int, q - Rounded(t.tick) \in -(loss + 1) .. loss
    PROVE  Recovered(f, t, column, FloatTime(q))
<1> DEFINE r == Rounded(t.tick)
<1>1. r \in Int /\ 2 * (r - t.tick) \in -FloatStep .. FloatStep /\ FloatStep \in Nat
  BY Zenon, RoundedIs, Units
<1>2. q - r \in -(loss + 1) .. loss
  OBVIOUS
<1> HIDE DEF r
<1>3. ASSUME NEW m \in {q - 1, q}
      PROVE  2 * (m - t.tick) \in -(FloatStep + 2 * loss + 4) .. FloatStep + 2 * loss
  BY <1>1, <1>2
<1>4. \A u \in FloatTime(q) : u.tick \in {q - 1, q}
  BY DEF FloatTime, UTC
<1>5. FloatTime(q) # {}
  BY Zenon DEF FloatTime, UTC
<1>6. \A u \in FloatTime(q) :
         2 * (u.tick - t.tick) \in -(FloatStep + 2 * loss + 4) .. FloatStep + 2 * loss
  BY Zenon, <1>3, <1>4
<1> QED
  BY Zenon, <1>5, <1>6 DEF Recovered

\* The numbers that are safe for TimeFormatAuto.
LEMMA SafeIs ==
    ASSUME NEW f \in NumericFormats, NEW n \in Int, SafeForAuto(f, n)
    PROVE  /\ FloatStep <= n + Epoch /\ n < YearEnd * Sec - Sec
           /\ f # JulianDay => YearEnd * Milli <= n
<1>1. (YearEnd - 1) * Sec = YearEnd * Sec - Sec
  <2>1. YearEnd \in Nat /\ Sec \in Nat
    BY Units
  <2> QED
    BY <2>1
<1> QED
  BY <1>1 DEF SafeForAuto

\* The units of the formats of integers.
LEMMA NumberUnits ==
    /\ Unit(Unix.digits) = Sec /\ Unit(UnixMilli.digits) = Milli
    /\ Unit(UnixMicro.digits) = Micro /\ Unit(UnixNano.digits) = 1
BY DEF Unit, Unix, UnixMilli, UnixMicro, UnixNano, Layout

\* A Julian day is read as the nearest float64, or as its text.
LEMMA JulianDayRecovered ==
    ASSUME NEW t, t.tick \in Int, NEW g \in {JulianDay, TimeFormatAuto},
           NEW v \in ColumnOf(Encode(JulianDay, t)),
           g = TimeFormatAuto => SafeForAuto(JulianDay, t.tick)
    PROVE  Recovered(JulianDay, t, v, Decode(g, v))
<1> DEFINE r == Rounded(t.tick)
           n == r + Epoch
           e == TextError(n)
<1>1. r \in Int /\ t.tick - FloatStep <= r /\ r <= t.tick + FloatStep
  BY RoundedIs
<1>2. Encode(JulianDay, t) = Number("float", n) /\ Encode(JulianDay, t).n = n
  <2>1. Encode(JulianDay, t) = Number("float", n)
    BY Zenon, NumbersEncoded
  <2> HIDE DEF n
  <2> QED
    BY <2>1 DEF Number
<1>3. PICK m : \/ v = Number("float", m) /\ m = n
               \/ v = Number("floatText", m) /\ m \in n - e .. n + e
  BY <1>2, Columns
<1>4. v.kind \in {"float", "floatText"} /\ (v.kind = "float" => v = Number("float", m) /\ m = n)
  BY <1>3 DEF Number
<1> HIDE DEF r
<1>5. n \in Int /\ Epoch \in Nat /\ n = r + Epoch
  BY <1>1, Units
<1>6. e \in Nat /\ (0 <= n => e <= n) /\ (0 <= n /\ n <= JulianEnd => e <= JulianEnd \div Precision)
  <2> HIDE DEF n
  <2>1. JulianEnd \in Int
    BY Units
  <2> QED
    BY <1>5, <2>1, TextErrorIs
<1> HIDE DEF n, e
<1>7. m \in Int /\ m - n \in -e .. e
  BY <1>3, <1>5, <1>6
<1>8. Decode(g, v) = FloatTime(m - Epoch)
  <2>1. CASE g = JulianDay
    BY <1>3, <2>1, SelfNumber, NumbersDecoded DEF NumericFormats
  <2>2. CASE g = TimeFormatAuto
    <3> DEFINE y == YearEnd * Sec
               loss == JulianEnd \div Precision
    <3>1. FloatStep <= t.tick + Epoch /\ t.tick < y - Sec
      BY <2>2, SafeIs DEF NumericFormats
    <3>2. /\ y \in Int /\ JulianEnd = y + Epoch /\ JulianEnd \in Nat
          /\ FloatStep \in Nat /\ Sec \in Nat /\ FloatStep + loss <= Sec
      BY Units
    <3>3. loss \in Int
      BY <3>2, Units, Division
    <3> HIDE DEF y, loss
    <3>4. 0 <= n /\ n < JulianEnd - loss
      BY <1>1, <1>5, <3>1, <3>2, <3>3
    <3>5. n <= JulianEnd => e <= loss
      BY <1>6, <3>4 DEF loss
    <3>6. 0 <= loss
      <4>1. Precision \in Nat \ {0} /\ 0 * Precision <= JulianEnd
        BY <3>2, Units
      <4> QED
        BY <3>2, <4>1, DivBounds DEF loss
    <3>7. 0 <= m /\ m < JulianEnd
      BY <1>5, <1>6, <1>7, <3>2, <3>3, <3>4, <3>5, <3>6
    <3>8. AutoFormat(m) = JulianDay
      BY <3>7 DEF AutoFormat
    <3>9. Decode(g, v) = DecodeNumber(JulianDay, Number("float", m))
      BY <1>3, <1>7, <2>2, <3>8, AutoNumber
    <3> QED
      BY <3>9, NumbersDecoded
  <2> QED
    BY <2>1, <2>2
<1> DEFINE loss == IF v.kind = "float" THEN 0 ELSE e
<1>9. TextLoss(JulianDay, n) = e
  <2>1. TextLoss(JulianDay, n) = e \div 1
    BY DEF TextLoss, e
  <2> QED
    BY <1>6, <2>1
<1>10. loss \in Nat /\ loss = IF v.kind = "float" THEN 0 ELSE TextLoss(JulianDay, Encode(JulianDay, t).n)
  BY <1>2, <1>6, <1>9
<1>11. m - Epoch \in Int /\ (m - Epoch) - r \in -(loss + 1) .. loss
  BY <1>1, <1>4, <1>5, <1>6, <1>7
<1> HIDE DEF loss
<1> QED
  BY <1>8, <1>10, <1>11, FloatRecovered DEF r


\* Order is kept by a positive factor.
LEMMA Scale ==
    ASSUME NEW a \in Int, NEW b \in Int, NEW d \in Nat \ {0}
    PROVE  /\ a < b => a * d < b * d
           /\ a <= b => a * d <= b * d
           /\ a * d \in Int /\ b * d \in Int
OBVIOUS

\* The numbers between the ends of two formats are of the second.
LEMMA AutoFormats ==
    /\ \A n \in Int : JulianEnd <= n /\ n < YearEnd * DayLen => AutoFormat(n) = UnixFrac
    /\ \A q \in Int :
          /\ YearEnd <= q /\ q < YearEnd * K => AutoFormat(q * DayLen) = UnixMilli
          /\ YearEnd * K <= q /\ q < YearEnd * K * K => AutoFormat(q * DayLen) = UnixMicro
          /\ YearEnd * K * K <= q => AutoFormat(q * DayLen) = UnixNano
<1> DEFINE y0 == YearEnd
           y1 == YearEnd * K
           y2 == YearEnd * K * K
<1>1. y0 \in Int /\ y1 \in Int /\ y2 \in Int /\ y0 <= y1 /\ y1 <= y2
  <2>1. K \in Nat \ {0} /\ y0 \in Nat
    BY Units
  <2>2. y1 \in Nat /\ y0 <= y1
    BY <2>1
  <2>3. y2 = y1 * K
    OBVIOUS
  <2> HIDE DEF y0, y1, y2
  <2>4. y2 \in Nat /\ y1 <= y2
    BY <2>1, <2>2, <2>3
  <2> QED
    BY <2>1, <2>2, <2>4
<1>2. JulianEnd <= y0 * DayLen /\ JulianEnd \in Int
  <2> DEFINE m == YearEnd * Milli * Day
             w == YearEnd * Milli
  <2>1. /\ K \in Nat \ {0} /\ Milli \in Nat \ {0} /\ Day \in Nat \ {0} /\ y0 \in Nat
        /\ DayLen \in Nat \ {0} /\ JulianEnd \in Nat /\ JulianEnd + DayLen <= m
    BY Units
  <2>2. w \in Nat /\ m \in Nat /\ m = w * Day
    BY <2>1
  <2>3. y0 * DayLen = m * K
    BY <2>1, Units
  <2> HIDE DEF m
  <2>4. m <= m * K
    BY <2>1, <2>2
  <2> QED
    BY <2>1, <2>2, <2>3, <2>4
<1>3. DayLen \in Nat \ {0}
  BY Units
<1>4. /\ y0 * DayLen \in Int /\ y1 * DayLen \in Int /\ y2 * DayLen \in Int
      /\ y0 * DayLen <= y1 * DayLen /\ y1 * DayLen <= y2 * DayLen
  BY <1>1, <1>3, Scale
<1>5. \A n : AutoFormat(n) = IF 0 <= n /\ n < JulianEnd THEN JulianDay
                             ELSE IF n < y0 * DayLen THEN UnixFrac
                             ELSE IF n < y1 * DayLen THEN UnixMilli
                             ELSE IF n < y2 * DayLen THEN UnixMicro
                             ELSE UnixNano
  BY DEF AutoFormat
<1> HIDE DEF y0, y1, y2
<1>6. ASSUME NEW n \in Int, JulianEnd <= n, n < y0 * DayLen PROVE AutoFormat(n) = UnixFrac
  BY <1>2, <1>5, <1>6
<1>7. ASSUME NEW q \in Int, y0 <= q, q < y1 PROVE AutoFormat(q * DayLen) = UnixMilli
  <2>1. q * DayLen \in Int /\ y0 * DayLen <= q * DayLen /\ q * DayLen < y1 * DayLen
    BY <1>1, <1>3, <1>7, Scale
  <2> QED
    BY <1>2, <1>4, <1>5, <2>1
<1>8. ASSUME NEW q \in Int, y1 <= q, q < y2 PROVE AutoFormat(q * DayLen) = UnixMicro
  <2>1. q * DayLen \in Int /\ y1 * DayLen <= q * DayLen /\ q * DayLen < y2 * DayLen
    BY <1>1, <1>3, <1>8, Scale
  <2> QED
    BY <1>2, <1>4, <1>5, <2>1
<1>9. ASSUME NEW q \in Int, y2 <= q PROVE AutoFormat(q * DayLen) = UnixNano
  <2>1. q * DayLen \in Int /\ y2 * DayLen <= q * DayLen
    BY <1>1, <1>3, <1>9, Scale
  <2> QED
    BY <1>2, <1>4, <1>5, <2>1
<1> QED
  BY <1>6, <1>7, <1>8, <1>9 DEF y0, y1, y2

\* A current time to the second is no Julian day.
LEMMA CurrentSeconds ==
    ASSUME NEW n \in Int, YearEnd * Milli <= n,
           NEW s \in Int, n - Sec <= s, s < YearEnd * Sec
    PROVE  AutoFormat(s * Day) = UnixFrac
<1> DEFINE w == YearEnd * Milli
           y == YearEnd * Sec
<1>1. w \in Nat /\ y \in Nat /\ Day \in Nat \ {0} /\ Sec \in Nat \ {0}
  BY Units
<1>2. DayLen = Sec * Day /\ JulianEnd + DayLen <= w * Day /\ JulianEnd \in Nat /\ DayLen \in Nat
  BY Units
<1>3. YearEnd * DayLen = y * Day
  BY Units
<1>4. w - Sec <= s /\ s < y
  BY <1>1
<1> HIDE DEF w, y
<1>5. (w - Sec) * Day <= s * Day /\ s * Day < y * Day /\ s * Day \in Int
  BY <1>1, <1>4, Scale
<1>6. (w - Sec) * Day = w * Day - DayLen /\ w * Day \in Int
  BY <1>1, <1>2
<1>7. JulianEnd <= s * Day
  BY <1>2, <1>5, <1>6
<1> QED
  BY <1>3, <1>5, <1>7, AutoFormats


\* Nor is a float64 that is less than a second off, or its text.
LEMMA CurrentFloat ==
    ASSUME NEW r \in Int, YearEnd * Milli - FloatStep <= r, r < YearEnd * Sec - Sec + FloatStep,
           NEW m \in Int, m - r * Day \in -TextError(r * Day) .. TextError(r * Day)
    PROVE  AutoFormat(m) = UnixFrac
<1> DEFINE w == YearEnd * Milli
           y == YearEnd * Sec
           n == r * Day
           e == TextError(n)
           loss == (YearEnd * DayLen) \div Precision
<1>1. /\ w \in Nat /\ y \in Nat /\ Day \in Nat \ {0} /\ Sec \in Nat \ {0} /\ FloatStep \in Nat
      /\ JulianEnd \in Nat /\ DayLen \in Nat /\ Precision \in Nat \ {0}
  BY Units
<1>2. DayLen = Sec * Day /\ JulianEnd + DayLen <= w * Day /\ FloatStep * Day + loss <= DayLen
  BY Units
<1>3. YearEnd * DayLen = y * Day /\ y * Day \in Nat
  BY Units
<1>4. w - FloatStep <= r /\ r < y - Sec + FloatStep
  OBVIOUS
<1>5. loss \in Nat
  <2> DEFINE all == YearEnd * DayLen
  <2>1. all \in Nat /\ loss = all \div Precision
    BY <1>3
  <2> HIDE DEF all, loss
  <2>0. all \in Int /\ 0 \in Int
    BY <2>1
  <2>2. loss \in Int
    BY <1>1, <2>1, Division
  <2>3. 0 * Precision <= all
    BY <1>1, <2>1
  <2>4. 0 <= all \div Precision
    BY Zenon, <1>1, <2>0, <2>1, <2>3, DivBounds
  <2> QED
    BY <2>1, <2>2, <2>4
<1> HIDE DEF w, y, loss
<1>6. (w - FloatStep) * Day <= n /\ n < (y - Sec + FloatStep) * Day /\ n \in Int
  BY <1>1, <1>4, Scale
<1>7. /\ (w - FloatStep) * Day = w * Day - FloatStep * Day
      /\ (y - Sec + FloatStep) * Day = y * Day - DayLen + FloatStep * Day
      /\ w * Day \in Int /\ FloatStep * Day \in Int
  BY <1>1, <1>2
<1>8. m - n \in -e .. e
  OBVIOUS
<1>9. e \in Nat /\ (0 <= n /\ n <= y * Day => e <= loss)
  <2> HIDE DEF n
  <2> QED
    BY <1>3, <1>6, TextErrorIs DEF loss
<1> HIDE DEF n, e
<1>10. JulianEnd + loss <= n /\ n < y * Day - loss
  BY <1>1, <1>2, <1>3, <1>5, <1>6, <1>7
<1>11. e <= loss
  BY <1>1, <1>3, <1>5, <1>6, <1>9, <1>10
<1>12. JulianEnd <= m /\ m < y * Day
  BY <1>1, <1>3, <1>5, <1>6, <1>8, <1>9, <1>10, <1>11
<1> QED
  BY <1>3, <1>12, AutoFormats

\* A Unix timestamp with a fraction is read as the nearest float64, or as its text.
LEMMA UnixFracRecovered ==
    ASSUME NEW t, t.tick \in Int, NEW g \in {UnixFrac, TimeFormatAuto},
           NEW v \in ColumnOf(Encode(UnixFrac, t)),
           g = TimeFormatAuto => SafeForAuto(UnixFrac, t.tick)
    PROVE  Recovered(UnixFrac, t, v, Decode(g, v))
<1> DEFINE r == Rounded(t.tick)
           n == r * Day
           e == TextError(n)
<1>1. r \in Int /\ t.tick - FloatStep <= r /\ r <= t.tick + FloatStep
  BY RoundedIs
<1>2. Encode(UnixFrac, t) = Number("float", n) /\ Encode(UnixFrac, t).n = n
  <2>1. Encode(UnixFrac, t) = Number("float", n)
    BY Zenon, NumbersEncoded
  <2> HIDE DEF n
  <2> QED
    BY <2>1 DEF Number
<1>3. PICK m : \/ v = Number("float", m) /\ m = n
               \/ v = Number("floatText", m) /\ m \in n - e .. n + e
  BY <1>2, Columns
<1>4. v.kind \in {"float", "floatText"} /\ (v.kind = "float" => v = Number("float", m) /\ m = n)
  BY <1>3 DEF Number
<1> HIDE DEF r
<1>5. n \in Int /\ n \div Day = r /\ Day \in Nat \ {0}
  BY <1>1, Units, DivBounds
<1>6. e \in Nat
  <2> HIDE DEF n
  <2> QED
    BY <1>5, TextErrorIs
<1>7. m \in Int /\ m - n \in -e .. e
  <2> HIDE DEF n, e
  <2> QED
    BY <1>3, <1>5, <1>6
<1>8. g = TimeFormatAuto => AutoFormat(m) = UnixFrac
  <2> SUFFICES ASSUME g = TimeFormatAuto PROVE AutoFormat(m) = UnixFrac
    OBVIOUS
  <2>1. YearEnd * Milli <= t.tick /\ t.tick < YearEnd * Sec - Sec
    BY FormatsDiffer, SafeIs DEF NumericFormats
  <2>2. YearEnd * Milli \in Int /\ YearEnd * Sec \in Int /\ FloatStep \in Nat /\ Sec \in Nat
    BY Units
  <2>3. YearEnd * Milli - FloatStep <= r /\ r < YearEnd * Sec - Sec + FloatStep
    BY <1>1, <2>1, <2>2
  <2> QED
    BY <1>1, <1>7, <2>3, CurrentFloat
<1>9. Decode(g, v) = FloatTime(m \div Day)
  <2>1. CASE g = UnixFrac
    BY <1>3, <2>1, SelfNumber, NumbersDecoded DEF NumericFormats
  <2>2. CASE g = TimeFormatAuto
    <3>1. Decode(g, v) = DecodeNumber(UnixFrac, Number("float", m))
      BY <1>3, <1>7, <1>8, <2>2, AutoNumber
    <3> QED
      BY <3>1, NumbersDecoded
  <2> QED
    BY <2>1, <2>2
<1> DEFINE d == e \div Day
           loss == IF v.kind = "float" THEN 0 ELSE d
<1> HIDE DEF e
<1>10. d \in Nat /\ e < (d + 1) * Day
  <2>1. e \in Int
    BY <1>6
  <2>2. d \in Int /\ e % Day \in 0 .. Day - 1 /\ e = d * Day + (e % Day)
    BY Zenon, <1>5, <2>1, Division
  <2>3. 0 <= d
    <3>1. 0 * Day <= e
      BY <1>5, <1>6
    <3> QED
      BY <1>5, <1>6, <3>1, DivBounds
  <2> HIDE DEF d
  <2>4. (d + 1) * Day = d * Day + Day /\ d * Day \in Int
    BY <1>5, <2>2
  <2> QED
    BY <1>5, <1>6, <2>2, <2>3, <2>4
<1>11. loss \in Nat /\ loss = IF v.kind = "float" THEN 0 ELSE TextLoss(UnixFrac, Encode(UnixFrac, t).n)
  <2>1. TextLoss(UnixFrac, n) = d
    BY FormatsDiffer DEF TextLoss, e
  <2> HIDE DEF d
  <2> QED
    BY <1>2, <1>10, <2>1
<1>12. m \div Day \in Int /\ m \div Day - r \in -(d + 1) .. d
  <2> DEFINE q == m \div Day
  <2>1. (r - d - 1) * Day <= m /\ m < (r + d + 1) * Day
    <3>1. /\ (r - d - 1) * Day = r * Day - (d + 1) * Day
          /\ (r + d + 1) * Day = r * Day + (d + 1) * Day
          /\ (d + 1) * Day \in Int
      BY <1>1, <1>5, <1>10
    <3> HIDE DEF d
    <3> QED
      BY <1>5, <1>6, <1>7, <1>10, <3>1
  <2>2. r - d - 1 \in Int /\ r + d + 1 \in Int
    BY <1>1, <1>10
  <2>3. q \in Int
    BY <1>5, <1>7, Division
  <2> HIDE DEF d
  <2>4. r - d - 1 <= q /\ q < r + d + 1
    BY <1>5, <1>7, <2>1, <2>2, DivBounds
  <2> HIDE DEF q
  <2>5. q - r \in -(d + 1) .. d
    BY <1>1, <1>10, <2>3, <2>4
  <2> QED
    BY <2>3, <2>5 DEF q
<1>13. m \div Day - r \in -(loss + 1) .. loss
  <2>1. CASE v.kind = "float"
    BY <1>1, <1>4, <1>5, <2>1
  <2>2. CASE v.kind # "float"
    BY <1>12, <2>2
  <2> QED
    BY <2>1, <2>2
<1> HIDE DEF loss
<1> QED
  BY <1>9, <1>11, <1>12, <1>13, FloatRecovered DEF r

\* An integer in units is read as the time cut to the unit.
LEMMA UnitsRecovered ==
    ASSUME NEW t, t.tick \in Int, NEW f \in {Unix, UnixMilli, UnixMicro, UnixNano},
           NEW g \in {f, TimeFormatAuto},
           NEW v \in ColumnOf(Encode(f, t)),
           g = TimeFormatAuto => SafeForAuto(f, t.tick)
    PROVE  Recovered(f, t, v, Decode(g, v))
<1> DEFINE unit == Unit(f.digits)
           q == t.tick \div unit
<1>1. unit \in Nat \ {0}
  BY NumberUnits, Units
<1>2. Encode(f, t) = Number("int", q)
  BY NumbersEncoded, NumberUnits
<1>3. v \in {Number("int", q), Number("intText", q)}
  BY <1>2, Columns
<1>4. q \in Int /\ q * unit = Cut(t.tick, unit)
  BY ZenonT(30), <1>1, Division, CutIs
<1>5. \A k \in {"int", "intText"} : DecodeNumber(f, Number(k, q)) = UTC(q * unit)
  BY NumbersDecoded, NumberUnits
<1>6. ASSUME g = TimeFormatAuto
      PROVE  DecodeNumber(AutoFormat(q * DayLen), Number("int", q)) = UTC(q * unit)
  <2> DEFINE w == YearEnd * Milli
             y == YearEnd * Sec
             n == t.tick
  <2>1. w <= n /\ n < y - Sec
    BY <1>6, FormatsDiffer, SafeIs DEF NumericFormats
  <2>2. w \in Int /\ y \in Int /\ Sec \in Nat
    BY Units
  <2>3. n < y
    BY <2>1, <2>2
  <2>4. CASE f = Unix
    <3>1. unit = Sec
      BY <2>4, NumberUnits
    <3>2. /\ q * Sec \in Int /\ n = q * Sec + (n % Sec) /\ n % Sec \in 0 .. Sec - 1
          /\ Sec \in Nat \ {0}
      <4>1. Sec \in Nat \ {0} /\ q = n \div Sec
        BY <3>1, Units
      <4>2. /\ n = (n \div Sec) * Sec + (n % Sec) /\ n % Sec \in 0 .. Sec - 1
            /\ n \div Sec \in Int
        BY Zenon, <4>1, Division
      <4> HIDE DEF q, unit
      <4>3. q * Sec \in Int
        BY <1>4, <4>1
      <4> QED
        BY Zenon, <4>1, <4>2, <4>3
    <3> HIDE DEF q
    <3>3. n - Sec <= q * Sec /\ q * Sec < y
      BY <2>2, <2>3, <3>2
    <3>4. AutoFormat((q * Sec) * Day) = UnixFrac
      BY <2>1, <3>2, <3>3, CurrentSeconds
    <3>5. (q * Sec) * Day = q * DayLen
      BY <1>4, Units
    <3> QED
      BY <3>1, <3>4, <3>5, NumbersDecoded
  <2>5. CASE f = UnixMilli
    <3>1. unit = Milli /\ Milli \in Nat \ {0}
      BY <2>5, NumberUnits, Units
    <3>2. y = (YearEnd * K) * Milli /\ YearEnd \in Int /\ YearEnd * K \in Int
      BY Units
    <3>3. YearEnd <= q /\ q < YearEnd * K
      BY Zenon, <2>1, <2>3, <3>1, <3>2, DivBounds
    <3>4. AutoFormat(q * DayLen) = UnixMilli
      BY <1>4, <3>3, AutoFormats
    <3> QED
      BY <3>1, <3>4, NumbersDecoded
  <2>6. CASE f = UnixMicro
    <3>1. unit = Micro /\ Micro \in Nat \ {0}
      BY <2>6, NumberUnits, Units
    <3>2. /\ w = (YearEnd * K) * Micro /\ y = (YearEnd * K * K) * Micro
          /\ YearEnd * K \in Int /\ YearEnd * K * K \in Int
      BY Units
    <3>3. YearEnd * K <= q /\ q < YearEnd * K * K
      BY Zenon, <2>1, <2>3, <3>1, <3>2, DivBounds
    <3>4. AutoFormat(q * DayLen) = UnixMicro
      BY <1>4, <3>3, AutoFormats
    <3> QED
      BY <3>1, <3>4, NumbersDecoded
  <2>7. CASE f = UnixNano
    <3>1. unit = 1
      BY <2>7, NumberUnits
    <3>2. w = YearEnd * K * K
      BY Units
    <3>3. q = n
      BY <3>1
    <3>4. AutoFormat(q * DayLen) = UnixNano
      BY <1>4, <2>1, <3>2, <3>3, AutoFormats
    <3> QED
      BY <3>1, <3>4, NumbersDecoded
  <2> QED
    BY <2>4, <2>5, <2>6, <2>7
<1> HIDE DEF unit, q
<1>7. Decode(g, v) = UTC(q * unit)
  <2>1. CASE g = f
    BY <1>3, <1>5, <2>1, SelfNumber DEF NumericFormats
  <2>2. CASE g = TimeFormatAuto
    BY <1>3, <1>4, <1>6, <2>2, AutoNumber
  <2> QED
    BY <2>1, <2>2
<1>8. \E u \in UTC(q * unit) : UTC(q * unit) = {u} /\ u.tick = Cut(t.tick, unit)
  BY <1>4 DEF UTC
<1> QED
  BY <1>7, <1>8, RecoveredNumber DEF unit


-------------------------------------------------------------------------------
(* Texts. *)
\* Does a text parse with a layout?  As which time?
Fits(l, x) == /\ x.kind = "text" /\ x.sep = l.sep
              /\ (x.digits = -1 <=> l.digits = -1)
              /\ (l.tz <=> x.tz # "none")

\* The instant that the fields of a text stand for.
Instant(x) == [tick |-> x.day * DayLen + x.at - x.zone, zone |-> x.zone]

\* What a text is read as by the layouts that fit.
ReadAs(x) == IF x.sep = "time" \/ FourDigitYear(x.day) THEN {Instant(x)} ELSE {}

\* Whether a text parses depends on the layout, what it is read as does not.
LEMMA ParseIs ==
    ASSUME NEW l, NEW x
    PROVE  Parse(l, x) = IF Fits(l, x) THEN ReadAs(x) ELSE {}
BY DEF Parse, Fits, Instant, ReadAs

\* A set of naturals has a least element.
LEMMA Least ==
    ASSUME NEW T \in SUBSET Nat, T # {}
    PROVE  \E x \in T : \A y \in T : x <= y
<1>1. \E x \in T : \A y \in T : <<y, x>> \notin OpToRel(<, Nat)
  BY NatLessThanWellFounded, WFMin, Zenon
<1>2. \A x, y \in Nat : y < x => <<y, x>> \in OpToRel(<, Nat)
  BY DEF OpToRel
<1>3. \E x \in T : \A y \in T : ~(y < x)
  BY <1>1, <1>2, Zenon
<1> QED
  BY <1>3

\* All layouts that parse a text read it alike.
LEMMA FirstParsedIs ==
    ASSUME NEW layouts, DOMAIN layouts \subseteq Nat, NEW x
    PROVE  FirstParsed(layouts, x) =
              IF \E i \in DOMAIN layouts : Fits(layouts[i], x) THEN ReadAs(x) ELSE {}
<1> DEFINE parsed == {i \in DOMAIN layouts : Parse(layouts[i], x) # {}}
           first == CHOOSE i \in parsed : \A j \in parsed : i <= j
<1>1. FirstParsed(layouts, x) = IF parsed = {} THEN {} ELSE Parse(layouts[first], x)
  BY DEF FirstParsed
<1>2. \A i \in DOMAIN layouts : i \in parsed <=> Fits(layouts[i], x) /\ ReadAs(x) # {}
  BY ParseIs
<1>3. parsed \in SUBSET Nat
  OBVIOUS
<1>4. parsed # {} => first \in parsed
  <2> HIDE DEF parsed
  <2> QED
    BY Zenon, <1>3, Least
<1>5. parsed # {} => Fits(layouts[first], x)
  BY <1>2, <1>4
<1>6. parsed # {} <=> ReadAs(x) # {} /\ \E i \in DOMAIN layouts : Fits(layouts[i], x)
  BY <1>2
<1> HIDE DEF parsed, first
<1> QED
  BY <1>1, <1>5, <1>6, ParseIs

\* The layouts of TimeFormatAuto recognize every text that Encode writes.
LEMMA DatesParsed ==
    ASSUME NEW x, x.kind = "text", x.digits \in Int
    PROVE  /\ x.sep \in {"T", "space"} => FirstParsed(Dates, x) = ReadAs(x)
           /\ x.sep = "date" /\ x.digits = -1 /\ x.tz = "none" => FirstParsed(Dates, x) = ReadAs(x)
           /\ x.sep # "time" => FirstParsed(Times, x) = {}
           /\ x.sep = "time" => FirstParsed(Dates, x) = {}
           /\ x.sep = "time" => FirstParsed(Times, x) = ReadAs(x)
<1>1. DOMAIN Dates = 1 .. 9 /\ DOMAIN Times = 1 .. 4
  BY DEF Dates, Times
<1>2. /\ Dates[1] = Layout("T", 0, TRUE) /\ Dates[2] = Layout("T", 0, FALSE)
      /\ Dates[3] = Layout("space", 0, TRUE) /\ Dates[4] = Layout("space", 0, FALSE)
      /\ Dates[5] = Layout("T", -1, TRUE) /\ Dates[6] = Layout("T", -1, FALSE)
      /\ Dates[7] = Layout("space", -1, TRUE) /\ Dates[8] = Layout("space", -1, FALSE)
      /\ Dates[9] = TimeFormat1
  BY Zenon DEF Dates
<1>3. /\ Times[1] = Layout("time", 0, TRUE) /\ Times[2] = Layout("time", 0, FALSE)
      /\ Times[3] = Layout("time", -1, TRUE) /\ Times[4] = Layout("time", -1, FALSE)
  BY DEF Times
<1>5. ASSUME NEW sep
      PROVE
         /\ Fits(Layout(sep, 0, TRUE), x) <=> x.sep = sep /\ x.digits # -1 /\ x.tz # "none"
         /\ Fits(Layout(sep, 0, FALSE), x) <=> x.sep = sep /\ x.digits # -1 /\ x.tz = "none"
         /\ Fits(Layout(sep, -1, TRUE), x) <=> x.sep = sep /\ x.digits = -1 /\ x.tz # "none"
         /\ Fits(Layout(sep, -1, FALSE), x) <=> x.sep = sep /\ x.digits = -1 /\ x.tz = "none"
  BY DEF Fits, Layout
<1>6. x.sep \in {"T", "space"} => \E i \in {1, 2, 3, 4, 5, 6, 7, 8} : Fits(Dates[i], x)
  <2>1. CASE x.sep = "T"
    BY Zenon, <1>2, <1>5, <2>1
  <2>2. CASE x.sep = "space"
    BY Zenon, <1>2, <1>5, <2>2
  <2> QED
    BY <2>1, <2>2
<1>7. x.sep = "date" /\ x.digits = -1 /\ x.tz = "none" => Fits(Dates[9], x)
  BY Zenon, <1>2, <1>5 DEF TimeFormat1
<1>8. x.sep = "time" => \A i \in {1, 2, 3, 4, 5, 6, 7, 8, 9} : ~Fits(Dates[i], x)
  <2>1. \A i \in {1, 2, 3, 4, 5, 6, 7, 8, 9} : Dates[i].sep # "time"
    BY <1>2 DEF TimeFormat1, Layout
  <2> QED
    BY <2>1 DEF Fits
<1>9. x.sep = "time" => \E i \in {1, 2, 3, 4} : Fits(Times[i], x)
  BY Zenon, <1>3, <1>5
<1>11. x.sep # "time" => \A i \in {1, 2, 3, 4} : ~Fits(Times[i], x)
  BY Zenon, <1>3, <1>5
<1>10. /\ 1 .. 9 = {1, 2, 3, 4, 5, 6, 7, 8, 9} /\ 1 .. 4 = {1, 2, 3, 4}
       /\ 1 .. 9 \subseteq Nat /\ 1 .. 4 \subseteq Nat
  OBVIOUS
<1> QED
  BY <1>1, <1>6, <1>7, <1>8, <1>9, <1>10, <1>11, FirstParsedIs

\* So it reads such a text like any other layout.
LEMMA AutoTextIs ==
    ASSUME NEW x, x.kind = "text", x.digits \in Int,
           \/ x.sep \in {"T", "space", "time"}
           \/ x.sep = "date" /\ x.digits = -1 /\ x.tz = "none"
    PROVE  DecodeAutoText(x) = IF x.sep = "time" THEN AddDate2000(ReadAs(x)) ELSE ReadAs(x)
<1>1. AddDate2000({}) = {}
  BY DEF AddDate2000
<1>2. DecodeAutoText(x) = IF FirstParsed(Dates, x) # {} THEN FirstParsed(Dates, x)
                          ELSE AddDate2000(FirstParsed(Times, x))
  BY Zenon DEF DecodeAutoText
<1>3. CASE x.sep = "time"
  <2>1. FirstParsed(Dates, x) = {} /\ FirstParsed(Times, x) = ReadAs(x)
    BY <1>3, DatesParsed
  <2> QED
    BY <1>2, <1>3, <2>1
<1>4. CASE x.sep # "time"
  <2>1. FirstParsed(Dates, x) = ReadAs(x) /\ FirstParsed(Times, x) = {}
    BY <1>4, DatesParsed
  <2> QED
    BY <1>1, <1>2, <1>4, <2>1
<1> QED
  BY <1>3, <1>4

\* parseRelaxed takes a text with or without a zone.
LEMMA RelaxedParsed ==
    ASSUME NEW f, f.digits \in {-1, 0, 1},
           NEW x, x.kind = "text", x.sep = f.sep, x.digits = -1 <=> f.digits = -1
    PROVE  parseRelaxed(f, x) = ReadAs(x)
<1> DEFINE d == IF f.digits = 1 THEN 0 ELSE f.digits
           layouts == <<Layout(f.sep, d, TRUE), Layout(f.sep, d, FALSE)>>
<1>1. x.digits = -1 <=> d = -1
  OBVIOUS
<1>2. parseRelaxed(f, x) = FirstParsed(layouts, x)
  BY DEF parseRelaxed
<1> HIDE DEF d
<1>3. DOMAIN layouts = {1, 2} /\ {1, 2} \subseteq Nat
  OBVIOUS
<1>4. layouts[1] = Layout(f.sep, d, TRUE) /\ layouts[2] = Layout(f.sep, d, FALSE)
  OBVIOUS
<1> HIDE DEF layouts
<1>5. /\ Fits(Layout(f.sep, d, TRUE), x) <=> x.tz # "none"
      /\ Fits(Layout(f.sep, d, FALSE), x) <=> x.tz = "none"
  BY <1>1 DEF Fits, Layout
<1>6. \E i \in DOMAIN layouts : Fits(layouts[i], x)
  BY Zenon, <1>3, <1>4, <1>5
<1> QED
  BY Zenon, <1>2, <1>3, <1>6, FirstParsedIs

\* The fields of the layouts of texts.
LEMMA TextLayouts ==
    ASSUME NEW f \in TextFormats
    PROVE  f.digits \in {-1, 0, 1} /\ f.tz \in BOOLEAN
<1>1. CASE f = TimeFormat1
  BY <1>1 DEF TimeFormat1, Layout
<1>2. CASE f \in DateTimes \cup DayTimes
  BY <1>2 DEF DateTimes, DayTimes
<1> QED
  BY <1>1, <1>2 DEF TextFormats

LEMMA Separators ==
    /\ \A f \in DateTimes : f.sep \in {"space", "T"} /\ f.sep # "time"
    /\ \A f \in DayTimes : f.sep = "time"
BY DEF DateTimes, DayTimes

LEMMA NanoLayouts ==
    ASSUME NEW f \in {RFC3339Nano, TimeFormatAuto}
    PROVE  /\ f.sep \notin {"date", "time"} /\ f.digits = 3 /\ f.tz = TRUE
           /\ f # TimeFormatAuto => f.sep = "T"
BY DEF RFC3339Nano, TimeFormatAuto, Layout

\* The groups of digits that RFC3339Nano writes, and what Format writes then.
NanoDigits(at) ==
    CHOOSE d \in 0 .. 3 : at % Unit(d) = 0 /\ \A e \in 0 .. d - 1 : at % Unit(e) # 0

\* The text that a layout gives for an instant.
Written(l, t, digits) ==
    [kind |-> "text", sep |-> l.sep, digits |-> digits,
     day |-> IF l.sep = "time" THEN Year0 ELSE (t.tick + t.zone) \div DayLen,
     at |-> IF l.sep = "date" THEN 0 ELSE Cut((t.tick + t.zone) % DayLen, Unit(digits)),
     tz |-> IF ~l.tz THEN "none" ELSE IF t.zone = 0 THEN "Z" ELSE "offset",
     zone |-> IF l.tz THEN Offset(t.zone) ELSE 0]

\* Format, with the number of its digits apart.
LEMMA FormatIs ==
    ASSUME NEW l, NEW t
    PROVE  Format(l, t) = Written(l, t, IF l.digits < 3 THEN l.digits
                                        ELSE NanoDigits((t.tick + t.zone) % DayLen))
BY ZenonT(30) DEF Format, Written, NanoDigits

\* What Format writes, for a layout that has no more than milliseconds.
LEMMA Formatted ==
    ASSUME NEW f \in TextFormats, NEW t, NEW x, x = Format(f, t)
    PROVE  /\ x.kind = "text" /\ x.sep = f.sep /\ x.digits = f.digits
           /\ x.tz = "none" <=> ~f.tz
           /\ x.day = IF f.sep = "time" THEN Year0 ELSE (t.tick + t.zone) \div DayLen
           /\ x.at = IF f.sep = "date" THEN 0
                     ELSE Cut((t.tick + t.zone) % DayLen, Unit(f.digits))
           /\ x.zone = IF f.tz THEN Offset(t.zone) ELSE 0
<1>1. f.digits < 3 /\ f.tz \in BOOLEAN
  BY TextLayouts
<1>2. x = Written(f, t, f.digits)
  BY <1>1, FormatIs
<1>3. x.tz = IF ~f.tz THEN "none" ELSE IF t.zone = 0 THEN "Z" ELSE "offset"
  BY <1>2 DEF Written
<1>4. x.tz = "none" <=> ~f.tz
  BY <1>1, <1>3
<1> QED
  BY <1>2, <1>4 DEF Written

\* A time in RFC3339Nano is all there.
LEMMA FormattedNano ==
    ASSUME NEW t, t.tick \in Int, t.zone \in Int, NEW x, x = Format(RFC3339Nano, t)
    PROVE  /\ x.kind = "text" /\ x.sep = "T" /\ x.digits \in 0 .. 3
           /\ x.tz \in {"Z", "offset"} /\ x.zone = Offset(t.zone)
           /\ x.day = (t.tick + t.zone) \div DayLen /\ x.at = (t.tick + t.zone) % DayLen
<1> DEFINE local == t.tick + t.zone
           at == local % DayLen
           Ends(d) == at % Unit(d) = 0 /\ \A e \in 0 .. d - 1 : at % Unit(e) # 0
           digits == NanoDigits(at)
<1>1. RFC3339Nano.sep = "T" /\ RFC3339Nano.digits = 3 /\ RFC3339Nano.tz = TRUE
  BY DEF RFC3339Nano, Layout
<1>2. x = Written(RFC3339Nano, t, digits)
  <2>1. ~(RFC3339Nano.digits < 3)
    BY <1>1
  <2> QED
    BY <2>1, FormatIs
<1>3. local \in Int /\ DayLen \in Nat \ {0}
  BY Units
<1> HIDE DEF local
<1>4. at \in Int /\ local \div DayLen \in Int /\ local = (local \div DayLen) * DayLen + at
  BY <1>3, Division
<1> HIDE DEF at
<1>5. /\ Unit(0) = Sec /\ Unit(1) = Milli /\ Unit(2) = Micro /\ Unit(3) = 1
      /\ Sec \in Nat \ {0} /\ Milli \in Nat \ {0} /\ Micro \in Nat \ {0}
  BY Units DEF Unit
<1>6. \E d \in 0 .. 3 : Ends(d)
  <2>1. CASE at % Unit(0) = 0
    BY <2>1
  <2>2. CASE at % Unit(0) # 0 /\ at % Unit(1) = 0
    <3>1. \A e \in 0 .. 1 - 1 : e = 0
      OBVIOUS
    <3> QED
      BY <2>2, <3>1
  <2>3. CASE at % Unit(0) # 0 /\ at % Unit(1) # 0 /\ at % Unit(2) = 0
    <3>1. \A e \in 0 .. 2 - 1 : e = 0 \/ e = 1
      OBVIOUS
    <3> QED
      BY <2>3, <3>1
  <2>4. CASE at % Unit(0) # 0 /\ at % Unit(1) # 0 /\ at % Unit(2) # 0
    <3>1. \A e \in 0 .. 3 - 1 : e = 0 \/ e = 1 \/ e = 2
      OBVIOUS
    <3>2. at % Unit(3) = 0
      BY <1>4, <1>5
    <3> QED
      BY <2>4, <3>1, <3>2
  <2> QED
    BY <2>1, <2>2, <2>3, <2>4
<1>7. digits \in 0 .. 3 /\ at % Unit(digits) = 0
  BY Zenon, <1>6 DEF NanoDigits
<1> HIDE DEF digits
<1>8. Cut(at, Unit(digits)) = at
  BY <1>4, <1>7 DEF Cut
<1>9. /\ x.day = local \div DayLen /\ x.at = Cut(at, Unit(digits))
      /\ x.tz = IF t.zone = 0 THEN "Z" ELSE "offset"
      /\ x.kind = "text" /\ x.sep = "T" /\ x.digits = digits /\ x.zone = Offset(t.zone)
  BY <1>1, <1>2 DEF Written, local, at
<1> QED
  BY Zenon, <1>7, <1>8, <1>9 DEF local, at

\* An offset is written in whole minutes, less than one off.
LEMMA OffsetIs ==
    ASSUME NEW z \in Int
    PROVE  /\ Offset(z) \in Int
           /\ z - Offset(z) \in -(Minute * Sec) .. Minute * Sec
           /\ Offset(0) = 0
<1> DEFINE d == Minute * Sec
<1>1. d \in Nat \ {0}
  BY Units
<1>2. \A n : Offset(n) = IF n < 0 THEN -Cut(-n, d) ELSE Cut(n, d)
  BY Zenon DEF Offset
<1>3. (Minute * Sec) = d
  OBVIOUS
<1> HIDE DEF d
<1>4. ASSUME NEW n \in Int PROVE Cut(n, d) \in Int /\ n - Cut(n, d) \in 0 .. d
  <2>1. n % d \in 0 .. d - 1
    BY <1>1, Division
  <2> QED
    BY <1>1, <2>1 DEF Cut
<1>5. Cut(0, d) = 0
  BY <1>1 DEF Cut
<1>6. Offset(0) = 0
  BY <1>2, <1>5
<1>7. CASE z < 0
  <2>1. -z \in Int /\ Offset(z) = -Cut(-z, d)
    BY <1>2, <1>7
  <2>2. Cut(-z, d) \in Int /\ (-z) - Cut(-z, d) \in 0 .. d
    BY <1>4, <2>1
  <2> QED
    BY <1>1, <1>3, <1>6, <2>1, <2>2
<1>8. CASE ~(z < 0)
  <2>1. Offset(z) = Cut(z, d)
    BY <1>2, <1>8
  <2> QED
    BY <1>1, <1>3, <1>4, <1>6, <2>1
<1> QED
  BY <1>7, <1>8

\* The day and the time of the day that a text keeps.
DayOf(f, t) == (t.tick + ZoneOf(f, t)) \div DayLen
TimeOf(f, t) ==
    IF f.sep = "date" THEN 0 ELSE Cut((t.tick + ZoneOf(f, t)) % DayLen, Unit(f.digits))

\* The fields of a text that Encode writes.
LEMMA TextFields ==
    ASSUME NEW f \in TextFormats \cup {RFC3339Nano, TimeFormatAuto},
           NEW t \in [tick : Int, zone : Int], NEW x, x = Encode(f, t)
    PROVE  /\ x.kind = "text" /\ x.sep = (IF f = TimeFormatAuto THEN "T" ELSE f.sep)
           /\ x.digits \in -1 .. 3 /\ (x.digits = -1 <=> f.digits = -1)
           /\ x.tz = "none" <=> ~f.tz
           /\ x.day = IF f.sep = "time" THEN Year0 ELSE DayOf(f, t)
           /\ x.at = TimeOf(f, t) /\ x.zone = Offset(ZoneOf(f, t))
           /\ ZoneOf(f, t) \in Int /\ DayOf(f, t) \in Int /\ TimeOf(f, t) \in Int
<1>1. t.tick \in Int /\ t.zone \in Int /\ DayLen \in Nat \ {0}
  BY Units
<1>2. f.tz \in BOOLEAN /\ f.digits \in -1 .. 3
  <2>1. CASE f \in TextFormats
    BY <2>1, TextLayouts
  <2>2. CASE f \in {RFC3339Nano, TimeFormatAuto}
    <3>1. f.tz = TRUE /\ f.digits = 3
      BY Zenon, <2>2, NanoLayouts
    <3>2. f.tz \in BOOLEAN
      BY Zenon, <3>1
    <3>3. f.digits \in -1 .. 3
      BY <3>1
    <3> QED
      BY Zenon, <3>2, <3>3
  <2> QED
    BY <2>1, <2>2
<1> DEFINE zone == ZoneOf(f, t)
           local == t.tick + zone
<1>3. zone \in Int /\ local \in Int /\ zone = IF f.tz THEN t.zone ELSE 0
  BY <1>1, <1>2 DEF ZoneOf
<1>4. DayOf(f, t) = local \div DayLen
  BY DEF DayOf
<1>5. TimeOf(f, t) = IF f.sep = "date" THEN 0 ELSE Cut(local % DayLen, Unit(f.digits))
  BY DEF TimeOf
<1> HIDE DEF local
<1>6. local \div DayLen \in Int /\ local % DayLen \in Int
  BY <1>1, <1>3, Division
<1>7. TimeOf(f, t) \in Int
  <2>1. /\ Unit(-1) = Minute * Sec /\ Unit(0) = Sec /\ Unit(1) = Milli /\ Unit(2) = Micro
        /\ Unit(3) = 1
    BY DEF Unit
  <2>2. Unit(f.digits) \in Nat \ {0}
    BY <1>2, <2>1, Units
  <2>3. Cut(local % DayLen, Unit(f.digits)) \in Int
    BY <1>6, <2>2, CutIs
  <2> QED
    BY <1>5, <2>3
<1>8. CASE f \in TextFormats
  <2> DEFINE u == IF f.tz THEN t ELSE [t EXCEPT !.zone = 0]
  <2>1. x = Format(f, u)
    BY <1>8, FormatsDiffer DEF Encode, EncodeText
  <2>2. /\ x.kind = "text" /\ x.sep = f.sep /\ x.digits = f.digits
        /\ x.tz = "none" <=> ~f.tz
        /\ x.day = IF f.sep = "time" THEN Year0 ELSE (u.tick + u.zone) \div DayLen
        /\ x.at = IF f.sep = "date" THEN 0 ELSE Cut((u.tick + u.zone) % DayLen, Unit(f.digits))
        /\ x.zone = IF f.tz THEN Offset(u.zone) ELSE 0
    BY <1>8, <2>1, Formatted
  <2>3. u.tick = t.tick /\ u.zone = zone
    BY <1>2, <1>3
  <2> HIDE DEF u
  <2>4. u.tick + u.zone = local
    BY <2>3 DEF local
  <2>5. x.zone = Offset(zone)
    BY <1>1, <1>2, <1>3, <2>2, <2>3, OffsetIs
  <2>6. f # TimeFormatAuto
    BY <1>8, FormatsDiffer
  <2> HIDE DEF zone
  <2>7. x.day = (IF f.sep = "time" THEN Year0 ELSE DayOf(f, t)) /\ x.at = TimeOf(f, t)
    BY ZenonT(30), <1>4, <1>5, <2>2, <2>4
  <2> QED
    BY <1>2, <1>3, <1>4, <1>6, <1>7, <2>2, <2>5, <2>6, <2>7 DEF zone
<1>9. CASE f \in {RFC3339Nano, TimeFormatAuto}
  <2>1. x = Format(RFC3339Nano, t)
    BY <1>9, FormatsDiffer DEF Encode
  <2>2. /\ f.sep \notin {"date", "time"} /\ f.digits = 3 /\ f.tz = TRUE
        /\ (f # TimeFormatAuto => f.sep = "T")
    BY Zenon, <1>9, NanoLayouts
  <2>3. zone = t.zone /\ local = t.tick + t.zone
    BY <1>3, <2>2 DEF local
  <2>4. /\ x.kind = "text" /\ x.sep = "T" /\ x.digits \in 0 .. 3
        /\ x.tz \in {"Z", "offset"} /\ x.zone = Offset(t.zone)
        /\ x.day = (t.tick + t.zone) \div DayLen /\ x.at = (t.tick + t.zone) % DayLen
    BY <1>1, <2>1, FormattedNano
  <2>5. Cut(local % DayLen, Unit(f.digits)) = local % DayLen
    <3>1. Unit(f.digits) = 1
      BY <2>2 DEF Unit
    <3> QED
      BY <1>6, <3>1 DEF Cut
  <2>6. x.at = TimeOf(f, t)
    BY <1>5, <2>2, <2>3, <2>4, <2>5
  <2>7. x.digits \in -1 .. 3 /\ (x.digits = -1 <=> f.digits = -1)
    BY <2>2, <2>4
  <2>8. x.tz = "none" <=> ~f.tz
    BY <2>2, <2>4
  <2>9. x.day = (IF f.sep = "time" THEN Year0 ELSE DayOf(f, t)) /\ x.zone = Offset(zone)
    BY <1>4, <2>2, <2>3, <2>4
  <2> QED
    BY <1>3, <1>4, <1>6, <1>7, <2>2, <2>4, <2>6, <2>7, <2>8, <2>9
<1> QED
  BY <1>8, <1>9

\* How a text is decoded, and what its recovery means.
LEMMA TextsDecoded ==
    ASSUME NEW x, x.kind = "text"
    PROVE  /\ Decode(TimeFormatAuto, x) = DecodeAutoText(x)
           /\ \A f \in DateTimes : Decode(f, x) = parseRelaxed(f, x)
           /\ \A f \in DayTimes : Decode(f, x) = AddDate2000(parseRelaxed(f, x))
           /\ Decode(TimeFormat1, x) = Parse(TimeFormat1, x)
           /\ Decode(RFC3339Nano, x) = Parse(RFC3339Nano, x)
<1>1. Decode(TimeFormatAuto, x) = DecodeAutoText(x)
  BY FormatsDiffer DEF Decode, DecodeAuto
<1>2. \A f \in TextFormats \cup {RFC3339Nano} : Decode(f, x) = DecodeText(f, x)
  BY FormatsDiffer DEF Decode
<1>3. /\ \A f \in DateTimes : f.sep \in {"space", "T"} /\ f.digits \in {-1, 0, 1}
      /\ \A f \in DayTimes : f.sep = "time"
      /\ TimeFormat1.sep = "date" /\ RFC3339Nano.sep = "T" /\ RFC3339Nano.digits = 3
  BY DEF DateTimes, DayTimes, TimeFormat1, RFC3339Nano, Layout
<1>4. DateTimes \cap DayTimes = {} /\ TimeFormat1 \notin DateTimes \cup DayTimes
  BY <1>3
<1>5. RFC3339Nano \notin DateTimes \cup DayTimes
  BY <1>3
<1>6. /\ \A f \in DateTimes : DecodeText(f, x) = parseRelaxed(f, x)
      /\ \A f \in DayTimes : DecodeText(f, x) = AddDate2000(parseRelaxed(f, x))
      /\ DecodeText(TimeFormat1, x) = Parse(TimeFormat1, x)
      /\ DecodeText(RFC3339Nano, x) = Parse(RFC3339Nano, x)
  BY <1>4, <1>5 DEF DecodeText
<1> QED
  BY <1>1, <1>2, <1>6 DEF TextFormats

\* What a time in RFC3339Nano keeps is all of it.
LEMMA NanoKept ==
    ASSUME NEW t \in [tick : Int, zone : Int]
    PROVE  Kept(RFC3339Nano, t) = t /\ Kept(TimeFormatAuto, t) = t
<1> SUFFICES ASSUME NEW f \in {RFC3339Nano, TimeFormatAuto} PROVE Kept(f, t) = t
  OBVIOUS
<1> DEFINE local == t.tick + t.zone
           day == (local \div DayLen) * DayLen
           at == local % DayLen
<1>1. f.sep \notin {"date", "time"} /\ f.digits = 3 /\ f.tz = TRUE
  BY Zenon, NanoLayouts
<1>2. Unit(f.digits) = 1
  BY <1>1 DEF Unit
<1>3. Kept(f, t) = [tick |-> day + Cut(at, 1) - t.zone, zone |-> t.zone]
  BY <1>1, <1>2 DEF Kept, ZoneOf
<1>4. local \in Int /\ DayLen \in Nat \ {0} /\ t.tick \in Int /\ t.zone \in Int
  BY Units
<1>5. local - t.zone = t.tick
  BY <1>4
<1> HIDE DEF local
<1>6. local \div DayLen \in Int /\ at \in Int /\ local = day + at
  BY <1>4, Division
<1>7. day \in Int
  BY <1>4, <1>6
<1> HIDE DEF day, at
<1>8. Cut(at, 1) = at
  BY <1>6 DEF Cut
<1>9. day + Cut(at, 1) - t.zone = t.tick
  BY <1>4, <1>5, <1>6, <1>7, <1>8
<1>10. t = [tick |-> t.tick, zone |-> t.zone]
  OBVIOUS
<1> QED
  BY Zenon, <1>3, <1>9, <1>10

\* What a text of format f stands for.
InstantOf(f, x) == IF f.sep = "time" THEN AddDate2000({Instant(x)}) ELSE {Instant(x)}

\* What the text that Encode writes stands for: what it keeps of the time, but for
\* the seconds of the offset.
LEMMA InstantIs ==
    ASSUME NEW f \in TextFormats \cup {RFC3339Nano, TimeFormatAuto},
           NEW t \in [tick : Int, zone : Int], NEW x, x = Encode(f, t)
    PROVE  /\ InstantOf(f, x) = {[tick |-> Kept(f, t).tick + ZoneOf(f, t) - Offset(ZoneOf(f, t)),
                                 zone |-> Offset(ZoneOf(f, t))]}
           /\ Kept(f, t) \in [tick : Int, zone : Int] /\ Kept(f, t).zone = ZoneOf(f, t)
<1> DEFINE zone == ZoneOf(f, t)
           day == DayOf(f, t)
           at == TimeOf(f, t)
           o == Offset(zone)
           k == (IF f.sep = "time" THEN Y2K ELSE day) * DayLen + at - zone
<1>1. /\ x.at = at /\ x.zone = o /\ x.day = (IF f.sep = "time" THEN Year0 ELSE day)
      /\ zone \in Int /\ day \in Int /\ at \in Int
  BY TextFields
<1>2. Kept(f, t) = [tick |-> k, zone |-> zone]
  BY Zenon DEF Kept, DayOf, TimeOf
<1> HIDE DEF zone, day, at
<1>3. o \in Int /\ DayLen \in Nat /\ Year0 \in Int /\ Y2K \in Int
  BY <1>1, OffsetIs, Units
<1> HIDE DEF o
<1>4. k \in Int
  BY <1>1, <1>3
<1>5. InstantOf(f, x) = {[tick |-> k + zone - o, zone |-> o]}
  <2>1. CASE f.sep = "time"
    <3>1. Instant(x) = [tick |-> Year0 * DayLen + at - o, zone |-> o]
      BY <1>1, <2>1 DEF Instant
    <3>2. AddDate2000({Instant(x)}) =
             {[tick |-> Year0 * DayLen + at - o + (Y2K - Year0) * DayLen, zone |-> o]}
      BY <3>1 DEF AddDate2000
    <3>3. Year0 * DayLen + at - o + (Y2K - Year0) * DayLen = k + zone - o
      BY <1>1, <1>3, <2>1
    <3> QED
      BY Zenon, <2>1, <3>2, <3>3 DEF InstantOf
  <2>2. CASE f.sep # "time"
    <3>1. Instant(x) = [tick |-> day * DayLen + at - o, zone |-> o]
      BY <1>1, <2>2 DEF Instant
    <3>2. day * DayLen + at - o = k + zone - o
      BY <1>1, <1>3, <2>2
    <3> QED
      BY Zenon, <2>2, <3>1, <3>2 DEF InstantOf
  <2> QED
    BY <2>1, <2>2
<1> HIDE DEF k
<1>6. Kept(f, t).tick = k /\ Kept(f, t).zone = zone /\ Kept(f, t) \in [tick : Int, zone : Int]
  BY <1>1, <1>2, <1>4
<1> QED
  BY Zenon, <1>5, <1>6 DEF zone, o

\* So a time is recovered if its text is read with a layout that fits.
LEMMA RecoveredText ==
    ASSUME NEW f \in TextFormats \cup {RFC3339Nano, TimeFormatAuto},
           NEW t \in [tick : Int, zone : Int], NEW x, x = Encode(f, t), NEW column
    PROVE  Recovered(f, t, column, IF f.sep = "time" THEN AddDate2000(ReadAs(x)) ELSE ReadAs(x))
<1> DEFINE decoded == IF f.sep = "time" THEN AddDate2000(ReadAs(x)) ELSE ReadAs(x)
           T == InstantOf(f, x)
           kept == Kept(f, t)
           zone == ZoneOf(f, t)
           o == Offset(zone)
           u == [tick |-> kept.tick + zone - o, zone |-> o]
<1>1. Recovered(f, t, column, decoded) <=>
         IF ~YearKept(f, t) THEN decoded = {}
         ELSE IF ZoneKept(f, t) THEN decoded = {kept}
         ELSE \E s \in decoded : /\ decoded = {s} /\ s # t
                                 /\ s.tick - kept.tick \in -(Minute * Sec) .. Minute * Sec
  <2>1. f \notin {JulianDay, UnixFrac} /\ f \notin NumericFormats \ {JulianDay, UnixFrac}
    BY FormatsDiffer DEF NumericFormats
  <2> HIDE DEF decoded
  <2> QED
    BY ZenonT(30), <2>1 DEF Recovered
<1>2. T = {u} /\ kept \in [tick : Int, zone : Int] /\ kept.zone = zone
  BY Zenon, InstantIs
<1>3. decoded = IF YearKept(f, t) THEN T ELSE {}
  <2>1. /\ x.sep = "time" <=> f.sep = "time"
        /\ f.sep # "time" => x.day = DayOf(f, t)
    <3>1. TimeFormatAuto.sep = "auto"
      BY DEF TimeFormatAuto, Layout
    <3> QED
      BY <3>1, TextFields
  <2>2. YearKept(f, t) <=> x.sep = "time" \/ FourDigitYear(x.day)
    BY <2>1 DEF YearKept, DayOf
  <2>3. AddDate2000({}) = {}
    BY DEF AddDate2000
  <2>4. ReadAs(x) = IF YearKept(f, t) THEN {Instant(x)} ELSE {}
    BY <2>2 DEF ReadAs
  <2> QED
    BY <2>3, <2>4 DEF InstantOf
<1> HIDE DEF decoded, T
<1>4. zone \in Int /\ o \in Int /\ zone - o \in -(Minute * Sec) .. Minute * Sec
  <2>1. zone \in Int
    BY TextFields
  <2> HIDE DEF zone
  <2> QED
    BY <2>1, OffsetIs
<1>5. ZoneKept(f, t) => u = kept
  <2>1. ZoneKept(f, t) => o = zone
    BY DEF ZoneKept
  <2> HIDE DEF kept, zone, o
  <2>2. ASSUME o = zone PROVE [tick |-> kept.tick, zone |-> kept.zone] = u
    BY <1>2, <1>4, <2>2
  <2> QED
    BY <1>2, <2>1, <2>2
<1>6. ~ZoneKept(f, t) => u # t
  <2>1. f.tz \in BOOLEAN
    <3>1. CASE f \in TextFormats
      BY <3>1, TextLayouts
    <3>2. CASE f \in {RFC3339Nano, TimeFormatAuto}
      BY Zenon, <3>2, NanoLayouts
    <3> QED
      BY <3>1, <3>2
  <2>2. ~f.tz => zone = 0
    BY DEF ZoneOf
  <2>3. f.tz => zone = t.zone
    BY DEF ZoneOf
  <2>4. ~ZoneKept(f, t) => o # zone
    BY DEF ZoneKept
  <2>5. zone = 0 => o = zone
    BY OffsetIs
  <2>6. u.zone = o
    OBVIOUS
  <2> HIDE DEF zone, o, u
  <2> QED
    BY <2>1, <2>2, <2>3, <2>4, <2>5, <2>6
<1>7. u.tick - kept.tick \in -(Minute * Sec) .. Minute * Sec
  <2> HIDE DEF kept, zone, o
  <2>1. kept.tick \in Int /\ u.tick = kept.tick + zone - o
    BY <1>2
  <2>2. u.tick - kept.tick = zone - o
    BY <1>4, <2>1
  <2> QED
    BY <1>4, <2>2
<1> HIDE DEF u, kept
<1> QED
  BY <1>1, <1>2, <1>3, <1>5, <1>6, <1>7 DEF decoded

\* A text is read like that with the formats that go with its own.
LEMMA TextRecovered ==
    ASSUME NEW f \in TextFormats, NEW t \in [tick : Int, zone : Int],
           NEW g \in Readers(f), NEW v \in ColumnOf(Encode(f, t))
    PROVE  Recovered(f, t, v, Decode(g, v))
<1> DEFINE x == Encode(f, t)
<1>1. f.digits \in {-1, 0, 1} /\ f.tz \in BOOLEAN
  BY TextLayouts
<1>2. /\ x.kind = "text" /\ x.sep = f.sep /\ x.digits \in Int /\ (x.digits = -1 <=> f.digits = -1)
      /\ x.tz = "none" <=> ~f.tz
  <2>1. f # TimeFormatAuto
    BY FormatsDiffer
  <2> QED
    BY <2>1, TextFields
<1>3. v = x
  BY ZenonT(30), <1>2, Columns
<1>4. Recovered(f, t, v, IF f.sep = "time" THEN AddDate2000(ReadAs(x)) ELSE ReadAs(x))
  BY RecoveredText
<1> HIDE DEF x
<1>5. CASE f = TimeFormat1
  <2>1. f.sep = "date" /\ f.digits = -1 /\ f.tz = FALSE
    BY <1>5 DEF TimeFormat1, Layout
  <2>2. g \in {TimeFormat1, TimeFormatAuto}
    <3>1. f \notin DateTimes \cup DayTimes
      BY <2>1 DEF DateTimes, DayTimes
    <3> QED
      BY <1>5, <3>1 DEF Readers
  <2>3. Decode(TimeFormat1, x) = ReadAs(x)
    BY <1>2, <1>5, <2>1, TextsDecoded, ParseIs DEF Fits
  <2>4. Decode(TimeFormatAuto, x) = ReadAs(x)
    BY <1>2, <2>1, TextsDecoded, AutoTextIs
  <2>5. Decode(g, v) = ReadAs(x)
    BY <1>3, <2>2, <2>3, <2>4
  <2> QED
    BY <1>4, <2>1, <2>5
<1>6. ASSUME f \in DateTimes \cup DayTimes, g # TimeFormatAuto
       PROVE  /\ g.sep = f.sep /\ g.digits \in {-1, 0, 1} /\ (g.digits = -1 <=> f.digits = -1)
              /\ g \in DateTimes \cup DayTimes
  <2>1. CASE g = f
    BY <1>1, <1>6, <2>1
  <2>2. CASE g # f
    <3>1. g \in DateTimes \cup DayTimes /\ g.sep = f.sep /\ (g.digits = -1 <=> f.digits = -1)
      BY <1>6, <2>2 DEF Readers
    <3>2. g.digits \in {-1, 0, 1}
      BY <3>1, TextLayouts DEF TextFormats
    <3> QED
      BY Zenon, <3>1, <3>2
  <2> QED
    BY <2>1, <2>2
<1>7. CASE f \in DateTimes
  <2>1. f.sep \in {"space", "T"} /\ f.sep # "time"
    BY Zenon, <1>7, Separators
  <2>2. ASSUME g # TimeFormatAuto PROVE Decode(g, x) = ReadAs(x)
    <3>1. /\ g.sep = f.sep /\ g.digits \in {-1, 0, 1} /\ (g.digits = -1 <=> f.digits = -1)
          /\ g \in DateTimes \cup DayTimes
      BY <1>6, <1>7, <2>2
    <3>2. g \in DateTimes
      BY Zenon, <2>1, <3>1, Separators
    <3>3. parseRelaxed(g, x) = ReadAs(x)
      BY <1>2, <3>1, RelaxedParsed
    <3> QED
      BY Zenon, <1>2, <3>2, <3>3, TextsDecoded
  <2>3. Decode(TimeFormatAuto, x) = ReadAs(x)
    BY <1>2, <2>1, TextsDecoded, AutoTextIs
  <2>4. Decode(g, v) = ReadAs(x)
    BY <1>3, <2>2, <2>3
  <2> QED
    BY <1>4, <2>1, <2>4
<1>8. CASE f \in DayTimes
  <2>1. f.sep = "time"
    BY <1>8 DEF DayTimes
  <2>2. ASSUME g # TimeFormatAuto PROVE Decode(g, x) = AddDate2000(ReadAs(x))
    <3>1. /\ g.sep = f.sep /\ g.digits \in {-1, 0, 1} /\ (g.digits = -1 <=> f.digits = -1)
          /\ g \in DateTimes \cup DayTimes
      BY <1>6, <1>8, <2>2
    <3>2. g \in DayTimes
      BY Zenon, <2>1, <3>1, Separators
    <3>3. parseRelaxed(g, x) = ReadAs(x)
      BY <1>2, <3>1, RelaxedParsed
    <3> QED
      BY Zenon, <1>2, <3>2, <3>3, TextsDecoded
  <2>3. Decode(TimeFormatAuto, x) = AddDate2000(ReadAs(x))
    BY <1>2, <2>1, TextsDecoded, AutoTextIs
  <2>4. Decode(g, v) = AddDate2000(ReadAs(x))
    BY <1>3, <2>2, <2>3
  <2> QED
    BY <1>4, <2>1, <2>4
<1> QED
  BY <1>5, <1>7, <1>8 DEF TextFormats

\* So is RFC3339Nano, which TimeFormatAuto writes too.
LEMMA NanoRecovered ==
    ASSUME NEW f \in {RFC3339Nano, TimeFormatAuto}, NEW t \in [tick : Int, zone : Int],
           NEW g \in Readers(f), NEW v \in ColumnOf(Encode(f, t))
    PROVE  Recovered(f, t, v, Decode(g, v))
<1> DEFINE x == Encode(f, t)
<1>1. /\ f.sep # "time" /\ f.tz = TRUE /\ f.digits = 3 /\ (f # TimeFormatAuto => f.sep = "T")
      /\ RFC3339Nano.sep = "T" /\ RFC3339Nano.digits = 3 /\ RFC3339Nano.tz = TRUE
  BY DEF RFC3339Nano, TimeFormatAuto, Layout
<1>2. /\ x.kind = "text" /\ x.sep = "T" /\ x.digits \in Int /\ x.digits # -1 /\ x.tz # "none"
  BY <1>1, TextFields
<1>3. v = x
  BY <1>2, Columns
<1>4. Recovered(f, t, v, ReadAs(x))
  BY <1>1, RecoveredText
<1> HIDE DEF x
<1>5. g \in {RFC3339Nano, TimeFormatAuto}
  <2>1. f \notin DateTimes \cup DayTimes
    BY FormatsDiffer DEF TextFormats
  <2> QED
    BY <2>1 DEF Readers
<1>6. Decode(RFC3339Nano, x) = ReadAs(x)
  <2>1. Fits(RFC3339Nano, x)
    BY <1>1, <1>2 DEF Fits
  <2> QED
    BY <1>2, <2>1, TextsDecoded, ParseIs
<1>7. Decode(TimeFormatAuto, x) = ReadAs(x)
  BY <1>2, TextsDecoded, AutoTextIs
<1> QED
  BY <1>3, <1>4, <1>5, <1>6, <1>7

\* maybeTime recovers a time if its year has four digits and its offset no seconds:
\* the tests before its text is parsed refuse none of these.
LEMMA MaybeTimeRecovers ==
    ASSUME NEW t \in [tick : Int, zone : Int], Offset(t.zone) = t.zone,
           FourDigitYear((t.tick + t.zone) \div DayLen)
    PROVE  maybeTime(Format(RFC3339Nano, t)) = {t}
<1> DEFINE x == Format(RFC3339Nano, t)
           local == t.tick + t.zone
<1>1. t.tick \in Int /\ t.zone \in Int /\ t = [tick |-> t.tick, zone |-> t.zone]
  OBVIOUS
<1>2. /\ x.kind = "text" /\ x.sep = "T" /\ x.digits \in 0 .. 3
      /\ x.tz \in {"Z", "offset"} /\ x.zone = Offset(t.zone)
      /\ x.day = local \div DayLen /\ x.at = local % DayLen
  BY <1>1, FormattedNano
<1>3. Format(RFC3339Nano, t) = x
  OBVIOUS
<1> HIDE DEF x
<1>4. Instant(x) = t
  <2>1. local \in Int /\ DayLen \in Nat \ {0} /\ local - t.zone = t.tick
    BY <1>1, Units
  <2> HIDE DEF local
  <2>2. local = (local \div DayLen) * DayLen + (local % DayLen)
    BY Zenon, <2>1, Division
  <2>3. x.day * DayLen + x.at - x.zone = t.tick
    BY <1>2, <2>1, <2>2
  <2> QED
    BY Zenon, <1>1, <1>2, <2>3 DEF Instant
<1>5. FourDigitYear(x.day)
  BY <1>2
<1>6. Parse(RFC3339Nano, x) = {t}
  <2>1. RFC3339Nano.sep = "T" /\ RFC3339Nano.digits = 3 /\ RFC3339Nano.tz = TRUE
    BY DEF RFC3339Nano, Layout
  <2>2. Fits(RFC3339Nano, x)
    BY <1>2, <2>1 DEF Fits
  <2> QED
    BY <1>4, <1>5, <2>2, ParseIs DEF ReadAs
<1>7. Length(x) >= 20 /\ Length(x) <= 35
  <2>1. Length(x) = 19 + (IF x.digits > 0 THEN 1 + 3 * x.digits ELSE 0)
                       + (IF x.tz = "Z" THEN 1 ELSE 6)
    BY <1>2 DEF Length
  <2> QED
    BY <1>2, <2>1
<1>8. maybeTime(x) = {s \in {t} : Format(RFC3339Nano, s) = x}
  BY <1>2, <1>5, <1>6, <1>7 DEF maybeTime
<1> QED
  BY <1>3, <1>8

\* What maybeTime takes for a time is the instant of the text, and has that text.
LEMMA MaybeTimeSame ==
    ASSUME NEW x, NEW t \in maybeTime(x)
    PROVE  /\ Format(RFC3339Nano, t) = x /\ t = Instant(x)
           /\ x.sep = "T" /\ FourDigitYear(x.day)
<1>1. /\ x.sep = "T" /\ FourDigitYear(x.day)
      /\ t \in Parse(RFC3339Nano, x) /\ Format(RFC3339Nano, t) = x
  BY DEF maybeTime
<1>2. t = Instant(x)
  BY <1>1, ParseIs DEF ReadAs
<1> QED
  BY <1>1, <1>2

-------------------------------------------------------------------------------
(* The statement that stores a time. *)
\* One time is stored, in a statement of the program, its encoding is bound, and it
\* was read with a format that goes with its own.
TimesKept ==
    /\ stored # {} => stmt = "direct"
    /\ stmt = "direct" => scall.fn = "none"
    /\ \A s \in stored :
          /\ stored = {s} /\ s[1] \in Formats /\ s[2] \in Instants
          /\ bound = <<Encode(s[1], s[2])>>
    /\ stored = {} => read = {}
    /\ \A s \in stored, r \in read :
          r[1] \in Readers(s[1]) /\ r[2] \in Column /\ r[3] = Decode(r[1], r[2])

\* A statement that is not the program's own stores no time.
LEMMA NothingStored ==
    ASSUME TimesKept, stored' = {}, read' = {} \/ (stored = {} /\ read' = read),
           stmt' = "direct" => scall'.fn = "none"
    PROVE  TimesKept'
BY Zenon DEF TimesKept

LEMMA StillStored ==
    ASSUME TimesKept, UNCHANGED <<stmt, bound, stored, read>>,
           stmt' = "direct" => scall'.fn = "none"
    PROVE  TimesKept'
<1>1. Column' = Column
  BY DEF Column
<1> QED
  BY Zenon, <1>1 DEF TimesKept

\* Every step of a statement keeps the time, and reads it as Decode says.
LEMMA UseTimes == ASSUME TimesKept, UseStatement PROVE TimesKept'
<1>0. Idle.fn = "none"
  BY DEF Idle
<1>1. CASE CloseStmt
  <2>1. stmt' = "none" /\ stored' = {} /\ read' = {}
    BY <1>1 DEF CloseStmt, Nothing
  <2> QED
    BY <2>1, NothingStored
<1>2. CASE DriverStmt /\ ~CloseStmt
  <2>1. CASE stmt = "direct"
    <3>1. scall.fn = "none"
      BY <2>1 DEF TimesKept
    <3>2. rowsClose \/ \E outcome, empty : Next(outcome, empty)
      BY <1>2, <2>1, <3>1 DEF DriverStmt, Prepare, PrepareTail, NumInputNil, QueryContext, Bind,
          Queried, Exec, Calling
    <3>3. UNCHANGED <<stmt, bound, stored, read>> /\ scall' = Idle
      BY <3>2 DEF rowsClose, Next, Return, data
    <3> QED
      BY <1>0, <3>3, StillStored
  <2>2. CASE stmt # "direct"
    <3>1. stored = {}
      BY <2>2 DEF TimesKept
    <3>2. UNCHANGED <<stored, read>> /\ stmt' # "direct"
      BY <1>2, <2>2 DEF DriverStmt, Prepare, PrepareTail, NumInputNil, QueryContext, Bind, Queried,
                  Exec, Next, rowsClose, data
    <3> QED
      BY <3>1, <3>2, NothingStored
  <2> QED
    BY <2>1, <2>2
<1>3. CASE PrepareDirect
  <2>1. stored = {} /\ UNCHANGED <<stored, read>> /\ scall' = Idle
    BY <1>3 DEF PrepareDirect, TimesKept, Return
  <2> QED
    BY <1>0, <2>1, NothingStored
<1>4. CASE DirectStep \/ DirectReset
  <2>1. UNCHANGED <<stmt, bound, stored, scall>> /\ read' = {}
    BY <1>4 DEF DirectStep, DirectReset, Nothing
  <2> QED
    BY Zenon, <2>1 DEF TimesKept
<1>5. ASSUME NEW f \in Formats, NEW t \in Instants, BindTime(f, t) PROVE TimesKept'
  <2>1. /\ stored' = {<<f, t>>} /\ bound' = <<Encode(f, t)>>
        /\ stmt' = "direct" /\ stmt = "direct" /\ read' = {} /\ UNCHANGED scall
    BY <1>5 DEF BindTime, TimesKept, Nothing
  <2>2. \A s \in stored' : stored' = {s} /\ s[1] = f /\ s[2] = t
    BY <2>1
  <2> QED
    BY Zenon, <2>1, <2>2 DEF TimesKept
<1>6. ASSUME NEW s \in stored, NEW f \in Readers(s[1]), NEW v \in Column, ColumnTime(f, v)
      PROVE  TimesKept'
  <2>1. UNCHANGED <<stmt, bound, stored, scall>> /\ read' = {<<f, v, Decode(f, v)>>}
    BY <1>6 DEF ColumnTime
  <2>2. Column' = Column
    BY <2>1 DEF Column
  <2>3. \A r \in read' : r[1] = f /\ r[2] = v /\ r[3] = Decode(f, v)
    BY <2>1
  <2>4. stored = {s}
    BY DEF TimesKept
  <2>5. \A q \in stored', r \in read' :
           r[1] \in Readers(q[1]) /\ r[2] \in Column' /\ r[3] = Decode(r[1], r[2])
    BY <2>1, <2>2, <2>3, <2>4
  <2> QED
    BY <2>1, <2>4, <2>5 DEF TimesKept
<1>7. DriverStmt \/ DirectStmt
  BY DEF UseStatement
<1> QED
  BY <1>1, <1>2, <1>3, <1>4, <1>5, <1>6, <1>7 DEF DirectStmt

\* Nothing else touches it.
LEMMA TimesInvariant == CSpec => []TimesKept
<1>1. Init => TimesKept
  BY DEF Init, StmtInit, Nothing, TimesKept
<1>2. ASSUME TimesKept, [CNext]_cvars PROVE TimesKept'
  <2>1. CASE UseStatement
    BY <1>2, <2>1, UseTimes
  <2>2. CASE UNCHANGED svars
    <3>1. UNCHANGED <<stmt, bound, stored, read, scall>>
      BY <2>2 DEF svars
    <3>2. stmt' = "direct" => scall'.fn = "none"
      BY <1>2, <3>1 DEF TimesKept
    <3> QED
      BY <1>2, <3>1, <3>2, StillStored
  <2> QED
    BY <1>2, <2>1, <2>2 DEF CNext, cvars, OpenOrClose, CloseBusy
<1> QED
  BY <1>1, <1>2, PTL DEF CSpec

\* A time that BindTime has stored in any of the formats of time.go is recovered
\* by ColumnTime, to the precision of the format and of its conversions, with that
\* format, with another one that its documentation allows and, unless it is a
\* number that is not safe, with TimeFormatAuto; but a text is refused if the year
\* has not four digits, and loses the seconds of its offset.  This is for any
\* instant and zone, and for the units of time and the limits of TimeFormatAuto
\* that the code has.
THEOREM TimesRecovered == CSpec => []Recovers
<1>1. ASSUME TimesKept PROVE Recovers
  <2> SUFFICES ASSUME NEW s \in stored, NEW r \in read,
                      r[1] = TimeFormatAuto => SafeForAuto(s[1], s[2].tick)
               PROVE  Recovered(s[1], s[2], r[2], r[3])
    BY DEF Recovers
  <2> DEFINE f == s[1]
             t == s[2]
             g == r[1]
             v == r[2]
  <2>1. /\ f \in Formats /\ t \in Instants /\ bound = <<Encode(f, t)>>
        /\ g \in Readers(f) /\ v \in Column /\ r[3] = Decode(g, v)
    BY <1>1 DEF TimesKept
  <2>2. v \in ColumnOf(Encode(f, t))
    <3>1. bound[1] = Encode(f, t)
      BY <2>1
    <3>2. Column = ColumnOf(bound[1])
      BY Zenon DEF Column, ColumnOf
    <3> QED
      BY <2>1, <3>1, <3>2
  <2>3. t \in [tick : Int, zone : Int]
    BY <2>1, InstantsAre
  <2> HIDE DEF f, t, g, v
  <2>4. g = TimeFormatAuto => SafeForAuto(f, t.tick)
    BY DEF f, t, g
  <2> SUFFICES Recovered(f, t, v, Decode(g, v))
    BY <2>1 DEF f, t, v
  <2>5. CASE f \in TextFormats
    BY <2>1, <2>2, <2>3, <2>5, TextRecovered
  <2>6. CASE f \in {RFC3339Nano, TimeFormatAuto}
    BY <2>1, <2>2, <2>3, <2>6, NanoRecovered
  <2>7. CASE f \in NumericFormats
    <3>1. g \in {f, TimeFormatAuto}
      <4>1. f \notin DateTimes \cup DayTimes
        BY <2>7, FormatsDiffer DEF TextFormats
      <4> QED
        BY Zenon, <2>1, <4>1 DEF Readers
    <3>2. t.tick \in Int
      BY <2>3
    <3>3. CASE f = JulianDay
      BY Zenon, <2>2, <2>4, <3>1, <3>2, <3>3, JulianDayRecovered
    <3>4. CASE f = UnixFrac
      BY Zenon, <2>2, <2>4, <3>1, <3>2, <3>4, UnixFracRecovered
    <3>5. CASE f \in {Unix, UnixMilli, UnixMicro, UnixNano}
      BY Zenon, <2>2, <2>4, <3>1, <3>2, <3>5, UnitsRecovered
    <3> QED
      BY <2>7, <3>3, <3>4, <3>5 DEF NumericFormats
  <2> QED
    BY <2>1, <2>5, <2>6, <2>7 DEF Formats
<1> QED
  BY <1>1, TimesInvariant, PTL

\* The driver's maybeTime recovers a time that was stored as RFC3339Nano if, and
\* only if, its year has four digits and its offset no seconds.  Of the texts of a
\* time in any other format, it takes for a time what RFC3339Nano would write, and
\* leaves the others as they are.
THEOREM MaybeTimeFaithful == CSpec => []MaybeTime
<1>1. ASSUME TimesKept PROVE MaybeTime
  <2> SUFFICES ASSUME NEW s \in stored, s[1] \in TextFormats \cup {RFC3339Nano}
               PROVE  LET text == bound[1]
                          spelled == [text EXCEPT !.tz = IF @ = "Z" THEN "offset" ELSE @]
                          kept == Kept(s[1], s[2])
                      IN IF YearKept(s[1], s[2]) /\ ZoneKept(s[1], s[2])
                         THEN \A x \in {text, spelled} :
                                 maybeTime(x) = IF x = Format(RFC3339Nano, kept) THEN {kept} ELSE {}
                         ELSE s[2] \notin maybeTime(text)
    BY Zenon DEF MaybeTime
  <2> DEFINE f == s[1]
             t == s[2]
             text == bound[1]
             spelled == [text EXCEPT !.tz = IF @ = "Z" THEN "offset" ELSE @]
             kept == Kept(f, t)
             zone == ZoneOf(f, t)
  <2>1. t \in Instants /\ text = Encode(f, t)
    BY <1>1 DEF TimesKept
  <2>2. t \in [tick : Int, zone : Int]
    BY <2>1, InstantsAre
  <2>3. /\ text.sep = f.sep /\ text.zone = Offset(zone)
        /\ text.day = IF f.sep = "time" THEN Year0 ELSE DayOf(f, t)
    <3>1. f \in TextFormats \cup {RFC3339Nano, TimeFormatAuto} /\ f # TimeFormatAuto
      BY FormatsDiffer
    <3>2. /\ text.sep = IF f = TimeFormatAuto THEN "T" ELSE f.sep
          /\ text.day = IF f.sep = "time" THEN Year0 ELSE DayOf(f, t)
          /\ text.zone = Offset(zone)
      <4> HIDE DEF f, t, text
      <4> QED
        BY <2>1, <2>2, <3>1, TextFields
    <3> QED
      BY Zenon, <3>1, <3>2
  <2>4. /\ InstantOf(f, text) = {[tick |-> kept.tick + zone - Offset(zone), zone |-> Offset(zone)]}
        /\ kept \in [tick : Int, zone : Int] /\ kept.zone = zone
    BY Zenon, <2>1, <2>2, InstantIs
  <2>5. /\ spelled.sep = text.sep /\ spelled.day = text.day
        /\ spelled.at = text.at /\ spelled.zone = text.zone
    <3>1. \E l, u : text = Format(l, u)
      BY <2>1, FormatsDiffer DEF Encode, EncodeText
    <3>2. PICK l, u, d : text = Written(l, u, d)
      BY Zenon, <3>1, FormatIs
    <3>3. DOMAIN text = {"kind", "sep", "digits", "day", "at", "tz", "zone"}
      BY Zenon, <3>2 DEF Written
    <3> HIDE DEF text
    <3> QED
      BY <3>3
  <2> HIDE DEF f, t, text, spelled
  <2>6. ASSUME YearKept(f, t), ZoneKept(f, t), NEW x \in {text, spelled}
        PROVE  maybeTime(x) = IF x = Format(RFC3339Nano, kept) THEN {kept} ELSE {}
    <3>1. Offset(zone) = zone
      BY <2>6 DEF ZoneKept
    <3>2. Instant(x) = Instant(text) /\ x.sep = f.sep /\ x.day = text.day
      BY <2>3, <2>5 DEF Instant
    <3>3. f.sep = "T" => Instant(x) = kept /\ FourDigitYear(x.day)
      <4> SUFFICES ASSUME f.sep = "T" PROVE Instant(x) = kept /\ FourDigitYear(x.day)
        OBVIOUS
      <4>1. Instant(x) = [tick |-> kept.tick + zone - zone, zone |-> zone]
        BY <2>4, <3>1, <3>2 DEF InstantOf
      <4>2. kept.tick + zone - zone = kept.tick /\ kept = [tick |-> kept.tick, zone |-> zone]
        BY <2>4
      <4>3. FourDigitYear(x.day)
        BY <2>3, <2>6, <3>2 DEF YearKept, DayOf
      <4> QED
        BY <4>1, <4>2, <4>3
    <3> HIDE DEF kept, zone
    <3>4. CASE x = Format(RFC3339Nano, kept)
      <4>1. x.sep = "T" /\ x.day = (kept.tick + kept.zone) \div DayLen
        <5>1. kept.tick \in Int /\ kept.zone \in Int
          BY <2>4
        <5> QED
          BY Zenon, <3>4, <5>1, FormattedNano
      <4>2. FourDigitYear((kept.tick + kept.zone) \div DayLen) /\ Offset(kept.zone) = kept.zone
        BY <2>4, <3>1, <3>2, <3>3, <4>1
      <4> QED
        BY <2>4, <3>4, <4>2, MaybeTimeRecovers
    <3>5. CASE x # Format(RFC3339Nano, kept)
      <4>1. ASSUME NEW u \in maybeTime(x) PROVE FALSE
        <5>1. Format(RFC3339Nano, u) = x /\ u = Instant(x) /\ x.sep = "T"
          BY MaybeTimeSame
        <5> QED
          BY <3>2, <3>3, <3>5, <5>1
      <4> QED
        BY <3>5, <4>1
    <3> QED
      BY <3>4, <3>5
  <2>7. ASSUME ~(YearKept(f, t) /\ ZoneKept(f, t)), t \in maybeTime(text) PROVE FALSE
    <3>1. t = Instant(text) /\ text.sep = "T" /\ FourDigitYear(text.day)
      BY <2>7, MaybeTimeSame
    <3>2. YearKept(f, t)
      BY <2>3, <3>1 DEF YearKept, DayOf
    <3>3. Offset(zone) # zone
      BY <2>7, <3>2 DEF ZoneKept
    <3>4. t.zone = Offset(zone)
      BY <2>3, <3>1 DEF Instant
    <3>5. zone = t.zone \/ zone = 0
      BY DEF ZoneOf
    <3>6. Offset(0) = 0
      BY OffsetIs
    <3> HIDE DEF zone
    <3> QED
      BY <3>3, <3>4, <3>5, <3>6
  <2> QED
    BY Zenon, <2>6, <2>7 DEF f, t, text, spelled
<1> QED
  BY <1>1, TimesInvariant, PTL
================================================================================
