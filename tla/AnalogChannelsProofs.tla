-------------------------- MODULE AnalogChannelsProofs --------------------------
(***************************************************************************)
(* Proofs about AnalogChannels, for any number of channels, any ranges of  *)
(* which each count is a whole number of units, and any values.            *)
(***************************************************************************)
EXTENDS AnalogChannels, TLAPS

-----------------------------------------------------------------------------
(* Division.  A quotient is known by its bounds.                             *)

LEMMA Quotient ==
  ASSUME NEW a \in Int, NEW b \in Nat \ {0}, NEW q \in Int, b * q <= a, a < b * q + b
  PROVE  a \div b = q
<1> DEFINE p == a \div b
<1>1. p \in Int /\ b * p <= a /\ a < b * p + b
  OBVIOUS
<1> HIDE DEF p
<1>2. ~ (p < q)
  <2> SUFFICES ASSUME p + 1 <= q PROVE FALSE
    BY <1>1
  <2>1. b * (p + 1) <= b * q
    BY <1>1
  <2>2. b * (p + 1) = b * p + b
    BY <1>1
  <2> QED
    BY <1>1, <2>1, <2>2
<1>3. ~ (q < p)
  <2> SUFFICES ASSUME q + 1 <= p PROVE FALSE
    BY <1>1
  <2>1. b * (q + 1) <= b * p
    BY <1>1
  <2>2. b * (q + 1) = b * q + b
    BY <1>1
  <2> QED
    BY <1>1, <2>1, <2>2
<1> QED
  BY <1>1, <1>2, <1>3 DEF p

\* A common factor cancels.
LEMMA Cancel ==
  ASSUME NEW d \in Int, NEW n \in Nat \ {0}, NEW k \in Nat \ {0}
  PROVE  (d * n) \div (n * k) = d \div k
<1> DEFINE q == d \div k
<1>1. q \in Int /\ k * q <= d /\ d < k * q + k
  OBVIOUS
<1> HIDE DEF q
<1>2. n * k \in Nat \ {0} /\ d * n \in Int
  OBVIOUS
<1>3. n * (k * q) <= n * d
  BY <1>1
<1>4. n * d + n <= n * (k * q + k)
  <2>1. d + 1 <= k * q + k
    BY <1>1
  <2>2. n * (d + 1) <= n * (k * q + k)
    BY <1>1, <2>1
  <2>3. n * (d + 1) = n * d + n
    OBVIOUS
  <2> QED
    BY <2>2, <2>3
<1>5. n * (k * q) = (n * k) * q /\ n * (k * q + k) = (n * k) * q + n * k /\ n * d = d * n
  BY <1>1
<1>6. (n * k) * q <= d * n /\ d * n < (n * k) * q + n * k
  BY <1>1, <1>2, <1>3, <1>4, <1>5
<1> QED
  BY <1>1, <1>2, <1>6, Quotient DEF q


-----------------------------------------------------------------------------
(* Counts and quantities.                                                    *)

LEMMA LimitBetween ==
  ASSUME NEW x \in Int, NEW low \in Int, NEW high \in Int, low <= high
  PROVE  /\ Limit(x, low, high) \in Int
         /\ low <= Limit(x, low, high) /\ Limit(x, low, high) <= high
         /\ low <= x /\ x <= high => Limit(x, low, high) = x
BY DEF Limit

LEMMA Ranges ==
  ASSUME NEW code \in Code
  PROVE  /\ Low[code] \in Int /\ High[code] \in Int /\ Low[code] <= High[code]
         /\ FullScale \in Nat \ {0} /\ FullScale \in Int /\ - FullScale \in Int
         /\ Volt # Tc
<1>1. /\ Low \in [Code -> Int] /\ High \in [Code -> Int]
      /\ Low[Off] = 0 /\ High[Off] = 0
      /\ \A c \in Code \ {Off} : Low[c] < High[c]
      /\ FullScale \in Nat \ {0}
      /\ Off \in Volt /\ Volt \cap Tc = {}
  BY ChannelAssumption, Zenon DEF Code
<1>2. Volt # Tc
  BY <1>1, Zenon
<1>3. CASE code = Off
  BY <1>1, <1>2, <1>3
<1>4. CASE code # Off
  BY <1>1, <1>2, <1>4
<1> QED
  BY <1>3, <1>4

LEMMA WrapWord ==
  /\ \A x \in Int : Wrap(x) \in Word
  /\ \A x \in Word : Wrap(x) = x
<1>1. FullScale \in Nat \ {0}
  BY ChannelAssumption, Zenon
<1>2. ASSUME NEW x \in Int PROVE Wrap(x) \in Word
  <2>1. PICK r \in 0..(2 * FullScale - 1) : r = (x + FullScale) % (2 * FullScale)
    BY <1>1
  <2>2. r - FullScale \in Word
    BY <1>1, <2>1 DEF Word
  <2> QED
    BY <2>1, <2>2 DEF Wrap
<1>3. ASSUME NEW x \in Word PROVE Wrap(x) = x
  <2>1. PICK y \in 0..(2 * FullScale - 1) : y = x + FullScale
    BY <1>1 DEF Word
  <2>2. 2 * FullScale \in Nat \ {0}
    BY <1>1
  <2>3. y % (2 * FullScale) = y
    BY <2>1, <2>2
  <2>4. y - FullScale = x
    BY <1>1, <2>1 DEF Word
  <2> QED
    BY <2>1, <2>3, <2>4 DEF Wrap
<1> QED
  BY <1>2, <1>3

LEMMA RatioInt ==
  ASSUME NEW x \in Int, NEW xmin \in Int, NEW xmax \in Int, xmin <= xmax,
         NEW ymin \in Int, NEW ymax \in Int
  PROVE  Ratio(x, xmin, xmax, ymin, ymax) \in Int
<1>1. CASE xmax = xmin
  BY <1>1 DEF Ratio
<1>2. CASE xmax # xmin
  <2>l. Limit(x, xmin, xmax) \in Int
    BY LimitBetween, Zenon
  <2>1. PICK n \in Int : n = (Limit(x, xmin, xmax) - xmin) * (ymax - ymin)
    BY <2>l
  <2>2. PICK m \in Nat \ {0} : m = xmax - xmin
    BY <1>2
  <2>3. n \div m \in Int
    OBVIOUS
  <2> QED
    BY <1>2, <2>1, <2>2, <2>3 DEF Ratio
<1> QED
  BY <1>1, <1>2

LEMMA CountWord ==
  ASSUME NEW code \in Code, NEW x \in Int, NEW unit
  PROVE  Count(code, x, unit) \in Word
<1>1. /\ Low[code] \in Int /\ High[code] \in Int /\ Low[code] <= High[code]
      /\ FullScale \in Nat \ {0} /\ FullScale \in Int /\ - FullScale \in Int
  BY Ranges
<1>2. Ratio(x, Low[code], High[code], - FullScale, FullScale) \in Int
  BY <1>1, RatioInt, Zenon
<1>3. Limit(Ratio(x, Low[code], High[code], - FullScale, FullScale), - FullScale, FullScale - 1)
        \in Int
  <2>1. FullScale - 1 \in Int /\ - FullScale <= FullScale - 1
    BY <1>1
  <2> QED
    BY <1>1, <1>2, <2>1, LimitBetween, Zenon
<1>4. Limit(x, Low[code], High[code]) \in Int
  BY <1>1, LimitBetween, Zenon
<1> QED
  BY <1>3, <1>4, WrapWord DEF Count

LEMMA ReadingInt ==
  ASSUME NEW code \in Code, NEW count \in Word, NEW unit
  PROVE  Reading(code, count, unit) \in Int
<1>1. /\ Low[code] \in Int /\ High[code] \in Int /\ Low[code] <= High[code]
      /\ FullScale \in Nat \ {0} /\ FullScale \in Int /\ - FullScale \in Int
  BY Ranges
<1>2. count \in Int /\ - FullScale <= FullScale
  BY <1>1 DEF Word
<1>3. Ratio(count, - FullScale, FullScale, Low[code], High[code]) \in Int
  BY <1>1, <1>2, RatioInt, Zenon
<1>4. Limit(count, Low[code], High[code]) \in Int
  BY <1>1, <1>2, LimitBetween, Zenon
<1> QED
  BY <1>3, <1>4 DEF Reading

\* k units make a count, and n counts the range.
Scaled(low, high, n, k) ==
  n = 2 * FullScale /\ FullScale \in Nat /\ high - low = n * k

\* v is x limited to the range, and q the number of whole counts below it.
Placed(x, low, high, k, v, q) ==
  v = Limit(x, low, high) /\ q = (v - low) \div k

\* From a quantity to its count.
LEMMA ToCount ==
  ASSUME NEW low \in Int, NEW high \in Int, NEW x \in Int, NEW k \in Nat \ {0},
         NEW n \in Nat \ {0}, Scaled(low, high, n, k),
         NEW v \in Int, NEW q \in Int, Placed(x, low, high, k, v, q)
  PROVE  /\ q \in 0..n
         /\ k * q <= v - low /\ v - low < k * q + k
         /\ v - low <= n * k
         /\ Ratio(x, low, high, - FullScale, FullScale) = q - FullScale
<1> USE DEF Scaled, Placed
<1>1. n * k \in Nat \ {0}
  OBVIOUS
<1>2. low < high
  BY <1>1
<1>3. v - low \in Nat /\ v - low <= n * k
  BY <1>2 DEF Limit
<1>4. k * q <= v - low /\ v - low < k * q + k
  OBVIOUS
<1>5. q >= 0
  <2> SUFFICES ASSUME q + 1 <= 0 PROVE FALSE
    OBVIOUS
  <2>1. k * (q + 1) <= k * 0
    OBVIOUS
  <2>2. k * (q + 1) = k * q + k
    OBVIOUS
  <2> QED
    BY <1>3, <1>4, <2>1, <2>2
<1>6. q <= n
  <2> SUFFICES ASSUME n + 1 <= q PROVE FALSE
    OBVIOUS
  <2>1. k * (n + 1) <= k * q
    OBVIOUS
  <2>2. k * (n + 1) = n * k + k
    OBVIOUS
  <2> QED
    BY <1>3, <1>4, <2>1, <2>2
<1>7. ((v - low) * n) \div (n * k) = q
  <2>1. v - low \in Int
    OBVIOUS
  <2>2. ((v - low) * n) \div (n * k) = (v - low) \div k
    BY <2>1, Cancel, Zenon
  <2> QED
    BY <2>2
<1>8. FullScale - (- FullScale) = n
  OBVIOUS
<1>9. Ratio(x, low, high, - FullScale, FullScale) = q + (- FullScale)
  BY <1>2, <1>7, <1>8 DEF Ratio
<1> QED
  BY <1>3, <1>4, <1>5, <1>6, <1>9

\* From a count to its quantity.
LEMMA FromCount ==
  ASSUME NEW low \in Int, NEW high \in Int, NEW k \in Nat \ {0},
         NEW n \in Nat \ {0}, Scaled(low, high, n, k),
         NEW m \in 0..n
  PROVE  Ratio(m - FullScale, - FullScale, FullScale, low, high) = m * k + low
<1> USE DEF Scaled
<1>1. Limit(m - FullScale, - FullScale, FullScale) - (- FullScale) = m
  BY DEF Limit
<1>2. (m * (high - low)) \div n = m * k
  <2>1. m * k \in Int
    OBVIOUS
  <2>2. m * (high - low) = n * (m * k)
    OBVIOUS
  <2>3. n * (m * k) < n * (m * k) + n
    BY <2>1
  <2> QED
    BY <2>1, <2>2, <2>3, Quotient
<1>3. FullScale - (- FullScale) = n
  OBVIOUS
<1> QED
  BY <1>1, <1>2, <1>3 DEF Ratio

\* The last count is not there: q counts become m.
LEMMA CountsKept ==
  ASSUME NEW low \in Int, NEW v \in Int, NEW k \in Nat \ {0}, NEW n \in Nat \ {0},
         NEW q \in 0..n, k * q <= v - low, v - low < k * q + k, v - low <= n * k,
         NEW m \in Int, m = IF q > n - 1 THEN n - 1 ELSE q
  PROVE  Within(m * k + low, v, k)
<1>1. m * k \in Int /\ k * q \in Int
  OBVIOUS
<1>2. m * k <= v - low /\ v - low <= m * k + k
  <2>1. CASE q = n
    <3>1. m = n - 1
      BY <2>1
    <3>2. m * k = n * k - k
      BY <3>1
    <3>3. k * q = n * k
      BY <2>1
    <3> QED
      BY <1>1, <3>2, <3>3
  <2>2. CASE q # n
    <3>1. m = q
      BY <2>2
    <3>2. m * k = k * q
      BY <3>1
    <3> QED
      BY <1>1, <3>2
  <2> QED
    BY <2>1, <2>2
<1> DEFINE p == m * k
<1>3. p \in Int /\ p <= v - low /\ v - low <= p + k
  BY <1>1, <1>2
<1> HIDE DEF p
<1>4. p + low - v <= k /\ - (p + low - v) <= k
  BY <1>3
<1>5. Abs(p + low - v) <= k
  BY <1>3, <1>4 DEF Abs
<1> QED
  BY <1>5 DEF Within, p

\* A voltage that is written as a count and read again is off by one count at
\* most; the count of the upper end of the range, which no word holds, included.
LEMMA VoltRoundTrip ==
  ASSUME NEW code \in Volt, NEW x \in Int
  PROVE  Within(Reading(code, Count(code, x, Volt), Volt),
                Limit(x, Low[code], High[code]), Step(code))
<1>1. /\ Low[code] \in Int /\ High[code] \in Int /\ Low[code] <= High[code]
      /\ FullScale \in Nat \ {0} /\ code \in Code
  BY Ranges, Zenon DEF Code
<1>2. PICK low \in Int, high \in Int : low = Low[code] /\ high = High[code] /\ low <= high
  BY <1>1
<1>3. PICK n \in Nat \ {0} : n = 2 * FullScale
  BY <1>1
<1>4. PICK k \in Nat : k = Step(code) /\ high - low = n * k
  <2>1. (high - low) % n = 0 /\ Step(code) = (high - low) \div n
    <3>1. code \notin Tc /\ (High[code] - Low[code]) % (2 * FullScale) = 0
      BY ChannelAssumption, Zenon
    <3> QED
      BY <1>2, <1>3, <3>1, Zenon DEF Step
  <2>2. PICK d \in Nat : d = high - low
    BY <1>2
  <2>3. d = n * (d \div n) + (d % n) /\ d \div n \in Nat
    OBVIOUS
  <2>4. d = n * (d \div n)
    BY <2>1, <2>2, <2>3
  <2> QED
    BY <2>1, <2>2, <2>3, <2>4
<1>5. PICK v \in Int : v = Limit(x, low, high) /\ low <= v /\ v <= high
  <2>1. /\ Limit(x, low, high) \in Int
        /\ low <= Limit(x, low, high) /\ Limit(x, low, high) <= high
    BY <1>2, LimitBetween, Zenon
  <2> QED
    BY <2>1, Zenon
<1>6. Count(code, x, Volt)
        = Wrap(Limit(Ratio(x, low, high, - FullScale, FullScale), - FullScale, FullScale - 1))
  BY <1>2 DEF Count
<1>7. ASSUME NEW count
      PROVE  Reading(code, count, Volt) = Ratio(count, - FullScale, FullScale, low, high)
  BY <1>2 DEF Reading
<1>8. CASE k = 0
  <2>1. high = low /\ v = low
    BY <1>2, <1>3, <1>4, <1>5, <1>8
  <2>2. code = Off
    <3>1. \A c \in Code \ {Off} : Low[c] < High[c]
      BY ChannelAssumption, Zenon DEF Code
    <3>2. \neg (Low[code] < High[code])
      BY <1>2, <2>1
    <3> QED
      BY <1>1, <3>1, <3>2, Zenon
  <2>3. low = 0 /\ high = 0 /\ v = 0
    BY <1>2, <2>1, <2>2, ChannelAssumption, Zenon
  <2>4. Ratio(x, low, high, - FullScale, FullScale) = 0
    BY <2>1 DEF Ratio
  <2>5. Limit(0, - FullScale, FullScale - 1) = 0 /\ 0 \in Word
    BY <1>1 DEF Limit, Word
  <2>6. Count(code, x, Volt) = 0
    BY <1>6, <2>4, <2>5, WrapWord
  <2>7. Ratio(0, - FullScale, FullScale, 0, 0) = 0
    <3>1. Limit(0, - FullScale, FullScale) = 0
      BY <1>1 DEF Limit
    <3>2. ((0 - (- FullScale)) * (0 - 0)) \div (FullScale - (- FullScale)) = 0
      <4>1. (0 - (- FullScale)) * (0 - 0) = 0 /\ FullScale - (- FullScale) = n
        BY <1>1, <1>3
      <4>2. 0 \div n = 0
        OBVIOUS
      <4> QED
        BY <4>1, <4>2
    <3>3. FullScale # - FullScale
      BY <1>1
    <3> QED
      BY <3>1, <3>2, <3>3 DEF Ratio
  <2>8. Reading(code, 0, Volt) = 0
    BY <1>7, <2>3, <2>7
  <2> QED
    BY <1>2, <1>4, <1>5, <1>8, <2>3, <2>6, <2>8 DEF Within, Abs
<1>9. CASE k # 0
  <2>0. k \in Nat \ {0} /\ Scaled(low, high, n, k)
    BY <1>1, <1>3, <1>4, <1>9 DEF Scaled
  <2>1. PICK q \in Int : q = (v - low) \div k
    BY <1>4, <1>9
  <2>2. /\ q \in 0..n
        /\ k * q <= v - low /\ v - low < k * q + k
        /\ v - low <= n * k
        /\ Ratio(x, low, high, - FullScale, FullScale) = q - FullScale
    <3>1. Placed(x, low, high, k, v, q)
      BY <1>5, <2>1 DEF Placed
    <3> QED
      BY <2>0, <3>1, ToCount, Zenon
  <2>3. PICK m \in 0..n : m = (IF q > n - 1 THEN n - 1 ELSE q) /\ m < n
    BY <1>3, <2>2
  <2>4. Limit(q - FullScale, - FullScale, FullScale - 1) = m - FullScale
    BY <1>1, <1>3, <2>2, <2>3 DEF Limit
  <2>5. m - FullScale \in Word
    BY <1>1, <1>3, <2>3 DEF Word
  <2>6. Count(code, x, Volt) = m - FullScale
    BY <1>6, <2>2, <2>4, <2>5, WrapWord
  <2>7. Reading(code, m - FullScale, Volt) = m * k + low
    <3>1. Ratio(m - FullScale, - FullScale, FullScale, low, high) = m * k + low
      BY <2>0, FromCount, Zenon
    <3> QED
      BY <1>7, <3>1, Zenon
  <2>8. Within(m * k + low, v, k)
    <3>1. m \in Int
      BY <1>3
    <3> QED
      BY <2>0, <2>2, <2>3, <3>1, CountsKept, Zenon
  <2> QED
    BY <1>2, <1>4, <1>5, <2>6, <2>7, <2>8
<1> QED
  BY <1>8, <1>9

\* A temperature is its count.
LEMMA TcRoundTrip ==
  ASSUME NEW code \in Tc, NEW x \in Int
  PROVE  Within(Reading(code, Count(code, x, Tc), Tc),
                Limit(x, Low[code], High[code]), Step(code))
<1> DEFINE v == Limit(x, Low[code], High[code])
<1>1. /\ Low[code] \in Int /\ High[code] \in Int /\ Low[code] <= High[code]
      /\ FullScale \in Nat \ {0} /\ Volt # Tc
  BY Ranges, Zenon DEF Code
<1>2. Low[code] >= - FullScale /\ High[code] < FullScale
  BY ChannelAssumption, Zenon
<1>3. v \in Int /\ Low[code] <= v /\ v <= High[code]
  BY <1>1, LimitBetween, Zenon
<1>4. v \in Word
  BY <1>1, <1>2, <1>3 DEF Word
<1>5. Count(code, x, Tc) = v
  BY <1>1, <1>4, WrapWord DEF Count
<1>6. Reading(code, v, Tc) = v
  <2>1. Limit(v, Low[code], High[code]) = v
    <3> HIDE DEF v
    <3> QED
      BY <1>1, <1>3, LimitBetween, Zenon
  <2> QED
    BY <1>1, <2>1, Zenon DEF Reading
<1>7. Step(code) = 0
  BY DEF Step
<1> HIDE DEF v
<1>8. Within(v, v, 0)
  BY <1>3 DEF Within, Abs
<1> QED
  BY <1>5, <1>6, <1>7, <1>8 DEF v

\* What a count is read as, in the unit of its range, is what it was made of.
LEMMA RoundTrip ==
  ASSUME NEW code \in Code, NEW x \in Int
  PROVE  Within(Reading(code, Count(code, x, UnitOf(code)), UnitOf(code)),
                Limit(x, Low[code], High[code]), Step(code))
<1>1. CASE code \in Tc
  BY <1>1, TcRoundTrip DEF UnitOf
<1>2. CASE code \notin Tc
  BY <1>2, VoltRoundTrip DEF UnitOf, Code
<1> QED
  BY <1>1, <1>2

-----------------------------------------------------------------------------
(* Types.                                                                    *)

LEMMA IdleTyped ==
  /\ Idle \in [pc: {"idle", "hi", "lo", "range", "scale", "wait", "done", "fake"}, chnl: Chnl,
               unit: {Volt, Tc}, calm: BOOLEAN, hi: Conversion, whole: BOOLEAN,
               range: Code, value: Int, temp: Celsius \cup {Unknown}]
  /\ First \in Conversion
  /\ 0 \in Chnl /\ 0 \in Word /\ Off \in Code /\ AnyValue \in Value /\ Value \subseteq Int
<1>1. NumChnls \in Nat \ {0} /\ Off \in Volt /\ Value # {} /\ FullScale \in Nat \ {0}
      /\ Value \subseteq Int
  BY ChannelAssumption, Zenon
<1>2. 0 \in Chnl /\ 0 \in Word
  BY <1>1 DEF Chnl, Word
<1>3. AnyValue \in Value
  BY <1>1, Zenon DEF AnyValue
<1>4. Off \in Code
  BY <1>1, Zenon DEF Code
<1>5. First \in Conversion
  BY <1>3, <1>4, Zenon DEF First, Conversion
<1> QED
  BY <1>1, <1>2, <1>3, <1>4, <1>5 DEF Idle

\* Where a call is tells the board, and that a value to be written is one.
Began ==
  /\ host.pc \in {"hi", "lo"} => board = "V450"
  /\ host.pc = "scale" => board = "V470"
  /\ host.pc \in {"range", "scale"} /\ board = "V470" => host.value \in Value
  /\ host.whole = TRUE

LEMMA FakeWordInt ==
  ASSUME NEW x \in Int
  PROVE  FakeWord(x) \in Int
<1>1. Truncated(x) \in Int
  BY SMT DEF Truncated, Sixteenth
<1> QED
  BY <1>1, SMT DEF FakeWord

LEMMA TypeStep == TypeOK /\ Began /\ [Next]_vars => TypeOK' /\ Began'
<1> SUFFICES ASSUME TypeOK, Began, [Next]_vars
             PROVE  TypeOK' /\ Began'
  OBVIOUS
<1> USE DEF TypeOK, Began
<1>1. ASSUME NEW chnl \in Chnl, NEW code \in Code, ConfigChnl(chnl, code)
      PROVE  TypeOK' /\ Began'
  BY <1>1, IdleTyped DEF ConfigChnl, Idle
<1>2. ASSUME NEW chnl \in Chnl, NEW unit \in {Volt, Tc}, StartRead(chnl, unit)
      PROVE  TypeOK' /\ Began'
  BY <1>2, IdleTyped DEF StartRead, Idle
<1>3. CASE ReadHigh
  BY <1>3 DEF ReadHigh
<1>4. CASE ReadLow
  BY <1>4 DEF ReadLow
<1>5. CASE ReadRange
  <2>1. host.hi.range \in Code /\ host.hi.value \in Int
    BY IdleTyped DEF Conversion
  <2>2. Converted(host.hi) \in Word
    BY <2>1, CountWord, Zenon DEF Converted
  <2>3. ctl[host.chnl] \in Code
    OBVIOUS
  <2>4. Reading(ctl[host.chnl], Converted(host.hi), host.unit) \in Int
    BY <2>2, <2>3, ReadingInt, Zenon
  <2> QED
    BY <1>5, <2>3, <2>4 DEF ReadRange
<1>6. ASSUME NEW chnl \in Chnl, NEW value \in Value, Convert(chnl, value)
      PROVE  TypeOK' /\ Began'
  BY <1>6 DEF Convert, Conversion
<1>7. ASSUME NEW chnl \in Chnl, NEW value \in Value, NEW unit \in {Volt, Tc},
             StartWrite(chnl, value, unit)
      PROVE  TypeOK' /\ Began'
  BY <1>7, IdleTyped DEF StartWrite, Idle
<1>8. CASE FetchRange
  BY <1>8 DEF FetchRange
<1>9. CASE WriteCount
  <2>1. Count(host.range, host.value, host.unit) \in Word
    BY CountWord, Zenon
  <2> QED
    BY <1>9, <2>1, IdleTyped DEF WriteCount, Idle
<1>10. ASSUME NEW spec \in Degrees, NEW c \in Celsius, WriteFake(spec, c)
       PROVE  TypeOK' /\ Began'
  <2>1. c \in Int
    BY CelsiusAssumption, SMT
  <2>2. FromCelsius(spec, c) \in Int
    BY <2>1, SMT DEF FromCelsius, Degrees
  <2>3. \A t \in Int : ToCelsius(spec, t) \in Int
    BY SMT DEF ToCelsius, Degrees
  <2>4. \A e \in Rounding : FakeWord(ToCelsius(spec, FromCelsius(spec, c)) + e) \in Int
    BY <2>2, <2>3, FakeWordInt, SMT DEF Rounding
  <2>5. PICK word \in {FakeWord(ToCelsius(spec, FromCelsius(spec, c)) + e) : e \in Rounding} :
          host' = [Idle EXCEPT !.pc = "fake", !.value = word, !.temp = c]
    BY <1>10, Zenon DEF WriteFake
  <2>6. word \in Int
    BY <2>4, <2>5, Zenon
  <2> QED
    BY <1>10, <2>5, <2>6, IdleTyped DEF WriteFake, Idle
<1>11. ASSUME NEW code \in Code, SetAll(code)
       PROVE  TypeOK' /\ Began'
  BY <1>11, IdleTyped DEF SetAll, Idle
<1>12. CASE FirmwareSetsAll
  BY <1>12 DEF FirmwareSetsAll
<1>13. CASE MacroDone
  BY <1>13, IdleTyped DEF MacroDone, Idle
<1>14. CASE Kill
  BY <1>14, IdleTyped DEF Kill, Idle
<1>15. CASE UNCHANGED vars
  BY <1>15 DEF vars
<1> HIDE DEF TypeOK, Began
<1> QED
  BY <1>1, <1>2, <1>3, <1>4, <1>5, <1>6, <1>7, <1>8, <1>9, <1>10, <1>11, <1>12, <1>13, <1>14,
     <1>15, Zenon DEF Next

LEMMA TypeInit == Init => TypeOK /\ Began
BY IdleTyped DEF Init, TypeOK, Began, Idle

LEMMA Typed == Spec => [](TypeOK /\ Began)
BY TypeInit, TypeStep, PTL DEF Spec

\* Every variable has its type: a count fits its register whatever is written,
\* and a conversion yields a number for every word and range.
THEOREM TypeCorrect == Spec => []TypeOK
BY Typed, PTL

-----------------------------------------------------------------------------
(* Readings and outputs.                                                     *)

\* While a call that began calmly goes on, no command is under way and the range
\* of its channel stays: that of the latest conversion, of the one whose high
\* word was read, and the one fetched.
CallOK ==
  host.calm /\ host.pc \in {"hi", "lo", "range", "scale"} =>
    /\ macro = None
    /\ UnitOf(ctl[host.chnl]) = host.unit
    /\ board = "V450" => conv[host.chnl].range = ctl[host.chnl]
    /\ host.pc = "lo" \/ (host.pc = "range" /\ board = "V450") => host.hi.range = ctl[host.chnl]
    /\ host.pc = "scale" => host.range = ctl[host.chnl]

LEMMA CallInit == Init => CallOK /\ ReadingTrue
BY DEF Init, CallOK, ReadingTrue, Idle

LEMMA CallStep ==
  TypeOK /\ Began /\ CallOK /\ ReadingTrue /\ [Next]_vars => CallOK' /\ ReadingTrue'
<1> SUFFICES ASSUME TypeOK, Began, CallOK, ReadingTrue, [Next]_vars
             PROVE  CallOK' /\ ReadingTrue'
  OBVIOUS
<1> USE DEF TypeOK, Began
\* Whoever begins a call, or ends one without a reading.
<1>0. ASSUME host'.pc \notin {"hi", "lo", "range", "scale", "done"} PROVE CallOK' /\ ReadingTrue'
  BY <1>0 DEF CallOK, ReadingTrue
<1>1. ASSUME NEW chnl \in Chnl, NEW code \in Code, ConfigChnl(chnl, code)
      PROVE  CallOK' /\ ReadingTrue'
  BY <1>0, <1>1 DEF ConfigChnl, Idle
<1>2. ASSUME NEW chnl \in Chnl, NEW unit \in {Volt, Tc}, StartRead(chnl, unit)
      PROVE  CallOK' /\ ReadingTrue'
  BY <1>2 DEF StartRead, Idle, CallOK, ReadingTrue
<1>3. CASE ReadHigh
  BY <1>3 DEF ReadHigh, CallOK, ReadingTrue
<1>4. CASE ReadLow
  BY <1>4 DEF ReadLow, CallOK, ReadingTrue
<1>5. CASE ReadRange
  <2>1. CallOK'
    BY <1>5 DEF ReadRange, CallOK
  <2>2. ASSUME host.calm PROVE ReadingTrue'
    <3>1. /\ host.hi.range = ctl[host.chnl]
          /\ UnitOf(ctl[host.chnl]) = host.unit
      BY <1>5, <2>2 DEF ReadRange, CallOK
    <3>2. ctl[host.chnl] \in Code /\ host.hi.value \in Int
      BY IdleTyped DEF Conversion
    <3>3. PICK code \in Code : code = ctl[host.chnl]
      BY <3>2
    <3>4. PICK x \in Int : x = host.hi.value
      BY <3>2
    <3>5. Converted(host.hi) = Count(code, x, UnitOf(code))
      BY <3>1, <3>3, <3>4, Zenon DEF Converted
    <3>6. /\ host'.range = code /\ host'.hi = host.hi
          /\ host'.whole = TRUE
          /\ host'.value = Reading(code, Count(code, x, UnitOf(code)), UnitOf(code))
      BY <1>5, <3>1, <3>3, <3>5 DEF ReadRange
    <3>7. Within(Reading(code, Count(code, x, UnitOf(code)), UnitOf(code)),
                 Limit(x, Low[code], High[code]), Step(code))
      BY RoundTrip, Zenon
    <3> QED
      BY <3>4, <3>6, <3>7, Zenon DEF ReadingTrue
  <2>3. ASSUME ~ host.calm PROVE ReadingTrue'
    BY <1>5, <2>3 DEF ReadRange, ReadingTrue
  <2> QED
    BY <2>1, <2>2, <2>3
<1>6. ASSUME NEW chnl \in Chnl, NEW value \in Value, Convert(chnl, value)
      PROVE  CallOK' /\ ReadingTrue'
  BY <1>6 DEF Convert, Conversion, CallOK, ReadingTrue
<1>7. ASSUME NEW chnl \in Chnl, NEW value \in Value, NEW unit \in {Volt, Tc},
             StartWrite(chnl, value, unit)
      PROVE  CallOK' /\ ReadingTrue'
  BY <1>7 DEF StartWrite, Idle, CallOK, ReadingTrue
<1>8. CASE FetchRange
  BY <1>8 DEF FetchRange, CallOK, ReadingTrue
<1>9. CASE WriteCount
  BY <1>0, <1>9 DEF WriteCount, Idle
<1>10. ASSUME NEW spec \in Degrees, NEW c \in Celsius, WriteFake(spec, c)
       PROVE  CallOK' /\ ReadingTrue'
  BY <1>0, <1>10 DEF WriteFake, Idle
<1>11. ASSUME NEW code \in Code, SetAll(code)
       PROVE  CallOK' /\ ReadingTrue'
  BY <1>0, <1>11 DEF SetAll, Idle
<1>12. CASE FirmwareSetsAll
  BY <1>12 DEF FirmwareSetsAll, CallOK, ReadingTrue
<1>13. CASE MacroDone
  BY <1>0, <1>13 DEF MacroDone, Idle
<1>14. CASE Kill
  BY <1>0, <1>14 DEF Kill, Idle
<1>15. CASE UNCHANGED vars
  BY <1>15 DEF vars, CallOK, ReadingTrue
<1> HIDE DEF TypeOK, Began
<1> QED
  BY <1>1, <1>2, <1>3, <1>4, <1>5, <1>6, <1>7, <1>8, <1>9, <1>10, <1>11, <1>12, <1>13, <1>14,
     <1>15, Zenon DEF Next

\* A reading that began calmly is, to one count, the value of one conversion
\* limited to the channel's range, for any number of channels, any ranges and
\* any conversions and commands between its register accesses.
THEOREM TrueReadings == Spec => []ReadingTrue
<1>1. Init => TypeOK /\ Began /\ CallOK /\ ReadingTrue
  BY TypeInit, CallInit
<1>2. TypeOK /\ Began /\ CallOK /\ ReadingTrue /\ [Next]_vars
        => (TypeOK /\ Began /\ CallOK /\ ReadingTrue)'
  BY TypeStep, CallStep
<1> QED
  BY <1>1, <1>2, PTL DEF Spec

LEMMA Calls == Spec => [](TypeOK /\ Began /\ CallOK)
<1>1. Init => TypeOK /\ Began /\ CallOK /\ ReadingTrue
  BY TypeInit, CallInit
<1>2. TypeOK /\ Began /\ CallOK /\ ReadingTrue /\ [Next]_vars
        => (TypeOK /\ Began /\ CallOK /\ ReadingTrue)'
  BY TypeStep, CallStep
<1> QED
  BY <1>1, <1>2, PTL DEF Spec

LEMMA OutputStep ==
  TypeOK /\ Began /\ CallOK /\ OutputTrue /\ [Next]_vars => OutputTrue'
<1> SUFFICES ASSUME TypeOK, Began, CallOK, OutputTrue, [Next]_vars
             PROVE  OutputTrue'
  OBVIOUS
<1>0. ASSUME UNCHANGED <<ctl, val, asked>> PROVE OutputTrue'
  BY <1>0, Zenon DEF OutputTrue
<1>1. ASSUME NEW chnl \in Chnl, NEW code \in Code, ConfigChnl(chnl, code)
      PROVE  OutputTrue'
  <2> SUFFICES ASSUME NEW c \in Chnl, asked'[c] # Unknown
               PROVE  /\ ctl'[c] = ctl[c] /\ val'[c] = val[c] /\ asked'[c] = asked[c]
    BY Zenon DEF OutputTrue
  <2> QED
    BY <1>1 DEF ConfigChnl, TypeOK
<1>2. CASE WriteCount
  <2> SUFFICES ASSUME NEW c \in Chnl, asked'[c] # Unknown
               PROVE  Within(Output(ctl'[c], val'[c]),
                             Limit(asked'[c], Low[ctl'[c]], High[ctl'[c]]), Step(ctl'[c]))
    BY Zenon DEF OutputTrue
  <2>1. CASE c # host.chnl
    <3>1. ctl'[c] = ctl[c] /\ val'[c] = val[c] /\ asked'[c] = asked[c]
      BY <1>2, <2>1 DEF WriteCount, TypeOK
    <3> QED
      BY <3>1, Zenon DEF OutputTrue
  <2>2. CASE c = host.chnl
    <3>1. /\ host.calm
          /\ asked'[c] = host.value /\ val'[c] = Count(host.range, host.value, host.unit)
          /\ ctl'[c] = ctl[c]
      BY <1>2, <2>2 DEF WriteCount, TypeOK
    <3>2. host.range = ctl[c] /\ UnitOf(ctl[c]) = host.unit
      BY <1>2, <2>2, <3>1 DEF WriteCount, CallOK
    <3>3. ctl[c] \in Code /\ host.value \in Int
      BY DEF TypeOK
    <3>4. Within(Reading(ctl[c], Count(ctl[c], host.value, UnitOf(ctl[c])), UnitOf(ctl[c])),
                 Limit(host.value, Low[ctl[c]], High[ctl[c]]), Step(ctl[c]))
      BY <3>3, RoundTrip, Zenon
    <3> QED
      BY <3>1, <3>2, <3>4, Zenon DEF Output
  <2> QED
    BY <2>1, <2>2
<1>3. CASE FirmwareSetsAll
  BY <1>3, Zenon DEF FirmwareSetsAll, OutputTrue
<1>4. ASSUME NEW chnl \in Chnl, NEW unit \in {Volt, Tc}, StartRead(chnl, unit)
      PROVE  OutputTrue'
  BY <1>0, <1>4, Zenon DEF StartRead
<1>5. CASE ReadHigh \/ ReadLow \/ ReadRange
  BY <1>0, <1>5, Zenon DEF ReadHigh, ReadLow, ReadRange
<1>6. ASSUME NEW chnl \in Chnl, NEW value \in Value, Convert(chnl, value)
      PROVE  OutputTrue'
  BY <1>0, <1>6, Zenon DEF Convert
<1>7. ASSUME NEW chnl \in Chnl, NEW value \in Value, NEW unit \in {Volt, Tc},
             StartWrite(chnl, value, unit)
      PROVE  OutputTrue'
  BY <1>0, <1>7, Zenon DEF StartWrite
<1>8. CASE FetchRange \/ MacroDone \/ Kill
  BY <1>0, <1>8, Zenon DEF FetchRange, MacroDone, Kill
<1>9. ASSUME NEW spec \in Degrees, NEW c \in Celsius, WriteFake(spec, c)
      PROVE  OutputTrue'
  BY <1>0, <1>9, Zenon DEF WriteFake
<1>10. ASSUME NEW code \in Code, SetAll(code)
       PROVE  OutputTrue'
  BY <1>0, <1>10, Zenon DEF SetAll
<1>11. CASE UNCHANGED vars
  BY <1>0, <1>11, Zenon DEF vars
<1> QED
  BY <1>1, <1>2, <1>3, <1>4, <1>5, <1>6, <1>7, <1>8, <1>9, <1>10, <1>11, Zenon DEF Next

\* A V470 output is, to one count, what it was last set to, limited to its
\* range, as long as the range stays: the value at the upper end included, whose
\* count does not fit the register.
THEOREM TrueOutputs == Spec => []OutputTrue
<1>1. Init => OutputTrue
  BY Zenon DEF Init, OutputTrue
<1> QED
  BY <1>1, Calls, OutputStep, PTL DEF Spec

-----------------------------------------------------------------------------
(* Simulated temperatures.                                                   *)

\* The conversions are exact inverses of one another on whole temperatures.
LEMMA CelsiusBack ==
  ASSUME NEW c \in Celsius, NEW spec \in Degrees
  PROVE  ToCelsius(spec, FromCelsius(spec, c)) = c
<1>1. PICK m \in Int : c = 5 * m
  <2>1. c \in Int /\ c % 5 = 0
    BY CelsiusAssumption, SMT
  <2>2. c = 5 * (c \div 5) + (c % 5) /\ c \div 5 \in Int
    BY <2>1, SMT
  <2> QED
    BY <2>1, <2>2, SMT
<1>2. (c * 9) \div 5 = 9 * m /\ (9 * m * 5) \div 9 = c
  BY <1>1, SMT
<1>3. CASE spec = "C"
  BY <1>3, SMT DEF ToCelsius, FromCelsius
<1>4. CASE spec = "K"
  BY <1>1, <1>4, SMT DEF ToCelsius, FromCelsius
<1>5. CASE spec = "F"
  <2>1. FromCelsius(spec, c) = 9 * m + 320000
    BY <1>2, <1>5, SMT DEF FromCelsius
  <2>2. (9 * m + 320000 - 320000) * 5 = 9 * m * 5
    BY SMT
  <2> QED
    BY <1>2, <1>5, <2>1, <2>2, SMT DEF ToCelsius
<1>6. CASE spec = "R"
  <2>1. FromCelsius(spec, c) = 9 * m + 320000 + 4596700
    BY <1>2, <1>6, SMT DEF FromCelsius
  <2>2. (9 * m + 320000 + 4596700 - 320000 - 4596700) * 5 = 9 * m * 5
    BY SMT
  <2> QED
    BY <1>2, <1>6, <2>1, <2>2, SMT DEF ToCelsius
<1> QED
  BY <1>3, <1>4, <1>5, <1>6, SMT DEF Degrees

\* What truncation loses, on either side of zero, and which side it leaves x on.
LEMMA TruncatedNear ==
  ASSUME NEW x \in Int
  PROVE  /\ Truncated(x) \in Int
         /\ x >= 0 => /\ Truncated(x) >= 0
                      /\ 625 * Truncated(x) <= x /\ x < 625 * Truncated(x) + 625
         /\ x < 0 => /\ Truncated(x) <= 0
                     /\ x <= 625 * Truncated(x) /\ 625 * Truncated(x) < x + 625
<1>1. CASE x >= 0
  <2>1. x = 625 * (x \div 625) + (x % 625) /\ x \div 625 \in Int /\ x % 625 \in 0..624
    BY <1>1, SMT
  <2>2. Truncated(x) = x \div 625
    BY <1>1, SMT DEF Truncated, Sixteenth
  <2> QED
    BY <1>1, <2>1, <2>2, SMT
<1>2. CASE x < 0
  <2> DEFINE y == - x
  <2>1. y \in Nat /\ y > 0
    BY <1>2, SMT
  <2> HIDE DEF y
  <2>2. y = 625 * (y \div 625) + (y % 625) /\ y \div 625 \in Int /\ y % 625 \in 0..624
    BY <2>1, SMT
  <2>3. Truncated(x) = - (y \div 625)
    BY <1>2, SMT DEF Truncated, Sixteenth, y
  <2> QED
    BY <1>2, <2>1, <2>2, <2>3, SMT DEF y
<1> QED
  BY <1>1, <1>2, SMT

\* What the register holds of a temperature, and what of it is read in degrees
\* Celsius: off by less than a sixteenth and the rounding, or by 4096 degrees.
LEMMA FakeCelsius ==
  ASSUME NEW c \in Celsius, NEW e \in Rounding
  PROVE  /\ FakeWord(c + e) \in Int
         /\ c > -620 => Within(625 * FakeWord(c + e), c, 629)
         /\ c < -630 => Within(625 * FakeWord(c + e), c + 40960000, 629)
<1> DEFINE x == c + e
           w == Truncated(x)
<1>1. /\ c \in Int /\ -2731500 <= c /\ c < 40959995
      /\ c > -620 => c >= -615
  BY CelsiusAssumption, SMT
<1>2. e \in Int /\ -5 <= e /\ e <= 5
  BY SMT DEF Rounding
<1>3. x \in Int /\ x - c \in -5..5
  BY <1>1, <1>2, SMT
<1>4. x < 40960000 /\ x >= -2731505
  BY <1>1, <1>2, SMT
<1> HIDE DEF x
<1>5. /\ w \in Int
      /\ x >= 0 => w >= 0 /\ 625 * w <= x /\ x < 625 * w + 625
      /\ x < 0 => w <= 0 /\ x <= 625 * w /\ 625 * w < x + 625
  BY <1>3, TruncatedNear, SMT
<1> HIDE DEF w
<1>6. FakeWord(x) = w % 65536
  BY SMT DEF FakeWord, w
<1>7. w < 65536 /\ w > -65536
  BY <1>3, <1>4, <1>5, SMT
<1>8. CASE w >= 0
  <2>1. w % 65536 = w
    BY <1>5, <1>7, <1>8, SMT
  <2>2. ~ c < -630
    BY <1>1, <1>3, <1>5, <1>8, SMT
  <2>3. Within(625 * w, c, 629)
    BY <1>1, <1>3, <1>5, <1>8, SMT DEF Within, Abs
  <2> QED
    BY <1>5, <1>6, <2>1, <2>2, <2>3, SMT DEF x
<1>9. CASE w < 0
  <2>1. w % 65536 = w + 65536
    BY <1>5, <1>7, <1>9, SMT
  <2>2. ~ c > -620
    BY <1>1, <1>3, <1>5, <1>9, SMT
  <2>3. Within(625 * (w + 65536), c + 40960000, 629)
    BY <1>1, <1>3, <1>5, <1>9, SMT DEF Within, Abs
  <2> QED
    BY <1>5, <1>6, <2>1, <2>2, <2>3, SMT DEF x
<1> QED
  BY <1>5, <1>8, <1>9, SMT

\* Two near temperatures are near in any unit.
LEMMA NearInUnits ==
  ASSUME NEW w \in Int, NEW m \in Int, NEW spec \in Degrees, NEW e \in Rounding,
         Within(625 * w, 5 * m, 629)
  PROVE  Within(FromCelsius(spec, 625 * w) + e, FromCelsius(spec, 5 * m),
                Loss(spec))
<1>1. (625 * w * 9) \div 5 = 1125 * w /\ (5 * m * 9) \div 5 = 9 * m
  BY SMT
<1>2. e \in Int /\ -5 <= e /\ e <= 5
  BY SMT DEF Rounding
<1>3. 625 * w - 5 * m <= 629 /\ 5 * m - 625 * w <= 629
  BY SMT DEF Within, Abs
<1>4. (625 * 9) \div 5 = 1125
  BY SMT
<1>5. CASE spec = "C"
  BY <1>2, <1>3, <1>5, SMT DEF Within, Abs, Loss, FromCelsius, Sixteenth
<1>6. CASE spec = "K"
  BY <1>2, <1>3, <1>6, SMT DEF Within, Abs, Loss, FromCelsius, Sixteenth
<1>7. CASE spec = "F"
  <2>1. /\ FromCelsius(spec, 625 * w) = 1125 * w + 320000
        /\ FromCelsius(spec, 5 * m) = 9 * m + 320000
    BY <1>1, <1>7, SMT DEF FromCelsius
  <2> QED
    BY <1>2, <1>3, <1>4, <1>7, <2>1, SMT DEF Within, Abs, Loss, Sixteenth
<1>8. CASE spec = "R"
  <2>1. /\ FromCelsius(spec, 625 * w) = 1125 * w + 320000 + 4596700
        /\ FromCelsius(spec, 5 * m) = 9 * m + 320000 + 4596700
    BY <1>1, <1>8, SMT DEF FromCelsius
  <2> QED
    BY <1>2, <1>3, <1>4, <1>8, <2>1, SMT DEF Within, Abs, Loss, Sixteenth
<1> QED
  BY <1>5, <1>6, <1>7, <1>8, SMT DEF Degrees

\* A simulated temperature is read back, in any unit, to a sixteenth of a degree
\* as it was written in any unit, for every temperature from absolute zero to
\* the end of the register, if not below zero; else 4096 degrees too high.
THEOREM FakesReadBack == Spec => []FakeReadsBack
<1>1. Init => FakeReadsBack
  BY SMT DEF Init, FakeReadsBack, Idle
<1>2. TypeOK /\ FakeReadsBack /\ [Next]_vars => FakeReadsBack'
  <2> SUFFICES ASSUME TypeOK, FakeReadsBack, [Next]_vars PROVE FakeReadsBack'
    OBVIOUS
  <2>1. ASSUME NEW spec \in Degrees, NEW c \in Celsius, WriteFake(spec, c)
        PROVE  FakeReadsBack'
    <3> SUFFICES ASSUME NEW other \in Degrees, NEW f \in Rounding
                 PROVE  LET ReadAs(t) == Within(RtdTemp(other, host'.value) + f,
                                                FromCelsius(other, t), Loss(other))
                        IN  /\ host'.temp > 5 - Sixteenth => ReadAs(host'.temp)
                            /\ host'.temp < - 5 - Sixteenth => ReadAs(host'.temp + Span)
      BY Zenon DEF FakeReadsBack
    <3>1. PICK e \in Rounding :
            host' = [Idle EXCEPT !.pc = "fake",
                   !.value = FakeWord(ToCelsius(spec, FromCelsius(spec, c)) + e), !.temp = c]
      BY <2>1, Zenon DEF WriteFake
    <3>2. host'.value = FakeWord(c + e) /\ host'.temp = c
      BY <3>1, CelsiusBack, SMT DEF Idle
    <3>3. PICK m \in Int : c = 5 * m
      <4>1. c \in Int /\ c % 5 = 0
        BY CelsiusAssumption, SMT
      <4>2. c = 5 * (c \div 5) + (c % 5) /\ c \div 5 \in Int
        BY <4>1, SMT
      <4> QED
        BY <4>1, <4>2, SMT
    <3> DEFINE w == FakeWord(c + e)
    <3>4. w \in Int
      BY FakeCelsius, SMT
    <3>5. c > 5 - 625 => Within(625 * w, 5 * m, 629)
      BY <3>3, FakeCelsius, SMT
    <3>6. c < - 5 - 625 => Within(625 * w, 5 * (m + 8192000), 629)
      BY <3>3, FakeCelsius, SMT
    <3> HIDE DEF w
    <3>7. c + Span = 5 * (m + 8192000) /\ m + 8192000 \in Int
      BY <3>3, SMT DEF Span, Sixteenth
    <3>8. RtdTemp(other, w) = FromCelsius(other, 625 * w)
      <4>1. w * Sixteenth = 625 * w
        BY <3>4, SMT DEF Sixteenth
      <4> QED
        BY <4>1, SMT DEF RtdTemp
    <3>9. ASSUME c > 5 - Sixteenth
          PROVE  Within(RtdTemp(other, w) + f, FromCelsius(other, c), Loss(other))
      <4>1. Within(625 * w, 5 * m, 629)
        BY <3>5, <3>9, SMT DEF Sixteenth
      <4> QED
        BY <3>3, <3>4, <3>8, <4>1, NearInUnits, SMT
    <3>10. ASSUME c < - 5 - Sixteenth
           PROVE  Within(RtdTemp(other, w) + f, FromCelsius(other, c + Span), Loss(other))
      <4> DEFINE n == m + 8192000
      <4>1. Within(625 * w, 5 * n, 629)
        BY <3>6, <3>10, SMT DEF Sixteenth
      <4>2. c + Span = 5 * n /\ n \in Int
        BY <3>7, SMT
      <4> HIDE DEF n
      <4>3. Within(FromCelsius(other, 625 * w) + f, FromCelsius(other, 5 * n), Loss(other))
        BY <3>4, <4>1, <4>2, NearInUnits, SMT
      <4> QED
        BY <3>8, <4>2, <4>3, SMT
    <3> QED
      BY <3>2, <3>9, <3>10, SMT DEF w
  <2>2. ASSUME host'.pc # "fake" PROVE FakeReadsBack'
    BY <2>2, Zenon DEF FakeReadsBack
  <2>3. ASSUME host' = host PROVE FakeReadsBack'
    BY <2>3, Zenon DEF FakeReadsBack
  <2>4. ASSUME NEW chnl \in Chnl, NEW code \in Code, ConfigChnl(chnl, code) \/ SetAll(code)
        PROVE  FakeReadsBack'
    BY <2>2, <2>4, SMT DEF ConfigChnl, SetAll, Idle
  <2>5. ASSUME NEW chnl \in Chnl, NEW unit \in {Volt, Tc}, StartRead(chnl, unit)
        PROVE  FakeReadsBack'
    BY <2>2, <2>5, SMT DEF StartRead, Idle
  <2>6. ASSUME NEW chnl \in Chnl, NEW value \in Value, NEW unit \in {Volt, Tc},
               StartWrite(chnl, value, unit)
        PROVE  FakeReadsBack'
    BY <2>2, <2>6, SMT DEF StartWrite, Idle
  <2>7. CASE ReadHigh \/ ReadLow \/ ReadRange \/ FetchRange
    <3>1. CASE ReadHigh
      BY <2>2, <3>1, SMT DEF ReadHigh, TypeOK
    <3>2. CASE ReadLow
      BY <2>2, <3>2, SMT DEF ReadLow, TypeOK
    <3>3. CASE ReadRange
      BY <2>2, <3>3, SMT DEF ReadRange, TypeOK
    <3>4. CASE FetchRange
      BY <2>2, <3>4, SMT DEF FetchRange, TypeOK
    <3> QED
      BY <2>7, <3>1, <3>2, <3>3, <3>4, Zenon
  <2>8. CASE WriteCount \/ MacroDone \/ Kill
    BY <2>2, <2>8, SMT DEF WriteCount, MacroDone, Kill, Idle
  <2>9. ASSUME NEW chnl \in Chnl, NEW value \in Value, Convert(chnl, value)
        PROVE  FakeReadsBack'
    BY <2>3, <2>9, Zenon DEF Convert
  <2>10. CASE FirmwareSetsAll \/ UNCHANGED vars
    BY <2>3, <2>10, Zenon DEF FirmwareSetsAll, vars
  <2>11. 0 \in Chnl
    BY IdleTyped
  <2> QED
    BY <2>1, <2>4, <2>5, <2>6, <2>7, <2>8, <2>9, <2>10, <2>11, Zenon DEF Next
<1> QED
  BY <1>1, <1>2, TypeCorrect, PTL DEF Spec

=============================================================================
