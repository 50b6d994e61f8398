---------------------------- MODULE ValuesProofs ----------------------------
(***************************************************************************)
(* What the conversions of Values keep: dates, for every resolution of     *)
(* time; arrays, for any dimensions; VARIANTs, for any nesting.            *)
(***************************************************************************)
EXTENDS Values, WellFoundedInduction, TLAPS

\* Division with remainder is unique.
LEMMA Divide ==
    ASSUME NEW d \in Nat \ {0}, NEW q \in Int, NEW r \in 0 .. d - 1
    PROVE  (q * d + r) \div d = q /\ (q * d + r) % d = r
<1> DEFINE n == q * d + r
           k == n \div d
<1>1. n \in Int /\ k \in Int
  OBVIOUS
<1>2. k * d <= n /\ n < (k + 1) * d
  BY SMTT(20)
<1> HIDE DEF k
<1>3. ~(k + 1 <= q)
  BY <1>1, <1>2, SMTT(20)
<1>4. ~(q + 1 <= k)
  BY <1>1, <1>2, SMTT(20)
<1>5. k = q
  BY <1>1, <1>3, <1>4
<1>6. QED
  BY <1>5, SMTT(20) DEF k

\* A moment of the day rounds to a whole number of milliseconds, at most the day's.
LEMMA RoundedTimeWhole ==
    ASSUME NEW i \in Instants
    PROVE  \E k \in 0 .. Ticks : RoundedTime(i) = k * Fine
<1>1. Ticks \in Nat \ {0} /\ Fine \in Nat \ {0} /\ i.time \in 0 .. Ticks * Fine - 1
  BY ValuesAssumption DEF Instants, Unit
<1> DEFINE half == Fine \div 2
           k == (i.time + half) \div Fine
<1>2. half \in Nat /\ half < Fine
  BY <1>1, SMTT(20)
<1> HIDE DEF half
<1>3. i.time + half \in Nat /\ i.time + half < (Ticks + 1) * Fine
  BY <1>1, <1>2, SMTT(20)
<1>4. k \in Int /\ k * Fine <= i.time + half /\ i.time + half < (k + 1) * Fine
  BY <1>1, <1>3, SMTT(20)
<1> HIDE DEF k
<1>5. 0 <= k
  BY <1>1, <1>3, <1>4, SMTT(20)
<1>6. k * Fine < (Ticks + 1) * Fine
  BY <1>1, <1>3, <1>4, SMTT(20)
<1>7. k < Ticks + 1
  BY <1>1, <1>4, <1>6, SMTT(20)
<1>8. k \in 0 .. Ticks /\ RoundedTime(i) = k * Fine
  BY <1>1, <1>4, <1>5, <1>7 DEF k, half, RoundedTime
<1>9. QED
  BY <1>8

\* Rounding gives an instant with a whole number of milliseconds ...
LEMMA RoundedWhole ==
    ASSUME NEW i \in Instants
    PROVE  Rounded(i) \in Instants /\ \E k \in 0 .. Ticks - 1 : Rounded(i).time = k * Fine
<1>1. Ticks \in Nat \ {0} /\ Fine \in Nat \ {0} /\ i.day \in Int
  BY ValuesAssumption DEF Instants
<1>2. PICK k \in 0 .. Ticks : RoundedTime(i) = k * Fine
  BY RoundedTimeWhole
<1>3. CASE k = Ticks
  <2>1. Rounded(i) = [day |-> i.day + 1, time |-> 0]
    BY <1>2, <1>3 DEF Rounded, Unit
  <2>2. 0 \in 0 .. Unit - 1 /\ 0 \in 0 .. Ticks - 1 /\ 0 = 0 * Fine
    BY <1>1, SMTT(20) DEF Unit
  <2>3. QED
    BY <1>1, <2>1, <2>2 DEF Instants
<1>4. CASE k # Ticks
  <2>1. k \in 0 .. Ticks - 1
    BY <1>1, <1>4
  <2>2. k * Fine \in 0 .. Unit - 1
    BY <1>1, <2>1, SMTT(20) DEF Unit
  <2>3. Rounded(i) = [day |-> i.day, time |-> k * Fine]
    BY <1>1, <1>2, <2>2, SMTT(20) DEF Rounded, Unit
  <2>4. QED
    BY <1>1, <2>1, <2>2, <2>3 DEF Instants
<1>5. QED
  BY <1>3, <1>4

\* ... and leaves such an instant as it is.
LEMMA RoundedFixed ==
    ASSUME NEW i \in Instants, NEW k \in 0 .. Ticks - 1, i.time = k * Fine
    PROVE  Rounded(i) = i
<1>1. Ticks \in Nat \ {0} /\ Fine \in Nat \ {0} /\ k \in Nat
  BY ValuesAssumption
<1> DEFINE half == Fine \div 2
<1>2. half \in 0 .. Fine - 1
  BY <1>1, SMTT(20)
<1> HIDE DEF half
<1>3. (k * Fine + half) \div Fine = k
  BY <1>1, <1>2, Divide
<1>4. RoundedTime(i) = i.time
  BY <1>3 DEF RoundedTime, half
<1>5. i = [day |-> i.day, time |-> i.time] /\ i.time \in 0 .. Unit - 1
  BY DEF Instants
<1>6. Unit \in Int
  BY <1>1 DEF Unit
<1>7. i.time # Unit
  BY <1>5, <1>6
<1>8. QED
  BY <1>4, <1>5, <1>7 DEF Rounded

\* The DATE of an instant names its day and its time of day, on both sides of the
\* epoch.
LEMMA DateSplit ==
    ASSUME NEW i \in Instants
    PROVE  /\ DateOf(i) \in Int
           /\ WholeDays(DateOf(i)) = i.day /\ Fraction(DateOf(i)) = i.time
           /\ i.day \in MinDay .. MaxDay =>
                DateOf(i) > (MinDay - 1) * Unit /\ DateOf(i) < (MaxDay + 1) * Unit
<1>1. Unit \in Nat \ {0}
  BY ValuesAssumption, SMTT(20) DEF Unit
<1>2. i.day \in Int /\ i.time \in 0 .. Unit - 1
  BY DEF Instants
<1>3. MinDay \in Int /\ MaxDay \in Nat /\ MinDay < 0
  BY ValuesAssumption
<1>4. CASE i.day < 0
  <2> DEFINE d == -i.day
  <2>1. /\ d \in Nat \ {0} /\ i.day = -d
        /\ DateOf(i) = -(d * Unit + i.time) /\ d * Unit + i.time \in Nat
    BY <1>1, <1>2, <1>4, SMTT(20) DEF DateOf
  <2> HIDE DEF d
  <2>2. d * Unit + i.time > 0
    BY <1>1, <1>2, <2>1, SMTT(20)
  <2>3. (d * Unit + i.time) \div Unit = d /\ (d * Unit + i.time) % Unit = i.time
    <3>1. d \in Int
      BY <2>1
    <3>2. QED
      BY <1>1, <1>2, <3>1, Divide
  <2>4. WholeDays(DateOf(i)) = -d /\ Fraction(DateOf(i)) = i.time
    <3> DEFINE w == d * Unit + i.time
    <3>1. w \in Nat /\ w > 0 /\ DateOf(i) = -w /\ w \div Unit = d /\ w % Unit = i.time
      BY <2>1, <2>2, <2>3
    <3> HIDE DEF w
    <3>2. -w < 0 /\ -(-w) = w
      BY <3>1
    <3>3. QED
      BY <3>1, <3>2 DEF WholeDays, Fraction
  <2>5. MinDay <= i.day => DateOf(i) > (MinDay - 1) * Unit
    BY <1>1, <1>2, <1>3, <2>1, SMTT(30)
  <2>6. DateOf(i) < (MaxDay + 1) * Unit
    <3>1. (MaxDay + 1) * Unit >= 0
      BY <1>1, <1>3, SMTT(20)
    <3>2. QED
      BY <1>1, <1>2, <1>3, <2>1, <2>2, <3>1, SMTT(20)
  <2>7. QED
    BY <1>2, <1>3, <2>1, <2>4, <2>5, <2>6
<1>5. CASE ~(i.day < 0)
  <2>1. i.day \in Nat /\ DateOf(i) = i.day * Unit + i.time /\ DateOf(i) \in Nat
    BY <1>1, <1>2, <1>5, SMTT(20) DEF DateOf
  <2>2. (i.day * Unit + i.time) \div Unit = i.day /\ (i.day * Unit + i.time) % Unit = i.time
    BY <1>1, <1>2, <2>1, Divide
  <2>3. WholeDays(DateOf(i)) = i.day /\ Fraction(DateOf(i)) = i.time
    BY <2>1, <2>2 DEF WholeDays, Fraction
  <2>4. (MinDay - 1) * Unit < 0
    BY <1>1, <1>3, SMTT(20)
  <2>5. DateOf(i) > (MinDay - 1) * Unit
    <3>1. (MinDay - 1) * Unit \in Int
      BY <1>1, <1>3
    <3>2. QED
      BY <2>1, <2>4, <3>1
  <2>6. i.day <= MaxDay => DateOf(i) < (MaxDay + 1) * Unit
    BY <1>1, <1>2, <1>3, <2>1, SMTT(30)
  <2>7. QED
    BY <1>2, <1>3, <2>1, <2>3, <2>5, <2>6
<1>6. QED
  BY <1>4, <1>5

\* A date that is written is read back as it was meant: every instant that
\* dateAutomation accepts comes back from automationDate rounded to a millisecond,
\* before the epoch as after it, and up to the last moment of the year 9999.
THEOREM DateRoundTrip ==
    ASSUME NEW i \in Instants, dateAutomation(i).ok
    PROVE  automationDate(dateAutomation(i).wire) = [ok |-> TRUE, value |-> Rounded(i)]
<1> DEFINE r == Rounded(i)
<1>1. r \in Instants /\ \E k \in 0 .. Ticks - 1 : r.time = k * Fine
  BY RoundedWhole
<1>2. InYears(r) /\ dateAutomation(i).wire = DateOf(r)
  <2>1. InYears(r)
    BY DEF dateAutomation
  <2>2. QED
    BY <2>1 DEF dateAutomation
<1> HIDE DEF r
<1>3. [day |-> r.day, time |-> r.time] = r
  BY <1>1 DEF Instants
<1>4. Rounded(r) = r
  BY <1>1, RoundedFixed
<1>5. /\ WholeDays(DateOf(r)) = r.day /\ Fraction(DateOf(r)) = r.time
      /\ DateOf(r) > (MinDay - 1) * Unit /\ DateOf(r) < (MaxDay + 1) * Unit
  BY <1>1, <1>2, DateSplit DEF InYears
<1>6. automationDate(DateOf(r)) = [ok |-> TRUE, value |-> r]
  BY <1>2, <1>3, <1>4, <1>5 DEF automationDate
<1>7. QED
  BY <1>2, <1>6 DEF r

\* A date that is read can be written back and stays what it is: nothing is lost
\* beyond the first rounding.
THEOREM DateStable ==
    ASSUME NEW v \in Int, automationDate(v).ok
    PROVE  /\ dateAutomation(automationDate(v).value).ok
           /\ automationDate(dateAutomation(automationDate(v).value).wire) = automationDate(v)
<1> DEFINE j == [day |-> WholeDays(v), time |-> Fraction(v)]
           r == Rounded(j)
<1>1. Unit \in Nat \ {0}
  BY ValuesAssumption, SMTT(20) DEF Unit
<1>2. j \in Instants
  <2>1. WholeDays(v) \in Int /\ Fraction(v) \in 0 .. Unit - 1
    BY <1>1, SMTT(20) DEF WholeDays, Fraction
  <2>2. QED
    BY <2>1 DEF Instants
<1>3. r \in Instants /\ \E k \in 0 .. Ticks - 1 : r.time = k * Fine
  BY <1>2, RoundedWhole
<1>4. InYears(r) /\ automationDate(v) = [ok |-> TRUE, value |-> r]
  BY DEF automationDate
<1> HIDE DEF r
<1>5. Rounded(r) = r
  BY <1>3, RoundedFixed
<1>6. dateAutomation(r).ok
  BY <1>4, <1>5 DEF dateAutomation
<1>7. automationDate(dateAutomation(r).wire) = [ok |-> TRUE, value |-> r]
  BY <1>3, <1>5, <1>6, DateRoundTrip
<1>8. QED
  BY <1>4, <1>6, <1>7
-----------------------------------------------------------------------------
(* Induction.  A recursive function is what its definition says only where  *)
(* such a function exists.                                                 *)

\* Induction, for a set in place of a predicate.
LEMMA Induct ==
    ASSUME NEW S, 0 \in S, \A j \in Nat : j \in S => j + 1 \in S
    PROVE  Nat \subseteq S
<1> DEFINE T == Nat \ S
           R == {ss \in Nat \X Nat : ss[1] < ss[2]}
<1> SUFFICES ASSUME T # {} PROVE FALSE
  OBVIOUS
<1>1. T \subseteq Nat
  OBVIOUS
<1>2. \A x, y \in Nat : <<y, x>> \in R <=> y < x
  OBVIOUS
<1> HIDE DEF T, R
<1>3. IsWellFoundedOn(R, Nat)
  BY NatLessThanWellFounded DEF OpToRel, R
<1>4. PICK x \in T : \A y \in T : ~(<<y, x>> \in R)
  BY <1>1, <1>3, WFMin
<1>5. x \in Nat /\ x \notin S
  BY DEF T
<1>6. x - 1 \in Nat /\ x - 1 < x /\ (x - 1) + 1 = x
  BY <1>5
<1>7. x - 1 \notin T
  BY <1>2, <1>4, <1>5, <1>6
<1>8. x - 1 \in S
  BY <1>6, <1>7 DEF T
<1>9. QED
  BY <1>5, <1>6, <1>8

\* The same along the dimensions of an array, or the elements of a chain.
LEMMA Along ==
    ASSUME NEW n \in Nat, NEW S, 0 \in S, \A j \in 1 .. n : j - 1 \in S => j \in S
    PROVE  0 .. n \subseteq S
<1> DEFINE T == {j \in Nat : j <= n => j \in S}
<1>1. 0 \in T /\ \A j \in Nat : j \in T => j + 1 \in T
  <2>1. ASSUME NEW j \in Nat, j \in T, j + 1 <= n
        PROVE  j + 1 \in S
    <3>1. j \in S /\ j + 1 \in 1 .. n /\ (j + 1) - 1 = j
      BY <2>1
    <3>2. QED
      BY <3>1
  <2>2. QED
    BY <2>1
<1> HIDE DEF T
<1>2. Nat \subseteq T
  BY <1>1, Induct
<1>3. QED
  BY <1>2 DEF T

\* A function on 0 .. n can be given by its first value and by what makes each
\* further value of the one before it.
Follows(g, base, step, n) ==
  g[0] = base /\ \A j \in 1 .. n : g[j] = step[j][g[j - 1]]

LEMMA Iterate ==
    ASSUME NEW V, NEW base \in V, NEW n \in Nat, NEW step \in [1 .. n -> [V -> V]]
    PROVE  \E g \in [0 .. n -> V] : Follows(g, base, step, n)
<1> DEFINE Up(k, g) == g[0] = base /\ \A j \in 1 .. k : g[j] = step[j][g[j - 1]]
           S == {k \in Nat : k <= n => \E g \in [0 .. n -> V] : Up(k, g)}
<1>1. 0 \in S
  <2>1. [j \in 0 .. n |-> base] \in [0 .. n -> V] /\ Up(0, [j \in 0 .. n |-> base])
    OBVIOUS
  <2>2. QED
    BY <2>1
<1>2. ASSUME NEW k \in Nat, k \in S
      PROVE  k + 1 \in S
  <2>1. SUFFICES ASSUME k + 1 <= n
                 PROVE  \E g \in [0 .. n -> V] : Up(k + 1, g)
    OBVIOUS
  <2>2. PICK g \in [0 .. n -> V] : Up(k, g)
    BY <1>2, <2>1
  <2> DEFINE h == [g EXCEPT ![k + 1] = step[k + 1][g[k]]]
  <2>3. step[k + 1] \in [V -> V] /\ g[k] \in V
    BY <2>1
  <2>4. h \in [0 .. n -> V]
    BY <2>3
  <2>5. h[k + 1] = step[k + 1][g[k]] /\ \A j \in 0 .. n : j # k + 1 => h[j] = g[j]
    BY <2>1, <2>2
  <2>6. Up(k + 1, h)
    <3> HIDE DEF h
    <3>1. h[0] = base
      BY <2>2, <2>5
    <3>2. ASSUME NEW j \in 1 .. k + 1
          PROVE  h[j] = step[j][h[j - 1]]
      <4>1. CASE j = k + 1
        BY <2>1, <2>5, <4>1
      <4>2. CASE j \in 1 .. k
        BY <2>1, <2>2, <2>5, <4>2
      <4>3. QED
        BY <4>1, <4>2
    <3>3. QED
      BY <3>1, <3>2
  <2>7. QED
    BY <2>4, <2>6
<1> HIDE DEF S
<1>3. n \in S
  BY <1>1, <1>2, Induct
<1>4. QED
  BY <1>3 DEF S, Follows

-----------------------------------------------------------------------------
(* Arrays.                                                                 *)

LEMMA MultipliedType ==
    ASSUME NEW b \in Dimensions, NEW v \in Int
    PROVE  Multiplied(v, b) \in -1 .. MaxElements
<1>1. Word \in Nat \ {0} /\ MaxElements \in Nat \ {0} /\ v * b.count \in Int
  BY ValuesAssumption DEF Dimensions
<1>2. (v * b.count) % Word \in Nat
  BY <1>1
<1>3. QED
  BY <1>1, <1>2 DEF Multiplied

\* A product that passes the limit after every dimension has not wrapped around.
LEMMA MultipliedExact ==
    ASSUME NEW b \in Dimensions, NEW v \in -1 .. MaxElements, Multiplied(v, b) >= 0
    PROVE  v >= 0 /\ ~UpperOverflows(b) /\ Multiplied(v, b) = v * b.count
<1>1. /\ Word \in Nat \ {0} /\ MaxElements \in Nat \ {0} /\ MaxCount \in Nat
      /\ b.count \in 0 .. MaxCount /\ MaxElements * MaxCount < Word
  BY ValuesAssumption DEF Dimensions
<1>2. v >= 0 /\ ~UpperOverflows(b) /\ Multiplied(v, b) = (v * b.count) % Word
  BY DEF Multiplied
<1>3. v * b.count \in Nat /\ v * b.count <= MaxElements * MaxCount
  <2>1. v * b.count <= MaxElements * b.count
    BY <1>1, <1>2, SMTT(20)
  <2>2. MaxElements * b.count <= MaxElements * MaxCount
    BY <1>1, SMTT(20)
  <2>3. v * b.count \in Nat /\ MaxElements * b.count \in Int /\ MaxElements * MaxCount \in Int
    BY <1>1, <1>2, SMTT(20)
  <2>4. QED
    BY <2>1, <2>2, <2>3
<1> DEFINE p == v * b.count
<1>4. p \in Nat /\ p < Word
  <2>1. MaxElements * MaxCount \in Int
    BY <1>1
  <2>2. QED
    BY <1>1, <1>3, <2>1
<1>5. p % Word = p
  <2> HIDE DEF p
  <2>1. QED
    BY <1>1, <1>4
<1>6. QED
  BY <1>2, <1>5

\* CountAfter and ProductAfter are the functions their definitions describe.
LEMMA CountAfterDef ==
    ASSUME NEW bounds \in Seq(Dimensions)
    PROVE  /\ CountAfter(bounds) \in [0 .. Len(bounds) -> Int]
           /\ CountAfter(bounds)[0] = 1
           /\ \A j \in 1 .. Len(bounds) :
                CountAfter(bounds)[j] = Multiplied(CountAfter(bounds)[j - 1], bounds[j])
<1> DEFINE n == Len(bounds)
           V == Int
           base == 1
           step == [j \in 1 .. n |-> [v \in V |-> Multiplied(v, bounds[j])]]
           Def(g) == [j \in 0 .. n |-> IF j = 0 THEN 1 ELSE Multiplied(g[j - 1], bounds[j])]
           f == CountAfter(bounds)
<1>1. \A j \in 1 .. n, v \in V : Multiplied(v, bounds[j]) \in V
  <2>1. \A j \in 1 .. n : bounds[j] \in Dimensions
    OBVIOUS
  <2>2. \A b \in Dimensions, v \in Int : Multiplied(v, b) \in Int
    <3>1. ASSUME NEW b \in Dimensions, NEW v \in Int
          PROVE  Multiplied(v, b) \in Int
      <4>1. Multiplied(v, b) \in -1 .. MaxElements
        BY MultipliedType
      <4>2. QED
        BY <4>1
    <3>2. QED
      BY <3>1
  <2>3. QED
    BY <2>1, <2>2
<1>2. n \in Nat /\ base \in V /\ step \in [1 .. n -> [V -> V]]
  <2> HIDE DEF V
  <2>1. step \in [1 .. n -> [V -> V]]
    BY <1>1
  <2>2. QED
    BY <2>1 DEF V
<1>3. PICK g \in [0 .. n -> V] : Follows(g, base, step, n)
  <2> HIDE DEF n, V, base, step
  <2>1. QED
    BY <1>2, Iterate, Zenon
<1> HIDE DEF n
<1>4. \A j \in 0 .. n : j = 0 \/ (j - 1 \in 0 .. n /\ j \in 1 .. n)
  BY <1>2
<1>5. g = Def(g)
  <2>1. \A j \in 0 .. n : g[j] = IF j = 0 THEN 1 ELSE Multiplied(g[j - 1], bounds[j])
    BY <1>3, <1>4 DEF Follows
  <2>2. QED
    BY <2>1
<1>6. f = Def(f)
  <2>1. f = CHOOSE h : h = Def(h)
    BY DEF CountAfter, n
  <2> HIDE DEF f, Def
  <2>2. QED
    BY <1>5, <2>1, Zenon
<1> HIDE DEF f
<1>7. f[0] = 1 /\ \A j \in 1 .. n : f[j] = Multiplied(f[j - 1], bounds[j])
  <2>1. \A j \in 0 .. n : f[j] = Def(f)[j]
    BY <1>6
  <2>2. 0 \in 0 .. n /\ \A j \in 1 .. n : j \in 0 .. n /\ j # 0
    BY <1>2
  <2>3. QED
    BY <2>1, <2>2
<1>8. \A j \in 0 .. n : f[j] \in V
  <2> DEFINE S == {j \in 0 .. n : f[j] \in V}
  <2> HIDE DEF V
  <2>1. 0 \in S
    BY <1>2, <1>7 DEF base
  <2>2. ASSUME NEW j \in 1 .. n, j - 1 \in S
        PROVE  j \in S
    <3>1. j \in 0 .. n /\ f[j - 1] \in V
      BY <1>2, <2>2
    <3>2. f[j] \in V
      BY <1>1, <1>7, <3>1
    <3>3. QED
      BY <3>1, <3>2
  <2> HIDE DEF S
  <2>3. 0 .. n \subseteq S
    BY <1>2, <2>1, <2>2, Along
  <2>4. QED
    BY <2>3 DEF S
<1>9. f \in [0 .. n -> Int]
  BY <1>6, <1>8
<1>10. QED
  BY <1>7, <1>9 DEF f, n

LEMMA ProductAfterDef ==
    ASSUME NEW bounds \in Seq(Dimensions)
    PROVE  /\ ProductAfter(bounds) \in [0 .. Len(bounds) -> Int]
           /\ ProductAfter(bounds)[0] = 1
           /\ \A j \in 1 .. Len(bounds) :
                ProductAfter(bounds)[j] = ProductAfter(bounds)[j - 1] * bounds[j].count
<1> DEFINE n == Len(bounds)
           V == Int
           base == 1
           step == [j \in 1 .. n |-> [v \in V |-> v * bounds[j].count]]
           Def(g) == [j \in 0 .. n |-> IF j = 0 THEN 1 ELSE g[j - 1] * bounds[j].count]
           f == ProductAfter(bounds)
<1>1. \A j \in 1 .. n, v \in V : v * bounds[j].count \in V
  <2>1. MaxCount \in Nat /\ \A j \in 1 .. n : bounds[j] \in Dimensions
    BY ValuesAssumption
  <2> HIDE DEF n
  <2>2. QED
    BY <2>1 DEF Dimensions
<1>2. n \in Nat /\ base \in V /\ step \in [1 .. n -> [V -> V]]
  <2> HIDE DEF V
  <2>1. step \in [1 .. n -> [V -> V]]
    BY <1>1
  <2>2. QED
    BY <2>1 DEF V
<1>3. PICK g \in [0 .. n -> V] : Follows(g, base, step, n)
  <2> HIDE DEF n, V, base, step
  <2>1. QED
    BY <1>2, Iterate, Zenon
<1> HIDE DEF n
<1>4. \A j \in 0 .. n : j = 0 \/ (j - 1 \in 0 .. n /\ j \in 1 .. n)
  BY <1>2
<1>5. g = Def(g)
  <2>1. \A j \in 0 .. n : g[j] = IF j = 0 THEN 1 ELSE g[j - 1] * bounds[j].count
    BY <1>3, <1>4 DEF Follows
  <2>2. QED
    BY <2>1
<1>6. f = Def(f)
  <2>1. f = CHOOSE h : h = Def(h)
    BY DEF ProductAfter, n
  <2> HIDE DEF f, Def
  <2>2. QED
    BY <1>5, <2>1, Zenon
<1> HIDE DEF f
<1>7. f[0] = 1 /\ \A j \in 1 .. n : f[j] = f[j - 1] * bounds[j].count
  <2>1. \A j \in 0 .. n : f[j] = Def(f)[j]
    BY <1>6
  <2>2. 0 \in 0 .. n /\ \A j \in 1 .. n : j \in 0 .. n /\ j # 0
    BY <1>2
  <2>3. QED
    BY <2>1, <2>2
<1>8. \A j \in 0 .. n : f[j] \in V
  <2> DEFINE S == {j \in 0 .. n : f[j] \in V}
  <2> HIDE DEF V
  <2>1. 0 \in S
    BY <1>2, <1>7 DEF base
  <2>2. ASSUME NEW j \in 1 .. n, j - 1 \in S
        PROVE  j \in S
    <3>1. j \in 0 .. n /\ f[j - 1] \in V
      BY <1>2, <2>2
    <3>2. f[j] \in V
      BY <1>1, <1>7, <3>1
    <3>3. QED
      BY <3>1, <3>2
  <2> HIDE DEF S
  <2>3. 0 .. n \subseteq S
    BY <1>2, <2>1, <2>2, Along
  <2>4. QED
    BY <2>3 DEF S
<1>9. f \in [0 .. n -> Int]
  BY <1>6, <1>8
<1>10. QED
  BY <1>7, <1>9 DEF f, n

\* A count that arrayCount returns is the product of all counts, and no dimension
\* ends beyond the largest int32: the machine words of the code never wrap.
THEOREM ArrayCountExact ==
    ASSUME NEW bounds \in Seq(Dimensions), arrayCount(bounds) >= 0
    PROVE  /\ arrayCount(bounds) = Product(bounds) /\ arrayCount(bounds) <= MaxElements
           /\ \A j \in DOMAIN bounds : ~UpperOverflows(bounds[j])
<1> DEFINE n == Len(bounds)
           c == CountAfter(bounds)
           p == ProductAfter(bounds)
           Exact(j) == c[j] <= MaxElements /\
                         (c[j] >= 0 => c[j] = p[j] /\ \A i \in 1 .. j : ~UpperOverflows(bounds[i]))
           S == {j \in 0 .. n : Exact(j)}
<1>1. n \in Nat /\ DOMAIN bounds = 1 .. n /\ MaxElements \in Nat \ {0}
      /\ \A j \in 1 .. n : bounds[j] \in Dimensions
  BY ValuesAssumption
<1>2. /\ \A j \in 0 .. n : c[j] \in Int
      /\ c[0] = 1 /\ \A j \in 1 .. n : c[j] = Multiplied(c[j - 1], bounds[j])
  BY CountAfterDef
<1>3. p[0] = 1 /\ \A j \in 1 .. n : p[j] = p[j - 1] * bounds[j].count
  BY ProductAfterDef
<1>4. arrayCount(bounds) = c[n] /\ Product(bounds) = p[n]
  BY DEF arrayCount, Product
<1> HIDE DEF n, c, p
<1>5. \A j \in 0 .. n : c[j] \in -1 .. MaxElements
  <2>1. ASSUME NEW j \in 0 .. n
        PROVE  c[j] \in -1 .. MaxElements
    <3>1. CASE j = 0
      BY <1>1, <1>2, <3>1
    <3>2. CASE j # 0
      <4>1. j \in 1 .. n /\ j - 1 \in 0 .. n
        BY <1>1, <3>2
      <4>2. QED
        BY <1>1, <1>2, <4>1, MultipliedType
    <3>3. QED
      BY <3>1, <3>2
  <2>2. QED
    BY <2>1
<1>6. 0 \in S
  BY <1>1, <1>2, <1>3
<1>7. ASSUME NEW j \in 1 .. n, j - 1 \in S
      PROVE  j \in S
  <2>1. j \in 0 .. n /\ j - 1 \in 0 .. n /\ Exact(j - 1)
    BY <1>1, <1>7
  <2>2. CASE c[j] >= 0
    <3>1. /\ c[j - 1] >= 0 /\ ~UpperOverflows(bounds[j])
          /\ c[j] = c[j - 1] * bounds[j].count
      BY <1>1, <1>2, <1>5, <2>1, <2>2, MultipliedExact
    <3>2. c[j] = p[j] /\ \A i \in 1 .. j - 1 : ~UpperOverflows(bounds[i])
      BY <1>3, <2>1, <3>1
    <3>3. \A i \in 1 .. j : i = j \/ i \in 1 .. j - 1
      BY <1>1
    <3>4. c[j] <= MaxElements
      BY <1>1, <1>5, <2>1
    <3>5. QED
      BY <2>1, <3>1, <3>2, <3>3, <3>4
  <2>3. CASE ~(c[j] >= 0)
    BY <1>1, <1>5, <2>1, <2>3
  <2>4. QED
    BY <2>2, <2>3
<1> HIDE DEF S
<1>8. 0 .. n \subseteq S
  BY <1>1, <1>6, <1>7, Along
<1>9. Exact(n)
  BY <1>1, <1>8 DEF S
<1>10. QED
  BY <1>1, <1>4, <1>9
-----------------------------------------------------------------------------
(* Nesting.                                                                *)

\* DepthAfter is the function its definition describes.
LEMMA DepthAfterDef ==
    ASSUME NEW W, NEW c \in Seq(W), NEW levels \in [W -> Nat]
    PROVE  /\ DepthAfter(levels, c) \in [0 .. Len(c) -> Int]
           /\ DepthAfter(levels, c)[0] = 0
           /\ \A j \in 1 .. Len(c) :
                DepthAfter(levels, c)[j] = DepthAfter(levels, c)[j - 1] + levels[c[j]]
<1> DEFINE n == Len(c)
           V == Int
           base == 0
           step == [j \in 1 .. n |-> [v \in V |-> v + levels[c[j]]]]
           Def(g) == [j \in 0 .. n |-> IF j = 0 THEN 0 ELSE g[j - 1] + levels[c[j]]]
           f == DepthAfter(levels, c)
<1>1. \A j \in 1 .. n, v \in V : v + levels[c[j]] \in V
  <2>1. \A j \in 1 .. n : levels[c[j]] \in Nat
    OBVIOUS
  <2> HIDE DEF n
  <2>2. QED
    BY <2>1
<1>2. n \in Nat /\ base \in V /\ step \in [1 .. n -> [V -> V]]
  <2> HIDE DEF V
  <2>1. step \in [1 .. n -> [V -> V]]
    BY <1>1
  <2>2. QED
    BY <2>1 DEF V
<1>3. PICK g \in [0 .. n -> V] : Follows(g, base, step, n)
  <2> HIDE DEF n, V, base, step
  <2>1. QED
    BY <1>2, Iterate, Zenon
<1> HIDE DEF n
<1>4. \A j \in 0 .. n : j = 0 \/ (j - 1 \in 0 .. n /\ j \in 1 .. n)
  BY <1>2
<1>5. g = Def(g)
  <2>1. \A j \in 0 .. n : g[j] = IF j = 0 THEN 0 ELSE g[j - 1] + levels[c[j]]
    BY <1>3, <1>4 DEF Follows
  <2>2. QED
    BY <2>1
<1>6. f = Def(f)
  <2>1. f = CHOOSE h : h = Def(h)
    BY DEF DepthAfter, n
  <2> HIDE DEF f, Def
  <2>2. QED
    BY <1>5, <2>1, Zenon
<1> HIDE DEF f
<1>7. f[0] = 0 /\ \A j \in 1 .. n : f[j] = f[j - 1] + levels[c[j]]
  <2>1. \A j \in 0 .. n : f[j] = Def(f)[j]
    BY <1>6
  <2>2. 0 \in 0 .. n /\ \A j \in 1 .. n : j \in 0 .. n /\ j # 0
    BY <1>2
  <2>3. QED
    BY <2>1, <2>2
<1>8. \A j \in 0 .. n : f[j] \in V
  <2> DEFINE S == {j \in 0 .. n : f[j] \in V}
  <2> HIDE DEF V
  <2>1. 0 \in S
    BY <1>2, <1>7 DEF base
  <2>2. ASSUME NEW j \in 1 .. n, j - 1 \in S
        PROVE  j \in S
    <3>1. j \in 0 .. n /\ f[j - 1] \in V
      BY <1>2, <2>2
    <3>2. f[j] \in V
      BY <1>1, <1>7, <3>1
    <3>3. QED
      BY <3>1, <3>2
  <2> HIDE DEF S
  <2>3. 0 .. n \subseteq S
    BY <1>2, <2>1, <2>2, Along
  <2>4. QED
    BY <2>3 DEF S
<1>9. f \in [0 .. n -> Int]
  BY <1>6, <1>8
<1>10. QED
  BY <1>7, <1>9 DEF f, n

\* What the wire does to an element of a chain: the reader takes no more levels for
\* it than the writer took, and typing it explicitly undoes nothing else.
LEMMA ElementFacts ==
    ASSUME NEW x \in Leaves \cup Containers
    PROVE  /\ Untyped(x) \in Leaves \cup Containers
           /\ ReadLevels[Untyped(x)] <= WriteLevels[x]
           /\ Typed(Untyped(x)) = Typed(x)
BY DEF Leaves, Containers, Untyped, Typed, ReadLevels, WriteLevels

LEMMA LevelsType ==
    /\ ReadLevels \in [Leaves \cup Containers -> Nat]
    /\ WriteLevels \in [Leaves \cup Containers -> Nat]
BY DEF Leaves, Containers, ReadLevels, WriteLevels

\* A chain that is short enough for the writer is short enough for the reader.
LEMMA ReaderShallower ==
    ASSUME NEW c \in Seq(Leaves \cup Containers)
    PROVE  Depth(ReadLevels, [j \in DOMAIN c |-> Untyped(c[j])]) <= Depth(WriteLevels, c)
<1> DEFINE E == Leaves \cup Containers
           w == [j \in DOMAIN c |-> Untyped(c[j])]
           n == Len(c)
           r == DepthAfter(ReadLevels, w)
           d == DepthAfter(WriteLevels, c)
           S == {j \in 0 .. n : r[j] <= d[j]}
<1>1. n \in Nat /\ DOMAIN c = 1 .. n /\ \A j \in 1 .. n : c[j] \in E
  OBVIOUS
<1>2. w \in Seq(E) /\ Len(w) = n /\ \A j \in 1 .. n : w[j] = Untyped(c[j])
  <2>1. \A j \in 1 .. n : Untyped(c[j]) \in E
    BY <1>1, ElementFacts
  <2>2. QED
    BY <1>1, <2>1
<1>3. ReadLevels \in [E -> Nat] /\ WriteLevels \in [E -> Nat]
  BY LevelsType
<1> HIDE DEF E, w, n
<1>4. /\ \A j \in 0 .. n : r[j] \in Int
      /\ r[0] = 0 /\ \A j \in 1 .. n : r[j] = r[j - 1] + ReadLevels[w[j]]
  <2>1. /\ r \in [0 .. Len(w) -> Int]
        /\ r[0] = 0 /\ \A j \in 1 .. Len(w) : r[j] = r[j - 1] + ReadLevels[w[j]]
    BY <1>2, <1>3, DepthAfterDef
  <2> HIDE DEF r
  <2>2. QED
    BY <1>2, <2>1
<1>5. /\ \A j \in 0 .. n : d[j] \in Int
      /\ d[0] = 0 /\ \A j \in 1 .. n : d[j] = d[j - 1] + WriteLevels[c[j]]
  BY <1>3, DepthAfterDef DEF E, n
<1>6. Depth(ReadLevels, w) = r[n] /\ Depth(WriteLevels, c) = d[n]
  BY <1>2 DEF Depth, n
<1> HIDE DEF r, d
<1>7. 0 \in S
  BY <1>1, <1>4, <1>5
<1>8. ASSUME NEW j \in 1 .. n, j - 1 \in S
      PROVE  j \in S
  <2>1. j \in 0 .. n /\ j - 1 \in 0 .. n /\ r[j - 1] <= d[j - 1]
    BY <1>1, <1>8
  <2>2. /\ ReadLevels[w[j]] \in Nat /\ WriteLevels[c[j]] \in Nat
        /\ ReadLevels[w[j]] <= WriteLevels[c[j]]
    <3>1. c[j] \in E /\ w[j] = Untyped(c[j]) /\ w[j] \in E
      BY <1>1, <1>2, ElementFacts DEF E
    <3>2. QED
      BY <1>3, <3>1, ElementFacts DEF E
  <2>3. r[j] <= d[j]
    BY <1>4, <1>5, <2>1, <2>2
  <2>4. QED
    BY <2>1, <2>3
<1> HIDE DEF S
<1>9. 0 .. n \subseteq S
  BY <1>1, <1>7, <1>8, Along
<1>10. r[n] <= d[n]
  BY <1>1, <1>9 DEF S
<1>11. QED
  BY <1>6, <1>10 DEF w

-----------------------------------------------------------------------------
(* Values of any kind.                                                     *)

\* What a caller writes is what a caller reads: every value that writeVariant
\* accepts, a date, an array of any bounds or a chain of any nesting, is accepted by
\* scalarValue, and means the same.
THEOREM ValueRoundTrip ==
    ASSUME NEW x, x.kind \in ValueKinds, x.value \in Writable(x.kind), writeVariant(x).ok
    PROVE  /\ scalarValue(x.kind, writeVariant(x).wire).ok
           /\ scalarValue(x.kind, writeVariant(x).wire).value = Meaning(x)
<1>1. CASE x.kind = "date"
  <2>1. x.value \in Instants /\ writeVariant(x) = dateAutomation(x.value)
        /\ Meaning(x) = Rounded(x.value)
    BY <1>1 DEF Writable, writeVariant, Meaning
  <2>2. automationDate(dateAutomation(x.value).wire) = [ok |-> TRUE, value |-> Rounded(x.value)]
    BY <2>1, DateRoundTrip
  <2>3. QED
    BY <1>1, <2>1, <2>2 DEF scalarValue
<1>2. CASE x.kind = "array"
  <2>1. writeVariant(x) = writeArray(x.value) /\ Meaning(x) = x.value
    BY <1>2 DEF writeVariant, Meaning
  <2>2. QED
    BY <1>2, <2>1 DEF scalarValue, writeArray, readArray
<1>3. CASE x.kind = "chain"
  <2> DEFINE c == x.value
             w == [j \in DOMAIN c |-> Untyped(c[j])]
  <2>1. c \in Seq(Leaves \cup Containers) /\ writeVariant(x) = writeVariantDepth(c)
    BY <1>3 DEF Writable, writeVariant
  <2>2. /\ Depth(WriteLevels, c) <= MaxNesting /\ WireNesting(c)
        /\ writeVariant(x).wire = w
    <3>1. writeVariantDepth(c).ok /\ writeVariant(x).wire = writeVariantDepth(c).wire
      BY <2>1
    <3>2. QED
      BY <3>1 DEF writeVariantDepth
  <2>3. DOMAIN w = DOMAIN c /\ Len(w) = Len(c) /\ \A j \in DOMAIN c : w[j] = Untyped(c[j])
    BY <2>1
  <2>4. Depth(ReadLevels, w) <= MaxNesting
    <3>1. Depth(ReadLevels, w) <= Depth(WriteLevels, c)
      BY <2>1, ReaderShallower
    <3>2. Depth(ReadLevels, w) \in Int /\ Depth(WriteLevels, c) \in Int
      <4>1. w \in Seq(Leaves \cup Containers)
        BY <2>1, <2>3, ElementFacts
      <4>2. ReadLevels \in [Leaves \cup Containers -> Nat]
            /\ WriteLevels \in [Leaves \cup Containers -> Nat]
        BY LevelsType
      <4>3. Len(w) \in 0 .. Len(w) /\ Len(c) \in 0 .. Len(c)
        BY <2>1, <4>1
      <4>4. /\ DepthAfter(ReadLevels, w) \in [0 .. Len(w) -> Int]
            /\ DepthAfter(WriteLevels, c) \in [0 .. Len(c) -> Int]
        <5> HIDE DEF w
        <5>1. QED
          BY <2>1, <4>1, <4>2, DepthAfterDef
      <4>5. QED
        BY <4>3, <4>4 DEF Depth
    <3>3. MaxNesting \in Nat
      BY ValuesAssumption
    <3>4. QED
      BY <2>2, <3>1, <3>2, <3>3
  <2>5. WireNesting(w)
    BY <2>2, <2>3 DEF WireNesting
  <2> DEFINE v == [j \in DOMAIN w |-> IF j = 1 THEN w[j] ELSE Typed(w[j])]
  <2>6. scalarValue(x.kind, w) = [ok |-> TRUE, value |-> v]
    BY <1>3, <2>4, <2>5 DEF scalarValue, scalarValueDepth
  <2>7. v = [j \in DOMAIN c |-> IF j = 1 THEN Untyped(c[j]) ELSE Typed(c[j])]
    <3>1. \A j \in DOMAIN c : Typed(Untyped(c[j])) = Typed(c[j])
      BY <2>1, ElementFacts
    <3>2. QED
      BY <2>3, <3>1
  <2>8. Meaning(x) = [j \in DOMAIN c |-> IF j = 1 THEN Untyped(c[j]) ELSE Typed(c[j])]
    BY <1>3 DEF Meaning
  <2>9. QED
    BY <2>2, <2>6, <2>7, <2>8
<1>4. QED
  BY <1>1, <1>2, <1>3 DEF ValueKinds

\* What a caller reads is sound, whoever wrote it: a date of the years of a DATE
\* and of whole milliseconds, an array with as many values as its bounds say, a
\* nesting within the limit.
THEOREM ReadValueSound ==
    ASSUME NEW kind \in ValueKinds, NEW wire \in Readable(kind), scalarValue(kind, wire).ok
    PROVE  Sound(kind, scalarValue(kind, wire).value)
<1>1. CASE kind = "date"
  <2> DEFINE i == [day |-> WholeDays(wire), time |-> Fraction(wire)]
             r == Rounded(i)
  <2>1. wire \in Int /\ scalarValue(kind, wire) = automationDate(wire)
    BY <1>1 DEF Readable, scalarValue
  <2>2. Unit \in Nat \ {0} /\ Fine \in Nat \ {0}
    BY ValuesAssumption, SMTT(20) DEF Unit
  <2>3. i \in Instants
    <3>1. WholeDays(wire) \in Int /\ Fraction(wire) \in 0 .. Unit - 1
      BY <2>1, <2>2, SMTT(20) DEF WholeDays, Fraction
    <3>2. QED
      BY <3>1 DEF Instants
  <2>4. PICK k \in 0 .. Ticks - 1 : r.time = k * Fine
    BY <2>3, RoundedWhole
  <2>5. InYears(r) /\ scalarValue(kind, wire).value = r
    BY <2>1 DEF automationDate
  <2> HIDE DEF r
  <2>6. (k * Fine + 0) % Fine = 0
    <3>1. k \in Int /\ 0 \in 0 .. Fine - 1
      BY <2>2
    <3>2. QED
      BY <2>2, <3>1, Divide
  <2>7. r.time % Fine = 0
    <3>1. k * Fine + 0 = k * Fine
      BY <2>2
    <3>2. QED
      BY <2>4, <2>6, <3>1
  <2>8. QED
    BY <1>1, <2>5, <2>7 DEF Sound
<1>2. CASE kind = "array"
  <2>1. wire \in Arrays /\ scalarValue(kind, wire) = readArray(wire)
    BY <1>2 DEF Readable, scalarValue
  <2>2. scalarValue(kind, wire).value = wire
        /\ (wire.null \/ (arrayCount(wire.bounds) >= 0 /\ arrayCount(wire.bounds) = wire.size))
    <3>1. readArray(wire).ok /\ scalarValue(kind, wire).value = readArray(wire).value
      BY <2>1
    <3>2. QED
      BY <3>1 DEF readArray
  <2>3. CASE wire = NullArray
    BY <1>2, <2>2, <2>3 DEF NullArray, Sound
  <2>4. CASE wire # NullArray
    <3>1. wire.bounds \in Seq(Dimensions) /\ ~wire.null
      BY <2>1, <2>4 DEF Arrays
    <3>2. arrayCount(wire.bounds) >= 0 /\ arrayCount(wire.bounds) = wire.size
      BY <2>2, <3>1
    <3>3. Product(wire.bounds) = wire.size
          /\ \A j \in DOMAIN wire.bounds : ~UpperOverflows(wire.bounds[j])
      BY <3>1, <3>2, ArrayCountExact
    <3>4. QED
      BY <1>2, <2>2, <3>3 DEF Sound
  <2>5. QED
    BY <2>3, <2>4
<1>3. CASE kind = "chain"
  <2> DEFINE v == [j \in DOMAIN wire |-> IF j = 1 THEN wire[j] ELSE Typed(wire[j])]
  <2>1. \E W : wire \in Seq(W)
    BY <1>3 DEF Readable
  <2>2. WireNesting(wire) /\ scalarValue(kind, wire).value = v
    BY <1>3 DEF scalarValue, scalarValueDepth
  <2>3. Len(v) = Len(wire)
    BY <2>1
  <2>4. QED
    BY <1>3, <2>2, <2>3 DEF Sound, WireNesting
<1>4. QED
  BY <1>1, <1>2, <1>3 DEF ValueKinds
=============================================================================
