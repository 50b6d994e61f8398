------------------------------- MODULE Values -------------------------------
(***************************************************************************)
(* The values an OPC item can hold: automation dates (date.go, value.go),  *)
(* the bounds of arrays (array.go), and the nesting of VARIANTs (scalar.go,*)
(* read_wire.go, scalar_wire.go).  Every value has two sides: what a       *)
(* caller writes and what travels in the VARIANT.  Scalars whose two sides *)
(* are the same bits are left out.                                         *)
(***************************************************************************)
EXTENDS Integers, Sequences, FiniteSets, SequencesExt

CONSTANTS
  Ticks,        \* milliseconds of a day (86400000 in the code)
  Fine,         \* units of time in a millisecond (a time.Time has 10^6)
  MinDay,       \* the first day of year 100, counted from 1899-12-30
  MaxDay,       \* the last day of year 9999
  MaxInt,       \* the largest int32
  MaxDims,      \* dimensions of a SAFEARRAY (32)
  MaxCount,     \* the largest count of a dimension (a uint32)
  MaxElements,  \* elements of a SAFEARRAY (1 << 20)
  Word,         \* the unsigned integers of the code are below Word (2^64)
  MaxNesting    \* VARIANTs nested in one another (32)

ASSUME ValuesAssumption ==
  /\ Ticks \in Nat \ {0} /\ Fine \in Nat \ {0}
  /\ MinDay \in Int /\ MaxDay \in Nat /\ MinDay < 0
  /\ {MaxInt, MaxDims, MaxCount, MaxElements, Word, MaxNesting} \subseteq Nat \ {0}
  /\ MaxElements * MaxCount < Word

-----------------------------------------------------------------------------
(* Dates.  An instant is a day counted from 1899-12-30 and a time of that  *)
(* day in 1/Fine ms.  A DATE is a number of days; here it counts units of  *)
(* 1/(Ticks*Fine) day, so it is an integer.                                *)

Unit == Ticks * Fine

Instants == [day : Int, time : 0 .. Unit - 1]

\* time.Time.Round(time.Millisecond): half a millisecond rounds up, into the
\* next day where need be.
RoundedTime(i) == ((i.time + Fine \div 2) \div Fine) * Fine

Rounded(i) == IF RoundedTime(i) = Unit THEN [day |-> i.day + 1, time |-> 0]
              ELSE [day |-> i.day, time |-> RoundedTime(i)]

InYears(i) == i.day \in MinDay .. MaxDay

\* The DATE of an instant: days before the epoch count their time of day
\* backwards from the negative day.
DateOf(i) == IF i.day < 0 THEN i.day * Unit - i.time ELSE i.day * Unit + i.time

dateAutomation(i) ==
  LET r == Rounded(i) IN
  IF InYears(r) THEN [ok |-> TRUE, wire |-> DateOf(r)] ELSE [ok |-> FALSE]

\* math.Modf: the whole days, toward zero, and the absolute fraction.
WholeDays(v) == IF v < 0 THEN -((-v) \div Unit) ELSE v \div Unit
Fraction(v) == IF v < 0 THEN (-v) % Unit ELSE v % Unit

automationDate(v) ==
  LET i == Rounded([day |-> WholeDays(v), time |-> Fraction(v)]) IN
  IF v > (MinDay - 1) * Unit /\ v < (MaxDay + 1) * Unit /\ InYears(i)
  THEN [ok |-> TRUE, value |-> i] ELSE [ok |-> FALSE]

-----------------------------------------------------------------------------
(* Arrays.  bounds is a sequence of [lower, count]; counts are unsigned.   *)

Dimensions == [lower : Int, count : 0 .. MaxCount]

UpperOverflows(b) == b.count > 0 /\ b.lower + b.count - 1 > MaxInt

\* Mutant: only the final product is compared with the limit.
arrayCountLate(bounds) ==
  LET after[j \in 0 .. Len(bounds)] ==
        IF j = 0 THEN 1
        ELSE IF after[j - 1] < 0 \/ UpperOverflows(bounds[j]) THEN -1
             ELSE (after[j - 1] * bounds[j].count) % Word
      c == after[Len(bounds)]
  IN IF Len(bounds) \in 1 .. MaxDims /\ c <= MaxElements THEN c ELSE -1

\* The elements counted before one more dimension, and with it: -1 for an error.
\* The product, one of unsigned words, is compared with the limit every time.
Multiplied(count, b) ==
  LET c == (count * b.count) % Word
  IN IF count < 0 \/ UpperOverflows(b) \/ c > MaxElements THEN -1 ELSE c

\* The elements of the first j dimensions.
CountAfter(bounds) ==
  LET after[j \in 0 .. Len(bounds)] ==
        IF j = 0 THEN 1 ELSE Multiplied(after[j - 1], bounds[j])
  IN after

arrayCount(bounds) ==
  IF Len(bounds) \in 1 .. MaxDims THEN CountAfter(bounds)[Len(bounds)] ELSE -1

\* A null SAFEARRAY has no bounds and no values.
NullArray == [bounds |-> <<>>, size |-> 0, null |-> TRUE]

Arrays == {NullArray} \cup [bounds : Seq(Dimensions), size : Nat, null : {FALSE}]

writeArray(a) ==
  [ok |-> a.null \/ (arrayCount(a.bounds) >= 0 /\ arrayCount(a.bounds) = a.size),
   wire |-> a]

\* The reader takes the bounds from the wire and compares them with the payload.
readArray(a) ==
  [ok |-> a.null \/ (arrayCount(a.bounds) >= 0 /\ arrayCount(a.bounds) = a.size),
   value |-> a]

-----------------------------------------------------------------------------
(* Nesting.  A value is the chain of its containers down to a scalar:      *)
(*   "plain", "typed"       a scalar, a scalar in a Variant                *)
(*   "array", "typedArray"  an Array of VARIANTs, the same in a Variant    *)
(*   "refScalar", "refArray", "ref"   a BYREF Variant of a scalar, an      *)
(*                                    Array of VARIANTs, a Variant         *)

Leaves == {"plain", "typed", "refScalar"}
Containers == {"array", "typedArray", "refArray", "ref"}

\* A BYREF VARIANT requires a Variant inside.
Chains(n) ==
  UNION {{c \in [1 .. k -> Leaves \cup Containers] :
            /\ c[k] \in Leaves
            /\ \A j \in 1 .. k - 1 : /\ c[j] \in Containers
                                     /\ c[j] = "ref" => c[j + 1] \notin {"plain", "array"}}
         : k \in 1 .. n}

\* The levels of writeVariantDepth, and of scalarValueDepth, that a container
\* takes before what it contains.
WriteLevels == [plain |-> 0, typed |-> 1, refScalar |-> 2, array |-> 1,
                typedArray |-> 2, refArray |-> 3, ref |-> 1]
ReadLevels == [plain |-> 0, typed |-> 0, refScalar |-> 1, array |-> 1,
               typedArray |-> 1, refArray |-> 2, ref |-> 1]

\* The levels taken by the first j elements of a chain.
DepthAfter(levels, c) ==
  LET after[j \in 0 .. Len(c)] == IF j = 0 THEN 0 ELSE after[j - 1] + levels[c[j]]
  IN after

Depth(levels, c) == DepthAfter(levels, c)[Len(c)]

\* Every element of the chain is one VARIANT on the wire (variantContext).
WireNesting(c) == Len(c) <= MaxNesting

\* On the wire a scalar or an array carries its type either way.
Untyped(x) == CASE x = "typed" -> "plain" [] x = "typedArray" -> "array" [] OTHER -> x
Typed(x) == CASE x = "plain" -> "typed" [] x = "array" -> "typedArray" [] OTHER -> x

writeVariantDepth(c) ==
  [ok |-> Depth(WriteLevels, c) <= MaxNesting /\ WireNesting(c),
   wire |-> [j \in DOMAIN c |-> Untyped(c[j])]]

\* The outermost value is bare, what it contains keeps an explicit type.
scalarValueDepth(w) ==
  [ok |-> WireNesting(w) /\ Depth(ReadLevels, w) <= MaxNesting,
   value |-> [j \in DOMAIN w |-> IF j = 1 THEN w[j] ELSE Typed(w[j])]]

-----------------------------------------------------------------------------
(* A value of any of the three kinds, as a caller writes it and reads it.  *)

writeVariant(x) ==
  CASE x.kind = "date"  -> dateAutomation(x.value)
    [] x.kind = "array" -> writeArray(x.value)
    [] x.kind = "chain" -> writeVariantDepth(x.value)

scalarValue(kind, wire) ==
  CASE kind = "date"  -> automationDate(wire)
    [] kind = "array" -> readArray(wire)
    [] kind = "chain" -> scalarValueDepth(wire)

\* What a caller can hand to the writer, and what a server can put on the wire.
ValueKinds == {"date", "array", "chain"}

Writable(kind) ==
  CASE kind = "date"  -> Instants
    [] kind = "array" -> Arrays
    [] kind = "chain" -> Seq(Leaves \cup Containers)

Readable(kind) ==
  CASE kind = "date"  -> Int
    [] kind = "array" -> Arrays
    [] kind = "chain" -> Seq({Untyped(x) : x \in Leaves \cup Containers})

\* What a written value means, independently of its encoding: the instant
\* rounded to a millisecond, the array whose bounds multiply to its number of
\* elements, the same nesting.
ProductAfter(bounds) ==
  LET after[j \in 0 .. Len(bounds)] ==
        IF j = 0 THEN 1 ELSE after[j - 1] * bounds[j].count
  IN after

Product(bounds) == ProductAfter(bounds)[Len(bounds)]

Meaning(x) ==
  CASE x.kind = "date"  -> Rounded(x.value)
    [] x.kind = "array" -> x.value
    [] x.kind = "chain" -> [j \in DOMAIN x.value |->
                             IF j = 1 THEN Untyped(x.value[j]) ELSE Typed(x.value[j])]

Sound(kind, v) ==
  CASE kind = "date"  -> InYears(v) /\ v.time % Fine = 0
    [] kind = "array" -> /\ ~v.null => Product(v.bounds) = v.size
                         /\ \A j \in DOMAIN v.bounds : ~UpperOverflows(v.bounds[j])
    [] kind = "chain" -> WireNesting(v)
=============================================================================
