---------------------------- MODULE MCObjectCalls ----------------------------
\* Values at every boundary of the conversions, for the model checker.
EXTENDS ObjectCalls

CONSTANTS i1, i2, i3, p1, p2

\* A configuration file has no negative numbers.
FirstDay == -2

AllKinds == {"read", "write", "browse", "properties"}

\* Every time of day on the first and last days, around the epoch, and just
\* outside the years.
Days == {MinDay - 1, MinDay, -1, 0, MaxDay, MaxDay + 1}

DateInputs == [kind : {"date"}, value : [day : Days, time : 0 .. Unit - 1]]

Bounds == [lower : {-8, MaxInt - 1}, count : {0, 1, 2, 8}]

ArrayValues ==
  {NullArray} \cup
  [bounds : UNION {[1 .. n -> Bounds] : n \in 0 .. 2}, size : {0, 2, 4}, null : {FALSE}]

ArrayInputs == [kind : {"array"}, value : ArrayValues]

ChainInputs == [kind : {"chain"}, value : Chains(MaxNesting)]

AllInputs == DateInputs \cup ArrayInputs \cup ChainInputs

\* The item may hold what no client of this program wrote.
AllStored ==
  [kind : {"date"}, wire : ((MinDay - 1) * Unit - 1) .. ((MaxDay + 1) * Unit + 1)]
  \cup [kind : {"array"}, wire : ArrayValues]
  \cup [kind : {"chain"},
        wire : {c \in Chains(MaxNesting + 1) : \A j \in DOMAIN c : c[j] \notin {"typed", "typedArray"}}]

AllItems == {i1, i2, i3}
AllProperties == {p1, p2}
=============================================================================
