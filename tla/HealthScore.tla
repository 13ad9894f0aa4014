---------------------------- MODULE HealthScore ----------------------------
(***************************************************************************)
(* The score of a resource on the network health page, from 0 to 10, and   *)
(* the points that each of its rules loses (health-helper.ts,              *)
(* rule-details.tsx).                                                      *)
(*                                                                         *)
(* An item is an alert, or a value of a recording rule: its severity,      *)
(* state, value and threshold.  Values go up to Upper; scores are counted  *)
(* in fractions 1/Unit, weights in fortieths, impacts in tenths, so that   *)
(* all arithmetic is of integers.                                          *)
(***************************************************************************)
EXTENDS FiniteSets, Functions, Integers

CONSTANTS Upper, \* the upper bound of the values
          Unit   \* a multiple of all differences of Upper and a threshold

ASSUME UnitAssumption == Upper \in Nat \ {0} /\ Unit \in Nat \ {0} /\ \A d \in 1..Upper : Unit % d = 0

Severities == {"critical", "warning", "info"}
ActiveStates == {"firing", "pending", "silenced", "recording"}

SeverityRange(severity) ==
  CASE severity = "critical" -> [min |-> 0, max |-> 6]
    [] severity = "warning" -> [min |-> 4, max |-> 8]
    [] OTHER -> [min |-> 6, max |-> 10]

SeverityWeight(severity) == CASE severity = "critical" -> 4 [] severity = "warning" -> 2 [] OTHER -> 1
StateWeight(state) == CASE state = "pending" -> 3 [] state = "silenced" -> 1 [] state = "inactive" -> 0 [] OTHER -> 10
Weight(item) == SeverityWeight(item.severity) * StateWeight(item.state)

(* The excess ratio of an item whose threshold is the upper bound is 0/0.  *)
HasRatio(item) == item.threshold # Upper

RawScore(item) ==
  LET range == SeverityRange(item.severity)
      value == IF item.value < item.threshold THEN item.threshold ELSE IF item.value > Upper THEN Upper ELSE item.value
  IN range.min * Unit + ((range.max - range.min) * Unit * (Upper - value)) \div (Upper - item.threshold)

Active(items) == {i \in items : i.state \in ActiveStates}
TotalWeight(items) == SumFunction([i \in items |-> Weight(i)])
Perfect == [num |-> 10, den |-> 1]
NaN == [num |-> 0, den |-> 0]
Average(items) ==
  IF TotalWeight(items) = 0 THEN Perfect
  ELSE [num |-> SumFunction([i \in items |-> RawScore(i) * Weight(i)]), den |-> Unit * TotalWeight(items)]

Score(items) == Average({i \in Active(items) : HasRatio(i)})

-----------------------------------------------------------------------------
(* The impacts of the rows, all of items or those of a severity: points    *)
(* lost, in fractions of a tenth, then rounded to tenths.                  *)

Rows(items, severity) == {i \in Active(items) : severity \in {"all", i.severity}}
Tenth(items) == Unit * TotalWeight(Active(items))
PointsLost(items, item) == 10 * (10 * Unit - RawScore(item)) * Weight(item)
Round(num, den) == (2 * num + den) \div (2 * den)

(* What a tenth is not enough for, of each row, and what is left to hand   *)
(* out when each row has its whole tenths.                                 *)
Points(items, severity) == [i \in Rows(items, severity) |-> PointsLost(items, i)]
Floored(items, severity) == [i \in Rows(items, severity) |-> PointsLost(items, i) \div Tenth(items)]
Target(items, severity) == Round(SumFunction(Points(items, severity)), Tenth(items))
Remainder(items, severity) == Target(items, severity) - SumFunction(Floored(items, severity))

(* The rows that get a tenth more: those with the largest fractions.       *)
Largest(items, severity) ==
  LET rows == Rows(items, severity)
      fraction == [i \in rows |-> PointsLost(items, i) % Tenth(items)]
  IN CHOOSE most \in SUBSET rows :
       /\ Cardinality(most) = Remainder(items, severity)
       /\ \A i \in most, j \in rows \ most : fraction[i] >= fraction[j]

(* Mutant: each impact is rounded on its own. *)
RoundedAlone(items, severity) == [i \in Rows(items, severity) |-> Round(PointsLost(items, i), Tenth(items))]
Impacts(items, severity) ==
  LET most == Largest(items, severity)
      floored == Floored(items, severity)
  IN [i \in DOMAIN floored |-> floored[i] + (IF i \in most THEN 1 ELSE 0)]
=============================================================================
