----------------------------- MODULE LokiQueries -----------------------------
(***************************************************************************)
(* The LogQL and PromQL filters that the back end writes for the matches   *)
(* of a query (pkg/loki/flow_query.go, pkg/model/filters/logql.go,         *)
(* filters.go, pkg/prometheus/query.go), and the flows that they select.   *)
(*                                                                         *)
(* A match on a label of Loki becomes a matcher of the stream selector,    *)
(* one on an IP address a filter on the parsed line, and any other one a   *)
(* regular expression on the raw line, unless it asks for "n/a".  A text   *)
(* is kept as the set of texts in which it is found; a number is a number, *)
(* so that ">=" is modelled digit by digit, as the expression is written.  *)
(***************************************************************************)
EXTENDS FiniteSets, Integers

CONSTANTS Labels, Ips, Arrays, Numerics, Strings, \* the fields of a flow, by type
          Packets, PktDropPackets, \* two numeric fields, which may not be asked for
          Suffixed,    \* Suffixed[k]: the fields whose name ends with k
          Texts,       \* what a field that is not numeric may hold
          Containing,  \* Containing[t]: the texts in which t is found
          Numbers,     \* what a numeric field may hold
          Absent,      \* a field that the line of a flow does not have
          MaxValues, MaxFilters

Keys == Labels \cup Ips \cup Arrays \cup Numerics \cup Strings
LossFields == {Packets, PktDropPackets}

(* A field has one type, which decides where its filters are written, and  *)
(* its name ends with itself.                                              *)
ASSUME FieldsAssumption ==
  /\ Labels \cap (Ips \cup Arrays \cup Numerics \cup Strings) = {}
  /\ Ips \cap (Arrays \cup Numerics \cup Strings) = {}
  /\ Arrays \cap (Numerics \cup Strings) = {}
  /\ Numerics \cap Strings = {}
  /\ \A k \in Keys : k \in Suffixed[k]
ASSUME AbsentAssumption == Absent \notin Texts /\ Absent \notin Numbers

(* Numbers have MaxDigits digits at most, and a field whose name ends like *)
(* that of a number holds a number.                                        *)
MaxDigits == 8
ASSUME NumbersAssumption ==
  /\ Numbers \subseteq 0..(10^MaxDigits - 1)
  /\ \A k \in Numerics : Suffixed[k] \subseteq Numerics \cup LossFields

(* "n/a" is asked with two quotes; a quoted text is exact, where texts are *)
(* matched.                                                                *)
NA == [text |-> Absent, exact |-> TRUE]
Asked(key) == {NA} \cup IF key \in Numerics THEN [text : Numbers, exact : {FALSE}]
                        ELSE [text : Texts, exact : {FALSE} \cup IF key \in Labels \cup Strings THEN {TRUE} ELSE {}]

Match == UNION {[key : {k}, values : {vs \in SUBSET Asked(k) : Cardinality(vs) \in 1..MaxValues},
                 regex : BOOLEAN, not : BOOLEAN, moreThan : BOOLEAN] : k \in Keys}

(* The page offers ">=" for numbers only, and neither with "n/a" nor       *)
(* negated; a match as an expression means the same as an equality to any  *)
(* field but labels and texts.                                             *)
Offered(m) ==
  /\ m.moreThan => m.key \in Numerics /\ NA \notin m.values /\ ~m.not
  /\ m.regex => m.key \in Labels \cup Strings

Losses == {"all", "dropped", "hasDrop", "sent"}

VARIABLES packetLoss,   \* the parameter of the builder
          asked,        \* matches added so far
          labelFilters, \* conjunction of matchers of the stream selector
          lineFilters,  \* conjunction of filters on the text of the line
          jsonFilters   \* conjunction of disjunctions of filters on parsed fields
queryVars == <<packetLoss, asked, labelFilters, lineFilters, jsonFilters>>

-----------------------------------------------------------------------------
(* ">=" as a regular expression on digits.                                 *)

Digits(n) == CHOOSE d \in 1..MaxDigits : n < 10^d /\ (d = 1 \/ n >= 10^(d - 1))

(* The alternatives of moreThanRegex: the last digit is greater, or the    *)
(* digit before the last i ones is, or there are more digits.  The number  *)
(* that follows in place i stands for itself alone when it is a multiple   *)
(* of nine, else for itself and the greater digits.                        *)
MoreThanRegex(n, x) ==
  \/ x \div 10 = n \div 10 /\ x % 10 >= n % 10
  \/ \E i \in 1..(Digits(n) - 1) :
       LET nextMin == n \div 10^i + 1
       IN  \E k \in IF i = 1 THEN {1} ELSE i..MaxDigits :
             /\ x \div 10^(k + 1) = nextMin \div 10
             /\ LET digit == (x \div 10^k) % 10
                IN  IF nextMin % 9 = 0 THEN digit = nextMin % 10 ELSE digit >= nextMin % 10
  \/ x >= 10^Digits(n)

-----------------------------------------------------------------------------
(* What the filters select.                                                *)

(* A label that a flow does not have is an empty text.                     *)
PatternHolds(p, value) ==
  CASE p.type = "exact"    -> value = p.text
    [] p.type = "contains" -> value # Absent /\ value \in Containing[p.text]
    [] p.type = "atLeast"  -> value # Absent /\ MoreThanRegex(p.text, value)
    [] p.type = "any"      -> value # Absent
    [] p.type = "positive" -> value # Absent /\ value > 0
    [] p.type = "ip"       -> value = p.text

(* A filter on an address does not hold of a line without that address,    *)
(* negated or not.                                                         *)
LabelFilterHolds(lf, flow) ==
  LET value == flow[lf.key]
      found == \E p \in lf.patterns : PatternHolds(p, value)
      isIP  == \E p \in lf.patterns : p.type = "ip"
  IN  IF isIP /\ value = Absent THEN FALSE ELSE found # lf.not

(* Without values, the text of the line has the key.                       *)
FieldsOf(f) == IF f.strictKey THEN {f.key} ELSE Suffixed[f.key]
FoundInLine(f, flow) ==
  \E key \in FieldsOf(f) : /\ flow[key] # Absent
                           /\ f.patterns = {} \/ \E p \in f.patterns : PatternHolds(p, flow[key])

LineFilterHolds(f, flow) ==
  IF ~f.not THEN FoundInLine(f, flow)
  ELSE ~FoundInLine(f, flow) /\ (f.patterns # {} => flow[f.key] # Absent)

Selects(labels, lines, jsons, flow) ==
  /\ \A lf \in labels : LabelFilterHolds(lf, flow)
  /\ \A f \in lines : LineFilterHolds(f, flow)
  /\ \A alternatives \in jsons : \E lf \in alternatives : LabelFilterHolds(lf, flow)

-----------------------------------------------------------------------------
(* From matches to filters.                                                *)

Pattern(type, text) == [type |-> type, text |-> text]

(* Mutant: a negated match with several values keeps the positive matcher. *)
ToLabelFilterPositive(m) ==
  [key |-> m.key, not |-> m.not /\ Cardinality(m.values) = 1,
   patterns |-> {Pattern(IF m.regex /\ ~a.exact THEN "contains" ELSE "exact", a.text) : a \in m.values}]

(* One value is compared, several are alternatives of one expression; both *)
(* are anchored.                                                           *)
ToLabelFilter(m) ==
  [key |-> m.key, not |-> m.not,
   patterns |-> {Pattern(IF m.regex /\ ~a.exact THEN "contains" ELSE "exact", a.text) : a \in m.values}]

LineFilter(m, type) ==
  [key |-> m.key, strictKey |-> FALSE, not |-> m.not,
   patterns |-> {Pattern(IF a.exact THEN "exact" ELSE type, a.text) : a \in m.values}]

NotContainsKey(key) == [key |-> key, strictKey |-> TRUE, not |-> TRUE, patterns |-> {}]
RegexMatch(key, type) == [key |-> key, strictKey |-> TRUE, not |-> FALSE, patterns |-> {Pattern(type, Absent)}]

(* An array is searched for a text, quoted or not; an empty text is found  *)
(* in any array.                                                           *)
ArrayLineFilter(m) ==
  IF m.values = {NA} THEN IF m.not THEN RegexMatch(m.key, "any") ELSE NotContainsKey(m.key)
  ELSE [LineFilter(m, "contains") EXCEPT
         !.patterns = {IF a = NA THEN Pattern("any", a.text) ELSE Pattern("contains", a.text) : a \in m.values}]

NumericLineFilter(m) == LineFilter(m, IF m.moreThan THEN "atLeast" ELSE "exact")
StringLineFilter(m) == LineFilter(m, IF m.regex THEN "contains" ELSE "exact")

AsLabelFilters(f) == {[key |-> f.key, not |-> f.not, patterns |-> {p}] : p \in f.patterns}

(* Mutant: a negated address is an alternative among others. *)
AddressFiltersJoined(m) ==
  {{[key |-> m.key, not |-> m.not,
     patterns |-> {IF a = NA THEN Pattern("exact", Absent) ELSE Pattern("ip", a.text)}] : a \in m.values}}

(* The addresses that are excluded are excluded one by one.                *)
AddressFilters(m) ==
  LET alternatives ==
        {[key |-> m.key, not |-> m.not,
          patterns |-> {IF a = NA THEN Pattern("exact", Absent) ELSE Pattern("ip", a.text)}] : a \in m.values}
  IN  IF m.not THEN {{lf} : lf \in alternatives} ELSE {alternatives}

LossFilters(loss) ==
  CASE loss = "all"     -> {}
    [] loss = "dropped" -> {NotContainsKey(Packets), RegexMatch(PktDropPackets, "positive")}
    [] loss = "hasDrop" -> {RegexMatch(PktDropPackets, "positive")}
    [] loss = "sent"    -> {NotContainsKey(PktDropPackets)}

(* The selector of a metric of Prometheus has every match as a label.      *)
PromSelects(matches, flow) == \A m \in matches : LabelFilterHolds(ToLabelFilter(m), flow)

-----------------------------------------------------------------------------
QueryInit ==
  /\ packetLoss \in Losses
  /\ asked = {}
  /\ labelFilters = {} /\ lineFilters = LossFilters(packetLoss) /\ jsonFilters = {}

Ask(m) ==
  /\ Cardinality(asked) < MaxFilters
  /\ Offered(m)
  /\ asked' = asked \cup {m}
  /\ UNCHANGED packetLoss

AddLabel(m) ==
  /\ m.key \in Labels
  /\ Ask(m)
  /\ labelFilters' = labelFilters \cup {ToLabelFilter(m)}
  /\ UNCHANGED <<lineFilters, jsonFilters>>

AddAddress(m) ==
  /\ m.key \in Ips
  /\ Ask(m)
  /\ jsonFilters' = jsonFilters \cup AddressFilters(m)
  /\ UNCHANGED <<labelFilters, lineFilters>>

(* A value that is asked to be empty cannot be found in the text.          *)
AddText(m) ==
  /\ m.key \in Numerics \cup Strings
  /\ Ask(m)
  /\ LET f == IF m.key \in Numerics THEN NumericLineFilter(m) ELSE StringLineFilter(m)
     IN  IF NA \in m.values
           THEN jsonFilters' = jsonFilters \cup {AsLabelFilters(f)} /\ UNCHANGED lineFilters
         ELSE lineFilters' = lineFilters \cup {f} /\ UNCHANGED jsonFilters
  /\ UNCHANGED labelFilters

AddArray(m) ==
  /\ m.key \in Arrays
  /\ Ask(m)
  /\ lineFilters' = lineFilters \cup {ArrayLineFilter(m)}
  /\ UNCHANGED <<labelFilters, jsonFilters>>

QueryNext == \E m \in Match : AddLabel(m) \/ AddAddress(m) \/ AddText(m) \/ AddArray(m)
QuerySpec == QueryInit /\ [][QueryNext]_queryVars

-----------------------------------------------------------------------------
(* What the matches mean.                                                  *)

Means(m, a, value) ==
  IF m.moreThan THEN value # Absent /\ value >= a.text
  ELSE IF a = NA THEN value = Absent
  ELSE IF m.key \in Arrays \/ (m.regex /\ ~a.exact /\ m.key \notin Numerics \cup Ips)
    THEN value # Absent /\ value \in Containing[a.text]
  ELSE value = a.text

(* A key is the end of a name, unless "n/a" is asked for; a negated match  *)
(* is about the flows that have the field, labels apart.                   *)
Meaning(m, flow) ==
  LET fields == IF m.key \in Labels \cup Ips \/ NA \in m.values THEN {m.key} ELSE Suffixed[m.key]
      found  == \E f \in fields, a \in m.values :
                  /\ f = m.key \/ flow[f] # Absent
                  /\ Means(m, a, flow[f])
  IN  IF m.not THEN ~found /\ (m.key \notin Labels => flow[m.key] # Absent) ELSE found

LossMeaning(loss, flow) ==
  /\ loss \in {"dropped", "hasDrop"} => flow[PktDropPackets] # Absent /\ flow[PktDropPackets] > 0
  /\ loss = "dropped" => flow[Packets] = Absent
  /\ loss = "sent" => flow[PktDropPackets] = Absent

(* The cases that the builder does not write as they are meant: "n/a" among *)
(* the other values of a negated text or number, whose alternatives always *)
(* hold, or of an array, in which an empty text is always found.           *)
NAIsMixed(m) == /\ NA \in m.values /\ m.values # {NA}
                /\ m.key \in Arrays \/ (m.not /\ m.key \in Numerics \cup Strings)

(* A number is covered when none of its prefixes is followed by a multiple *)
(* of nine that does not end in nine.                                      *)
Covered(n) == \A i \in 1..(Digits(n) - 1) :
                LET nextMin == n \div 10^i + 1 IN nextMin % 9 = 0 => nextMin % 10 = 9

Plain(m) == ~NAIsMixed(m) /\ (m.moreThan => \A a \in m.values : Covered(a.text))

(* The flows that differ in the fields that are asked for.                 *)
Touched == (IF packetLoss = "all" THEN {} ELSE LossFields) \cup UNION {Suffixed[m.key] : m \in asked}
Flows == LET numeric == Touched \cap (Numerics \cup LossFields)
         IN  {[f \in Touched |-> IF f \in numeric THEN n[f] ELSE t[f]] :
                n \in [numeric -> Numbers \cup {Absent}], t \in [Touched \ numeric -> Texts \cup {Absent}]}

Passes(flow) == Selects(labelFilters, lineFilters, jsonFilters, flow)
Meant(flow) == LossMeaning(packetLoss, flow) /\ \A m \in asked : Meaning(m, flow)

(* No flow is shown that was not asked for, whatever was combined: each    *)
(* alternative of an expression, each place where a filter is written, the *)
(* strictness of a key and the fields that are absent.                     *)
SelectedAreMeant ==
  (\A m \in asked : ~NAIsMixed(m)) => \A flow \in Flows : Passes(flow) => Meant(flow)

(* And none that was asked for is missing, unless a number is asked for    *)
(* whose expression has a gap.                                             *)
MeantAreSelected ==
  (\A m \in asked : Plain(m)) => \A flow \in Flows : Meant(flow) => Passes(flow)

(* Exactly the flows that the matches mean, as far as said above.          *)
SelectedAsMeant == SelectedAreMeant /\ MeantAreSelected

(* A query that Prometheus refuses is repeated with Loki (handler/         *)
(* topology.go, resources.go), where the same match may be a filter on the *)
(* line: of the flows that have the field, and no other whose name ends    *)
(* like it, the same are counted.                                          *)
InBoth(m, flow) == flow[m.key] # Absent /\ \A f \in Suffixed[m.key] \ {m.key} : flow[f] = Absent
BackendsAgree ==
  (packetLoss = "all" /\ \A m \in asked : m.key \in Labels \cup Strings /\ Plain(m)) =>
    \A flow \in Flows : (\A m \in asked : InBoth(m, flow)) =>
      (Passes(flow) <=> PromSelects(asked, flow))

(* logql.go:329 "match each number greater than specified value using      *)
(* regex": a flow with a number at least as large as the one asked for is  *)
(* selected, whatever the number.                                          *)
AtLeastIsComplete ==
  \A m \in asked : m.moreThan => \A flow \in Flows : Meant(flow) => Passes(flow)
=============================================================================
