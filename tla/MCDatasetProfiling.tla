------------------------- MODULE MCDatasetProfiling -------------------------
(***************************************************************************)
(* Tables of up to three rows with the columns of two geographic           *)
(* templates.  The files of FilesByRows differ in their rows and come      *)
(* without metadata; those of FilesByInputs are few tables with every      *)
(* combination of metadata, rule results and confidences, asked about.     *)
(***************************************************************************)
EXTENDS DatasetProfiling

CONSTANT MaxRows

MCColumns == <<"policy_id", "region", "country", "city", "City", "amount">>

MCNormal == [c \in ToSet(MCColumns) |-> IF c = "City" THEN "city" ELSE c]
MCSuffixed == [x \in {<<"city", 1>>} |-> "city_1"]
MCHints == [k \in {"policy_id", "region", "country", "city", "city_1", "amount"} |->
               IF k = "policy_id" THEN {"id"} ELSE {}]

(* 1..3 are names; 11 and 12 read as numbers; 21.. are policy numbers. *)
MCTraits == [v \in (1..3) \cup (11..12) \cup (21..23) |-> IF v > 10 THEN {"number", "whole"} ELSE {}]
MCWidth == [v \in DOMAIN MCTraits |-> 5]
MCAmount == [v \in 11..12 |-> v - 10]

MCRoles == [c \in ToSet(MCColumns) |->
               CASE c = "policy_id" -> "identifier" [] c = "amount" -> "metric" [] OTHER -> "dimension"]

MCTemplates ==
    << [key |-> "geographic", priority |-> 100, levels |-> <<"region", "country", "city", "branch">>],
       [key |-> "reversed", priority |-> 80, levels |-> <<"city", "country", "region", "team">>],
       [key |-> "short", priority |-> 90, levels |-> <<"region", "branch">>] >>

MCLikeness ==
    [concept \in {"region", "country", "city", "branch", "team"} |->
        [c \in ToSet(MCColumns) |->
            CASE concept = c -> 1
              [] concept = "city" /\ c = "City" -> 2
              [] concept = "branch" /\ c = "City" -> 3
              [] OTHER -> 5]]

MCRowTiers == <<3, 2, 1>>

----------------------------------------------------------------------------

Row(id, region, country, city, amount) ==
    [policy_id |-> id, region |-> region, country |-> country, city |-> city, City |-> city, amount |-> amount]

RowKinds == ({NULL} \cup 1..3) \X ({NULL} \cup 1..2) \X ({NULL} \cup 1..2) \X {NULL, 11}

(* Rows in an order of their own: the computation asks for none. *)
Code(v) == IF v = NULL THEN 0 ELSE v
Order(k) == 1000 * Code(k[1]) + 300 * Code(k[2]) + 20 * Code(k[3]) + Code(k[4])

Sorted(s) == \A i \in 1..(Len(s) - 1) : Order(s[i]) <= Order(s[i + 1])

TableOf(kinds) == [i \in DOMAIN kinds |-> Row(20 + i, kinds[i][1], kinds[i][2], kinds[i][3], kinds[i][4])]

Kinds == UNION {{s \in [1..n -> RowKinds] : Sorted(s)} : n \in 1..MaxRows}

FilesByRows ==
    {[table |-> TableOf(k), metadata |-> {}, results |-> {},
      confidences |-> [c \in {"classification"} |-> Scale], asked |-> FALSE] : k \in Kinds}

Flags(c, flags) == [column |-> c, flags |-> flags]

MetadataSets ==
    { {}, {Flags("city", {"mandatory", "described"}), Flags("ghost", {"mandatory", "described"})},
      {Flags("country", {"expected_unique"}), Flags("amount", {"mandatory"})},
      {Flags(c, {"described"}) : c \in ToSet(MCColumns)} }

Result(type, checked, passed, error) == [type |-> type, checked |-> checked, passed |-> passed, error |-> error]

ResultSets ==
    { {}, {Result("regex_match", 0, 0, FALSE)}, {Result("numeric_range", 2, 0, FALSE)},
      {Result("column_comparison", 2, 1, FALSE), Result("allowed_values", 3, 0, TRUE)} }

ConfidenceSets == { [c \in {"classification"} |-> Scale], [c \in {"schema", "classification"} |-> 0] }

FewTables ==
    { TableOf(<< <<1, 1, 1, 11>> >>), TableOf(<< <<1, 1, 1, 11>>, <<1, 1, NULL, NULL>>, <<1, 2, 2, 12>> >>),
      << Row(21, 1, NULL, 1, NULL), Row(21, 2, NULL, 1, NULL), Row(NULL, NULL, NULL, NULL, 11) >> }

FilesByInputs ==
    {[table |-> t, metadata |-> m, results |-> r, confidences |-> c, asked |-> TRUE] :
        t \in FewTables, m \in MetadataSets, r \in ResultSets, c \in ConfidenceSets}

MCFiles == FilesByRows \cup FilesByInputs

Feature(c, u) == [column |-> c, usefulness |-> u]

MCAnswers ==
    { [given |-> TRUE, features |-> {Feature("policy_id", "high"), Feature("city", "medium")}, target |-> TRUE,
       reasoned |-> TRUE, approach |-> "ml", confidence |-> 90],
      [given |-> TRUE, features |-> {}, target |-> FALSE, reasoned |-> TRUE, approach |-> "llm", confidence |-> 50] }

=============================================================================
