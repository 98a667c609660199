--------------------------- MODULE ColumnProfiles ---------------------------
(***************************************************************************)
(* Agent 2, node profile_data: what is counted of every column of the file *)
(* that was loaded, and which columns are its grain.                       *)
(*                                                                         *)
(* A table is a sequence of rows, a row a function from column names to    *)
(* cells.  Both loaders read every cell as text, so of a cell it matters   *)
(* what its text reads as: Traits gives the parsers and patterns it        *)
(* satisfies, Width its length, and cells are numbers so that the sorted   *)
(* order of groupby can be told.  Of a column's name it matters which      *)
(* hints it carries.  Ratios are compared exactly, as counts.              *)
(***************************************************************************)
EXTENDS Integers, Sequences, FiniteSets, Functions, SequencesExt, FiniteSetsExt

CONSTANTS
    NULL,           \* a missing value
    Columns,        \* the columns of the file, in order
    Traits, Width,  \* of a cell: what its text reads as, its length
    Hints,          \* of a column's key: "id", "percent", "phone"
    Normal, Suffixed,  \* the normalised name of a column; a key with a number put behind it
    MaxSamples      \* Settings.max_sample_values

Cells == DOMAIN Traits \cup {NULL}

ASSUME ColumnsAssumption == Columns \in Seq(ToSet(Columns))
ASSUME CellsAssumption == DOMAIN Traits \subseteq Int /\ NULL \notin DOMAIN Traits

Count(S) == Cardinality(S)

(* n out of d is at least, or more than, p percent. *)
AtLeast(n, d, p) == 100 * n >= p * d
MoreThan(n, d, p) == 100 * n > p * d

(* A set of numbers in their order. *)
Ascending(S) == [k \in 1..Count(S) |-> CHOOSE x \in S : Count({y \in S : y < x}) = k - 1]

(* Scores and confidences are whole numbers of 2520ths, exact for fractions *)
(* of up to ten.                                                           *)
Scale == 2520

Share(n, d) == IF d = 0 THEN Scale ELSE (Scale * n) \div d

----------------------------------------------------------------------------
(* DatasetProfiler: the normalised names, told apart by a number where two *)
(* columns have the same one.  Nothing says that the result is free.       *)

Keys ==
    LET seen(i) == {j \in 1..(i - 1) : Normal[Columns[j]] = Normal[Columns[i]]}
    IN [i \in DOMAIN Columns |->
          LET k == Normal[Columns[i]] IN IF seen(i) = {} THEN k ELSE Suffixed[k, Count(seen(i))]]

KeyOf(c) == Keys[CHOOSE i \in DOMAIN Columns : Columns[i] = c]

----------------------------------------------------------------------------
(* ColumnProfiler.profile_column *)

ProfileColumn(t, c) ==
    LET filled      == {r \in DOMAIN t : t[r][c] # NULL}
        values      == {t[r][c] : r \in filled}
        reads(x)    == {r \in filled : x \in Traits[t[r][c]]}
        numeric     == 2 * Count(reads("number")) > Count(filled)
        numbers(x)  == numeric /\ reads("number") \subseteq reads(x)
    IN [column |-> c, key |-> KeyOf(c),
        rows |-> Len(t), filled |-> Count(filled), nulls |-> Len(t) - Count(filled),
        distinct |-> Count(values), duplicates |-> Count(filled) - Count(values),
        samples |-> Min({MaxSamples, Count(filled)}),
        values |-> values,
        numbers |-> Count(reads("number")), dates |-> Count(reads("date")), truths |-> Count(reads("truth")),
        whole |-> numbers("whole"), unit |-> numbers("unit"), percent |-> numbers("percent"),
        width |-> SumFunction([r \in filled |-> Width[t[r][c]]]),
        patterns |-> {x \in UNION {Traits[v] : v \in values} : 2 * Count(reads(x)) > Count(filled)}]

ProfileAll(t) == [i \in DOMAIN Columns |-> ProfileColumn(t, Columns[i])]

(* The average text is longer than 40 characters. *)
LongText(p) == p.width > 40 * p.filled

----------------------------------------------------------------------------
(* TypeRefiner.refine: the first test a column passes names its type.  The *)
(* representative values are the distinct ones (the ten most frequent, and *)
(* no table here has more), and a pattern is dominant when more than half  *)
(* of the values match it.                                                 *)

Alike(p, x, share) ==
    AtLeast(Count({v \in p.values : x \in Traits[v]}), Max({1, Count(p.values)}), share)

TypeTests(p) ==
    << <<p.filled = 0, "unknown">>,
       <<AtLeast(p.truths, p.filled, 95) /\ p.distinct <= 3, "boolean">>,
       <<AtLeast(p.numbers, p.filled, 95) /\ p.distinct <= 2 /\ p.unit, "boolean">>,
       <<AtLeast(p.dates, p.filled, 90) /\ p.patterns \cap {"iso day", "slash day"} # {}, "date">>,
       <<AtLeast(p.dates, p.filled, 90), "datetime">>,
       <<"email" \in p.patterns \/ Alike(p, "email", 80), "email">>,
       <<"phone" \in p.patterns \/ Alike(p, "phone", 80), "phone">>,
       <<"phone" \in Hints[p.key] /\ AtLeast(p.numbers, p.filled, 90)
           /\ \A v \in p.values : Width[v] \in 7..15, "phone">>,
       <<p.distinct <= 50 /\ "three letters" \in p.patterns /\ Alike(p, "currency", 70), "currency_code">>,
       <<p.distinct <= 250 /\ "two letters" \in p.patterns /\ Alike(p, "country2", 70), "country_code">>,
       <<p.distinct <= 250 /\ "three letters" \in p.patterns /\ Alike(p, "country3", 70), "country_code">>,
       <<AtLeast(p.numbers, p.filled, 90) /\ p.percent /\ "percent" \in Hints[p.key], "percentage">>,
       <<AtLeast(p.numbers, p.filled, 90) /\ p.whole, "integer">>,
       <<AtLeast(p.numbers, p.filled, 90), "decimal">>,
       <<"uuid" \in p.patterns, "identifier">>,
       <<~LongText(p) /\ AtLeast(p.distinct, p.filled, 98) /\ p.filled > 10, "identifier">>,
       <<~MoreThan(p.distinct, p.filled, 5) /\ p.distinct <= 50, "categorical">>,
       <<p.distinct <= 20 /\ p.filled >= 50, "categorical">>,
       <<TRUE, "text">> >>

Refine(p) == LET tests == TypeTests(p) IN tests[Min({i \in DOMAIN tests : tests[i][1]})][2]

----------------------------------------------------------------------------
(* IdentifierDetector: a column that scores 60 points and repeats no value *)
(* is a part of the grain.  A column with no value at all repeats none,    *)
(* but its cardinality counts as 0.                                        *)

CONSTANT IdentifierCardinality   \* percent

Unique(p, share) == p.filled > 0 /\ AtLeast(p.distinct, p.filled, share)

Points(test, points) == IF test THEN points ELSE 0

IdentifierScore(p) ==
    LET named == "id" \in Hints[p.key]
        type  == Refine(p)
    IN Points(Unique(p, IdentifierCardinality), 50)
       + Points(~Unique(p, IdentifierCardinality) /\ Unique(p, 90), 25)
       + Points(~MoreThan(p.nulls, p.rows, 1), 10)
       - Points(MoreThan(p.nulls, p.rows, 10), 15)
       + Points(p.duplicates = 0 /\ p.filled > 1, 15)
       + Points("uuid" \in p.patterns, 20)
       + Points(type = "identifier", 10)
       + Points(named, 5)
       - Points(~Unique(p, 50) /\ p.filled > 10, 30)
       - Points(type = "decimal" /\ ~named, 40)
       - Points(LongText(p) /\ ~named, 40)

Identifies(p) == IdentifierScore(p) >= 60 /\ Unique(p, IdentifierCardinality)

Grain(profiles) == {profiles[i].column : i \in {j \in DOMAIN profiles : Identifies(profiles[j])}}

=============================================================================
