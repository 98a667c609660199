------------------------- MODULE HierarchyDetection -------------------------
(***************************************************************************)
(* Agent 2, node classify_and_build_hierarchy: the one chain of columns    *)
(* from coarse to fine (region, country, city) that charts are drilled     *)
(* down along.                                                             *)
(*                                                                         *)
(* A template names the concepts of a chain.  A concept takes the column   *)
(* that resembles it most, and an edge of the chain holds when every child *)
(* value has one parent value, within the thresholds.  How much a column's *)
(* key resembles a concept is a constant of the model: 1 for the same      *)
(* name, 2 when one contains the other, 3 by its semantic type, 4 by a     *)
(* word in common, 5 not at all.                                           *)
(***************************************************************************)
EXTENDS ColumnProfiles

CONSTANTS
    Templates,                          \* of the domain: key, priority, levels
    Likeness,                           \* Likeness[concept][column]
    Accepted, Warning, MinCoverage      \* percent; the code's 98, 90, 90

ASSUME ThresholdsAssumption ==
    {Accepted, Warning, MinCoverage} \subseteq 0..100 /\ Warning <= Accepted

ASSUME TemplatesAssumption ==
    /\ Templates \in Seq(Range(Templates))
    /\ \A template \in Range(Templates) :
          template.levels \in Seq(DOMAIN Likeness) /\ template.priority \in Int

ASSUME LikenessAssumption ==
    \A concept \in DOMAIN Likeness : Likeness[concept] \in [ToSet(Columns) -> 1..5]

----------------------------------------------------------------------------
(* TemplateMatcher.  Columns are looked up by key: of two that share one,  *)
(* the later takes the place of the earlier.                               *)

Available(profiles) ==
    LET grain   == Grain(profiles)
        free    == {i \in DOMAIN profiles : profiles[i].column \notin grain}
        same(i) == {j \in free : profiles[j].key = profiles[i].key}
    IN [i \in {j \in free : j = Min(same(j))} |-> profiles[Max(same(i))].column]

(* The column a concept takes, if any is like it: the most alike, and the  *)
(* first of those.                                                         *)
FindMatchingColumn(concept, available) ==
    LET like == {k \in DOMAIN available : Likeness[concept][available[k]] < 5}
        most == Min({Likeness[concept][available[k]] : k \in like})
    IN IF like = {} THEN << >>
       ELSE << available[Min({k \in like : Likeness[concept][available[k]] = most})] >>

(* A concept whose column is already taken goes without: no second choice. *)
MatchTemplate(template, available) ==
    LET column  == [i \in DOMAIN template.levels |-> FindMatchingColumn(template.levels[i], available)]
        matched == Ascending({i \in DOMAIN column : column[i] # << >> /\ \A j \in 1..(i - 1) : column[j] # column[i]})
    IN [priority |-> template.priority,
        concepts |-> Len(template.levels),
        columns  |-> [k \in DOMAIN matched |-> column[matched[k]][1]]]

(* By place in the configuration; SelectChain takes them in their order.   *)
MatchTemplates(profiles) ==
    LET available == Available(profiles)
    IN [i \in DOMAIN Templates |-> MatchTemplate(Templates[i], available)]

----------------------------------------------------------------------------
(* FunctionalDependencyValidator *)

EdgeStatus(distinct, mapped, violating) ==
    IF ~AtLeast(mapped, distinct, MinCoverage) THEN "rejected"
    ELSE IF AtLeast(distinct - violating, distinct, Accepted) THEN "accepted"
    ELSE IF AtLeast(distinct - violating, distinct, Warning) THEN "retained_with_warning"
    ELSE "rejected"

ParentsOf(t, parent, child, v) == {t[r][parent] : r \in {q \in DOMAIN t : t[q][child] = v}} \ {NULL}

ValidateEdge(t, parent, child) ==
    LET children  == {t[r][child] : r \in DOMAIN t} \ {NULL}
        mapped    == {v \in children : ParentsOf(t, parent, child, v) # {}}
        violating == {v \in children : Count(ParentsOf(t, parent, child, v)) > 1}
    IN [parent |-> parent, child |-> child,
        distinct |-> Count(children), mapped |-> Count(mapped), violating |-> Count(violating),
        status |-> IF children = {} THEN "rejected"
                   ELSE EdgeStatus(Count(children), Count(mapped), Count(violating))]

(* Confidence of an edge: consistency times coverage. *)
Confidence(e) == Share((e.distinct - e.violating) * e.mapped, e.distinct * e.distinct)

----------------------------------------------------------------------------
(* ChainSelector *)

Unresolved == [status |-> "unresolved", columns |-> << >>, edges |-> << >>]

(* Mutant: the run that is still open at the end of the scan is forgotten. *)
ClosedSegments(edges) ==
    LET ends(i) == {0, i} \cup {k \in DOMAIN edges : k < i /\ edges[k].status = "rejected"}
        closed  == {i \in DOMAIN edges : edges[i].status = "rejected"}
        runs    == {[start |-> Max(ends(i) \ {i}) + 1, length |-> i - 1 - Max(ends(i) \ {i})] : i \in closed}
        longest == {s \in runs : \A x \in runs : x.length <= s.length}
    IN IF runs = {} THEN [start |-> 1, length |-> -1] ELSE CHOOSE s \in longest : TRUE

(* The longest run of edges none of which is rejected, the first of them.  *)
LongestValidSegment(edges) ==
    LET valid    == {i \in DOMAIN edges : edges[i].status # "rejected"}
        segments == {s \in [start : 1..(Len(edges) + 1), length : 0..Len(edges)] :
                        s.start..(s.start + s.length - 1) \subseteq valid}
        longest  == {s \in segments : \A x \in segments : x.length <= s.length}
    IN CHOOSE s \in longest : \A x \in longest : s.start <= x.start

ValidateChain(t, columns) ==
    LET edges == [i \in 1..(Len(columns) - 1) |-> ValidateEdge(t, columns[i], columns[i + 1])]
        best  == LongestValidSegment(edges)
        kept  == SubSeq(edges, best.start, best.start + best.length - 1)
    IN IF best.length < 1 THEN Unresolved
       ELSE [status  |-> IF \E i \in DOMAIN kept : kept[i].status = "retained_with_warning"
                         THEN "partial" ELSE "accepted",
             columns |-> SubSeq(columns, best.start, best.start + best.length),
             edges   |-> kept]

(* Chains of one length have as many edges: their sums compare like their  *)
(* averages.                                                               *)
Sureness(chain) == SumFunction([i \in DOMAIN chain.edges |-> Confidence(chain.edges[i])])

Highest(S, key) == {k \in S : \A j \in S : key[j] <= key[k]}

(* The longest chain, the surest of those, and of those the first match: by *)
(* share of concepts matched, then by priority, then by place.             *)
SelectChain(t, matches) ==
    LET tried   == {[place |-> k, match |-> matches[k], chain |-> ValidateChain(t, matches[k].columns)] :
                        k \in DOMAIN matches}
        found   == {x \in tried : x.chain.status # "unresolved"}
        longest == Highest(found, [x \in found |-> Len(x.chain.columns)])
        surest  == Highest(longest, [x \in longest |-> Sureness(x.chain)])
        fullest == Highest(surest, [x \in surest |-> Share(Len(x.match.columns), x.match.concepts)])
        first   == Highest(fullest, [x \in fullest |-> x.match.priority])
    IN IF found = {} THEN Unresolved
       ELSE (CHOOSE x \in first : \A y \in first : x.place <= y.place).chain

(* HierarchyCandidateBuilder.build: one column is no chain. *)
BuildHierarchy(t, profiles) == SelectChain(t, MatchTemplates(profiles))

=============================================================================
