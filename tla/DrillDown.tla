------------------------------ MODULE DrillDown ------------------------------
(***************************************************************************)
(* Agent 2, node generate_charts: the cubes of sums that a chart is        *)
(* drilled down into along the hierarchy, and the service that looks a     *)
(* selected path up in cubes.                                              *)
(*                                                                         *)
(* A cube holds, for the rows under one path of values, the count and sum  *)
(* of the first metric column per value of the next level.  Groups with    *)
(* fewer than MinGroup numbers in them are left out, so are all labels but *)
(* the first MaxLabels, and all paths of a level but the first MaxPaths.   *)
(*                                                                         *)
(* The cubes stay in the result of the run's thread and are not stored.    *)
(* The only route to the service, profile_runs.py drill_down, changes no   *)
(* state and hands the service no cubes: over HTTP a path is either turned *)
(* away or answered with no data, ExecuteDrillDown({}, levels, selected).  *)
(***************************************************************************)
EXTENDS HierarchyDetection

CONSTANTS
    Roles,      \* the role each column was given (semantic_candidate_generator)
    Amount,     \* the number a cell reads as
    MinGroup,   \* Settings.min_cube_group_size
    MaxLabels, MaxPaths     \* the code's 100 and 50

ASSUME LimitsAssumption == {MinGroup, MaxLabels, MaxPaths} \subseteq Nat \ {0}

Metrics == SelectSeq(Columns, LAMBDA c : Roles[c] = "metric")

IsNumber(v) == v # NULL /\ "number" \in Traits[v]

(* Mutant: one matching level of the path is enough. *)
RowsUnderAny(t, path) == {r \in DOMAIN t : \E c \in DOMAIN path : t[r][c] # NULL /\ t[r][c] = path[c]}

(* A cell without a value equals nothing, itself included. *)
RowsUnder(t, path) == {r \in DOMAIN t : \A c \in DOMAIN path : t[r][c] # NULL /\ t[r][c] = path[c]}

Numbers(t, metric, rows) == {r \in rows : IsNumber(t[r][metric])}

(* The groups of these rows by a column, the smallest labels first. *)
Groups(t, rows, level, metric) ==
    LET labels == {t[r][level] : r \in rows} \ {NULL}
        group(v) == Numbers(t, metric, {r \in rows : t[r][level] = v})
        shown  == Ascending({v \in labels : Count(group(v)) >= MinGroup})
    IN [k \in 1..Min({MaxLabels, Len(shown)}) |->
          [label |-> shown[k], count |-> Count(group(shown[k])),
           value |-> SumFunction([r \in group(shown[k]) |-> Amount[t[r][metric]]])]]

(* The first combinations of values the rows have in these columns. *)
Paths(t, above) ==
    LET at(r) == [c \in above |-> t[r][c]]
    IN {at(r) : r \in {x \in DOMAIN t : Count({at(q) : q \in 1..(x - 1)}) < MaxPaths}}

CubesAt(t, levels, depth, metric) ==
    LET above == {levels[i] : i \in 1..depth}
        under(path) == IF depth = 0 THEN DOMAIN t ELSE RowsUnder(t, path)
        cube(path) == [level |-> levels[depth + 1], path |-> path,
                       data |-> Groups(t, under(path), levels[depth + 1], metric)]
    IN {c \in {cube(p) : p \in {q \in Paths(t, above) : depth = 0 \/ Count(under(q)) >= MinGroup}} :
            c.data # << >>}

GenerateCubes(t, levels) ==
    IF Len(levels) < 2 \/ Metrics = << >> THEN {}
    ELSE UNION {CubesAt(t, levels, depth, Metrics[1]) : depth \in 0..(Len(levels) - 1)}

----------------------------------------------------------------------------
(* DrillDownService.execute_drill_down.  The columns of the selected path  *)
(* must be levels; that they are the first ones is not asked.              *)

Matches(cube, selected) ==
    \A c \in DOMAIN selected : c \in DOMAIN cube.path /\ cube.path[c] = selected[c]

(* The groups of all matching cubes, one after the other. *)
DataOf(cubes) == FoldSet(LAMBDA c, all : c.data \o all, << >>, cubes)

ExecuteDrillDown(cubes, levels, selected) ==
    LET depth == Count(DOMAIN selected)
    IN IF ~(DOMAIN selected \subseteq ToSet(levels)) THEN [error |-> "INVALID_DRILL_DOWN_PATH"]
       ELSE IF depth >= Len(levels) THEN [error |-> "DRILL_DOWN_LEAF_REACHED"]
       ELSE [error |-> "none",
             level |-> levels[depth + 1],
             data  |-> DataOf({c \in cubes : c.level = levels[depth + 1] /\ Matches(c, selected)})]

=============================================================================
