----------------------------- MODULE RuleReview -----------------------------
(***************************************************************************)
(* Agent 2's rule suggestions: a run proposes rules, reviewers approve or  *)
(* reject them, and the rules approved so far are evaluated by later runs  *)
(* of the same primary domain.                                             *)
(*                                                                         *)
(* Approve and reject are plain `def' endpoints: each call has a thread of *)
(* the server's pool and a database session of its own, reads the          *)
(* suggestion in one statement and commits its decision in another, so     *)
(* that two reviews of one suggestion may overlap; what it answers after   *)
(* the commit is a step of its own.  A profiling run reads the active      *)
(* rules when it starts and stores what it found when it ends.             *)
(***************************************************************************)
EXTENDS FiniteSets

CONSTANTS
  Suggestions,  \* rows of rule_suggestions, once stored
  Reviews,      \* calls of approve or reject; an approval's rule is named by its call
  Runs,         \* profiling runs
  Domains,      \* primary domains
  Keys,         \* rule_key values the LLM may choose
  None          \* absence: of a key, a suggestion, a rule

ASSUME NoneIsNew == None \notin Suggestions \cup Reviews \cup Keys \cup Domains

VARIABLES
  suggestion,   \* table rule_suggestions; key None: the LLM left it out;
                \* loadable FALSE: its type is no RuleType
  definitions,  \* table rule_definitions: the rows, named by the approving call
  review,       \* local state of each review; `met': the reviews that were
                \* deciding when this one read; `decided': it has committed
  run,          \* local state of each profiling run: list_active_definitions
                \* and rule_definition_ids_by_key
  evaluations   \* rule_evaluations: [run, of, cites]; `of' is the rule evaluated

reviewVars == <<suggestion, definitions, review, run, evaluations>>

ReviewInit ==
  /\ suggestion = [s \in Suggestions |->
       [status |-> "absent", domain |-> None, key |-> None, loadable |-> FALSE]]
  /\ definitions = {}
  /\ review = [v \in Reviews |->
       [pc |-> "idle", of |-> None, verb |-> "none", met |-> {}, decided |-> FALSE,
        answer |-> "none"]]
  /\ run = [r \in Runs |->
       [pc |-> "idle", domain |-> None, active |-> {}, byKey |-> [k \in Keys |-> None]]]
  /\ evaluations = {}

\* The suggestion a rule was made of: its key, type and domain were copied from it.
Origin(d) == suggestion[review[d].of]

-----------------------------------------------------------------------------
(* Profiling runs.                                                         *)

ActiveDefinitions(domain) == {d \in definitions : Origin(d).domain = domain}

\* A dict comprehension over rows that come in no order: of the rules that
\* share a key any may be the one that stays.
ById(defs, byKey) ==
  \A k \in Keys :
    LET same == {d \in defs : Origin(d).key = k}
    IN byKey[k] \in (IF same = {} THEN {None} ELSE same)

StartRun(r) ==
  /\ run[r].pc = "idle"
  /\ \E domain \in Domains, byKey \in [Keys -> Reviews \cup {None}] :
       /\ ById(ActiveDefinitions(domain), byKey)
       /\ run' = [run EXCEPT ![r] = [pc |-> "profiling", domain |-> domain,
                                     active |-> ActiveDefinitions(domain), byKey |-> byKey]]
  /\ UNCHANGED <<suggestion, definitions, review, evaluations>>

Fresh == {s \in Suggestions : suggestion[s].status = "absent"}

\* Mutant: the ids are looked up again when the evaluations are stored.
Cites_Late(r, d) ==
  LET key == Origin(d).key
      same == {e \in ActiveDefinitions(run[r].domain) : Origin(e).key = key}
  IN IF key = None THEN None ELSE CHOOSE e \in same : e # d \/ same = {d}

\* def_ids.get(e["rule_key"]): a rule without a key was loaded under another name.
Cites(r, d) == IF Origin(d).key = None THEN None ELSE run[r].byKey[Origin(d).key]

\* The results are committed: the new suggestions, and an evaluation of every
\* rule the loader knows the type of.
FinishRun(r) ==
  /\ run[r].pc = "profiling"
  /\ run' = [run EXCEPT ![r].pc = "stored"]
  /\ \E new \in SUBSET Fresh :
       \E key \in [new -> Keys \cup {None}], loadable \in [new -> BOOLEAN] :
         suggestion' = [s \in Suggestions |->
           IF s \in new
           THEN [status |-> "proposed", domain |-> run[r].domain,
                 key |-> key[s], loadable |-> loadable[s]]
           ELSE suggestion[s]]
  /\ evaluations' = evaluations \cup
       {[run |-> r, of |-> d, cites |-> Cites(r, d)] :
          d \in {e \in run[r].active : Origin(e).loadable}}
  /\ UNCHANGED <<definitions, review>>

\* The run fails, or outlives its request: nothing of it is stored.
DropRun(r) ==
  /\ run[r].pc = "profiling"
  /\ run' = [run EXCEPT ![r].pc = "dropped"]
  /\ UNCHANGED <<suggestion, definitions, review, evaluations>>

-----------------------------------------------------------------------------
(* Reviews.                                                                *)

\* Mutant: a rejected suggestion may still be approved.
InvalidTransition_Lenient(status, verb) == status # "proposed" /\ status # "rejected"

InvalidTransition(status, verb) == status # "proposed"

\* The suggestion is read and its status checked.
OpenReview(v) ==
  /\ review[v].pc = "idle"
  /\ \E s \in Suggestions \ Fresh, verb \in {"approve", "reject"} :
       LET invalid == InvalidTransition(suggestion[s].status, verb) IN
       review' = [review EXCEPT ![v] =
         [pc |-> IF invalid THEN "done" ELSE "deciding", of |-> s, verb |-> verb,
          met |-> {w \in Reviews : review[w].pc = "deciding" /\ review[w].of = s},
          decided |-> FALSE, answer |-> IF invalid THEN "conflict" ELSE "none"]]
  /\ UNCHANGED <<suggestion, definitions, run, evaluations>>

Deciding(v, verb) == review[v].pc = "deciding" /\ review[v].verb = verb

EndReview(v, answer) ==
  review' = [review EXCEPT ![v].pc = "done", ![v].answer = answer]

\* The decision is committed, whatever was committed since the suggestion was read.
Commit(v, status) ==
  /\ suggestion' = [suggestion EXCEPT ![review[v].of].status = status]
  /\ review' = [review EXCEPT ![v].pc = "committed", ![v].decided = TRUE]
  /\ UNCHANGED <<run, evaluations>>

\* Status and rule are written in one transaction.
Approve(v) ==
  /\ Deciding(v, "approve")
  /\ Commit(v, "approved")
  /\ definitions' = definitions \cup {v}

Reject(v) ==
  /\ Deciding(v, "reject")
  /\ Commit(v, "rejected")
  /\ UNCHANGED definitions

\* The answer: "ok", or none that tells the caller so: an approval reads the id
\* of its rule back from the database after the commit, which may raise, and the
\* process may die before either review has answered.
AnswerReview(v) ==
  /\ review[v].pc = "committed"
  /\ \E answer \in {"ok", "error"} : EndReview(v, answer)
  /\ UNCHANGED <<suggestion, definitions, run, evaluations>>

\* Mutant: the status is committed on its own, before the rule is inserted.
ReviewFails_HalfDone(v) ==
  /\ review[v].pc = "deciding"
  /\ suggestion' = [suggestion EXCEPT ![review[v].of].status =
       IF review[v].verb = "approve" THEN "approved" ELSE "rejected"]
  /\ EndReview(v, "error")
  /\ UNCHANGED <<definitions, run, evaluations>>

\* It raises before its commit or in it: the transaction is rolled back.
ReviewFails(v) ==
  /\ review[v].pc = "deciding"
  /\ EndReview(v, "error")
  /\ UNCHANGED <<suggestion, definitions, run, evaluations>>

ReviewNext ==
  \/ \E r \in Runs : StartRun(r) \/ FinishRun(r) \/ DropRun(r)
  \/ \E v \in Reviews :
       OpenReview(v) \/ Approve(v) \/ Reject(v) \/ AnswerReview(v) \/ ReviewFails(v)

ReviewSpec == ReviewInit /\ [][ReviewNext]_reviewVars

-----------------------------------------------------------------------------
(* Properties.                                                             *)

\* A suggestion shown as approved has an active rule, and every rule is that of
\* an approval whose suggestion is never offered for review again, however reviews
\* overlap, and wherever they fail.  A caller told of an approval has its rule,
\* one told of a conflict made none; an error tells neither.
ApprovedIsMaterialized ==
  /\ \A s \in Suggestions :
       suggestion[s].status = "approved" => \E d \in definitions : review[d].of = s
  /\ \A d \in definitions :
       /\ review[d].verb = "approve"
       /\ review[d].answer # "conflict"
       /\ Origin(d).status # "proposed"
  /\ \A v \in Reviews :
       review[v].verb = "approve" /\ review[v].answer = "ok" => v \in definitions

\* The rule an evaluation refers to is one the run had loaded, though rules of
\* the same key may have been approved while it ran.
CitesLoadedRule ==
  \A e \in evaluations : e.cites \in run[e.run].active \cup {None}

\* Two reviews of one suggestion both decide it only if one had read it before
\* the other was done: the status check suffices for reviews that do not overlap,
\* also when one follows another that had committed but answered an error.
OnlyOverlapDecidesTwice ==
  \A v, w \in Reviews :
    /\ v # w /\ review[v].of = review[w].of
    /\ review[v].decided /\ review[w].decided
    => v \in review[w].met \/ w \in review[v].met

=============================================================================
