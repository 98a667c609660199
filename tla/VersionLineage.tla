---------------------------- MODULE VersionLineage ----------------------------
(***************************************************************************)
(* What the Dataset Registry promises about versions: for each file name a *)
(* history of numbered contents that grows at its end and shrinks at its   *)
(* end.  Nothing is renumbered, and no version in the middle disappears.   *)
(***************************************************************************)
EXTENDS Naturals

CONSTANTS Fingerprints, Names

VARIABLE history  \* for each name, the pairs <<version, fingerprint>> it holds

Init == history = [n \in Names |-> {}]

\* The versions of n that no other version of n exceeds.
Latest(n) == {p \in history[n] : \A q \in history[n] : q[1] <= p[1]}

Held(f) == \E n \in Names : \E p \in history[n] : p[2] = f

AddVersion(n, f) ==
  /\ ~Held(f)
  /\ \/ /\ history[n] = {}
        /\ history' = [history EXCEPT ![n] = {<<1, f>>}]
     \/ \E p \in Latest(n) :
          history' = [history EXCEPT ![n] = @ \cup {<<p[1] + 1, f>>}]

RemoveLatest(n) ==
  \E p \in Latest(n) : history' = [history EXCEPT ![n] = @ \ {p}]

Next ==
  \E n \in Names :
    /\ history'[n] # history[n]
    /\ RemoveLatest(n) \/ \E f \in Fingerprints : AddVersion(n, f)

Spec == Init /\ [][Next]_history

=============================================================================
