---------------------------- MODULE MCModelStore ----------------------------
(* An instance of ModelStore for TLC. *)
EXTENDS ModelStore

TwoModels == << "lightgbm", "kmeans" >>

(* All that the repository ships, or neither all files nor the registry. *)
TwoCheckouts == {[lost |-> {}, registry |-> "whole"], [lost |-> {"kmeans_scaler.pkl"}, registry |-> "missing"]}

=============================================================================
