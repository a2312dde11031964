----------------------------- MODULE MCTaskQueue -----------------------------
(* Instances of TaskQueue for TLC.  a and a2 are two URLs with one key (they
   differ in the fragment, or in the order of the query's parameters).     *)
EXTENDS TaskQueue, TLC

CONSTANTS a, a2, b, c, ka, kb, kc

MCTasks == {a, a2, b, c}
MCKeys == {ka, kb, kc}
MCKeyOf == a :> ka @@ a2 :> ka @@ b :> kb @@ c :> kc

\* One URL on the command line; and two whose keys are equal, with another.
OneInitial == <<a>>
DuplicateInitial == <<a, b, a2>>
=============================================================================
