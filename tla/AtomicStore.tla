----------------------------- MODULE AtomicStore -----------------------------
(***************************************************************************)
(* What package repository promises its users: a map from keys to whole    *)
(* documents.  A document appears, or replaces an older one of its key, in *)
(* one step; a stored document is never removed and never half there; each *)
(* DocumentWriter stores at most one document.                             *)
(***************************************************************************)
CONSTANTS Keys, Writers, KeyOfWriter, Documents, NoDocument

VARIABLES
  store,      \* the document stored under each key
  stored      \* the writers that have stored theirs

vars == <<store, stored>>

Init ==
  /\ store = [k \in Keys |-> NoDocument]
  /\ stored = {}

Publish(w, d) ==
  /\ w \notin stored
  /\ d.writer = w
  /\ store' = [store EXCEPT ![KeyOfWriter[w]] = d]
  /\ stored' = stored \cup {w}

Next == \E w \in Writers, d \in Documents : Publish(w, d)

Spec == Init /\ [][Next]_vars
=============================================================================
