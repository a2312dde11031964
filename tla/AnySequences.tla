---------------------------- MODULE AnySequences ----------------------------
(* Sequences whose elements are of no kind in particular.                     *)
EXTENDS Sequences

IsSequence(s) == s \in Seq({s[k] : k \in DOMAIN s})
=============================================================================
