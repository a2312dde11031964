---------------------------- MODULE MCRepository ----------------------------
(* Three writers, two of one key and one of a key too long to be a file
   name; one reader; anything may fail.                                    *)
EXTENDS Repository, TLC

CONSTANTS k1, long, w1, w2, w3

MCKeyOfWriter == w1 :> k1 @@ w2 :> k1 @@ w3 :> long

AllFaults == {"create", "seek", "write", "json", "header", "close", "rename",
              "remove", "kill"}
=============================================================================
