----------------------------- MODULE ZipPackage -----------------------------
(* The two sides of the package httrack/internal/go/zip: an archive that is     *)
(* written and read (Zip), which is sequential, and the pools that its          *)
(* compressors and decompressors come from (ZipPool), which goroutines share.   *)
(* A body is compressed and decompressed in one step in Zip: what the pools     *)
(* have to do with that is that a flate reader works for one stream only.       *)
EXTENDS Zip, ZipPool

VARIABLE side \* "archive" or "pools"

\* Which archive is not written does not matter to the pools.
PackageInit ==
  /\ Init /\ PoolInit
  /\ \/ side = "archive"
     \/ side = "pools" /\ out = <<>> /\ caller = CHOOSE c \in DOMAIN Plan : 0 \in Plan[c].starts

\* The archive has been opened, or its writer has given up.
Ended == (fate # "unread" \/ wpc = "failed") /\ UNCHANGED vars

PackageNext ==
  \/ side = "archive" /\ (Next \/ Ended) /\ UNCHANGED <<side, poolVars>>
  \/ side = "pools" /\ PoolNext /\ UNCHANGED <<side, vars>>

PackageSpec == PackageInit /\ [][PackageNext]_<<side, vars, poolVars>>
=============================================================================
