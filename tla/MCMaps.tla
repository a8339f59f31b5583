------------------------------- MODULE MCMaps -------------------------------
(***************************************************************************)
(* A small instance of DaemonMaps for TLC: object files with one, several  *)
(* and no programs, of every policy and both attachable and not; two keys  *)
(* in one bucket and one in another; ids that wrap after three loads.      *)
(***************************************************************************)
EXTENDS DaemonMaps

One(section) == [n \in {"main"} |-> section]

MCObjects ==
  {One("tracepoint"), One("lsm"),
   [n \in {"main", "other"} |-> IF n = "main" THEN "tracepoint" ELSE "uprobe"],
   [n \in {} |-> "kprobe"]}

MCNames == {"main", "elsewhere"}

MCKeys == 1 .. 3

MCBucket == [k \in MCKeys |-> IF k = 3 THEN 1 ELSE 0]

=============================================================================
