------------------------------ MODULE MCLoader ------------------------------
(***************************************************************************)
(* A small instance of Loader for TLC: object files with one, several and  *)
(* no programs, of every policy and both attachable and not, and an id     *)
(* space small enough for the counter to wrap.                             *)
(***************************************************************************)
EXTENDS Loader

One(section) == [n \in {"main"} |-> section]

MCObjects ==
  {One("tracepoint"), One("xdp"), One("uprobe"), One("lsm"),
   [n \in {"main", "other"} |-> IF n = "main" THEN "kprobe" ELSE "cgroup_skb"],
   [n \in {} |-> "kprobe"]}

MCNames == {"main", "elsewhere"}

=============================================================================
