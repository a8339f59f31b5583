------------------------------ MODULE MCDaemon ------------------------------
(***************************************************************************)
(* Two clients of one daemon, for TLC: one program, loaded and attached    *)
(* while others lock and unlock.  The ids wrap after two loads.            *)
(***************************************************************************)
EXTENDS Daemon

MCObjects == {[n \in {"main"} |-> "tracepoint"]}

MCNames == {"main"}

MCRequests ==
  [op : {"load"}, object : MCObjects, name : {"main"}]
    \cup [op : {"attach"}, id : {1}]
    \cup [op : {"unlock", "lock"}]

=============================================================================
