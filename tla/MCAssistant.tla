----------------------------- MODULE MCAssistant -----------------------------
(***************************************************************************)
(* The MCP server and one terminal as clients of one daemon, for TLC.      *)
(***************************************************************************)
EXTENDS Assistant

MCTracepoint == [n \in {"main"} |-> "tracepoint"]

MCObjects == {MCTracepoint}

MCNames == {"main"}

MCLoads == [op : {"load"}, object : MCObjects, name : {"main"}]

\* For safety: both change the program list and the decision cache.
MCMcpRequests ==
  MCLoads
    \cup [op : {"attach", "detach"}, id : {1}]
    \cup [op : {"unlock"}]

MCCliRequests ==
  MCLoads
    \cup [op : {"unload"}, id : {1}]
    \cup [op : {"lock"}]

MCRequests == MCMcpRequests \cup MCCliRequests

\* For liveness: the server has work of its own, and someone locks.
MCLiveMcpRequests ==
  MCLoads
    \cup [op : {"map"}, id : {1}]
    \cup [op : {"inspect", "unlock"}]

MCLiveCliRequests ==
  [op : {"map"}, id : {1}] \cup [op : {"ping", "lock"}]

MCLiveRequests == MCLiveMcpRequests \cup MCLiveCliRequests

=============================================================================
