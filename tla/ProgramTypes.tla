---------------------------- MODULE ProgramTypes ----------------------------
(***************************************************************************)
(* The eBPF program types the daemon knows, the type it detects for a      *)
(* program of an object file, the policy each type gets, and the types the *)
(* daemon can attach.  An object file is a function from the names of its  *)
(* programs to the section type each was compiled for.                     *)
(***************************************************************************)

\* Rows of Loader::detect_type: aya's program kinds that have a type of
\* their own (aya reports a kretprobe section as KProbe, a uretprobe as
\* UProbe).
DetectedDirectly ==
  {"kprobe", "uprobe", "tracepoint", "raw_tracepoint", "xdp",
   "sched_classifier", "cgroup_skb", "socket_filter", "perf_event"}

\* Sections aya parses that detect_type has no row for.
UndetectedSection == {"lsm", "struct_ops", "cgroup_device"}

SectionType == DetectedDirectly \cup UndetectedSection

ProgramType == DetectedDirectly \cup
  {"kretprobe", "uretprobe", "lsm", "struct_ops", "unknown"}

DetectType(section) ==
  IF section \in DetectedDirectly THEN section ELSE "unknown"

AllowedType == {"kprobe", "kretprobe", "uprobe", "uretprobe", "tracepoint",
                "raw_tracepoint", "perf_event"}
WarnedType  == {"xdp", "sched_classifier", "socket_filter"}

DefaultPolicy(type) ==
  CASE type \in AllowedType -> "allow"
    [] type \in WarnedType  -> "warn"
    [] OTHER                -> "deny"

\* The arms of the match in Loader::attach that call the kernel.
AttachableType == {"kprobe", "tracepoint", "xdp"}

=============================================================================
