----------------------------- MODULE DaemonMaps -----------------------------
(***************************************************************************)
(* The maps of the daemon's programs (ebpf-assistd/src/loader.rs, the four *)
(* map requests of handler.rs).  Each request runs to its end under the    *)
(* daemon's state mutex, but the programs in the kernel write their maps   *)
(* whenever their hook fires, so a dump of a hash map, which asks the      *)
(* kernel for one key after the other, is a walk over a map that changes.  *)
(*                                                                         *)
(* Here every object file has one hash map of the sizes the daemon reads;  *)
(* an array, whose entries are always all there, and the maps the daemon   *)
(* does not read keep nothing that is followed.  Values are left out.  A   *)
(* hash map is the sequence of its keys in the kernel's order: by bucket,  *)
(* and in a bucket the latest first.                                       *)
(***************************************************************************)
EXTENDS Loader, Sequences

CONSTANTS
  Keys,       \* keys programs and clients may use
  Bucket,     \* the kernel's bucket of each key
  HashMax,    \* max_entries of the hash map
  DumpLimit,  \* entries a dump returns at most, 100 in the code
  Watched,    \* ids whose maps are followed; Ids in the code
  NoKey,      \* a walk before its first key
  NoDump      \* no dump is under way

(***************************************************************************)
(* A dump: the program, whether the walk asks for the next key, looks one  *)
(* up or is broken off, the key it stands on, the keys it has shown and    *)
(* the entries it has counted; and, as history, the keys that were there   *)
(* from its beginning and have not been written, and whether a system call *)
(* has failed.                                                             *)
(***************************************************************************)
Dump == [id : Ids, at : {"next", "lookup", "ending"}, cursor : Keys \cup {NoKey},
         seen : SUBSET Keys, count : 0 .. DumpLimit, stable : SUBSET Keys,
         failed : BOOLEAN]

ASSUME KeysAssumption ==
  /\ Keys \subseteq Nat
  /\ Bucket \in [Keys -> Nat]
  /\ HashMax \in Nat
  /\ DumpLimit \in Nat
  /\ Watched \subseteq Ids
  /\ NoKey \notin Nat
  /\ NoDump \notin Dump

VARIABLES
  keys,    \* the keys in each program's hash map
  dump     \* the dump under way

mapsVars == <<programs, nextId, issued, keys, dump>>

Elements(s) == {s[i] : i \in 1 .. Len(s)}

MapsInit ==
  /\ LoaderInit
  /\ keys = [id \in Ids |-> <<>>]
  /\ dump = NoDump

-----------------------------------------------------------------------------

Place(s, k) == CHOOSE p \in 1 .. Len(s) : s[p] = k

Without(s, k) ==
  IF k \in Elements(s)
  THEN SubSeq(s, 1, Place(s, k) - 1) \o SubSeq(s, Place(s, k) + 1, Len(s))
  ELSE s

\* k goes before the p + 1st element if it is to be the first of its bucket.
IsHead(s, k, p) ==
  /\ \A i \in 1 .. p : Bucket[s[i]] < Bucket[k]
  /\ \A i \in (p + 1) .. Len(s) : Bucket[s[i]] >= Bucket[k]

Inserted(s, k, p) == SubSeq(s, 1, p) \o <<k>> \o SubSeq(s, p + 1, Len(s))

(***************************************************************************)
(* bpf_map_update_elem: the element is a new one, the first of its bucket, *)
(* and one with that key goes.                                             *)
(***************************************************************************)
Puts(id, k) ==
  LET rest == Without(keys[id], k) IN
  \E p \in 0 .. Len(rest) :
    /\ IsHead(rest, k, p)
    /\ keys' = [keys EXCEPT ![id] = Inserted(rest, k, p)]

Fits(s, k) == k \in Elements(s) \/ Len(s) < HashMax

\* bpf_map_get_next_key: the first key again when the one asked for is gone.
NextKeys(s, k) ==
  IF k \in Elements(s)
  THEN {s[i + 1] : i \in {j \in 1 .. (Len(s) - 1) : s[j] = k}}
  ELSE {s[i] : i \in {j \in 1 .. Len(s) : j = 1}}

-----------------------------------------------------------------------------

(***************************************************************************)
(* The operations of Loader come when no dump holds the mutex; a program   *)
(* that is loaded brings empty maps, one that is dropped takes its own.    *)
(***************************************************************************)
Emptied(id) == programs'[id] = Vacant \/ (nextId' # nextId /\ id = nextId)

KeepsMaps ==
  /\ dump = NoDump
  /\ keys' = [id \in Ids |-> IF Emptied(id) THEN <<>> ELSE keys[id]]
  /\ UNCHANGED dump

LoadWithMaps ==
  /\ \E object \in Objects, name \in Names \cup {NoName}, result \in LoadResult :
       Load(object, name, result)
  /\ KeepsMaps

AttachWithMaps(id) == (\E result \in AttachResult : Attach(id, result)) /\ KeepsMaps
DetachWithMaps(id) == (\E result \in DetachResult : Detach(id, result)) /\ KeepsMaps
UnloadWithMaps(id) == (\E result \in UnloadResult : Unload(id, result)) /\ KeepsMaps

MapsRestart ==
  /\ LoaderRestart
  /\ keys' = [id \in Ids |-> <<>>]
  /\ dump' = NoDump

-----------------------------------------------------------------------------

\* A request names a program of the table, and holds the mutex.
Asked(id) ==
  /\ dump = NoDump
  /\ programs[id] # Vacant
  /\ UNCHANGED loaderVars

(***************************************************************************)
(* MapList, reads that are no dump, any request for an array, and one for  *)
(* a map that is not there or not of a type the daemon reads.              *)
(***************************************************************************)
MapAnswers(id) ==
  /\ Asked(id)
  /\ UNCHANGED <<keys, dump>>

(***************************************************************************)
(* write_map on the hash map, with a key that parse_key has read: refused  *)
(* for the value, or by the kernel for a new key in a full map.            *)
(***************************************************************************)
MapWrite(id, k) ==
  /\ Asked(id)
  /\ Fits(keys[id], k)
  /\ Puts(id, k)
  /\ UNCHANGED dump

\* delete_map_entry on the hash map; a key that is not there is an error.
MapDelete(id, k) ==
  /\ Asked(id)
  /\ keys' = [keys EXCEPT ![id] = Without(@, k)]
  /\ UNCHANGED dump

-----------------------------------------------------------------------------

\* read_hash_map without a key; entries are counted, and their keys kept.
BeginDump(id) ==
  /\ Asked(id)
  /\ dump' = [id |-> id, at |-> "next", cursor |-> NoKey, seen |-> {}, count |-> 0,
              stable |-> Elements(keys[id]), failed |-> FALSE]
  /\ UNCHANGED keys

Walking(at) ==
  /\ dump # NoDump
  /\ dump.at = at
  /\ UNCHANGED <<programs, nextId, issued, keys>>

DumpNext ==
  /\ Walking("next")
  /\ \E k \in NextKeys(keys[dump.id], dump.cursor) :
       dump' = [dump EXCEPT !.at = "lookup", !.cursor = k]

DumpEnds ==
  /\ Walking("next")
  /\ NextKeys(keys[dump.id], dump.cursor) = {}
  /\ dump' = NoDump

\* Mutant: a key that is gone when it is looked up ends the dump.
EndsAtGap ==
  /\ Walking("lookup")
  /\ IF dump.cursor \in Elements(keys[dump.id]) /\ dump.count < DumpLimit
     THEN dump' = [dump EXCEPT !.at = "next", !.seen = @ \cup {dump.cursor},
                               !.count = @ + 1]
     ELSE dump' = NoDump

\* Mutant: the loop leaves an entry late.
LimitOffByOne ==
  /\ Walking("lookup")
  /\ IF dump.cursor \notin Elements(keys[dump.id])
     THEN dump' = [dump EXCEPT !.at = "next"]
     ELSE IF dump.count <= DumpLimit
     THEN dump' = [dump EXCEPT !.at = "next", !.seen = @ \cup {dump.cursor},
                               !.count = @ + 1]
     ELSE dump' = NoDump

(***************************************************************************)
(* The iterator skips a key that is gone by now; the loop leaves at the    *)
(* entry after the hundredth, without a word to the client.                *)
(***************************************************************************)
DumpLookup ==
  /\ Walking("lookup")
  /\ \/ /\ dump.cursor \notin Elements(keys[dump.id])
        /\ dump' = [dump EXCEPT !.at = "next"]
     \/ /\ dump.cursor \in Elements(keys[dump.id])
        /\ dump.count < DumpLimit
        /\ dump' = [dump EXCEPT !.at = "next", !.seen = @ \cup {dump.cursor},
                                !.count = @ + 1]
     \/ /\ dump.cursor \in Elements(keys[dump.id])
        /\ dump.count >= DumpLimit
        /\ dump' = NoDump

(***************************************************************************)
(* A system call of the walk fails: an item that is an error is skipped,   *)
(* and no next key after it ends the walk as if it were complete.          *)
(***************************************************************************)
DumpFails ==
  /\ \/ Walking("next") /\ dump' = [dump EXCEPT !.at = "ending", !.failed = TRUE]
     \/ Walking("lookup") /\ dump' = [dump EXCEPT !.at = "next", !.failed = TRUE]
     \/ Walking("ending") /\ dump' = NoDump

-----------------------------------------------------------------------------

\* A program that is hooked, listed as attached or not, writes its map.
Moves(id, k) ==
  /\ dump' = IF dump # NoDump /\ dump.id = id
             THEN [dump EXCEPT !.stable = @ \ {k}] ELSE dump
  /\ UNCHANGED <<programs, nextId, issued>>

KernelWrites(id, k) ==
  /\ KernelPhase[id] = "hooked"
  /\ Fits(keys[id], k)
  /\ Puts(id, k)
  /\ Moves(id, k)

KernelDeletes(id, k) ==
  /\ KernelPhase[id] = "hooked"
  /\ k \in Elements(keys[id])
  /\ keys' = [keys EXCEPT ![id] = Without(@, k)]
  /\ Moves(id, k)

TableNext ==
  \/ LoadWithMaps
  \/ MapsRestart
  \/ \E id \in Ids : AttachWithMaps(id) \/ DetachWithMaps(id) \/ UnloadWithMaps(id)

RequestNext ==
  \E id \in Watched :
    \/ MapAnswers(id) \/ BeginDump(id)
    \/ \E k \in Keys : MapWrite(id, k) \/ MapDelete(id, k)

MapsNext ==
  \/ TableNext
  \/ RequestNext
  \/ DumpNext \/ DumpEnds \/ DumpLookup \/ DumpFails
  \/ \E id \in Watched, k \in Keys : KernelWrites(id, k) \/ KernelDeletes(id, k)

MapsSpec == MapsInit /\ [][MapsNext]_mapsVars

-----------------------------------------------------------------------------

\* What a hash map's keys are: each once, no more than fit, and by bucket.
Table(s) ==
  /\ Len(s) <= HashMax
  /\ \A i, j \in 1 .. Len(s) : i < j => s[i] # s[j] /\ Bucket[s[i]] <= Bucket[s[j]]

MapsTypeOK ==
  /\ keys \in [Ids -> Seq(Keys)]
  /\ \A id \in Ids :
       /\ Table(keys[id])
       /\ programs[id] = Vacant => keys[id] = <<>>
  /\ dump \in Dump \cup {NoDump}
  /\ dump # NoDump => programs[dump.id] # Vacant

(***************************************************************************)
(* A dump shows every key that was in the map from its beginning to its    *)
(* end and was not written meanwhile, whatever the program in the kernel   *)
(* does to the others, the key the walk stands on included, unless the     *)
(* dump is full or a system call has failed.                               *)
(***************************************************************************)
DumpComplete ==
  [][dump # NoDump /\ dump' = NoDump /\ programs'[dump.id] # Vacant =>
       dump.stable \subseteq dump.seen \/ dump.count = DumpLimit \/ dump.failed]_mapsVars

=============================================================================
