------------------------------- MODULE Mhash -------------------------------
(***************************************************************************)
(* The model hash of one segment: backend/mhash.c.                         *)
(*                                                                         *)
(* An open hash table in a file maps a model to its usage: 0 for none, 1   *)
(* for a separate triple list, larger values for the head of its block     *)
(* chain.  The entries are written through; the header (size, count,       *)
(* search_dist) lives in memory and reaches the file only when the table   *)
(* is flushed or closed.  A model that was deleted keeps its slot with the *)
(* value 0.                                                                *)
(***************************************************************************)
EXTENDS Integers, FiniteSets

CONSTANTS
    Rids,       \* the models
    Free,       \* the rid of an unused slot (0 in the file)
    Vals,       \* the usage values; 0 is one of them
    Hash,       \* Hash[r]: r >> 10
    InitSize,   \* FS_MHASH_DEFAULT_LENGTH
    InitDist,   \* FS_MHASH_DEFAULT_SEARCH_DIST
    MaxSize,    \* bound: the table does not grow past this many slots
    MaxCrashes  \* bound: the process dies this often

ASSUME MhashAssumption ==
    /\ Free \notin Rids
    /\ Vals \subseteq Nat /\ 0 \in Vals
    /\ Hash \in [Rids -> Nat]
    /\ InitSize \in Nat \ {0} /\ InitDist \in Nat
    /\ MaxSize \in Nat /\ InitSize <= MaxSize
    /\ MaxCrashes \in Nat

VARIABLES
    size, dist, count,  \* the header in memory
    header,             \* the header in the file
    rid, val,           \* the slots of the file
    put,                \* the put that has grown the table, as {<<r, v>>}, or {}
    stored,             \* history: the value last put for each model
    lost,               \* history: the header fields a crash has set back
    crashes             \* the number of crashes so far

mem == <<size, dist, count>>
file == <<header, rid, val>>
mh_vars == <<mem, file, put, stored, lost, crashes>>

Slots == 0 .. (MaxSize - 1)     \* slots past the end of the file read as unused

\* FS_MHASH_ENTRY: the slot a model hashes to.
Home(r) == Hash[r] % size

(* The slots fs_mhash_put looks at: search_dist + 1 of them, fewer at the  *)
(* end of the table.                                                       *)
PutWindow(r) == {s \in Slots : Home(r) <= s /\ s <= Home(r) + dist /\ s < size}

(* The slots fs_mhash_get looks at: search_dist of them. *)
GetWindow(r) == {s \in Slots : Home(r) <= s /\ s < Home(r) + dist /\ s < size}

First(S) == CHOOSE s \in S : \A t \in S : s <= t
At(r, window) == {s \in window : rid[s] = r}

(* The answer of fs_mhash_get. *)
Get(r) ==
    LET found == At(r, GetWindow(r))
    IN IF found = {} THEN 0 ELSE val[First(found)]

(* The models fs_mhash_get_keys returns: it reads the whole file. *)
GetKeys == {rid[s] : s \in {s \in Slots : val[s] # 0}}
-----------------------------------------------------------------------------

(* fs_mhash_open of a new file. *)
MH_Init ==
    /\ size = InitSize /\ dist = InitDist /\ count = 0
    /\ header = [size |-> InitSize, dist |-> InitDist, count |-> 0]
    /\ rid = [s \in Slots |-> Free]
    /\ val = [s \in Slots |-> 0]
    /\ put = {}
    /\ stored = [r \in Rids |-> 0]
    /\ lost = {}
    /\ crashes = 0

\* Mutant: the first unused slot is taken without looking further.
FirstFreeOrMatch(r) ==
    LET usable == At(r, PutWindow(r)) \cup At(Free, PutWindow(r))
    IN IF usable = {} THEN {} ELSE {First(usable)}

(* The slot fs_mhash_put uses: the one that holds the model, or else the   *)
(* first unused one.                                                       *)
PutSlot(r) ==
    LET match == At(r, PutWindow(r))
        unused == At(Free, PutWindow(r))
    IN IF match # {} THEN {First(match)}
       ELSE IF unused # {} THEN {First(unused)} ELSE {}

Requests == IF put = {} THEN Rids \X Vals ELSE put

(* fs_mhash_put with a slot for the model. *)
Put(r, v) ==
    /\ <<r, v>> \in Requests
    /\ \E s \in PutSlot(r) :
          /\ rid' = [rid EXCEPT ![s] = r]
          /\ val' = [val EXCEPT ![s] = v]
          /\ count' = IF v # 0 /\ val[s] = 0 THEN count + 1
                      ELSE IF v = 0 /\ val[s] # 0 THEN count - 1 ELSE count
    /\ put' = {}
    /\ stored' = [stored EXCEPT ![r] = v]
    /\ UNCHANGED <<size, dist, header, lost, crashes>>

(* The slots whose entry hashes to the upper half of the doubled table. *)
Moving == {s \in 0 .. (size - 1) : rid[s] # Free /\ Hash[rid[s]] % (2 * size) >= size}

(* The slots after double_size has moved those entries up by size. *)
Moved(f, blank) ==
    [s \in Slots |->
        IF s \in Moving THEN blank
        ELSE IF s >= size /\ s - size \in Moving THEN f[s - size]
        ELSE f[s]]

(* fs_mhash_put without a slot: double_size, then the put starts again. *)
Grow(r, v) ==
    /\ <<r, v>> \in Requests
    /\ PutSlot(r) = {}
    /\ 2 * size <= MaxSize
    /\ size' = 2 * size
    /\ dist' = 2 * dist + 1
    /\ rid' = Moved(rid, Free)
    /\ val' = Moved(val, 0)
    /\ put' = {<<r, v>>}
    /\ UNCHANGED <<count, header, stored, lost, crashes>>

(* fs_mhash_flush, and fs_mhash_close with the open that follows it. *)
Flush ==
    /\ put = {}
    /\ header' = [size |-> size, dist |-> dist, count |-> count]
    /\ UNCHANGED <<mem, rid, val, put, stored, lost, crashes>>

(* The process dies, and the next one opens the file: fs_mhash_open reads  *)
(* the header that is in the file.                                         *)
Crash ==
    /\ crashes < MaxCrashes
    /\ crashes' = crashes + 1
    /\ size' = header.size /\ dist' = header.dist /\ count' = header.count
    /\ put' = {}
    /\ lost' = lost \cup (IF size # header.size THEN {"size"} ELSE {})
                    \cup (IF count # header.count THEN {"count"} ELSE {})
    /\ UNCHANGED <<file, stored>>

MH_Next ==
    \/ \E r \in Rids, v \in Vals : Put(r, v) \/ Grow(r, v)
    \/ Flush
    \/ Crash

MH_Spec == MH_Init /\ [][MH_Next]_mh_vars
-----------------------------------------------------------------------------

(* No model has two slots ("some models appear > 1 time"), unless a crash  *)
(* has undone a growth: the put of a model must find the slot it already   *)
(* has behind the holes that a growth leaves.                              *)
OneSlotPerModel ==
    "size" \notin lost =>
        \A s, t \in Slots : rid[s] = rid[t] /\ rid[s] # Free => s = t

(* The file holds what was stored, in slots that fs_mhash_put looks at:    *)
(* growing moves no entry out of its window and overwrites none.           *)
StoredIsInPutWindow ==
    "size" \notin lost =>
        \A r \in Rids : stored[r] # 0 =>
            \E s \in PutWindow(r) : rid[s] = r /\ val[s] = stored[r]

(* fs_mhash_get_keys returns the models in use, and the header's count is  *)
(* their number ("header count %d != scanned count %d").                   *)
KeysAndCountAgree ==
    /\ "size" \notin lost => GetKeys = {r \in Rids : stored[r] # 0}
    /\ lost = {} => count = Cardinality(GetKeys)

(* The only entry fs_mhash_get misses is one at search_dist exactly, the   *)
(* last slot that fs_mhash_put may use.                                    *)
GetMissesOnlyTheLastSlot ==
    "size" \notin lost =>
        \A r \in Rids :
            \/ Get(r) = stored[r]
            \/ Home(r) + dist \in Slots /\ rid[Home(r) + dist] = r

(* A get returns the value that was put last; the unit test of the model   *)
(* hash expects this of every model it has put.                            *)
GetReturnsWhatPutStored ==
    put = {} /\ lost = {} => \A r \in Rids : Get(r) = stored[r]

(* The file is a map from models to values, whatever growths and (as long  *)
(* as no growth was undone by it) a crash did to the slots.                *)
ModelHashIsMap ==
    OneSlotPerModel /\ StoredIsInPutWindow /\ KeysAndCountAgree /\ GetMissesOnlyTheLastSlot
=============================================================================
