--------------------------- MODULE ResourceCache ---------------------------
(***************************************************************************)
(* The caches of resources that the queries of a process share: resolve,   *)
(* resolve_precache_all, cache_dump and prefetch_lexical_data of           *)
(* src/frontend/results.c.                                                 *)
(*                                                                         *)
(* L1 is a hash table, L2 an array of CacheSize entries indexed by the low *)
(* bits of the id.  Every step below holds cache_mutex, except Fetch; the  *)
(* steps of different queries interleave between them.  The text of a      *)
(* resource is its own id, or Missing when the store has no such resource  *)
(* yet (it answers with a text that says so).                              *)
(*                                                                         *)
(* OddResolves: "unknown", queries ask for ids the store does not have.    *)
(***************************************************************************)
EXTENDS Integers, FiniteSets

CONSTANTS
    QueryThreads,      \* the threads that run queries
    Rids,         \* ids of URIs and literals that are not predefined
    CacheSize,    \* entries of L2
    OddResolves

ASSUME ResourceCacheAssumption ==
    /\ Rids \subseteq Nat \ {0} /\ CacheSize \in Nat \ {0}
    /\ OddResolves \subseteq {"unknown"}

VARIABLES
    rc_known,     \* ids the store has
    rc_l1,        \* res_l1_cache, a set of resources
    rc_l2,        \* res_l2_cache
    rc_query,     \* per query: what its thread is doing
    rc_since      \* per query: ids that others put into L1 since it looked them up

rcvars == <<rc_known, rc_l1, rc_l2, rc_query, rc_since>>

Missing == 0
Gone == -1        \* FS_RID_GONE and no text
Resource(rid, lex) == [rid |-> rid, lex |-> lex]
NoResource == Resource(Gone, Gone)
Slot(rid) == rid % CacheSize

InL1(rid) == \E e \in rc_l1 : e.rid = rid
L1Entry(rid) == CHOOSE e \in rc_l1 : e.rid = rid
\* fsp_resolve, fsp_resolve_all, external here: what the store answers.
Stored(rid) == Resource(rid, IF rid \in rc_known THEN rid ELSE Missing)

Idle == [pc |-> "idle", rid |-> Gone, pending |-> {}, got |-> {}, answer |-> NoResource]

RC_Init ==
    /\ rc_known = {} /\ rc_l1 = {}
    /\ rc_l2 = [s \in 0 .. CacheSize - 1 |-> NoResource]
    /\ rc_query = [q \in QueryThreads |-> Idle]
    /\ rc_since = [q \in QueryThreads |-> {}]

\* Ids come from the rows of a query, so the store has them.
Askable == IF "unknown" \in OddResolves THEN Rids ELSE rc_known
PutByOthers(q, rids) ==
    rc_since' = [p \in QueryThreads |-> IF p = q THEN rc_since[p] ELSE rc_since[p] \cup rids]

\* An import adds a resource.
Store(rid) ==
    /\ rid \notin rc_known /\ rc_known' = rc_known \cup {rid}
    /\ UNCHANGED <<rc_l1, rc_l2, rc_query, rc_since>>

-----------------------------------------------------------------------------
(* prefetch_lexical_data and resolve_precache_all *)

\* Mutant: the entries are put where the next id belongs.
DumpedNextSlot(l2) ==
    \A s \in DOMAIN rc_l2 :
        LET here == {e \in rc_l1 : Slot(e.rid + 1) = s}
        IN  IF here = {} THEN l2[s] = rc_l2[s] ELSE l2[s] \in here

\* cache_dump for every entry of L1, in the order of the hash table: the last one of
\* a slot stays.
Dumped(l2) ==
    \A s \in DOMAIN rc_l2 :
        LET here == {e \in rc_l1 : Slot(e.rid) = s}
        IN  IF here = {} THEN l2[s] = rc_l2[s] ELSE l2[s] \in here

Prefetch(q, rids) ==
    /\ rc_query[q].pc = "idle" /\ rids \subseteq Askable /\ rids # {}
    /\ \E l2 \in [DOMAIN rc_l2 -> rc_l1 \cup {rc_l2[s] : s \in DOMAIN rc_l2}] :
          /\ Dumped(l2)
          /\ rc_l2' = l2
          /\ LET pending == {rid \in rids : l2[Slot(rid)].rid # rid}
             IN  rc_query' = [rc_query EXCEPT ![q] =
                    [Idle EXCEPT !.pc = IF pending = {} THEN "idle" ELSE "fetch",
                                 !.pending = pending]]
    /\ rc_l1' = {}
    /\ UNCHANGED <<rc_known, rc_since>>

\* fsp_resolve_all, without the mutex.
Fetch(q) ==
    /\ rc_query[q].pc = "fetch"
    /\ rc_query' = [rc_query EXCEPT ![q].pc = "fetched",
                                    ![q].got = {Stored(rid) : rid \in rc_query[q].pending}]
    /\ UNCHANGED <<rc_known, rc_l1, rc_l2, rc_since>>

\* The answers that L1 does not have yet are put there.
Insert(q) ==
    /\ rc_query[q].pc = "fetched"
    /\ LET new == {e \in rc_query[q].got : ~InL1(e.rid)}
       IN  /\ rc_l1' = rc_l1 \cup new
           /\ PutByOthers(q, {e.rid : e \in new})
    /\ rc_query' = [rc_query EXCEPT ![q] = Idle]
    /\ UNCHANGED <<rc_known, rc_l2>>

-----------------------------------------------------------------------------
(* resolve *)

Hit(rid) ==
    IF rc_l2[Slot(rid)].rid = rid THEN rc_l2[Slot(rid)]
    ELSE IF InL1(rid) THEN L1Entry(rid) ELSE NoResource

Lookup(q, rid) ==
    /\ rc_query[q].pc = "idle" /\ rid \in Askable
    /\ rc_query' = [rc_query EXCEPT ![q] =
          [Idle EXCEPT !.pc = IF Hit(rid) = NoResource THEN "missed" ELSE "resolved",
                       !.rid = rid, !.answer = Hit(rid)]]
    /\ rc_since' = [rc_since EXCEPT ![q] = {}]
    /\ UNCHANGED <<rc_known, rc_l1, rc_l2>>

\* The mutex is taken again: when the id is in L1 by now, nothing is resolved and the
\* answer stays empty.
Fill(q) ==
    /\ rc_query[q].pc = "missed"
    /\ LET rid == rc_query[q].rid
       IN  /\ rc_query' = [rc_query EXCEPT ![q].pc = "resolved",
                              ![q].answer = IF InL1(rid) THEN NoResource ELSE Stored(rid)]
           /\ rc_l1' = IF InL1(rid) THEN rc_l1 ELSE rc_l1 \cup {Stored(rid)}
           /\ IF InL1(rid) THEN UNCHANGED rc_since ELSE PutByOthers(q, {rid})
    /\ UNCHANGED <<rc_known, rc_l2>>

\* The caller uses the answer.
Use(q) ==
    /\ rc_query[q].pc = "resolved"
    /\ rc_query' = [rc_query EXCEPT ![q] = Idle]
    /\ UNCHANGED <<rc_known, rc_l1, rc_l2, rc_since>>

RC_Next ==
    \/ \E rid \in Rids : Store(rid)
    \/ \E q \in QueryThreads :
          \/ \E rids \in SUBSET Rids : Prefetch(q, rids)
          \/ Fetch(q) \/ Insert(q) \/ Fill(q) \/ Use(q)
          \/ \E rid \in Rids : Lookup(q, rid)

RC_Spec == RC_Init /\ [][RC_Next]_rcvars
-----------------------------------------------------------------------------
(* Properties *)

\* Whatever the queries do between taking cache_mutex, an entry of either cache is the
\* text of its own id, there is one entry for an id in L1, an entry of L2 is in the slot
\* of its id, and the text of a resource the store has is never the one that says it is
\* missing.
CachesAreTrue ==
    /\ \A e \in rc_l1 : e.lex \in {e.rid, Missing} /\ (e.rid \in rc_known => e.lex = e.rid)
    /\ \A e, f \in rc_l1 : e.rid = f.rid => e = f
    /\ \A s \in DOMAIN rc_l2 :
          LET e == rc_l2[s]
          IN  e # NoResource =>
                  /\ Slot(e.rid) = s /\ e.lex \in {e.rid, Missing}
                  /\ e.rid \in rc_known => e.lex = e.rid

\* resolve never answers with another resource, and it answers with nothing only when
\* another query put the id into L1 after this one had looked for it.
ResolvedIsOwn ==
    \A q \in QueryThreads : rc_query[q].pc = "resolved" =>
        LET answer == rc_query[q].answer
        IN  \/ answer.rid = rc_query[q].rid /\ answer.lex = rc_query[q].rid
            \/ answer = NoResource /\ rc_query[q].rid \in rc_since[q]

\* Queries that share the two caches each get the texts of their own ids.
ResourcesAreShared == CachesAreTrue /\ ResolvedIsOwn
=============================================================================
