------------------------- MODULE ResourceCacheProofs -------------------------
(***************************************************************************)
(* Proofs about ResourceCache, for any number of queries and ids and any   *)
(* size of the second cache, as long as queries ask for ids the store has. *)
(***************************************************************************)
EXTENDS ResourceCache, TLAPS

Slots == 0 .. CacheSize - 1

(* The resources of the store, each with its own text. *)
Known == {Resource(rid, rid) : rid \in rc_known}

(* Every entry of the caches is such a resource, in L2 in its own slot. *)
CachesOK ==
    /\ rc_known \subseteq Rids /\ rc_l1 \subseteq Known
    /\ DOMAIN rc_l2 = Slots
    /\ \A s \in Slots : rc_l2[s] # NoResource => rc_l2[s] \in Known /\ Slot(rc_l2[s].rid) = s

(* What a query has in hand: resources of the store, and an id that it has *)
(* missed gets into L1 only by another query.                              *)
QueryOK(q) ==
    LET me == rc_query[q]
    IN  /\ me.pending \subseteq rc_known /\ me.got \subseteq Known
        /\ me.pc = "missed" =>
              me.rid \in rc_known /\ (InL1(me.rid) => me.rid \in rc_since[q])
        /\ me.pc = "resolved" =>
              \/ me.rid \in rc_known /\ me.answer = Resource(me.rid, me.rid)
              \/ me.answer = NoResource /\ me.rid \in rc_since[q]

QueryState ==
    [pc : {"idle", "fetch", "fetched", "missed", "resolved"}, rid : Rids \cup {Gone},
     pending : SUBSET Rids, got : SUBSET [rid : Rids, lex : Rids],
     answer : [rid : Rids, lex : Rids] \cup {NoResource}]

QueriesOK ==
    /\ rc_query \in [QueryThreads -> QueryState]
    /\ rc_since \in [QueryThreads -> SUBSET Rids]
    /\ \A q \in QueryThreads : QueryOK(q)

(* The inductive invariant. *)
RC_Inv == CachesOK /\ QueriesOK
-----------------------------------------------------------------------------
(* The slot of an id is one of the second cache. *)
LEMMA SlotTyped == \A rid \in Rids : Slot(rid) \in Slots
BY ResourceCacheAssumption DEF Slot, Slots

(* A resource of the store is told by its id, and is not the empty one. *)
LEMMA KnownFacts ==
    ASSUME CachesOK
    PROVE  /\ \A e \in Known : /\ e.rid \in rc_known /\ e = Resource(e.rid, e.rid) /\ e.lex = e.rid
                               /\ e # NoResource /\ e \in [rid : Rids, lex : Rids]
           /\ \A rid \in rc_known : Resource(rid, rid) \in Known
           /\ \A rid \in Rids : rid # Gone
<1>1. \A rid \in Rids : rid # Gone
  BY ResourceCacheAssumption DEF Gone
<1>2. \A rid \in rc_known : Resource(rid, rid) \in Known
  BY DEF Known
<1>3. ASSUME NEW e \in Known
      PROVE  /\ e.rid \in rc_known /\ e = Resource(e.rid, e.rid) /\ e.lex = e.rid
             /\ e # NoResource /\ e \in [rid : Rids, lex : Rids]
  <2>1. PICK rid \in rc_known : e = Resource(rid, rid)
    BY DEF Known
  <2>2. e.rid = rid /\ e.lex = rid /\ rid \in Rids
    BY <2>1 DEF Resource, CachesOK
  <2>3. NoResource.rid = Gone
    BY DEF NoResource, Resource
  <2> QED
    BY <1>1, <2>1, <2>2, <2>3 DEF Resource
<1> QED
  BY <1>1, <1>2, <1>3

(* The invariant is what the run checks. *)
LEMMA InvIsEnough ==
    ASSUME RC_Inv
    PROVE  ResourcesAreShared
<1> USE DEF RC_Inv
<1>1. CachesAreTrue
  <2>1. \A e \in rc_l1 : e \in Known
    BY DEF CachesOK
  <2>2. \A s \in DOMAIN rc_l2 : rc_l2[s] # NoResource => rc_l2[s] \in Known /\ Slot(rc_l2[s].rid) = s
    BY DEF CachesOK
  <2> QED
    BY <2>1, <2>2, KnownFacts DEF CachesAreTrue
<1>2. ResolvedIsOwn
  <2> SUFFICES ASSUME NEW q \in QueryThreads, rc_query[q].pc = "resolved"
               PROVE  \/ rc_query[q].answer.rid = rc_query[q].rid /\ rc_query[q].answer.lex = rc_query[q].rid
                      \/ rc_query[q].answer = NoResource /\ rc_query[q].rid \in rc_since[q]
    BY DEF ResolvedIsOwn
  <2>1. \/ rc_query[q].answer = Resource(rc_query[q].rid, rc_query[q].rid)
        \/ rc_query[q].answer = NoResource /\ rc_query[q].rid \in rc_since[q]
    BY DEF QueriesOK, QueryOK
  <2> QED
    BY <2>1 DEF Resource
<1> QED
  BY <1>1, <1>2 DEF ResourcesAreShared

(* Nothing is stored or cached at first. *)
LEMMA InitOK == RC_Init => RC_Inv
<1> SUFFICES ASSUME RC_Init
             PROVE  RC_Inv
  OBVIOUS
<1>1. CachesOK
  BY DEF RC_Init, CachesOK, Slots
<1>2. QueriesOK
  BY DEF RC_Init, QueriesOK, QueryOK, QueryState, Idle
<1> QED
  BY <1>1, <1>2 DEF RC_Inv
-----------------------------------------------------------------------------
(* A query that does nothing keeps what it has, if the store grows and L1  *)
(* gets only entries that are reported to it.                              *)
LEMMA OtherQuery ==
    ASSUME CachesOK, NEW q \in QueryThreads, QueryOK(q), rc_query'[q] = rc_query[q],
           rc_known \subseteq rc_known', rc_since[q] \subseteq rc_since'[q],
           \A e \in rc_l1' : e \in rc_l1 \/ e.rid \in rc_since'[q]
    PROVE  QueryOK(q)'
<1>1. Known \subseteq Known'
  BY DEF Known
<1>2. \A rid : (\E e \in rc_l1' : e.rid = rid) => InL1(rid) \/ rid \in rc_since'[q]
  BY DEF InL1
<1> QED
  BY <1>1, <1>2 DEF QueryOK, InL1

(* What a query must have in hand in a state new. *)
LEMMA QueryFrom ==
    ASSUME NEW q \in QueryThreads, NEW new, rc_query'[q] = new,
           new.pending \subseteq rc_known', new.got \subseteq Known',
           new.pc = "missed" => /\ new.rid \in rc_known'
                                /\ (\E e \in rc_l1' : e.rid = new.rid) => new.rid \in rc_since'[q],
           new.pc = "resolved" => \/ new.rid \in rc_known' /\ new.answer = Resource(new.rid, new.rid)
                                  \/ new.answer = NoResource /\ new.rid \in rc_since'[q]
    PROVE  QueryOK(q)'
BY DEF QueryOK, InL1, Resource, NoResource

(* A step of query q that leaves it in state new. *)
LEMMA OneQuery ==
    ASSUME RC_Inv, NEW q \in QueryThreads, NEW new \in QueryState,
           rc_query' = [rc_query EXCEPT ![q] = new], rc_known' = rc_known,
           rc_since' \in [QueryThreads -> SUBSET Rids],
           \A p \in QueryThreads : p # q =>
                /\ rc_since[p] \subseteq rc_since'[p]
                /\ \A e \in rc_l1' : e \in rc_l1 \/ e.rid \in rc_since'[p],
           rc_query'[q] = new => QueryOK(q)'
    PROVE  QueriesOK'
<1> USE DEF RC_Inv
<1>1. rc_query' \in [QueryThreads -> QueryState] /\ rc_query'[q] = new
  BY DEF QueriesOK
<1>2. ASSUME NEW p \in QueryThreads, p # q
      PROVE  QueryOK(p)'
  <2>1. rc_query'[p] = rc_query[p]
    BY <1>2 DEF QueriesOK
  <2> QED
    BY <1>2, <2>1, OtherQuery DEF QueriesOK
<1> QED
  BY <1>1, <1>2 DEF QueriesOK

(* An import adds a resource. *)
LEMMA StoreStep ==
    ASSUME RC_Inv, NEW rid \in Rids, Store(rid)
    PROVE  RC_Inv'
<1> USE DEF RC_Inv
<1>1. /\ rc_known' = rc_known \cup {rid} /\ rc_l1' = rc_l1 /\ rc_l2' = rc_l2
      /\ rc_query' = rc_query /\ rc_since' = rc_since
  BY DEF Store
<1>2. CachesOK'
  BY <1>1 DEF CachesOK, Known, Slot
<1>3. \A q \in QueryThreads : QueryOK(q)'
  BY <1>1, OtherQuery DEF QueriesOK
<1> QED
  BY <1>1, <1>2, <1>3 DEF QueriesOK

(* The state between calls. *)
LEMMA IdleTyped == Idle \in QueryState
BY DEF Idle, QueryState

(* prefetch_lexical_data empties L1 into L2. *)
LEMMA PrefetchStep ==
    ASSUME RC_Inv, OddResolves = {}, NEW q \in QueryThreads, NEW rids \in SUBSET Rids, Prefetch(q, rids)
    PROVE  RC_Inv'
<1> USE DEF RC_Inv
<1>1. PICK l2 \in [DOMAIN rc_l2 -> rc_l1 \cup {rc_l2[s] : s \in DOMAIN rc_l2}] :
          /\ Dumped(l2) /\ rc_l2' = l2
          /\ LET pending == {rid \in rids : l2[Slot(rid)].rid # rid}
             IN  rc_query' = [rc_query EXCEPT ![q] =
                    [Idle EXCEPT !.pc = IF pending = {} THEN "idle" ELSE "fetch",
                                 !.pending = pending]]
  BY DEF Prefetch
<1>2. rids \subseteq rc_known /\ rc_l1' = {} /\ rc_known' = rc_known /\ rc_since' = rc_since
  BY DEF Prefetch, Askable
<1>3. ASSUME NEW s \in Slots, l2[s] # NoResource
      PROVE  l2[s] \in Known /\ Slot(l2[s].rid) = s
  <2> DEFINE here == {e \in rc_l1 : Slot(e.rid) = s}
  <2>1. IF here = {} THEN l2[s] = rc_l2[s] ELSE l2[s] \in here
    BY <1>1 DEF Dumped, CachesOK
  <2> QED
    BY <1>3, <2>1 DEF CachesOK
<1>4. Known' = Known
  BY <1>2 DEF Known
<1>5. CachesOK'
  <2>1. DOMAIN rc_l2' = Slots /\ rc_known' \subseteq Rids /\ rc_l1' \subseteq Known'
    BY <1>1, <1>2 DEF CachesOK
  <2>2. \A s \in Slots : rc_l2'[s] # NoResource => rc_l2'[s] \in Known' /\ Slot(rc_l2'[s].rid) = s
    BY <1>1, <1>3, <1>4
  <2> QED
    BY <2>1, <2>2 DEF CachesOK, Slot
<1> DEFINE P == {rid \in rids : l2[Slot(rid)].rid # rid}
           pc == IF P = {} THEN "idle" ELSE "fetch"
           new == [Idle EXCEPT !.pc = pc, !.pending = P]
<1>6. rc_query' = [rc_query EXCEPT ![q] = new]
  BY <1>1
<1>7. P \subseteq rids
  OBVIOUS
<1> HIDE DEF P
<1>8. pc \in {"idle", "fetch"}
  OBVIOUS
<1> HIDE DEF pc
<1>9. new \in QueryState
  BY <1>7, <1>8, IdleTyped DEF QueryState
<1>10. new.pc = pc /\ new.pending = P /\ new.got = {}
  BY DEF Idle
<1> HIDE DEF new
<1>11. rc_query'[q] = new => QueryOK(q)'
  BY <1>2, <1>7, <1>8, <1>10, QueryFrom
<1>12. QueriesOK'
  BY <1>2, <1>6, <1>9, <1>11, OneQuery DEF QueriesOK
<1> QED
  BY <1>5, <1>12

(* fsp_resolve_all answers with resources of the store. *)
LEMMA FetchStep ==
    ASSUME RC_Inv, NEW q \in QueryThreads, Fetch(q)
    PROVE  RC_Inv'
<1> USE DEF RC_Inv
<1> DEFINE me == rc_query[q]
           G == {Stored(rid) : rid \in me.pending}
           new == [me EXCEPT !.pc = "fetched", !.got = G]
<1>1. /\ rc_query' = [rc_query EXCEPT ![q] = new]
      /\ rc_known' = rc_known /\ rc_l1' = rc_l1 /\ rc_l2' = rc_l2 /\ rc_since' = rc_since
  BY DEF Fetch, QueriesOK, QueryState
<1>2. me \in QueryState /\ QueryOK(q) /\ me.pending \subseteq rc_known
  BY DEF QueriesOK, QueryOK
<1>3. G \subseteq Known
  BY <1>2 DEF Stored, Known
<1>4. CachesOK'
  BY <1>1 DEF CachesOK, Known, Slot
<1>5. G \in SUBSET [rid : Rids, lex : Rids]
  BY <1>3, KnownFacts
<1> HIDE DEF G, me
<1>6. new \in QueryState
  BY <1>2, <1>5 DEF QueryState
<1>7. new.pc = "fetched" /\ new.got = G /\ new.pending = me.pending
  BY <1>2 DEF QueryState
<1> HIDE DEF new
<1>8. rc_query'[q] = new => QueryOK(q)'
  <2>1. Known' = Known
    BY <1>1 DEF Known
  <2> QED
    BY <1>1, <1>2, <1>3, <1>7, <2>1, QueryFrom
<1>9. QueriesOK'
  BY <1>1, <1>6, <1>8, OneQuery DEF QueriesOK
<1> QED
  BY <1>4, <1>9

(* A query between calls has nothing in hand. *)
LEMMA IdleOK ==
    ASSUME NEW q \in QueryThreads, rc_query'[q] = Idle
    PROVE  QueryOK(q)'
BY DEF QueryOK, Idle

(* resolve_precache_all puts the answers into L1. *)
LEMMA InsertStep ==
    ASSUME RC_Inv, NEW q \in QueryThreads, Insert(q)
    PROVE  RC_Inv'
<1> USE DEF RC_Inv
<1> DEFINE new == {e \in rc_query[q].got : ~InL1(e.rid)}
           R == {e.rid : e \in new}
<1>1. new \subseteq Known
  BY DEF QueriesOK, QueryOK
<1>2. R \subseteq Rids
  BY <1>1, KnownFacts DEF CachesOK
<1>3. rc_l1' = rc_l1 \cup new /\ PutByOthers(q, R)
  BY DEF Insert
<1>4. rc_query' = [rc_query EXCEPT ![q] = Idle] /\ rc_known' = rc_known /\ rc_l2' = rc_l2
  BY DEF Insert
<1>5. \A e \in new : e.rid \in R
  OBVIOUS
<1> HIDE DEF new, R
<1>6. CachesOK'
  BY <1>1, <1>3, <1>4 DEF CachesOK, Known, Slot
<1>7. /\ rc_since' \in [QueryThreads -> SUBSET Rids]
      /\ \A p \in QueryThreads : p # q =>
            /\ rc_since[p] \subseteq rc_since'[p]
            /\ \A e \in rc_l1' : e \in rc_l1 \/ e.rid \in rc_since'[p]
  BY <1>2, <1>3, <1>5 DEF PutByOthers, QueriesOK
<1>8. QueriesOK'
  BY <1>4, <1>7, IdleTyped, IdleOK, OneQuery
<1> QED
  BY <1>6, <1>8

(* A hit is the resource asked for. *)
LEMMA HitFacts ==
    ASSUME CachesOK, NEW rid \in rc_known, Hit(rid) # NoResource
    PROVE  Hit(rid) = Resource(rid, rid)
<1>1. Slot(rid) \in Slots
  BY SlotTyped DEF CachesOK
<1>2. rid # Gone
  BY KnownFacts DEF CachesOK
<1>3. CASE rc_l2[Slot(rid)].rid = rid
  <2>1. NoResource.rid = Gone
    BY DEF NoResource, Resource
  <2>2. rc_l2[Slot(rid)] \in Known
    BY <1>1, <1>2, <1>3, <2>1 DEF CachesOK
  <2> QED
    BY <1>3, <2>2, KnownFacts DEF Hit
<1>4. CASE rc_l2[Slot(rid)].rid # rid
  <2>1. InL1(rid) /\ Hit(rid) = L1Entry(rid)
    BY <1>4 DEF Hit
  <2>2. L1Entry(rid) \in rc_l1 /\ L1Entry(rid).rid = rid
    BY <2>1 DEF InL1, L1Entry
  <2>3. L1Entry(rid) \in Known
    BY <2>2 DEF CachesOK
  <2> QED
    BY <2>1, <2>2, <2>3, KnownFacts
<1> QED
  BY <1>3, <1>4

(* resolve looks in the caches. *)
LEMMA LookupStep ==
    ASSUME RC_Inv, OddResolves = {}, NEW q \in QueryThreads, NEW rid \in Rids, Lookup(q, rid)
    PROVE  RC_Inv'
<1> USE DEF RC_Inv
<1> DEFINE h == Hit(rid)
           new == [Idle EXCEPT !.pc = IF h = NoResource THEN "missed" ELSE "resolved",
                               !.rid = rid, !.answer = h]
<1>1. /\ rid \in rc_known /\ rc_query' = [rc_query EXCEPT ![q] = new]
      /\ rc_since' = [rc_since EXCEPT ![q] = {}]
      /\ rc_known' = rc_known /\ rc_l1' = rc_l1 /\ rc_l2' = rc_l2
  BY DEF Lookup, Askable
<1>2. CachesOK'
  BY <1>1 DEF CachesOK, Known, Slot
<1>3. rc_since' \in [QueryThreads -> SUBSET Rids]
      /\ \A p \in QueryThreads : p # q => rc_since'[p] = rc_since[p]
  BY <1>1 DEF QueriesOK
<1>4. h = NoResource \/ h = Resource(rid, rid)
  BY <1>1, HitFacts
<1>5. h = NoResource => ~ InL1(rid)
  <2> SUFFICES ASSUME InL1(rid)
               PROVE  h # NoResource
    OBVIOUS
  <2>1. L1Entry(rid) \in rc_l1 /\ L1Entry(rid).rid = rid
    BY DEF InL1, L1Entry
  <2>2. NoResource.rid = Gone /\ rid # Gone
    BY KnownFacts DEF NoResource, Resource
  <2> QED
    BY <2>1, <2>2 DEF Hit
<1> HIDE DEF h
<1>6. h \in [rid : Rids, lex : Rids] \cup {NoResource}
  BY <1>4 DEF Resource
<1> DEFINE pc == IF h = NoResource THEN "missed" ELSE "resolved"
<1>7. pc \in {"missed", "resolved"} /\ (pc = "missed" <=> h = NoResource)
  OBVIOUS
<1> HIDE DEF pc
<1>8. new \in QueryState /\ new.pc = pc /\ new.rid = rid /\ new.answer = h
      /\ new.pending = {} /\ new.got = {}
  <2>1. new = [[[Idle EXCEPT !.pc = pc] EXCEPT !.rid = rid] EXCEPT !.answer = h]
    BY DEF pc
  <2>2. [Idle EXCEPT !.pc = pc] \in QueryState
    BY <1>7, IdleTyped DEF QueryState
  <2>3. [[Idle EXCEPT !.pc = pc] EXCEPT !.rid = rid] \in QueryState
    BY <2>2 DEF QueryState
  <2>4. [[[Idle EXCEPT !.pc = pc] EXCEPT !.rid = rid] EXCEPT !.answer = h] \in QueryState
    BY <1>6, <2>3 DEF QueryState
  <2> QED
    BY <2>1, <2>4 DEF Idle
<1> HIDE DEF new
<1>9. rc_query'[q] = new => QueryOK(q)'
  <2>1. h = NoResource => ~ \E e \in rc_l1' : e.rid = rid
    BY <1>1, <1>5 DEF InL1
  <2> QED
    BY <1>1, <1>4, <1>7, <1>8, <2>1, QueryFrom
<1>10. QueriesOK'
  BY <1>1, <1>3, <1>8, <1>9, OneQuery
<1> QED
  BY <1>2, <1>10

(* resolve after a miss. *)
LEMMA FillStep ==
    ASSUME RC_Inv, NEW q \in QueryThreads, Fill(q)
    PROVE  RC_Inv'
<1> USE DEF RC_Inv
<1> DEFINE me == rc_query[q]
           rid == me.rid
           a == IF InL1(rid) THEN NoResource ELSE Stored(rid)
           new == [me EXCEPT !.pc = "resolved", !.answer = a]
<1>1. /\ rc_query' = [rc_query EXCEPT ![q] = new]
      /\ rc_l1' = IF InL1(rid) THEN rc_l1 ELSE rc_l1 \cup {Stored(rid)}
      /\ IF InL1(rid) THEN rc_since' = rc_since ELSE PutByOthers(q, {rid})
      /\ rc_known' = rc_known /\ rc_l2' = rc_l2
  BY DEF Fill, QueriesOK, QueryState
<1>2. me \in QueryState /\ rid \in rc_known /\ (InL1(rid) => rid \in rc_since[q])
  BY DEF Fill, QueriesOK, QueryOK
<1>3. me.pending \subseteq rc_known /\ me.got \subseteq Known
  BY DEF QueriesOK, QueryOK
<1> HIDE DEF me
<1>4. Stored(rid) = Resource(rid, rid) /\ Stored(rid) \in Known /\ Stored(rid).rid = rid
  BY <1>2, KnownFacts DEF Stored, Resource
<1>5. CachesOK'
  BY <1>1, <1>4 DEF CachesOK, Known, Slot
<1>6. /\ rc_since' \in [QueryThreads -> SUBSET Rids] /\ rc_since'[q] = rc_since[q]
      /\ \A p \in QueryThreads : p # q =>
            /\ rc_since[p] \subseteq rc_since'[p]
            /\ \A e \in rc_l1' : e \in rc_l1 \/ e.rid \in rc_since'[p]
  <2>1. rid \in Rids
    BY <1>2 DEF CachesOK
  <2>2. CASE InL1(rid)
    BY <1>1, <2>2 DEF QueriesOK
  <2>3. CASE ~ InL1(rid)
    BY <1>1, <1>4, <2>1, <2>3 DEF QueriesOK, PutByOthers
  <2> QED
    BY <2>2, <2>3
<1>7. (a = NoResource /\ rid \in rc_since[q]) \/ a = Resource(rid, rid)
  BY <1>2, <1>4
<1> HIDE DEF a
<1>8. a \in [rid : Rids, lex : Rids] \cup {NoResource}
  BY <1>2, <1>7 DEF Resource, CachesOK
<1>9. new \in QueryState
  BY <1>2, <1>8 DEF QueryState
<1>10. new.pc = "resolved" /\ new.answer = a /\ new.rid = rid
       /\ new.pending = me.pending /\ new.got = me.got
  BY <1>2 DEF QueryState
<1> HIDE DEF new
<1>11. rc_query'[q] = new => QueryOK(q)'
  <2>1. Known' = Known
    BY <1>1 DEF Known
  <2> QED
    BY <1>1, <1>2, <1>3, <1>6, <1>7, <1>10, <2>1, QueryFrom
<1>12. QueriesOK'
  BY <1>1, <1>6, <1>9, <1>11, OneQuery
<1> QED
  BY <1>5, <1>12

(* Queries that share the two caches of results.c each get the texts of    *)
(* their own ids, for any number of them, although the backends are asked  *)
(* without the mutex: what a miss fetches is true, it is entered once, and *)
(* a query finds nothing only if another one entered the id meanwhile.     *)
THEOREM CachesAreShared ==
    ASSUME OddResolves = {}
    PROVE  RC_Spec => []ResourcesAreShared
<1>1. RC_Init => RC_Inv
  BY InitOK
<1>2. RC_Inv /\ [RC_Next]_rcvars => RC_Inv'
  <2> SUFFICES ASSUME RC_Inv, [RC_Next]_rcvars
               PROVE  RC_Inv'
    OBVIOUS
  <2>1. ASSUME NEW rid \in Rids, Store(rid)
        PROVE  RC_Inv'
    BY <2>1, StoreStep
  <2>2. ASSUME NEW q \in QueryThreads, Use(q)
        PROVE  RC_Inv'
    <3>1. /\ rc_query' = [rc_query EXCEPT ![q] = Idle]
          /\ rc_known' = rc_known /\ rc_l1' = rc_l1 /\ rc_l2' = rc_l2 /\ rc_since' = rc_since
      BY <2>2 DEF Use
    <3>2. CachesOK'
      BY <3>1 DEF RC_Inv, CachesOK, Known, Slot
    <3>3. QueriesOK'
      BY <3>1, IdleTyped, IdleOK, OneQuery DEF RC_Inv, QueriesOK
    <3> QED
      BY <3>2, <3>3 DEF RC_Inv
  <2>3. CASE UNCHANGED rcvars
    <3>1. /\ rc_query' = rc_query /\ rc_since' = rc_since
          /\ rc_known' = rc_known /\ rc_l1' = rc_l1 /\ rc_l2' = rc_l2
      BY <2>3 DEF rcvars
    <3>2. CachesOK'
      BY <3>1 DEF RC_Inv, CachesOK, Known, Slot
    <3>3. \A q \in QueryThreads : QueryOK(q)'
      BY <3>1, OtherQuery DEF RC_Inv, QueriesOK
    <3> QED
      BY <3>1, <3>2, <3>3 DEF RC_Inv, QueriesOK
  <2> QED
    BY <2>1, <2>2, <2>3, PrefetchStep, FetchStep, InsertStep, FillStep, LookupStep DEF RC_Next
<1>3. RC_Inv => ResourcesAreShared
  BY InvIsEnough
<1> QED
  BY <1>1, <1>2, <1>3, PTL DEF RC_Spec
=============================================================================
