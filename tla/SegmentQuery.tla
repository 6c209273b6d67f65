---------------------------- MODULE SegmentQuery ----------------------------
(***************************************************************************)
(* How a triple pattern is answered: backend/query-backend.c on each       *)
(* segment, and the calls of common/4s-client.c that spread a request over *)
(* the segments and put the answers together.                              *)
(*                                                                         *)
(* A request has a list of resource ids for each of the slots model,       *)
(* subject, predicate and object; an empty list stands for any value.  The *)
(* backend picks one of several ways to walk its indexes, depending on     *)
(* which lists are empty and which slots are to be returned.  The module   *)
(* gives each of these ways as the sequence of quads it walks over, and    *)
(* compares the answers with what the request asks for.                    *)
(*                                                                         *)
(* The trees are taken as the quads they hold, in the order in which the   *)
(* quads came; a predicate keeps its trees when its quads are deleted.     *)
(***************************************************************************)
EXTENDS Integers, FiniteSets, SequencesExt

CONSTANTS
    Segments,       \* link->segments, a power of two
    Universe,       \* the quads that may be imported, <<m, s, p, o>>, in this order
    MaxQuads,       \* bound: quads in the store
    Requests,       \* the requests that may be sent
    DefaultGraph,   \* FS_DEFAULT_GRAPH_RID
    OddRequests     \* kinds of requests that are also sent, see Sendable

ASSUME SQ_Assumption ==
    /\ Segments \in Nat \ {0}
    /\ OddRequests \subseteq {"paired", "sticky", "shortcut", "cut"}

NULL == -1          \* FS_RID_NULL
NoLimit == -1
Model == 1
Subject == 2
Predicate == 3
Object == 4

VARIABLES
    sq_store,       \* the quads of all segments
    sq_preds,       \* the predicates that have trees (ptrees_priv)
    sq_request      \* the request being answered, or a record without one
sq_vars == <<sq_store, sq_preds, sq_request>>

NoRequest == [kind |-> "none"]

(* FS_RID_SEGMENT *)
SegmentOf(rid) == rid % Segments

Held(g, Test(_)) == SelectSeq(sq_store, LAMBDA r : SegmentOf(r[Subject]) = g /\ Test(r))
-----------------------------------------------------------------------------
(* Walks over the indexes of segment g. *)

Loop(S, Body(_)) == FlattenSeq([i \in DOMAIN S |-> Body(S[i])])
OrAny(list) == IF list = <<>> THEN <<NULL>> ELSE list
Fits(value, x) == value \in {NULL, x}
PredsOf(g) == SelectSeq(sq_preds, LAMBDA e : e[1] = g)

(* fs_ptree_search and fs_ptree_it_next, in the subject tree (k = Subject) *)
(* or the object tree (k = Object) of predicate p.                         *)
Search(g, p, k, key, pair) ==
    Held(g, LAMBDA r : /\ r[Predicate] = p /\ r[k] = key
                       /\ Fits(pair[1], r[Model])
                       /\ Fits(pair[2], r[(Subject + Object) - k]))

(* fs_ptree_traverse *)
Traverse(g, p, m) == Held(g, LAMBDA r : r[Predicate] = p /\ Fits(m, r[Model]))

(* (_ s p _) and (_ _ p o): every predicate with every key, *)
Product(g, rq, k, keys, others) ==
    Loop(rq.p, LAMBDA p : Loop(keys, LAMBDA key : Loop(OrAny(rq.m), LAMBDA m :
        Loop(OrAny(others), LAMBDA x : Search(g, p, k, key, <<m, x>>)))))

(* or, when there are as many keys as predicates, row by row. *)
RowByRow(g, rq, k, keys, others) ==
    FlattenSeq([i \in DOMAIN rq.p |-> Loop(OrAny(rq.m), LAMBDA m :
        Loop(OrAny(others), LAMBDA x : Search(g, rq.p[i], k, keys[i], <<m, x>>)))])

(* Without predicates, every tree is searched.  The pair that a search is  *)
(* given also receives its results, and it is reset for each key only: an  *)
(* open model or other slot keeps the value of the last result.            *)
StickySearches(g, p, k, key, ms, others) ==
    LET Try(acc, want) ==
            LET pair == <<IF ms = <<>> THEN acc.pair[1] ELSE want[1],
                          IF others = <<>> THEN acc.pair[2] ELSE want[2]>>
                found == Search(g, p, k, key, pair)
            IN [pair |-> IF found = <<>> THEN pair
                         ELSE <<Last(found)[Model], Last(found)[(Subject + Object) - k]>>,
                out |-> acc.out \o found]
        wanted == Loop(OrAny(ms), LAMBDA m : Loop(OrAny(others), LAMBDA x : << <<m, x>> >>))
    IN FoldLeft(Try, [pair |-> <<NULL, NULL>>, out |-> <<>>], wanted).out

AllTrees(g, rq, k, keys, others) ==
    Loop(PredsOf(g), LAMBDA e : Loop(keys, LAMBDA key :
        StickySearches(g, e[2], k, key, rq.m, others)))

(* (_ _ p _) *)
Traversals(g, rq) ==
    Loop(IF rq.p = <<>> THEN [i \in DOMAIN PredsOf(g) |-> PredsOf(g)[i][2]] ELSE rq.p,
         LAMBDA p : Loop(OrAny(rq.m), LAMBDA m : Traverse(g, p, m)))

(* (m _ _ _): the chains or files of the models. *)
ModelIndex(g, rq) == Loop(rq.m, LAMBDA m : Held(g, LAMBDA r : r[Model] = m))
-----------------------------------------------------------------------------
(* The slots a FS_BIND_SAME flag asks to be equal. *)
Equalities ==
    [XXXX |-> {},
     XXAA |-> {<<3, 4>>}, XAXA |-> {<<2, 4>>}, XAAX |-> {<<2, 3>>},
     XAAA |-> {<<2, 3>>, <<3, 4>>},
     AXXA |-> {<<1, 4>>}, AXAX |-> {<<1, 3>>}, AXAA |-> {<<1, 3>>, <<3, 4>>},
     AAXX |-> {<<1, 2>>}, AAXA |-> {<<1, 2>>, <<2, 4>>},
     AAAX |-> {<<1, 2>>, <<2, 3>>}, AAAA |-> {<<1, 2>>, <<2, 3>>, <<3, 4>>},
     AABB |-> {<<1, 2>>, <<3, 4>>}, ABAB |-> {<<1, 3>>, <<2, 4>>},
     ABBA |-> {<<1, 4>>, <<2, 3>>}]

BindSame(r, same) == \A e \in Equalities[same] : r[e[1]] = r[e[2]]

(* The flag FS_QUERY_DEFAULT_GRAPH keeps the default graph out. *)
GraphOk(r, rq) == ~(rq.nodefault /\ r[Model] = DefaultGraph)

(* The row that bind_results appends. *)
Row(r, rq) == [k \in rq.bind |-> r[k]]

Conjunctive(rq, keys) == keys # <<>> /\ rq.p # <<>> /\ Len(rq.p) = Len(keys)

SortedUniq(list) == SetToSortSeq(ToSet(list), <)
Normal(rq) == [rq EXCEPT !.m = SortedUniq(@), !.s = SortedUniq(@),
                         !.p = SortedUniq(@), !.o = SortedUniq(@)]

Slots(rq) == <<rq.m, rq.s, rq.p, rq.o>>
Open(rq) == Slots(rq) = <<<<>>, <<>>, <<>>, <<>>>>

FromModelHash(rq) == rq.distinct /\ rq.bind = {Model} /\ Open(rq)
FromPredicates(rq) == rq.distinct /\ rq.bind = {Predicate} /\ Open(rq)
FromObjects(rq) ==
    /\ rq.distinct /\ rq.bind = {Object}
    /\ rq.m = <<>> /\ rq.s = <<>> /\ rq.o = <<>> /\ Len(rq.p) = 1

Cut(rows, n) == IF n = NoLimit THEN rows ELSE SubSeq(rows, 1, IF n < Len(rows) THEN n ELSE Len(rows))

\* Mutant: a search by object uses the subjects as its keys.
WalkBySubject(g, rq) ==
    CASE rq.m # <<>> /\ rq.s = <<>> /\ rq.p = <<>> /\ rq.o = <<>> -> ModelIndex(g, rq)
      [] rq.by = Subject /\ rq.s = <<>> -> Traversals(g, rq)
      [] OTHER -> Product(g, rq, Subject, rq.s, rq.o)

(* The quads fs_bind walks over, in the order of its branches. *)
Walk(g, rq) ==
    LET keys == IF rq.by = Subject THEN rq.s ELSE rq.o
        others == IF rq.by = Subject THEN rq.o ELSE rq.s
    IN CASE rq.m # <<>> /\ rq.s = <<>> /\ rq.p = <<>> /\ rq.o = <<>> -> ModelIndex(g, rq)
         [] rq.by = Subject /\ rq.s = <<>> -> Traversals(g, rq)
         [] rq.p # <<>> /\ keys # <<>> ->
                IF Conjunctive(rq, keys) THEN RowByRow(g, rq, rq.by, keys, others)
                ELSE Product(g, rq, rq.by, keys, others)
         [] OTHER -> AllTrees(g, rq, rq.by, keys, others)

(* fs_bind on segment g: the rows it returns.  Two distinct queries are    *)
(* answered from the keys of the model hash and from the predicate list    *)
(* without a look at the quads, and the limit of a third counts the quads  *)
(* before their objects are made distinct.                                 *)
Bind(g, request) ==
    LET keys == IF request.by = Subject THEN request.s ELSE request.o
        rq == IF Conjunctive(request, keys) THEN request ELSE Normal(request)
        limit == IF rq.bind = {} THEN 1 ELSE rq.limit
        models == {r[Model] : r \in ToSet(Held(g, LAMBDA r : TRUE))}
        trees == SelectSeq(Cut(PredsOf(g), limit), LAMBDA e : Traverse(g, e[2], NULL) # <<>>)
        walked == Cut(SelectSeq(Walk(g, rq), LAMBDA r : BindSame(r, rq.same) /\ GraphOk(r, rq)), limit)
        rows == [i \in DOMAIN walked |-> Row(walked[i], rq)]
    IN CASE FromModelHash(rq) -> SetToSeq({[k \in {Model} |-> m] : m \in models})
         [] FromPredicates(rq) -> [i \in DOMAIN trees |-> [k \in {Predicate} |-> trees[i][2]]]
         [] FromObjects(rq) -> SetToSeq(ToSet(rows))
         [] OTHER -> rows
-----------------------------------------------------------------------------
(* The client. *)

(* fsp_bind_limit_many sends a segment the subjects it keeps, and nothing  *)
(* to a segment without any.                                               *)
PartOf(g, rq) == [rq EXCEPT !.s = SelectSeq(@, LAMBDA x : SegmentOf(x) = g)]

Asked(g, rq) == rq.all \/ PartOf(g, rq).s # <<>>

BindOn(g, rq) == IF rq.all THEN Bind(g, rq) ELSE Bind(g, PartOf(g, rq))

(* fsp_bind_limit_all and fsp_bind_limit_many append the answers in the    *)
(* order of the segments,                                                  *)
Answers(rq) ==
    FlattenSeq([i \in 1..Segments |-> IF Asked(i - 1, rq) THEN BindOn(i - 1, rq) ELSE <<>>])

(* and count in hit_limits the segments that returned as many rows as the  *)
(* limit.                                                                  *)
HitLimits(rq) ==
    Cardinality({g \in 0..(Segments - 1) : Asked(g, rq) /\ rq.bind # {} /\ Len(BindOn(g, rq)) = rq.limit})
-----------------------------------------------------------------------------
(* fs_reverse_bind: the subjects with all of the predicates and objects.   *)
(* The searches are worked off from the shortest; each one keeps what the  *)
(* ones before it left.                                                    *)

Narrowest(g, rq) ==
    LET found == {<<Search(g, rq.p[i], Object, rq.o[i], <<NULL, NULL>>), i>> : i \in DOMAIN rq.p}
        bySize == SetToSortSeq(found, LAMBDA a, b :
                    <<Len(a[1]), a[2]>> # <<Len(b[1]), b[2]>> /\
                    (Len(a[1]) < Len(b[1]) \/ (Len(a[1]) = Len(b[1]) /\ a[2] < b[2])))
    IN [i \in DOMAIN bySize |-> bySize[i][1]]

ReverseBind(g, rq) ==
    LET Keep(sv, found) ==
            LET match == SelectSeq(found, LAMBDA r :
                            /\ rq.m = <<>> \/ Contains(rq.m, r[Model])
                            /\ sv = <<NULL>> \/ Contains(sv, r[Subject]))
            IN [i \in DOMAIN match |-> match[i][Subject]]
    IN Cut(FoldLeft(Keep, OrAny(rq.s), Narrowest(g, rq)), rq.limit)

(* fsp_reverse_bind_all *)
ReverseAnswers(rq) == FlattenSeq([i \in 1..Segments |-> ReverseBind(i - 1, rq)])
-----------------------------------------------------------------------------
(* The steps: quads are imported, a model is deleted, a request is put.    *)

Import(i) ==
    /\ Len(sq_store) < MaxQuads
    /\ \A j \in i..Len(Universe) : ~Contains(sq_store, Universe[j])
    /\ sq_store' = Append(sq_store, Universe[i])
    /\ sq_preds' = LET e == <<SegmentOf(Universe[i][Subject]), Universe[i][Predicate]>>
                   IN IF Contains(sq_preds, e) THEN sq_preds ELSE Append(sq_preds, e)
    /\ sq_request' = NoRequest

DeleteModel(m) ==
    /\ \E r \in ToSet(sq_store) : r[Model] = m
    /\ sq_store' = SelectSeq(sq_store, LAMBDA r : r[Model] # m)
    /\ sq_request' = NoRequest
    /\ UNCHANGED sq_preds

Several(list) == Len(list) > 1

(* What fs_handle_query_triple asks for: known subjects, known objects, or *)
(* neither.  Some kinds of requests are put only if OddRequests names      *)
(* them:                                                                   *)
(*   paired    several predicates with several keys, so that as many of    *)
(*             the one as of the other come together;                      *)
(*   sticky    several others or models in a search of every tree that     *)
(*             leaves the model or the other slot open;                    *)
(*   shortcut  the model hash or the predicate list for a request with     *)
(*             conditions on the quads;                                    *)
(*   cut       a limit on the predicate list or on distinct objects.       *)
Sendable(rq) ==
    LET keys == IF rq.by = Subject THEN rq.s ELSE rq.o
        others == IF rq.by = Subject THEN rq.o ELSE rq.s
    IN /\ \/ rq.kind = "reverse" /\ rq.s = <<>>
          \/ rq.by = Subject /\ ~rq.all /\ rq.s # <<>>
          \/ rq.by = Object /\ rq.all /\ rq.o # <<>>
          \/ rq.by = Subject /\ rq.all /\ rq.o = <<>>
       /\ rq.kind = "reverse" \/ "paired" \in OddRequests \/ ~(Several(rq.p) /\ Several(keys))
       /\ "sticky" \in OddRequests
          \/ ~(rq.p = <<>> /\ ((rq.m = <<>> /\ Several(others)) \/ (others = <<>> /\ Several(rq.m))))
       /\ "shortcut" \in OddRequests
          \/ ~((FromModelHash(rq) \/ FromPredicates(rq)) /\ (rq.nodefault \/ rq.same # "XXXX"))
       /\ "cut" \in OddRequests
          \/ ~((FromObjects(rq) \/ FromPredicates(rq)) /\ rq.limit # NoLimit)

Ask(rq) ==
    /\ Sendable(rq)
    /\ sq_request' = rq
    /\ UNCHANGED <<sq_store, sq_preds>>

SQ_Init ==
    /\ sq_store = <<>> /\ sq_preds = <<>>
    /\ sq_request = NoRequest

SQ_Next ==
    \/ sq_request = NoRequest /\ \E i \in DOMAIN Universe : Import(i)
    \/ sq_request = NoRequest /\ \E m \in {Universe[i][Model] : i \in DOMAIN Universe} : DeleteModel(m)
    \/ sq_request = NoRequest /\ \E rq \in Requests : Ask(rq)

SQ_Spec == SQ_Init /\ [][SQ_Next]_sq_vars
-----------------------------------------------------------------------------
(* What a request asks for. *)
Matching(rq) ==
    {r \in ToSet(sq_store) :
        /\ \A k \in 1..4 : Slots(rq)[k] = <<>> \/ Contains(Slots(rq)[k], r[k])
        /\ BindSame(r, rq.same) /\ GraphOk(r, rq)}

Wanted(rq) == {Row(r, rq) : r \in Matching(rq)}

(* Whichever way the segments walk their indexes, and however the subjects *)
(* are spread over them, a request without a limit returns the rows of     *)
(* just those quads that match it; a request that returns no slots has a   *)
(* match exactly when such a quad exists.                                  *)
BindFindsMatches ==
    (sq_request.kind = "bind" /\ (sq_request.limit = NoLimit \/ sq_request.bind = {})) =>
        ToSet(Answers(sq_request)) = Wanted(sq_request)

(* A request with a limit returns rows that match, and when it leaves a    *)
(* row out, hit_limits tells: the warning that the results are incomplete  *)
(* rests on it.                                                            *)
LimitsAreReported ==
    (sq_request.kind = "bind" /\ sq_request.limit # NoLimit /\ sq_request.bind # {}) =>
        /\ ToSet(Answers(sq_request)) \subseteq Wanted(sq_request)
        /\ ToSet(Answers(sq_request)) # Wanted(sq_request) => HitLimits(sq_request) > 0

(* A reverse bind returns the subjects that have, in the models asked for, *)
(* every one of the predicate and object pairs.                            *)
ReverseBindIntersects ==
    sq_request.kind = "reverse" =>
        ToSet(ReverseAnswers(sq_request)) =
            {s \in {r[Subject] : r \in ToSet(sq_store)} :
                \A i \in DOMAIN sq_request.p : \E r \in ToSet(sq_store) :
                    /\ r[Subject] = s /\ r[Predicate] = sq_request.p[i] /\ r[Object] = sq_request.o[i]
                    /\ sq_request.m = <<>> \/ Contains(sq_request.m, r[Model])}

(* The segments together answer a request with what matches it in the      *)
(* store: the three statements above.                                      *)
SegmentsFindMatches == BindFindsMatches /\ LimitsAreReported /\ ReverseBindIntersects
=============================================================================
