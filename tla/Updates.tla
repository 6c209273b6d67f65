------------------------------ MODULE Updates ------------------------------
(***************************************************************************)
(* SPARQL updates: fs_update and the operations of frontend/update.c.      *)
(*                                                                         *)
(* A request is a sequence of operations.  What an operation deletes is    *)
(* gone at once; what it inserts waits in the backends until the request   *)
(* (or a LOAD) commits it, and until then is seen neither by the binds of  *)
(* the operations after it nor by their deletes.  Binds go through the     *)
(* bind cache, which is flushed only between requests.                     *)
(*                                                                         *)
(* A node is a URI, a blank node or a literal with the language tag its id *)
(* is made of; a template has variables and labels of blank nodes too.     *)
(*                                                                         *)
(* OddUpdates: requests the code does not do in the order they are         *)
(* written: "pending", an operation is about a graph with inserts that     *)
(* wait; "cached", it binds what an earlier one has bound and changed;     *)
(* "unbound", it inserts a subject or an object that has no value; "per    *)
(* row", a blank node of a template belongs to several rows; "lower case", *)
(* a language tag has small letters; "fail", the backends fail to delete a *)
(* graph, or part of it.                                                   *)
(***************************************************************************)
EXTENDS Integers, Sequences, FiniteSets, SequencesExt

CONSTANTS
    UpdateOps,      \* the operations requests are made of
    MaxOps,         \* bound on the operations of a request
    InitialQuads,   \* what the store may have before the request
    OddUpdates

ASSUME UpdatesAssumption ==
    /\ MaxOps \in Nat
    /\ OddUpdates \subseteq {"pending", "cached", "unbound", "per row", "lower case", "fail"}

VARIABLES
    up,       \* what fs_update has done, see UP_Init
    up_ref,   \* what the operations mean, one after another
    up_op     \* the operations of the request so far

upvars == <<up, up_ref, up_op>>

Uri(n) == <<"uri", n>>
Bnode(n) == <<"bnode", n>>
NullNode == Bnode(0)        \* FS_RID_NULL is the id of a blank node
DefaultGraph == Uri(0)
NoGraph == <<"none">>       \* a template outside GRAPH, in an operation without WITH
NoWhere == [g |-> NoGraph, t |-> <<>>]
IsUri(t) == t[1] = "uri"
IsLiteral(t) == t[1] = "lit"
IsBnode(t) == t[1] = "bnode"
IsVar(t) == t[1] = "var"
IsLabel(t) == t[1] = "label"
Quad(g, t) == <<g, t[1], t[2], t[3]>>
Triple(q) == <<q[2], q[3], q[4]>>
OfGraph(quads, g) == {q \in quads : q[1] = g}

Terms(quads) == UNION {{q[i] : i \in 1 .. 4} : q \in quads}
Text(t) == [rid |-> t, lex |-> t[2], attr |-> IF IsLiteral(t) THEN t[3] ELSE "uri"]
TextsOf(quads) == {Text(t) : t \in {u \in Terms(quads) : IsUri(u) \/ IsLiteral(u)}}

UP_Init ==
    /\ \E quads \in InitialQuads :
        /\ up = [db |-> quads, pend |-> {}, cache |-> {}, ids |-> {}, next |-> 10,
                 texts |-> TextsOf(quads), state |-> "running"]
        /\ up_ref = quads
    /\ up_op = <<>>
-----------------------------------------------------------------------------
(* fs_bnode_id: a label has one id until fs_hash_freshen. *)
Named(st, labels) ==
    LET new == SetToSeq({l \in labels : ~\E e \in st.ids : e[1] = l})
    IN [st EXCEPT !.ids = @ \cup {<<new[i], st.next + i>> : i \in DOMAIN new}, !.next = @ + Len(new)]
IdOf(st, label) == Bnode((CHOOSE e \in st.ids : e[1] = label)[2])
Freshened(st) == [st EXCEPT !.ids = {}]

(* fs_bind_cache_wrapper: answer is what the backends would say. *)
Cached(st, key) == \E e \in st.cache : e.key = key
Answer(st, key, answer) == IF Cached(st, key) THEN (CHOOSE e \in st.cache : e.key = key).rows ELSE answer
Remember(st, key, answer) ==
    IF Cached(st, key) THEN st ELSE [st EXCEPT !.cache = @ \cup {[key |-> key, rows |-> answer]}]

(* fs_hash_rasqal_literal: tags are upper case in ids. *)
Upper(tag) == IF tag = "en" THEN "EN" ELSE tag
fs_hash_rasqal_literal(st, t, row) ==
    CASE IsVar(t) -> row[t[2]]
      [] IsLabel(t) -> IdOf(st, t)
      [] IsLiteral(t) -> <<"lit", t[2], Upper(t[3])>>
      [] OTHER -> t

(* fs_resource_from_rasqal_literal, for the term with id rid: the tag as   *)
(* it was written; nothing for a variable.                                 *)
fs_resource_from_rasqal_literal(rid, t) ==
    IF IsUri(t) \/ IsLiteral(t)
    THEN {[rid |-> rid, lex |-> t[2], attr |-> IF IsLiteral(t) THEN t[3] ELSE "uri"]} ELSE {}
-----------------------------------------------------------------------------
(* delete_rasqal_triple: the quads of quads it removes for one row. *)
delete_rasqal_triple(st, quads, template, row) ==
    LET m == IF template.g = NoGraph THEN NoGraph ELSE fs_hash_rasqal_literal(st, template.g, row)
        t == [i \in 1 .. 3 |-> fs_hash_rasqal_literal(st, template.t[i], row)]
    IN IF NullNode \in {m, t[1], t[2], t[3]} THEN {}
       ELSE {q \in quads : Triple(q) = t /\ (m # NoGraph => q[1] = m)}

(* insert_rasqal_triple: the quad it inserts for one row, if any. *)
insert_rasqal_triple(st, template, row) ==
    LET g == IF template.g = NoGraph THEN DefaultGraph ELSE fs_hash_rasqal_literal(st, template.g, row)
        t == [i \in 1 .. 3 |-> fs_hash_rasqal_literal(st, template.t[i], row)]
    IN IF ~IsUri(g) \/ IsLiteral(t[1]) \/ ~IsUri(t[2]) THEN {} ELSE {Quad(g, t)}

(* The texts it sends with the quad. *)
InsertedTexts(st, template, row) ==
    {Text(DefaultGraph)} \cup UNION {fs_resource_from_rasqal_literal(
            fs_hash_rasqal_literal(st, t, row), t) :
        t \in {template.g, template.t[1], template.t[2], template.t[3]}}

(* The rows of WHERE { GRAPH g { s p o } OPTIONAL { } }: y may be unbound. *)
Matches(pattern, quads) ==
    LET Fits(t, v) == IsVar(t) \/ t = v
        Row(q) == [v \in {"x", "y"} |->
            LET at == {i \in 1 .. 3 : pattern.t[i] = <<"var", v>>}
            IN IF at = {} THEN NullNode ELSE Triple(q)[CHOOSE i \in at : TRUE]]
    IN {Row(q) : q \in {r \in OfGraph(quads, pattern.g) : \A i \in 1 .. 3 : Fits(pattern.t[i], Triple(r)[i])}}

AnyVars(template) == IsVar(template.g) \/ \E i \in 1 .. 3 : IsVar(template.t[i])
LabelsIn(templates) == {l \in UNION {{p.t[i] : i \in 1 .. 3} : p \in templates} : IsLabel(l)}
NoRow == [v \in {"x", "y"} |-> NullNode]

(* UPDATE: the templates with variables once per row, deletes first, then  *)
(* the templates without, deletes first again.                             *)
Modify(st0, op) ==
    LET st == Named(Freshened(st0), LabelsIn(op.del \cup op.ins))
        key == <<"where", op.where>>
        rows == IF op.where = NoWhere THEN {} ELSE Answer(st, key, Matches(op.where, st.db))
        bound == IF op.where = NoWhere THEN st ELSE Remember(st, key, Matches(op.where, st.db))
        Pairs(templates) == {p \in templates : AnyVars(p)} \X rows
        Constant(templates) == {p \in templates : ~AnyVars(p)} \X {NoRow}
        dels == Pairs(op.del) \cup Constant(op.del)
        inss == Pairs(op.ins) \cup Constant(op.ins)
    IN IF op.where = NoWhere /\ \E p \in op.del : AnyVars(p) THEN [st EXCEPT !.state = "failed"]
       ELSE Freshened(
            [bound EXCEPT
                !.db = @ \ UNION {delete_rasqal_triple(bound, @, d[1], d[2]) : d \in dels},
                !.pend = @ \cup UNION {insert_rasqal_triple(bound, i[1], i[2]) : i \in inss},
                !.texts = @ \cup UNION {InsertedTexts(bound, i[1], i[2]) :
                    i \in {j \in inss : insert_rasqal_triple(bound, j[1], j[2]) # {}}}])
-----------------------------------------------------------------------------
(* fsp_delete_model_all: the outcomes, with the graph in part gone if the  *)
(* backends of some segments failed.                                       *)
Deletions(st, g) ==
    {[done |-> TRUE, st |-> [st EXCEPT !.db = @ \ OfGraph(@, g)]]}
    \cup IF "fail" \notin OddUpdates THEN {}
         ELSE {[done |-> FALSE, st |-> [st EXCEPT !.db = @ \ some]] : some \in SUBSET OfGraph(st.db, g)}

(* The triples of a graph, as fs_add, fs_move and fs_copy bind them. *)
Contents(st, g) == Answer(st, <<"graph", g>>, {Triple(q) : q \in OfGraph(st.db, g)})
WithContents(st, g) == Remember(st, <<"graph", g>>, {Triple(q) : q \in OfGraph(st.db, g)})

(* "see if there's any data in <from>" *)
HasData(st, g) == Answer(st, <<"any", g>>, OfGraph(st.db, g) # {})
WithHasData(st, g) == Remember(st, <<"any", g>>, OfGraph(st.db, g) # {})

(* map_bnodes: every blank node of the triples gets another id. *)
map_bnodes(st0, triples) ==
    LET bnodes == {n \in UNION {{t[i] : i \in 1 .. 3} : t \in triples} : IsBnode(n) /\ n # NullNode}
        st == Named(st0, {<<"label", n>> : n \in bnodes})
    IN [st |-> st,
        triples |-> {[i \in 1 .. 3 |-> IF t[i] \in bnodes THEN IdOf(st, <<"label", t[i]>>) ELSE t[i]] :
                     t \in triples}]

(* insert_triples and the text of the graph *)
insert_triples(st, to, triples) ==
    [st EXCEPT !.pend = @ \cup {Quad(to, t) : t \in triples}, !.texts = @ \cup {Text(to)}]

fs_clear(st, g) == {d.st : d \in Deletions(st, g)}

\* fs_import and fs_import_commit, see ImportStream; fsp_start_import_all may fail.
fs_load(st, doc, g) ==
    LET quads == {Quad(g, t) : t \in doc}
    IN {Freshened([st EXCEPT !.db = @ \cup st.pend \cup quads, !.pend = {},
                             !.texts = @ \cup TextsOf(quads)])}
       \cup IF "fail" \in OddUpdates THEN {st} ELSE {}

fs_add(st, from, to) ==
    LET read == WithContents(st, from)
        copy == map_bnodes(read, Contents(st, from))
    IN IF from = to THEN {st}
       ELSE IF Contents(st, from) = {} THEN {read}
       ELSE {insert_triples(copy.st, to, copy.triples)}

\* Mutant: what is there is looked at once the graph is deleted.
MoveAfterDelete(st, from, to) ==
    IF from = to \/ ~HasData(st, from) THEN {st}
    ELSE {insert_triples(d.st, to, {Triple(q) : q \in OfGraph(d.st.db, from)}) :
          d \in UNION {Deletions(e.st, from) : e \in Deletions(WithHasData(st, from), to)}}

fs_move(st, from, to) ==
    LET read == WithContents(WithHasData(st, from), from)
    IN IF from = to THEN {st}
       ELSE IF ~HasData(st, from) THEN {WithHasData(st, from)}
       ELSE UNION {IF ~d.done THEN {d.st}
                   ELSE {IF e.done THEN insert_triples(e.st, to, Contents(read, from)) ELSE e.st :
                         e \in Deletions(d.st, from)} :
                   d \in Deletions(read, to)}

fs_copy(st, from, to) ==
    LET read == WithContents(WithHasData(st, from), from)
        copy == map_bnodes(read, Contents(read, from))
    IN IF from = to THEN {st}
       ELSE IF ~HasData(st, from) THEN {WithHasData(st, from)}
       ELSE {IF d.done THEN insert_triples(d.st, to, copy.triples) ELSE d.st : d \in Deletions(copy.st, to)}

(* update_op: only an unknown operation and DELETE WHERE stop the request. *)
update_op(st, op) ==
    CASE op.type = "unknown" -> {[st EXCEPT !.state = "failed"]}
      [] op.type = "create" -> {st}
      [] op.type = "clear" -> fs_clear(st, op.g)
      [] op.type = "load" -> fs_load(st, op.doc, op.g)
      [] op.type = "add" -> fs_add(st, op.from, op.to)
      [] op.type = "move" -> fs_move(st, op.from, op.to)
      [] op.type = "copy" -> fs_copy(st, op.from, op.to)
      [] op.type = "update" -> {Modify(st, op)}
-----------------------------------------------------------------------------
(* What an operation means for a store in which every change is seen. *)
Detached(t) == IF IsBnode(t) THEN <<"bnode", "copied", t>> ELSE t
MeantMove(quads, from, to) == {Quad(to, Triple(q)) : q \in OfGraph(quads, from)}
MeantCopy(quads, from, to) ==
    {Quad(to, [i \in 1 .. 3 |-> Detached(Triple(q)[i])]) : q \in OfGraph(quads, from)}
MeantRows(quads, op) == IF op.where = NoWhere THEN {} ELSE Matches(op.where, quads)
MeantValue(t, row, n) ==
    CASE IsVar(t) -> row[t[2]]
      [] IsLabel(t) -> <<"bnode", n, row, t>>
      [] IsLiteral(t) -> <<"lit", t[2], Upper(t[3])>>
      [] OTHER -> t
MeantQuad(template, row, n) ==
    <<IF template.g = NoGraph THEN NoGraph ELSE MeantValue(template.g, row, n),
      MeantValue(template.t[1], row, n), MeantValue(template.t[2], row, n), MeantValue(template.t[3], row, n)>>
MeantQuads(templates, rows, n) ==
    {MeantQuad(p, row, n) : p \in {t \in templates : AnyVars(t)}, row \in rows}
    \cup {MeantQuad(p, NoRow, n) : p \in {t \in templates : ~AnyVars(t)}}
Meant(quads, op, n) ==
    CASE op.type = "clear" -> quads \ OfGraph(quads, op.g)
      [] op.type = "load" -> quads \cup {Quad(op.g, t) : t \in op.doc}
      [] op.type = "add" /\ op.from # op.to -> quads \cup MeantCopy(quads, op.from, op.to)
      [] op.type \in {"move", "copy"} ->
            IF op.from = op.to \/ OfGraph(quads, op.from) = {} THEN quads
            ELSE IF op.type = "copy"
                 THEN (quads \ OfGraph(quads, op.to)) \cup MeantCopy(quads, op.from, op.to)
                 ELSE (quads \ (OfGraph(quads, op.to) \cup OfGraph(quads, op.from)))
                      \cup MeantMove(quads, op.from, op.to)
      [] op.type = "update" ->
            LET rows == MeantRows(quads, op)
                gone == {q \in quads : \E d \in MeantQuads(op.del, rows, n) :
                            Triple(q) = Triple(d) /\ d[1] \in {NoGraph, q[1]}}
                new == {<<IF d[1] = NoGraph THEN DefaultGraph ELSE d[1], d[2], d[3], d[4]>> :
                        d \in {e \in MeantQuads(op.ins, rows, n) :
                            NullNode \notin {e[i] : i \in 2 .. 4} /\ ~IsLiteral(e[2]) /\ IsUri(e[3])}}
            IN (quads \ gone) \cup new
      [] OTHER -> quads

(* The graphs an operation binds or deletes from. *)
GraphsSeen(op) ==
    CASE op.type = "clear" -> {op.g}
      [] op.type = "add" -> {op.from}
      [] op.type \in {"move", "copy"} -> {op.from, op.to}
      [] op.type = "update" -> (IF op.where = NoWhere THEN {} ELSE {op.where.g})
                               \cup {p.g : p \in op.del}
      [] OTHER -> {}
KeysOf(op) ==
    CASE op.type \in {"add", "move", "copy"} -> {<<"graph", op.from>>, <<"any", op.from>>}
      [] op.type = "update" -> {<<"where", op.where>>}
      [] OTHER -> {}
TruthOf(key) ==
    CASE key[1] = "graph" -> {Triple(q) : q \in OfGraph(up.db, key[2])}
      [] key[1] = "any" -> OfGraph(up.db, key[2]) # {}
      [] key[1] = "where" -> IF key[2] = NoWhere THEN {} ELSE Matches(key[2], up.db)
RowsOfOp(op) == IF op.type = "update" THEN MeantRows(up.db, op) ELSE {}

Usual(op) ==
    /\ "pending" \notin OddUpdates =>
        \A q \in up.pend : GraphsSeen(op) \cap {q[1], NoGraph} = {}
    /\ "cached" \notin OddUpdates =>
        \A e \in up.cache : e.key \in KeysOf(op) => e.rows = TruthOf(e.key)
    /\ op.type = "update" =>
        /\ "unbound" \notin OddUpdates =>
            \A p \in op.ins : \A row \in RowsOfOp(op) : AnyVars(p) =>
                \A i \in {1, 3} : MeantValue(p.t[i], row, 0) # NullNode
        /\ "per row" \notin OddUpdates =>
            (LabelsIn({p \in op.ins : AnyVars(p)}) # {} => Cardinality(RowsOfOp(op)) <= 1)
        /\ "lower case" \notin OddUpdates =>
            \A p \in op.ins : \A i \in 1 .. 3 : IsLiteral(p.t[i]) => p.t[i][3] = Upper(p.t[i][3])

(* One turn of the loop of fs_update. *)
DoOperation ==
    /\ up.state = "running" /\ Len(up_op) < MaxOps
    /\ \E op \in UpdateOps :
        /\ Usual(op)
        /\ up' \in update_op(up, op)
        /\ up_op' = Append(up_op, op)
        /\ up_ref' = IF up'.state = "failed" THEN up_ref ELSE Meant(up_ref, op, Len(up_op))

(* fs_update commits, whatever became of the operations; the cache is      *)
(* flushed by its caller.                                                  *)
EndUpdate ==
    /\ up.state \in {"running", "failed"}
    /\ up' = [up EXCEPT !.db = @ \cup up.pend, !.pend = {}, !.cache = {},
                        !.state = IF @ = "running" THEN "done" ELSE "refused"]
    /\ UNCHANGED <<up_ref, up_op>>

UP_Next == DoOperation \/ EndUpdate
-----------------------------------------------------------------------------
BnodesOf(quads) == {n \in Terms(quads) : IsBnode(n) /\ n # NullNode}

(* Two graphs are the same up to the names of blank nodes. *)
SameGraph(a, b) ==
    /\ Cardinality(BnodesOf(a)) = Cardinality(BnodesOf(b))
    /\ \E f \in [BnodesOf(a) -> BnodesOf(b)] :
        {<<q[1]>> \o [i \in 1 .. 3 |-> IF q[i + 1] \in DOMAIN f THEN f[q[i + 1]] ELSE q[i + 1]] : q \in a} = b

(* A request leaves every graph as its operations, done one after another  *)
(* on a store in which each change is seen, would leave it, up to the      *)
(* names of blank nodes; a refused request has done the operations before  *)
(* the one it was refused for (fs_update commits in any case).             *)
UpdateIsSequential ==
    up.state \in {"done", "refused"} =>
        \A g \in {q[1] : q \in up.db \cup up_ref} : SameGraph(OfGraph(up.db, g), OfGraph(up_ref, g))

(* Every URI and every literal of the store, committed or waiting, has a   *)
(* text, and no text has another id than its own: the attribute that is    *)
(* sent with a literal is the one its id was made of.                      *)
TextsComeWithQuads ==
    /\ \A t \in Terms(up.db \cup up.pend) : IsUri(t) \/ IsLiteral(t) => \E r \in up.texts : r.rid = t
    /\ \A r \in up.texts : r = Text(r.rid)

(* ADD and COPY give the blank nodes of what they copy new ids ("this      *)
(* assigns them new RIDs"): in a request of such operations no blank node  *)
(* of the store is in what waits to be committed.                          *)
CopiesAreDetached ==
    (\A n \in DOMAIN up_op : up_op[n].type \in {"add", "copy"}) => BnodesOf(up.pend) \cap BnodesOf(up.db) = {}

(* An update request does what its operations say, with the texts of what  *)
(* it stores and without sharing blank nodes: the three statements above.  *)
UpdatesAreExact == UpdateIsSequential /\ TextsComeWithQuads /\ CopiesAreDetached
=============================================================================
