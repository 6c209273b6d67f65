---------------------------- MODULE ImportStream ----------------------------
(***************************************************************************)
(* The import of RDF documents, frontend/import.c: the stream of an HTTP   *)
(* request (fs_import_stream_start, _data, _finish), and the files of      *)
(* 4s-import and of LOAD (fs_import for each, then fs_import_commit).      *)
(*                                                                         *)
(* Both use one set of static variables: the buffers of resources, one for *)
(* each segment, the cache of resources already sent, the temporary file   *)
(* of quads, and the configuration of the text index, which is read from   *)
(* the store when the first statement after a reset comes.                 *)
(*                                                                         *)
(* A document is the sequence of statements the parser finds in it.  Texts *)
(* and quads go to the backends, where they wait to be committed.          *)
(*                                                                         *)
(* OddImports: "no graph", a statement without a graph comes after one     *)
(* with a graph; "config inside", a document has statements both for       *)
(* system:config and for another graph; "config update", SPARQL updates    *)
(* change the configuration; "file after stream", LOAD in a process that   *)
(* has had a stream; "fail", a link refuses resources or ids of blank      *)
(* nodes.                                                                  *)
(***************************************************************************)
EXTENDS Integers, Sequences, FiniteSets, SequencesExt

CONSTANTS
    ImportGraphs,     \* graphs documents are imported into, Config among them
    Statements,       \* what documents consist of: [g, s, p, o]
    HomeOf,           \* the segment of a resource
    CacheSlot,        \* the place of a resource in nodecache
    ResBufSize,       \* RES_BUF_SIZE
    ChunkSize,        \* FS_CHUNK_SIZE
    IdRange,          \* how many ids fsp_bnode_alloc gives
    MaxStatements, MaxDocuments,
    OddImports

ASSUME ImportStreamAssumption ==
    /\ {ResBufSize, ChunkSize, IdRange} \subseteq Nat \ {0}
    /\ {MaxStatements, MaxDocuments} \subseteq Nat
    /\ OddImports \subseteq {"no graph", "config inside", "config update", "file after stream", "fail"}

VARIABLES
    im,        \* the static variables of import.c, see IM_Init
    im_db,     \* what the backends have: quads and texts, waiting and committed
    im_doc,    \* the document being read: its number, graph, statements and whether all was well
    im_ids,    \* ids handed out by the backends
    im_names,  \* the labels of blank nodes with the ids they got: [doc, label, id]
    im_meant   \* the quads that should be in the store

imvars == <<im, im_db, im_doc, im_ids, im_names, im_meant>>

Segments == {HomeOf[t] : t \in DOMAIN HomeOf}
Slots == {CacheSlot[t] : t \in DOMAIN CacheSlot}
Config == <<"uri", "config">>
TextIndex == <<"uri", "text index">>
TokenPred == <<"uri", "token">>
DefaultOf == <<"none">>
NothingCached == <<"none">>
Bn(id) == <<"bnode", id>>
IsText(t) == t[1] \in {"uri", "lit"}
Token(t) == <<"lit", t[2], "token">>
NoDocument == [n |-> 0, graph |-> DefaultOf, length |-> 0, well |-> TRUE]

IM_Init ==
    /\ im = [mode |-> "idle", inited |-> FALSE, lex |-> FALSE, fd |-> FALSE,
             res |-> [s \in Segments |-> <<>>], cache |-> [s \in Slots |-> NothingCached],
             file |-> <<>>, model |-> DefaultOf, count |-> 0, bnids |-> {}, next |-> 1, max |-> 0,
             read |-> FALSE, tokens |-> {}, sent |-> FALSE]
    /\ im_db = [quads |-> {}, texts |-> {}, pend |-> {}, told |-> {}]
    /\ im_doc = NoDocument
    /\ im_ids = {} /\ im_names = {} /\ im_meant = {}
-----------------------------------------------------------------------------
(* A state of the operators below: m the static variables, told the texts  *)
(* sent to the backends, pend the quads sent, and whether the link refuses *)
(* resources.                                                              *)
St(m, told, pend) == [m |-> m, told |-> told, pend |-> pend, refused |-> FALSE]

(* A resource for a buffer: a full buffer is sent, and if that is refused  *)
(* stays as long as it is.                                                 *)
Buffered(st, t) ==
    LET seg == HomeOf[t]
        marked == [st EXCEPT !.m.cache[CacheSlot[t]] = t, !.m.res[seg] = Append(@, t)]
    IN IF Len(marked.m.res[seg]) < ResBufSize \/ st.refused THEN marked
       ELSE [marked EXCEPT !.m.res[seg] = <<>>, !.told = @ \cup Range(marked.m.res[seg])]

(* buffer_res: nothing for blank nodes and for what was sent. *)
buffer_res(st, t) ==
    IF ~IsText(t) \/ st.m.cache[CacheSlot[t]] = t THEN st ELSE Buffered(st, t)

\* process_quads: the temporary file goes to the segments of its quads and is emptied.
process_quads(st) == [st EXCEPT !.m.file = <<>>, !.pend = @ \cup Range(st.m.file)]

\* buffer_quad
buffer_quad(st, quad) == [st EXCEPT !.m.file = Append(@, quad)]

(* buffer_tokens: the tokens of a literal, one here. *)
buffer_tokens(st, g, s, o) ==
    LET named == IF st.m.sent THEN st ELSE buffer_res(st, TokenPred)
    IN buffer_quad(buffer_res([named EXCEPT !.m.sent = TRUE], Token(o)), <<g, s, TokenPred, Token(o)>>)

(* fs_bnode_id: a label keeps its id; a new range is fetched when the last *)
(* one is used up.  Here the backends hand out the ids after max.          *)
fs_bnode_id(m, label) ==
    IF \E e \in m.bnids : e[1] = label THEN m
    ELSE LET fresh == IF m.next > m.max THEN [m EXCEPT !.next = m.max + 1, !.max = m.max + IdRange] ELSE m
         IN [fresh EXCEPT !.bnids = @ \cup {<<label, fresh.next>>}, !.next = @ + 1]
\* The same when the backends do not answer: from and to stay as they were.
BnodeIdUnanswered(m, label) ==
    IF \E e \in m.bnids : e[1] = label THEN m
    ELSE [m EXCEPT !.bnids = @ \cup {<<label, m.next>>}, !.next = @ + 1]
IdOfLabel(m, t) == IF t[1] = "label" THEN Bn((CHOOSE e \in m.bnids : e[1] = t[2])[2]) ELSE t

\* The predicates configured for tokens, in the committed quads.
Configured(quads) == {q[2] : q \in {r \in quads : r[1] = Config /\ r[3] = TextIndex}}

\* Mutant: the graph of a statement is not looked at.
ModelOfImport(st, x) == st

(* The graph of the statement becomes the current one and stays so. *)
SwitchModel(st, x) ==
    IF x.g = DefaultOf \/ x.g = st.m.model THEN st
    ELSE buffer_res([st EXCEPT !.m.model = x.g], x.g)

(* store_stmt, after the blank nodes have their ids. *)
store_stmt(st0, x) ==
    LET read == IF st0.m.read THEN st0
                ELSE [st0 EXCEPT !.m.read = TRUE, !.m.tokens = Configured(im_db.quads)]
        st == SwitchModel(read, x)
        g == st.m.model
        s == IdOfLabel(st.m, x.s)
        o == IdOfLabel(st.m, x.o)
        indexed == IF o[1] = "lit" /\ x.p \in st.m.tokens THEN buffer_tokens(st, g, s, o) ELSE st
        Texts(a, t) == IF IsText(t) THEN buffer_res(a, t) ELSE a
        stored == buffer_quad(Texts(Texts(Texts(indexed, s), x.p), o), <<g, s, x.p, o>>)
        counted == [stored EXCEPT !.m.count = (@ + 1) % ChunkSize]
    IN IF counted.m.count = 0 THEN process_quads(counted) ELSE counted

Now == St(im, im_db.told, im_db.pend)
Becomes(st) == im' = st.m /\ im_db' = [im_db EXCEPT !.told = st.told, !.pend = st.pend]
-----------------------------------------------------------------------------
(* What is common to the starts: the document for graph g. *)
NewDocument(g) ==
    /\ im_doc.n < MaxDocuments
    /\ im_doc' = [NoDocument EXCEPT !.n = im_doc.n + 1, !.graph = g]

(* fs_import_stream_start *)
StreamStart(g) ==
    /\ im.mode = "idle" /\ NewDocument(g)
    /\ Becomes(buffer_res(
            [Now EXCEPT !.m = [@ EXCEPT !.mode = "stream", !.inited = TRUE, !.lex = TRUE, !.fd = TRUE,
                                        !.cache = [s \in Slots |-> NothingCached], !.file = <<>>,
                                        !.model = g, !.bnids = {}]], g))
    /\ UNCHANGED <<im_ids, im_names, im_meant>>

(* fs_import, up to its parser: only the first file of a session makes     *)
(* buffers and the temporary file.                                         *)
FileStart(g) ==
    /\ im.mode \in {"idle", "session"} /\ NewDocument(g)
    /\ im.inited /\ ~im.lex => "file after stream" \in OddImports
    /\ LET opened == IF im.inited THEN im
                     ELSE [im EXCEPT !.inited = TRUE, !.lex = TRUE, !.fd = TRUE, !.file = <<>>,
                                     !.cache = [s \in Slots |-> NothingCached]]
       IN Becomes(buffer_res([Now EXCEPT !.m = [opened EXCEPT !.mode = "file", !.model = g]], g))
    /\ UNCHANGED <<im_ids, im_names, im_meant>>

(* The parser calls store_stmt. *)
LabelsOf(x) == {t[2] : t \in {u \in {x.s, x.o} : u[1] = "label"}}
Meaning(x, n) ==
    LET Name(t) == IF t[1] = "label" THEN <<"bnode", n, t[2]>> ELSE t
        g == IF x.g = DefaultOf THEN im_doc.graph ELSE x.g
    IN {<<g, Name(x.s), x.p, Name(x.o)>>}
       \cup IF x.o[1] = "lit" /\ x.p \in Configured(im_db.quads) THEN {<<g, Name(x.s), TokenPred, Token(x.o)>>} ELSE {}

Statement(x) ==
    /\ im.mode \in {"stream", "file"} /\ im_doc.length < MaxStatements
    /\ x.g = DefaultOf /\ im.model # im_doc.graph => "no graph" \in OddImports
    /\ x.g \notin {DefaultOf, im_doc.graph} /\ Config \in {x.g, im_doc.graph} => "config inside" \in OddImports
    /\ \E link \in {"works"} \cup IF "fail" \in OddImports THEN {"no ids", "no resources"} ELSE {} :
        LET One(m, l) == IF link # "no ids" THEN fs_bnode_id(m, l) ELSE BnodeIdUnanswered(m, l)
            named == FoldLeft(One, im, SetToSeq(LabelsOf(x)))
        IN /\ Becomes(store_stmt([Now EXCEPT !.m = named, !.refused = (link = "no resources")], x))
           /\ im_ids' = im_ids \cup (im.max + 1) .. named.max
           /\ im_names' = im_names \cup {[doc |-> im_doc.n, label |-> e[1], id |-> e[2]] : e \in named.bnids}
           /\ im_doc' = [im_doc EXCEPT !.length = @ + 1, !.well = @ /\ link = "works"]
    /\ im_meant' = im_meant \cup Meaning(x, im_doc.n)

(* The buffers that are not empty are sent and emptied. *)
Flushed(st) == St([st.m EXCEPT !.res = [s \in Segments |-> <<>>]],
                  st.told \cup UNION {Range(st.m.res[s]) : s \in Segments}, st.pend)

(* The end of fs_import_stream_finish and of fs_import_commit: quads to    *)
(* the backends, then resources, commit of resources, commit of quads.     *)
Commit(st, last) ==
    LET all == Flushed(process_quads(st))
    IN /\ im' = last
       /\ im_db' = [quads |-> im_db.quads \cup all.pend, texts |-> im_db.texts \cup all.told,
                    pend |-> {}, told |-> {}]

(* fs_import_stream_finish; inited stays set. *)
StreamFinish ==
    /\ im.mode = "stream"
    /\ Commit(Now, [im EXCEPT !.mode = "idle", !.lex = FALSE, !.fd = FALSE, !.file = <<>>, !.model = DefaultOf,
                              !.res = [s \in Segments |-> <<>>],
                              !.read = @ /\ im.model # Config])
    /\ UNCHANGED <<im_doc, im_ids, im_names, im_meant>>

(* The rest of fs_import: blank nodes are unique per file; quads of the    *)
(* configuration are committed at once.                                    *)
FileEnd ==
    /\ im.mode = "file"
    /\ LET st == IF im.model = Config THEN process_quads(Now) ELSE Now
       IN /\ im' = [st.m EXCEPT !.mode = "session", !.bnids = {}, !.read = @ /\ im.model # Config]
          /\ im_db' = [im_db EXCEPT !.quads = IF im.model = Config THEN @ \cup st.pend ELSE @,
                                    !.pend = IF im.model = Config THEN {} ELSE @]
    /\ UNCHANGED <<im_doc, im_ids, im_names, im_meant>>

(* fs_import_commit *)
FileCommit ==
    /\ im.mode = "session"
    /\ Commit(Now, [im EXCEPT !.mode = "idle", !.inited = FALSE, !.lex = FALSE, !.fd = FALSE, !.file = <<>>,
                              !.model = DefaultOf, !.res = [s \in Segments |-> <<>>]])
    /\ UNCHANGED <<im_doc, im_ids, im_names, im_meant>>

(* DELETE of system:config by HTTP (httpd.c) resets the configuration; a   *)
(* SPARQL update that deletes the same does not.                           *)
DeleteConfig ==
    /\ im.mode = "idle" /\ Configured(im_db.quads) # {}
    /\ im_db' = [im_db EXCEPT !.quads = {q \in @ : q[1] # Config}]
    /\ im_meant' = {q \in im_meant : q[1] # Config}
    /\ \E reset \in {TRUE} \cup IF "config update" \in OddImports THEN {FALSE} ELSE {} :
        im' = [im EXCEPT !.read = @ /\ ~reset]
    /\ UNCHANGED <<im_doc, im_ids, im_names>>

IM_Next ==
    \/ \E g \in ImportGraphs : StreamStart(g) \/ FileStart(g)
    \/ \E x \in Statements : Statement(x)
    \/ StreamFinish \/ FileEnd \/ FileCommit \/ DeleteConfig
-----------------------------------------------------------------------------
NodesOf(quads) == UNION {{q[i] : i \in 1 .. 4} : q \in quads}
NameOf(n) == CHOOSE e \in im_names : e.doc = n[2] /\ e.label = n[3]
AsStored(q) == [i \in 1 .. 4 |-> IF q[i][1] = "bnode" THEN Bn(NameOf(q[i]).id) ELSE q[i]]

(* Between imports the store has exactly the quads of the statements that  *)
(* were read, each in the graph it names or else in the graph of its       *)
(* document, with one token quad for a literal whose predicate is          *)
(* configured for it in the store.                                         *)
ImportedExactly ==
    im.mode = "idle" /\ im_doc.well => im_db.quads = {AsStored(q) : q \in im_meant} /\ im_db.pend = {}

(* Between imports every URI and literal of the store has its text: the    *)
(* cache of what was sent, which is not emptied between the files of a     *)
(* session and is when a session begins, loses none.                       *)
ImportedTextsAreThere ==
    im.mode = "idle" /\ im_doc.well => {t \in NodesOf(im_db.quads) : IsText(t)} \subseteq im_db.texts

(* A label has one id within a document and another in every other; ids    *)
(* are ones the backends handed out.                                       *)
BnodesArePerDocument ==
    /\ \A d, e \in im_names : d.id = e.id <=> (d.doc = e.doc /\ d.label = e.label)
    /\ \A d \in im_names : d.id \in im_ids

(* While a document is read, the buffers of texts and the temporary file   *)
(* are there, and no buffer is longer than its array.                      *)
BuffersAreThere ==
    /\ im.mode \in {"stream", "file"} => im.lex /\ im.fd
    /\ \A s \in Segments : Len(im.res[s]) < ResBufSize

(* An import stores its document, no more and no less: the four statements *)
(* above.                                                                  *)
ImportsAreExact ==
    ImportedExactly /\ ImportedTextsAreThere /\ BnodesArePerDocument /\ BuffersAreThere
=============================================================================
