------------------------------ MODULE TermIds ------------------------------
(***************************************************************************)
(* How terms become ids: common/hash.c with the parts of common/umac.c     *)
(* that keep state between calls, and the places that hash a term of a     *)
(* document, a query, a filter or an update.                               *)
(*                                                                         *)
(* Every program computes ids by itself, so what one of them stored is     *)
(* found by another only if all of them normalise terms alike.  The UMAC   *)
(* context is one static variable; query threads call it without a lock.   *)
(*                                                                         *)
(* An id keeps what decides it: its two top bits (kind) and the text and   *)
(* attribute that were hashed, or the number of a blank node.              *)
(***************************************************************************)
EXTENDS Integers, Sequences, FiniteSets

CONSTANTS
    HashThreads,    \* the threads that hash
    HashTexts,      \* texts as sequences of L1_KEY_LEN pieces
    HashAttrs,      \* the nonces, the attributes of literals
    MaxHashes,      \* bound on the number of hashes computed
    StoredTerms,    \* the terms stored and sought
    MaxStored,      \* bound on how many are stored
    OddTerms        \* the terms of which programs disagree, see Plain

ASSUME TermIdsAssumption ==
    /\ HashThreads # {} /\ HashAttrs \subseteq Nat
    /\ OddTerms \subseteq {"boolean", "subtype", "filter tag", "update tag", "byte", "large bnode"}

VARIABLES
    ti_pdf,     \* the cached nonce and the nonce its pad was made from
    ti_poly,    \* the pieces the polynomial hash has taken in
    ti_job,     \* ti_job[t]: the umac call that thread t is in
    ti_ids,     \* the results of umac: text, nonce, id
    ti_kept,    \* the resources in the store
    ti_put      \* the terms that are in quads, each with its id there

tivars == <<ti_pdf, ti_poly, ti_job, ti_ids, ti_kept, ti_put>>
-----------------------------------------------------------------------------
(* UMAC.  A pad is AES of the nonce without its lowest bit, which chooses  *)
(* the half of the pad that is used.                                       *)
Base(nonce) == nonce \div 2
Half(nonce) == nonce % 2
NoJob == [text |-> <<>>, nonce |-> 0, step |-> "idle", left |-> <<>>, sum |-> <<>>]

(* uhash: a short text needs no state, a long one goes through the         *)
(* accumulators of the context piece by piece.                             *)
uhash(t) ==
    /\ ti_job[t].step = "idle" /\ Cardinality(ti_ids) < MaxHashes
    /\ \E text \in HashTexts, nonce \in HashAttrs :
        ti_job' = [ti_job EXCEPT ![t] =
            [text |-> text, nonce |-> nonce, left |-> text,
             step |-> IF Len(text) = 1 THEN "reset" ELSE "poly",
             sum |-> IF Len(text) = 1 THEN text ELSE <<>>]]
    /\ UNCHANGED <<ti_pdf, ti_poly, ti_ids, ti_kept, ti_put>>

poly_hash(t) ==
    /\ ti_job[t].step = "poly"
    /\ ti_poly' = Append(ti_poly, Head(ti_job[t].left))
    /\ ti_job' = [ti_job EXCEPT ![t].left = Tail(@), ![t].step = IF Len(ti_job[t].left) = 1 THEN "ip" ELSE "poly"]
    /\ UNCHANGED <<ti_pdf, ti_ids, ti_kept, ti_put>>

ip_long(t) ==
    /\ ti_job[t].step = "ip"
    /\ ti_job' = [ti_job EXCEPT ![t].sum = ti_poly, ![t].step = "reset"]
    /\ UNCHANGED <<ti_pdf, ti_poly, ti_ids, ti_kept, ti_put>>

uhash_reset(t) ==
    /\ ti_job[t].step = "reset"
    /\ ti_poly' = <<>>
    /\ ti_job' = [ti_job EXCEPT ![t].step = "nonce"]
    /\ UNCHANGED <<ti_pdf, ti_ids, ti_kept, ti_put>>

(* pdf_gen_xor: the nonce is compared with the cached one, *)
CompareNonce(t) ==
    /\ ti_job[t].step = "nonce"
    /\ LET base == Base(ti_job[t].nonce)
       IN  IF base = ti_pdf.nonce
           THEN ti_job' = [ti_job EXCEPT ![t].step = "xor"] /\ UNCHANGED ti_pdf
           ELSE ti_job' = [ti_job EXCEPT ![t].step = "pad"] /\ ti_pdf' = [ti_pdf EXCEPT !.nonce = base]
    /\ UNCHANGED <<ti_poly, ti_ids, ti_kept, ti_put>>

(* the pad is made from the nonce in the cache, *)
MakePad(t) ==
    /\ ti_job[t].step = "pad"
    /\ ti_pdf' = [ti_pdf EXCEPT !.pad = ti_pdf.nonce]
    /\ ti_job' = [ti_job EXCEPT ![t].step = "xor"]
    /\ UNCHANGED <<ti_poly, ti_ids, ti_kept, ti_put>>

(* and a half of it is added to the hash of the text. *)
XorPad(t) ==
    /\ ti_job[t].step = "xor"
    /\ LET j == ti_job[t]
       IN  ti_ids' = ti_ids \cup {[text |-> j.text, nonce |-> j.nonce, id |-> <<j.sum, ti_pdf.pad, Half(j.nonce)>>]}
    /\ ti_job' = [ti_job EXCEPT ![t] = NoJob]
    /\ UNCHANGED <<ti_pdf, ti_poly, ti_kept, ti_put>>
-----------------------------------------------------------------------------
(* Ids.  A text is the form it is written in, a word, and the number that  *)
(* follows "bnode:b", "_:b" and the skolem prefix.                         *)
Text(form, word) == <<form, word, 0>>
Numbered(form, n) == <<form, "", n>>
NoText == Text("no text", "")
Gone == [kind |-> "literal", of |-> <<>>]   \* FS_RID_GONE and fs_c.empty are 0
Null == [kind |-> "bnode", of |-> <<0>>]    \* FS_RID_NULL
Bit62 == 8                                  \* stands for 2^62
BnodeForms == {"bnode:b", "_:b", "skolem"}

FS_NUM_BNODE(n) == [kind |-> IF n < Bit62 THEN "bnode" ELSE "uri", of |-> <<n % Bit62>>]
FS_BNODE_NUM(r) == IF r.kind = "bnode" THEN r.of[1] ELSE r.of[1] + Bit62

fs_hash_uri(text) ==
    CASE text = NoText -> Gone
      [] text[1] \in BnodeForms -> IF text[3] = 0 THEN Gone ELSE FS_NUM_BNODE(text[3])
      [] text[1] = "relative" -> Gone     \* the first character is not a letter
      [] OTHER -> [kind |-> "uri", of |-> text]

fs_hash_uri_ignore_bnode(text) == IF text = NoText THEN Gone ELSE [kind |-> "uri", of |-> text]

fs_hash_literal(text, attr) == IF text = NoText THEN Gone ELSE [kind |-> "literal", of |-> <<text, attr>>]

Xsd(type) == Text("http", type)
XsdTypes == {"string", "integer", "float", "double", "decimal", "boolean", "dateTime", "date", "int", "short", "byte"}

(* The names of datatypes that resolve answers without asking a backend; *)
(* xsd:byte is answered as xsd:short.                                    *)
fs_hash_predefined_uri(rid) ==
    LET named == {type \in XsdTypes : fs_hash_uri(Xsd(type)) = rid}
    IN  IF named = {} THEN NoText
        ELSE IF named = {"byte"} THEN Xsd("short") ELSE Xsd(CHOOSE type \in named : TRUE)
-----------------------------------------------------------------------------
(* Terms: a URI, a literal with a language tag or a datatype (or NoText    *)
(* for neither), as a document or a query writes it; or a blank node.  A   *)
(* blank node of a document got its number from fs_bnode_id.               *)
UriTerm(text) == [type |-> "uri", text |-> text, lang |-> NoText, dt |-> NoText]
BnodeTerm(n) == [UriTerm(Numbered("bnode:b", n)) EXCEPT !.type = "bnode"]
Literal(text, lang, dt) == [type |-> "literal", text |-> text, lang |-> lang, dt |-> dt]
Upper(tag) == IF tag = Text("tag", "en") THEN Text("tag", "EN") ELSE tag
Resource(rid, text, attr) == [rid |-> rid, text |-> text, attr |-> attr]

(* store_stmt upper-cases the tag in place and takes the datatype as it    *)
(* is; buffer_res keeps no text of a blank node.                           *)
store_stmt(t) ==
    LET tag == Upper(t.lang)
        attr == IF t.type # "literal" THEN Null
                ELSE IF t.lang # NoText THEN fs_hash_literal(tag, Gone)
                ELSE IF t.dt # NoText THEN fs_hash_uri(t.dt) ELSE Gone
        rid == CASE t.type = "uri" -> fs_hash_uri(t.text)
                 [] t.type = "bnode" -> FS_NUM_BNODE(t.text[3])
                 [] t.type = "literal" -> fs_hash_literal(t.text, attr)
    IN  [id |-> rid,
         resources |-> {r \in {Resource(rid, t.text, attr)}
                            \cup (IF t.lang # NoText THEN {Resource(attr, tag, Gone)}
                                  ELSE IF t.dt # NoText THEN {Resource(attr, t.dt, Null)} ELSE {}) :
                        r.rid.kind # "bnode"}]

(* fs_hash_rasqal_literal, the id of a term in an update. *)
fs_hash_rasqal_literal(t) ==
    IF t.type = "uri" THEN fs_hash_uri(t.text)
    ELSE fs_hash_literal(t.text, IF t.dt # NoText THEN fs_hash_uri(t.dt)
                                 ELSE IF t.lang # NoText THEN fs_hash_literal(Upper(t.lang), Gone) ELSE Gone)

(* fs_resource_from_rasqal_literal: its resource, with the tag as written. *)
fs_resource_from_rasqal_literal(t) ==
    LET rid == fs_hash_rasqal_literal(t)
        attr == IF t.dt # NoText THEN fs_hash_uri(t.dt)
                ELSE IF t.lang # NoText THEN fs_hash_literal(t.lang, Gone) ELSE Gone
    IN  IF t.type = "uri" THEN {Resource(rid, t.text, Null)}
        ELSE {Resource(rid, t.text, attr)}
             \cup (IF t.dt # NoText THEN {Resource(attr, t.dt, Null)}
                   ELSE IF t.lang # NoText THEN {Resource(attr, t.lang, Gone)} ELSE {})

(* The type Rasqal gives a literal: one of its own for the datatypes it    *)
(* knows.  It keeps the string, and the truth value of a boolean.          *)
RasqalType(t) ==
    LET known == {type \in {"integer", "float", "double", "decimal", "boolean", "dateTime", "date"} : t.dt = Xsd(type)}
    IN  IF t.type = "uri" THEN "uri"
        ELSE IF t.dt \in {Xsd("int"), Xsd("short"), Xsd("byte")} THEN "subtype"
        ELSE IF known # {} THEN CHOOSE type \in known : TRUE ELSE "string"
IsTrue(text) == text[2] \in {"true", "1"}

\* Mutant: the tag is hashed as the query writes it.
BindSlotTagAsIs(t) ==
    LET type == RasqalType(t)
        attr == IF t.lang # NoText THEN fs_hash_literal(t.lang, Gone)
                ELSE IF t.dt # NoText THEN fs_hash_uri(t.dt) ELSE Gone
    IN  CASE type = "uri" -> fs_hash_uri(t.text)
          [] type = "string" -> fs_hash_literal(t.text, attr)
          [] type = "boolean" -> fs_hash_literal(Text("word", IF IsTrue(t.text) THEN "true" ELSE "false"),
                                                 fs_hash_uri(Xsd("boolean")))
          [] type = "subtype" -> fs_hash_literal(t.text, fs_hash_uri(Xsd("int")))
          [] OTHER -> fs_hash_literal(t.text, fs_hash_uri(Xsd(type)))

(* fs_bind_slot and const_literal_to_rid: the id of a constant in a        *)
(* pattern, and of one that a FILTER compares a variable with.             *)
fs_bind_slot(t) ==
    LET type == RasqalType(t)
        attr == IF t.lang # NoText THEN fs_hash_literal(Upper(t.lang), Gone)
                ELSE IF t.dt # NoText THEN fs_hash_uri(t.dt) ELSE Gone
    IN  CASE type = "uri" -> fs_hash_uri(t.text)
          [] type = "string" -> fs_hash_literal(t.text, attr)
          [] type = "boolean" -> fs_hash_literal(Text("word", IF IsTrue(t.text) THEN "true" ELSE "false"),
                                                 fs_hash_uri(Xsd("boolean")))
          [] type = "subtype" -> fs_hash_literal(t.text, fs_hash_uri(Xsd("int")))
          [] OTHER -> fs_hash_literal(t.text, fs_hash_uri(Xsd(type)))

(* literal_to_value and fs_value_fill_rid: a string or URI in a FILTER.    *)
literal_to_value(t) ==
    IF t.type = "uri" THEN fs_hash_uri(t.text)
    ELSE fs_hash_literal(t.text, IF t.lang # NoText THEN fs_hash_literal(t.lang, Gone)
                                 ELSE IF t.dt # NoText THEN fs_hash_uri(t.dt) ELSE Gone)

(* fn_uri of a blank node: a URI that spells it, not the node. *)
fn_uri(rid) ==
    IF rid.kind = "bnode" THEN fs_hash_uri_ignore_bnode(Numbered("bnode:b", FS_BNODE_NUM(rid))) ELSE rid
-----------------------------------------------------------------------------
(* The terms on which the programs agree, unless OddTerms lets others in.  *)
Plain(t) ==
    /\ RasqalType(t) = "boolean" /\ t.text[2] \notin {"true", "false"} => "boolean" \in OddTerms
    /\ RasqalType(t) = "subtype" /\ t.dt # Xsd("int") => "subtype" \in OddTerms
    /\ Xsd("byte") \in {t.text, t.dt} => "byte" \in OddTerms
    /\ t.text[1] \in BnodeForms /\ t.text[3] >= Bit62 => "large bnode" \in OddTerms

TI_Init ==
    /\ ti_pdf = [nonce |-> 0, pad |-> 0] /\ ti_poly = <<>>
    /\ ti_job = [t \in HashThreads |-> NoJob]
    /\ ti_ids = {} /\ ti_kept = {} /\ ti_put = {}

(* A document is imported that has the term. *)
ImportTerm ==
    /\ ti_ids = {} /\ Cardinality(ti_put) < MaxStored
    /\ \E t \in StoredTerms :
        /\ Plain(t)
        /\ ti_kept' = ti_kept \cup store_stmt(t).resources
        /\ ti_put' = ti_put \cup {[term |-> t, id |-> store_stmt(t).id]}
    /\ UNCHANGED <<ti_pdf, ti_poly, ti_job, ti_ids>>

(* An update inserts the term; one with a lower-case tag only if "update   *)
(* tag" is in OddTerms.                                                    *)
UpdateTerm ==
    /\ ti_ids = {} /\ Cardinality(ti_put) < MaxStored
    /\ \E t \in StoredTerms :
        /\ t.type # "bnode" /\ Plain(t) /\ (t.lang # Upper(t.lang) => "update tag" \in OddTerms)
        /\ ti_kept' = ti_kept \cup fs_resource_from_rasqal_literal(t)
        /\ ti_put' = ti_put \cup {[term |-> t, id |-> fs_hash_rasqal_literal(t)]}
    /\ UNCHANGED <<ti_pdf, ti_poly, ti_job, ti_ids>>

(* The steps of a thread that computes hashes. *)
HashStep ==
    /\ ti_put = {}
    /\ \E t \in HashThreads :
        uhash(t) \/ poly_hash(t) \/ ip_long(t) \/ uhash_reset(t) \/ CompareNonce(t) \/ MakePad(t) \/ XorPad(t)

TI_Next == HashStep \/ ImportTerm \/ UpdateTerm
-----------------------------------------------------------------------------
(* The id of a text depends on the text and its attribute alone, not on    *)
(* what was hashed before it: the cached pad is that of the nonce and the  *)
(* accumulators are empty when a text begins.  (One thread; the threads of *)
(* the HTTP server share the context.)                                     *)
HashIsAFunction == \A h \in ti_ids : h.id = <<h.text, Base(h.nonce), Half(h.nonce)>>

(* Terms are the same if only the case of their tags differs, or the form  *)
(* in which a blank node is written.                                       *)
Canonical(t) ==
    IF t.type = "uri" /\ t.text[1] \in BnodeForms THEN BnodeTerm(t.text[3]) ELSE [t EXCEPT !.lang = Upper(@)]
StoredAs(rid) == \E p \in ti_put : p.id = rid

(* A term is found by a pattern, by an update and by a comparison in a     *)
(* FILTER exactly if it was stored, by whichever program: they all         *)
(* normalise tags, datatypes and blank nodes to the same id.               *)
SoughtIsStored == ti_put # {} =>
    \A t \in {u \in StoredTerms : u.type # "bnode" /\ Plain(u)} :
        LET there == \E p \in ti_put : Canonical(p.term) = Canonical(t)
        IN  /\ StoredAs(fs_bind_slot(t)) <=> there
            /\ StoredAs(fs_hash_rasqal_literal(t)) <=> there
            /\ RasqalType(t) \in {"uri", "string"} /\ (t.lang # Upper(t.lang) => "filter tag" \in OddTerms)
                => (StoredAs(literal_to_value(t)) <=> there)

(* What the store holds for an id is what the id was computed from, and    *)
(* the attribute of a literal has its text in the store as well, so that a *)
(* result can be printed; the names that are answered without a backend    *)
(* are the right ones.                                                     *)
ResourcesGiveTheirIds ==
    \A r \in ti_kept :
        /\ r.rid = IF r.attr = Null THEN fs_hash_uri(r.text) ELSE fs_hash_literal(r.text, r.attr)
        /\ r.attr \notin {Null, Gone} => \E a \in ti_kept : a.rid = r.attr
        /\ fs_hash_predefined_uri(r.rid) \in {NoText, r.text}

(* A blank node that a result prints as "bnode:b" with its number is       *)
(* itself when a query writes it so, and is still a blank node; its URI    *)
(* (the function URI) is another term.                                     *)
BnodesComeBack ==
    \A p \in ti_put : p.term.type = "bnode" =>
        /\ p.id.kind = "bnode"
        /\ fs_hash_uri(Numbered("bnode:b", FS_BNODE_NUM(p.id))) = p.id
        /\ fn_uri(p.id) # p.id

(* The programs of the cluster, which never exchange a table of ids, give  *)
(* every term one id and get the term back from it: the four statements    *)
(* above.                                                                  *)
IdsAgree == HashIsAFunction /\ SoughtIsStored /\ ResourcesGiveTheirIds /\ BnodesComeBack
=============================================================================
