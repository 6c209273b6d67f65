------------------------------- MODULE RHash -------------------------------
(***************************************************************************)
(* The resource hash of a segment: backend/rhash.c, backend/prefix-trie.c. *)
(*                                                                         *)
(* It maps the id of a resource to its text.  A memory mapped table of     *)
(* buckets holds fixed size entries; a text that fits, that can be packed  *)
(* as a number or a date, or that is a short rest after a known prefix is  *)
(* kept in the entry, any other in the file of texts, which is written     *)
(* through a buffer.  A resource may be up to search_dist entries after    *)
(* the start of its bucket, in the next bucket too, and a table without    *)
(* room doubles.                                                           *)
(*                                                                         *)
(* The prefixes come from tries (backend/prefix-trie.c).  One trie learns  *)
(* the URIs that did not fit inline, counting how many pass each node;     *)
(* when it has no node left, its best prefixes get a code.  The other trie *)
(* finds the code of the longest known prefix of a URI.  A text is a       *)
(* sequence of characters.  A node has up to PrefixEdges labelled edges,   *)
(* filled in order; node 0 is never handed out and stands for no node.     *)
(* The operators map a trie to the trie after the call.                    *)
(***************************************************************************)
EXTENDS Integers, Sequences, SequencesExt, FiniteSets, FiniteSetsExt

CONSTANTS
    Resources,      \* resources: [rid |-> ..., uri |-> BOOLEAN, lex |-> text]
    BucketSize,     \* FS_RHASH_DEFAULT_BUCKET_SIZE
    SearchDist,     \* FS_RHASH_DEFAULT_SEARCH_DIST
    FirstSize,      \* FS_RHASH_DEFAULT_LENGTH: buckets of a new table
    LastSize,       \* bound: buckets of the largest table
    InlineLen,      \* INLINE_STR_LEN
    SuffixLen,      \* 22: the longest rest of a URI kept in the entry
    PrefixCount,    \* 32: prefixes taken from a full trie
    MaxPrefixes,    \* FS_MAX_PREFIXES
    NumberChars,    \* bcd_map: the characters of packed numbers, in order
    DateChars,      \* bcdate_map: the characters of packed dates, in order
    PrefixEdges,    \* PREFIX_EDGES
    TrieSize,       \* TRIE_SIZE
    MaxPrefixLength,\* FS_MAX_PREFIX_LENGTH
    NearLength,     \* 8: how much longer a superstring may be
    OddHash         \* which of the events below may happen

(* "buffered": the process dies with texts in the buffer; "doubling": it   *)
(* dies while the table doubles.                                           *)
ASSUME RHashAssumption ==
    /\ Len(NumberChars) < 16 /\ Len(DateChars) < 16
    /\ \A r, s \in Resources : r.rid = s.rid => r = s
    /\ OddHash \subseteq {"buffered", "doubling"}

VARIABLES
    rh,         \* the table, its size, the file of texts and the prefixes
    rh_trie,    \* the learning trie and the trie of codes of the process
    rh_put      \* the resources a put reported as stored

rh_vars == <<rh, rh_trie, rh_put>>

-----------------------------------------------------------------------------
(* The tries. *)
Node == [count |-> 0, code |-> 0, label |-> << >>, edge |-> << >>]

\* The free nodes are chained through edge[0]; here they are a sequence.
trie_new ==
    [nodes |-> [n \in 0 .. (TrieSize - 1) |-> Node],
     free |-> [i \in 1 .. (TrieSize - 2) |-> i + 1], root |-> 1, strings |-> 0]

\* get_node; with no node left the result is node 0.
Taken(t) == IF t.free = << >> THEN 0 ELSE Head(t.free)
get_node(t) ==
    IF t.free = << >> THEN t
    ELSE [t EXCEPT !.free = Tail(@), !.nodes[Head(t.free)] = Node]

RECURSIVE free_subtree(_, _)
free_subtree(t, n) ==
    LET below == FoldLeft(LAMBDA u, k : IF k # 0 THEN free_subtree(u, k) ELSE u,
                          t, t.nodes[n].edge)
    IN [below EXCEPT !.nodes[n] = Node, !.free = <<n>> \o @]

\* The position of the edge of n labelled c, or 0.
EdgeOf(t, n, c) == SelectInSeq(t.nodes[n].label, LAMBDA l : l = c)
Full(t, n) == Len(t.nodes[n].label) = PrefixEdges

\* A new edge of n labelled c, at position e.
Grown(t, n, e, c) ==
    LET u == get_node(t)
        node == u.nodes[n]
    IN [u EXCEPT !.nodes[n] =
           IF e > Len(node.label)
           THEN [node EXCEPT !.label = Append(@, c), !.edge = Append(@, Taken(t))]
           ELSE [node EXCEPT !.label[e] = c, !.edge[e] = Taken(t)]]

\* The edge of n whose subtree was used least.
Lowest(t, n) ==
    LET uses(e) == t.nodes[t.nodes[n].edge[e]].count
        edges == DOMAIN t.nodes[n].edge
    IN CHOOSE e \in edges : \A f \in edges :
           uses(e) < uses(f) \/ (uses(e) = uses(f) /\ e <= f)
-----------------------------------------------------------------------------
(* fs_prefix_trie_add_string.  failed: there was no node left. *)
RECURSIVE AddFrom(_, _, _, _)
AddFrom(t, n, s, i) ==
    LET below(u, k) == IF k = 0 THEN [trie |-> u, failed |-> TRUE]
                       ELSE AddFrom([u EXCEPT !.nodes[k].count = @ + 1], k, s, i + 1)
        through(u, e) == below(u, u.nodes[n].edge[e])
    IN IF i > Len(s) \/ i > MaxPrefixLength THEN [trie |-> t, failed |-> FALSE]
       ELSE IF EdgeOf(t, n, s[i]) # 0 THEN through(t, EdgeOf(t, n, s[i]))
       ELSE IF Full(t, n)
       THEN through(Grown(free_subtree(t, t.nodes[n].edge[Lowest(t, n)]), n, Lowest(t, n), s[i]),
                    Lowest(t, n))
       ELSE through(Grown(t, n, Len(t.nodes[n].label) + 1, s[i]), Len(t.nodes[n].label) + 1)

add_string(t, s) == AddFrom([t EXCEPT !.strings = @ + 1], t.root, s, 1)

(* fs_prefix_trie_add_code: the code is put on the node in front of the    *)
(* last character.                                                         *)
RECURSIVE CodeFrom(_, _, _, _, _)
CodeFrom(t, n, s, i, code) ==
    IF i > Len(s) THEN t
    ELSE LET there == EdgeOf(t, n, s[i])
             e == IF there # 0 THEN there ELSE Len(t.nodes[n].label) + 1
             u == IF there # 0 THEN t ELSE Grown(t, n, e, s[i])
         IN IF there = 0 /\ Full(t, n) THEN t
            ELSE IF there = 0 /\ u.nodes[n].edge[e] = 0 THEN u
            ELSE CodeFrom(IF i = Len(s) THEN [u EXCEPT !.nodes[n].code = code] ELSE u,
                          u.nodes[n].edge[e], s, i + 1, code)

add_code(t, s, code) == CodeFrom(t, t.root, s, 1, code)

(* fs_prefix_trie_get_code: the code of the longest prefix that has one    *)
(* and its length.  A code counts only while its node has a single edge.   *)

EndsPrefix(t, n) == t.nodes[n].code # 0 /\ Len(t.nodes[n].label) = 1

RECURSIVE LookFrom(_, _, _, _, _)
LookFrom(t, n, s, i, best) ==
    IF i > Len(s) THEN best
    ELSE LET e == EdgeOf(t, n, s[i])
         IN IF e = 0 THEN (IF Full(t, n) THEN [code |-> 0, length |-> 0] ELSE best)
            ELSE LookFrom(t, t.nodes[n].edge[e], s, i + 1,
                          IF EndsPrefix(t, n)
                          THEN [code |-> t.nodes[n].code, length |-> i] ELSE best)

get_code(t, s) == LookFrom(t, t.root, s, 1, [code |-> 0, length |-> 0])
-----------------------------------------------------------------------------
(* fs_prefix_trie_get_prefixes: the max prefixes that save most.  A prefix *)
(* scores its length times the strings that share it; the walk offers the  *)
(* string above a node when the score falls there.                         *)

\* One offer to the table pr.
RECURSIVE Offered(_, _, _, _, _, _)
Offered(pr, row, low, lowest, score, s) ==
    LET put(i) == [pr EXCEPT ![i] = [score |-> score, prefix |-> s]]
        less == row <= Len(pr) /\ pr[row].score < lowest
    IN IF row > Len(pr) THEN (IF lowest < score THEN put(low) ELSE pr)
       ELSE IF pr[row].score = score /\ pr[row].prefix = s THEN pr
       ELSE IF pr[row].score # score /\ pr[row].score = 0 THEN put(row)
       ELSE Offered(pr, row + 1, IF less THEN row ELSE low,
                    IF less THEN pr[row].score ELSE lowest, score, s)

RECURSIVE Collect(_, _, _, _, _)
Collect(t, n, current, pr, last) ==
    LET score == (t.nodes[n].count - 1) * Len(current)
        edges == SelectSeq([e \in 1 .. Len(t.nodes[n].edge) |->
                               <<t.nodes[n].label[e], t.nodes[n].edge[e]>>],
                           LAMBDA e : e[2] # 0)
        offer(q) == IF score < last
                    THEN Offered(q, 1, 1, MaxPrefixLength * t.strings, last, Front(current))
                    ELSE q
    IN FoldLeft(LAMBDA q, e : IF Len(current) >= MaxPrefixLength - 1 THEN offer(q)
                              ELSE Collect(t, e[2], Append(current, e[1]), offer(q), score),
                pr, edges)

ByScore(a, b) == a.score > b.score

\* The prefixes that only extend a better one by a little are dropped.
RECURSIVE Thinned(_, _)
Thinned(pr, i) ==
    IF i > Len(pr) \/ pr[i].score = 0 THEN pr
    ELSE LET extends(j) == /\ Len(pr[j].prefix) <= Len(pr[i].prefix)
                           /\ Len(pr[i].prefix) <= Len(pr[j].prefix) + NearLength
                           /\ IsPrefix(pr[j].prefix, pr[i].prefix)
         IN Thinned(IF \E j \in 1 .. (i - 1) : extends(j)
                    THEN [pr EXCEPT ![i].score = 0] ELSE pr, i + 1)

get_prefixes(t, max) ==
    LET none == [i \in 1 .. max |-> [score |-> 0, prefix |-> << >>]]
        sorted == SortSeq(Collect(t, t.root, << >>, none, 0), ByScore)
    IN SelectSeq(SortSeq(Thinned(sorted, 1), ByScore), LAMBDA p : p.score # 0)
-----------------------------------------------------------------------------
EmptyEntry == [rid |-> 0, disp |-> "none", data |-> << >>]
Slots1(size) == 0 .. (size * BucketSize - 1)
Table(size) == [i \in Slots1(size) |-> EmptyEntry]
-----------------------------------------------------------------------------
(* Packing of numbers and dates: two four-bit codes to a byte, the first   *)
(* in the low half; code 0 ends the text.                                  *)
CodeOf(chars, c) == SelectInSeq(chars, LAMBDA x : x = c)
Packs(chars, text) ==
    /\ Len(text) <= 2 * InlineLen
    /\ \A i \in DOMAIN text : CodeOf(chars, text[i]) # 0

Packed(chars, text) ==
    LET code(i) == IF i <= Len(text) THEN CodeOf(chars, text[i]) ELSE 0
    IN [b \in 1 .. InlineLen |-> code(2 * b - 1) + 16 * code(2 * b)]

Nibble(bytes, i) ==
    IF i % 2 = 1 THEN bytes[(i + 1) \div 2] % 16 ELSE bytes[i \div 2] \div 16
Unpacked(chars, bytes) ==
    LET ends == {i \in 1 .. (2 * InlineLen) : Nibble(bytes, i) = 0}
        last == IF ends = {} THEN 2 * InlineLen ELSE Min(ends) - 1
    IN [i \in 1 .. last |-> chars[Nibble(bytes, i)]]
-----------------------------------------------------------------------------
(* The table. *)
Bucket(size, rid) == rid % size
Start(size, rid) == Bucket(size, rid) * BucketSize

StoreWindow(size, rid) ==
    {i \in Start(size, rid) .. (Start(size, rid) + SearchDist - 1) : i \in Slots1(size)}

\* get_intl does not stop at the end of the table; the bytes after it are 0.
LookWindow(h, rid) ==
    {i \in Start(h.size, rid) .. (Start(h.size, rid) + SearchDist - 1) : i \in DOMAIN h.entries}

\* Mutant: put stops at the first hole.
HasBeforeHole(h, rid) ==
    \E i \in StoreWindow(h.size, rid) :
        /\ h.entries[i].rid = rid
        /\ \A j \in StoreWindow(h.size, rid) : j < i => h.entries[j].rid # 0

Has(h, rid) == \E i \in StoreWindow(h.size, rid) : h.entries[i].rid = rid
Room(h, rid) == {i \in StoreWindow(h.size, rid) : h.entries[i].rid = 0}

(* double_size: in every bucket the entries whose bucket is in the new     *)
(* half move there, to the same place in the bucket.  The header, with the *)
(* size, is written after the last bucket; k buckets are done.             *)

Moves(h, i) ==
    LET e == h.entries[i]
    IN e.rid # 0 /\ Start(2 * h.size, e.rid) >= h.size * BucketSize

HalfDoubled(h, k) ==
    LET half == h.size * BucketSize
        done == 0 .. (k * BucketSize - 1)
    IN [i \in 0 .. (2 * half - 1) |->
           IF i < half
           THEN IF i \in done /\ Moves(h, i) THEN EmptyEntry ELSE h.entries[i]
           ELSE IF i - half \in done /\ Moves(h, i - half) THEN h.entries[i - half]
           ELSE EmptyEntry]

double_size(h) == [h EXCEPT !.size = 2 * @, !.entries = HalfDoubled(h, h.size)]
-----------------------------------------------------------------------------
(* The text of an entry. *)

\* Where fs_rhash_put leaves the text of a resource.  A text in the file is
\* at the end of it, written but perhaps still in the buffer.
InFile(h, disp, code, text) ==
    [entry |-> [disp |-> disp, data |-> <<code, Len(h.lex) + 1>>],
     lex |-> Append(h.lex, text)]
Inside(h, disp, data) == [entry |-> [disp |-> disp, data |-> data], lex |-> h.lex]

Known(t, r) == r.uri /\ get_code(t, r.lex).code # 0

Placed(h, t, r) ==
    LET found == get_code(t, r.lex)
        rest == SubSeq(r.lex, found.length + 1, Len(r.lex))
    IN IF Len(r.lex) <= InlineLen THEN Inside(h, "utf8", r.lex)
       ELSE IF Packs(NumberChars, r.lex) THEN Inside(h, "number", Packed(NumberChars, r.lex))
       ELSE IF Packs(DateChars, r.lex) THEN Inside(h, "date", Packed(DateChars, r.lex))
       ELSE IF Known(t, r) /\ Len(rest) > SuffixLen THEN InFile(h, "fprefix", found.code, rest)
       ELSE IF Known(t, r) THEN Inside(h, "prefix", <<found.code, rest>>)
       ELSE InFile(h, "file", 0, r.lex)

\* A URI that goes to the file is learnt.
Learns(t, r) ==
    /\ r.uri /\ Len(r.lex) > InlineLen /\ ~Known(t, r)
    /\ ~Packs(NumberChars, r.lex) /\ ~Packs(DateChars, r.lex)

\* The prefixes of a full learning trie get the next codes, and the first
\* code, 0, is the one get_code gives for no prefix.
CodeAll(codes, prefixes) ==
    FoldLeft(LAMBDA t, i : add_code(t, prefixes[i], i - 1), codes,
             [i \in 1 .. Len(prefixes) |-> i])

Coded(old, all, codes) ==
    [prefixes |-> all,
     trie |-> [learn |-> trie_new,
               codes |-> FoldLeft(LAMBDA c, i : add_code(c, all[i], i - 1), codes,
                                  [i \in 1 .. (Len(all) - Len(old)) |-> Len(old) + i])]]

\* As many of the best prefixes as there is room for.
FirstPrefixes(best, room) ==
    [i \in 1 .. (IF Len(best) < room THEN Len(best) ELSE room) |-> best[i].prefix]

\* The prefixes and the tries after the learning trie took a string.
AfterAdding(old, t, added) ==
    IF ~added.failed THEN [prefixes |-> old, trie |-> [t EXCEPT !.learn = added.trie]]
    ELSE Coded(old, old \o FirstPrefixes(get_prefixes(added.trie, PrefixCount), MaxPrefixes - Len(old)),
               t.codes)

Learnt(h, t, r) ==
    IF Learns(t.codes, r) THEN AfterAdding(h.prefixes, t, add_string(t.learn, r.lex))
    ELSE [prefixes |-> h.prefixes, trie |-> t]

\* The entry of a resource is filled in.
Entered(h, r, at, placed, learnt) ==
    [hash |-> [h EXCEPT !.entries[at] =
                   [rid |-> r.rid, disp |-> placed.entry.disp, data |-> placed.entry.data],
                        !.lex = placed.lex, !.prefixes = learnt.prefixes],
     trie |-> learnt.trie, ok |-> TRUE]

(* fs_rhash_put, on the table h and the tries t. *)
RECURSIVE Put1(_, _, _)
Put1(h, t, r) ==
    IF Has(h, r.rid) THEN [hash |-> h, trie |-> t, ok |-> TRUE]
    ELSE IF Room(h, r.rid) = {}
    THEN IF 2 * h.size > LastSize THEN [hash |-> h, trie |-> t, ok |-> FALSE]
         ELSE Put1(double_size(h), t, r)
    ELSE Entered(h, r, Min(Room(h, r.rid)), Placed(h, t.codes, r), Learnt(h, t, r))

(* fs_rhash_get_intl and get_entry: the text of a resource, or Missing. *)
Missing == <<"missing">>
TextAt(h, i) == IF i <= Len(h.lex) THEN h.lex[i] ELSE Missing
EntryText(h, e) ==
    CASE e.disp = "utf8" -> e.data
      [] e.disp = "number" -> Unpacked(NumberChars, e.data)
      [] e.disp = "date" -> Unpacked(DateChars, e.data)
      [] e.disp = "prefix" -> h.prefixes[e.data[1] + 1] \o e.data[2]
      [] e.disp = "fprefix" -> h.prefixes[e.data[1] + 1] \o TextAt(h, e.data[2])
      [] OTHER -> TextAt(h, e.data[2])

get_intl(h, rid) ==
    LET at == {i \in LookWindow(h, rid) : h.entries[i].rid = rid}
    IN IF at = {} THEN Missing ELSE EntryText(h, h.entries[Min(at)])
-----------------------------------------------------------------------------
(* The process. *)

NewTries == [learn |-> trie_new, codes |-> trie_new]

RH_Init ==
    /\ rh = [size |-> FirstSize, entries |-> Table(FirstSize), lex |-> << >>,
             flushed |-> 0, prefixes |-> << >>]
    /\ rh_trie = NewTries
    /\ rh_put = {}

(* fs_rhash_put_multi, with the resources in the order of their buckets. *)
PutAll(h, t, q) ==
    FoldLeft(LAMBDA done, r : IF done.ok THEN Put1(done.hash, done.trie, r) ELSE done,
             [hash |-> h, trie |-> t, ok |-> TRUE], q)

PutMulti(R) ==
    LET before(a, b) == LET x == Start(rh.size, a.rid)
                            y == Start(rh.size, b.rid)
                        IN x < y \/ (x = y /\ a.rid < b.rid)
    IN \E result \in {PutAll(rh, rh_trie, SetToSortSeq(R, before))} :
           /\ result.ok
           /\ rh' = result.hash
           /\ rh_trie' = result.trie
           /\ rh_put' = rh_put \cup R

\* fs_rhash_flush at the end of an import, and fs_rhash_close.
Flush1 ==
    /\ rh.flushed # Len(rh.lex)
    /\ rh' = [rh EXCEPT !.flushed = Len(rh.lex)]
    /\ UNCHANGED <<rh_trie, rh_put>>

\* A new process finds the file of prefixes and starts to learn again.
Reopened(h) == [learn |-> trie_new, codes |-> CodeAll(trie_new, h.prefixes)]

(* The process ends and the next one opens the files.  The mapped table is *)
(* kept.  Without a flush before it the buffered texts are lost from some  *)
(* point on, and when k buckets of a doubling were done the header still   *)
(* has the old size.                                                       *)
NextOpen ==
    /\ \E n \in rh.flushed .. Len(rh.lex), k \in 0 .. rh.size :
          /\ n < Len(rh.lex) => "buffered" \in OddHash
          /\ k > 0 => "doubling" \in OddHash
          /\ rh' = [rh EXCEPT !.lex = SubSeq(@, 1, n), !.flushed = n,
                              !.entries = [i \in Slots1(rh.size) |-> HalfDoubled(rh, k)[i]]]
    /\ rh_trie' = Reopened(rh)
    /\ UNCHANGED rh_put

RH_Next ==
    \/ \E R \in kSubset(1, Resources) \cup kSubset(2, Resources \ rh_put) : PutMulti(R)
    \/ Flush1 \/ NextOpen

RH_Spec == RH_Init /\ [][RH_Next]_rh_vars
-----------------------------------------------------------------------------
(* The properties. *)

(* fs_rhash_get gives every resource that was put its own text, however    *)
(* the text was packed, whatever prefix it was split at, and wherever the  *)
(* doublings of the table moved the entry.                                 *)
ResourceReadsBack == \A r \in rh_put : get_intl(rh, r.rid) = r.lex

(* A resource has one entry: a put of a known resource finds the entry     *)
(* also when the table grew and left holes in front of it.                 *)
OneEntryPerResource ==
    \A i, j \in DOMAIN rh.entries :
        (rh.entries[i].rid # 0 /\ rh.entries[i].rid = rh.entries[j].rid) => i = j

(* The codes the process uses mean the prefixes the file of prefixes has   *)
(* for them: the code and the length fs_prefix_trie_get_code gives for any *)
(* URI are those of a prefix of that URI.                                  *)
CodesNamePrefixes ==
    \A r \in Resources :
        LET c == get_code(rh_trie.codes, r.lex)
        IN c.code # 0 => /\ c.code < Len(rh.prefixes)
                         /\ rh.prefixes[c.code + 1] = SubSeq(r.lex, 1, c.length)

(* The hash is a map from ids to texts: the three statements above.        *)
ResourcesAreFiled == ResourceReadsBack /\ OneEntryPerResource /\ CodesNamePrefixes
=============================================================================
