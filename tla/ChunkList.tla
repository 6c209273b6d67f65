----------------------------- MODULE ChunkList -----------------------------
(***************************************************************************)
(* The lists of a segment: backend/list.c with the orders of               *)
(* backend/sort.c, and the older triple lists of backend/tlist.c.          *)
(*                                                                         *)
(* A list is a file of rows with a buffer of rows not written yet.  An     *)
(* import larger than the quad buffer pends its quads in lists; fs_commit  *)
(* sorts each list in chunks, in the file, and merges the chunks while it  *)
(* reads them, once in the order of the subject trees and once in the      *)
(* order of the object trees.                                              *)
(***************************************************************************)
EXTENDS Integers, Sequences, SequencesExt, FiniteSets, FiniteSetsExt

CONSTANTS
    Quads,          \* the rows: <<model, subject, predicate, object>>
    BufferRows,     \* LIST_BUFFER_SIZE
    ChunkRows,      \* CHUNK_SIZE in rows
    IntRows,        \* 2^31 bytes in rows: where an int overflows
    MaxListRows,    \* bound: rows of a list
    MaxTripleRows,  \* bound: rows of a triple list
    OddList         \* "late": rows are added after the sort

ASSUME ChunkListAssumption ==
    /\ BufferRows \in Nat \ {0} /\ ChunkRows \in Nat \ {0}
    /\ OddList \subseteq {"late"}

VARIABLES
    li,         \* the list
    li_added,   \* the rows added since the list was emptied, in order
    tl          \* a triple list

li_vars == <<li, li_added, tl>>

\* The fields compared, in order: quad_sort_by_psmo and quad_sort_by_poms.
psmo == <<3, 2, 1, 4>>
poms == <<3, 4, 1, 2>>

RECURSIVE RowBefore(_, _, _)
RowBefore(order, a, b) ==
    IF order = << >> THEN FALSE
    ELSE LET f == Head(order)
         IN a[f] < b[f] \/ (a[f] = b[f] /\ RowBefore(Tail(order), a, b))

\* Arithmetic of the type int.
Int32(x) == ((x + IntRows) % (2 * IntRows)) - IntRows
-----------------------------------------------------------------------------
(* Writing. *)

list_flush(l) == [l EXCEPT !.file = @ \o l.buffer, !.buffer = << >>]

list_add(l, q) ==
    LET w == IF Len(l.buffer) = BufferRows THEN list_flush(l) ELSE l
    IN [w EXCEPT !.buffer = Append(@, q)]

list_length(l) == Len(l.file) + Len(l.buffer)
list_get(l, i) == IF i > Len(l.file) THEN l.buffer[i - Len(l.file)] ELSE l.file[i]
-----------------------------------------------------------------------------
(* fs_list_sort_chunked: the rows are flushed and every chunk is sorted.   *)
ChunkOf(l, c) == SubSeq(l.file, c * ChunkRows + 1, Min({(c + 1) * ChunkRows, Len(l.file)}))
SortedFile(l, order) ==
    LET before(a, b) == RowBefore(order, a, b)
        chunks == [c \in 1 .. (Len(l.file) \div ChunkRows + 1) |->
                      SortSeq(ChunkOf(l, c - 1), before)]
    IN FlattenSeq(chunks)

list_sort_chunked(l, order) ==
    LET w == list_flush(l)
    IN [w EXCEPT !.file = SortedFile(w, order), !.order = order,
                 !.sort = IF Len(w.file) <= ChunkRows THEN "sorted" ELSE "chunk_sorted"]

(* fs_list_next_sort_uniqed.  The first call sets up the chunks: a file    *)
(* that fills its chunks has an empty one at the end.  If the lengths do   *)
(* not add up the call returns a row it has not set; after an overflow     *)
(* they do, and memory in front of the mapped file is read.                *)

ChunkCount(rows) == rows \div ChunkRows + 1

Ends(l) == [c \in 1 .. ChunkCount(Len(l.file)) |->
               IF c = ChunkCount(Len(l.file)) THEN Len(l.file) ELSE Int32(c * ChunkRows)]
Starts(l) == [c \in 1 .. ChunkCount(Len(l.file)) |-> Int32((c - 1) * ChunkRows)]
AddsUp(l) ==
    MapThenSumSet(LAMBDA c : Ends(l)[c] - Starts(l)[c], DOMAIN Ends(l)) = Len(l.file)

\* The chunks with rows left, and the one with the least row.
Left(l) == {c \in DOMAIN l.pos : l.pos[c] < Ends(l)[c]}
Best(l) ==
    LET row(c) == l.file[l.pos[c] + 1]
        left == Left(l)
    IN CHOOSE c \in left : \A d \in left :
                /\ ~RowBefore(l.order, row(d), row(c))
                /\ d < c => RowBefore(l.order, row(c), row(d))

\* Mutant: rows are compared with the last one of their own chunk only.
IsRepeatInChunk(l, c) == l.pos[c] > Starts(l)[c] /\ l.file[l.pos[c] + 1] = l.file[l.pos[c]]

IsRepeat(l, c) == l.file[l.pos[c] + 1] = l.last

NoRow == <<0, 0, 0, 0>>     \* calloc

RECURSIVE Merged(_)
Merged(l) ==
    LET c == Best(l)
    IN IF Left(l) = {} THEN [l EXCEPT !.pos = << >>, !.last = NoRow, !.done = TRUE]
       ELSE IF \E d \in Left(l) : l.pos[d] < 0 THEN [l EXCEPT !.unset = TRUE]
       ELSE IF IsRepeat(l, c) THEN Merged([l EXCEPT !.pos[c] = @ + 1])
       ELSE [l EXCEPT !.pos[c] = @ + 1, !.last = l.file[l.pos[c] + 1],
                      !.out = Append(@, l.file[l.pos[c] + 1])]

list_next_sort_uniqed(l) ==
    IF l.pos # << >> THEN Merged(l)
    ELSE IF AddsUp(l) THEN Merged([l EXCEPT !.pos = Starts(l)])
    ELSE [l EXCEPT !.unset = TRUE]
-----------------------------------------------------------------------------
(* The steps.  An import adds rows; fs_commit sorts the list, reads it to  *)
(* the end, and does so again in the other order.                          *)
NewList == [file |-> << >>, buffer |-> << >>, sort |-> "unsorted", order |-> psmo,
            pos |-> << >>, last |-> NoRow, out |-> << >>, done |-> FALSE, unset |-> FALSE]

LI_Init ==
    /\ li = NewList
    /\ li_added = << >>
    /\ tl = [rows |-> << >>, header |-> 0, offset |-> 0, buffer |-> << >>]

ListAdd(q) ==
    /\ li.sort = "unsorted" \/ ("late" \in OddList /\ li.pos = << >> /\ ~li.done)
    /\ list_length(li) < MaxListRows
    /\ li' = list_add(li, q)
    /\ li_added' = Append(li_added, q)
    /\ UNCHANGED tl

ListFlush ==
    /\ li.buffer # << >>
    /\ li' = list_flush(li)
    /\ UNCHANGED <<li_added, tl>>

ListSort ==
    /\ li.sort = "unsorted" \/ li.done
    /\ li.done => li.order = psmo
    /\ li' = [list_sort_chunked(li, IF li.done THEN poms ELSE psmo)
                 EXCEPT !.out = << >>, !.done = FALSE]
    /\ UNCHANGED <<li_added, tl>>

ListNext ==
    /\ li.sort # "unsorted" /\ ~li.done
    /\ li' = list_next_sort_uniqed(li)
    /\ UNCHANGED <<li_added, tl>>

\* The list is unlinked and closed; the next large import makes a new one.
ListClose ==
    /\ li.done /\ li.order = poms
    /\ li' = NewList
    /\ li_added' = << >>
    /\ UNCHANGED tl

(* A triple list: its header counts the rows, and rows are written at the  *)
(* end of the file.                                                        *)

tlist_flush(t) ==
    [t EXCEPT !.rows = @ \o t.buffer, !.offset = @ + Len(t.buffer),
              !.buffer = << >>, !.header = t.offset + Len(t.buffer)]

tlist_add(t, q) ==
    LET w == IF Len(t.buffer) = BufferRows THEN tlist_flush(t) ELSE t
    IN [w EXCEPT !.buffer = Append(@, q)]

TListAdd(q) ==
    /\ Len(tl.rows) + Len(tl.buffer) < MaxTripleRows
    /\ tl' = tlist_add(tl, q)
    /\ UNCHANGED <<li, li_added>>

\* fs_tlist_truncate leaves the header to the next flush.
TListTruncate ==
    /\ tl.rows # << >>
    /\ tl' = tlist_flush([tl EXCEPT !.rows = << >>, !.offset = 0, !.buffer = << >>])
    /\ UNCHANGED <<li, li_added>>

\* Closed and opened again.
TListReopen ==
    /\ tl.buffer # << >>
    /\ LET f == tlist_flush(tl) IN tl' = [f EXCEPT !.offset = f.header]
    /\ UNCHANGED <<li, li_added>>

LI_Next ==
    \/ \E q \in Quads : ListAdd(q)
    \/ ListFlush \/ ListSort \/ ListNext \/ ListClose

TL_Next == (\E q \in Quads : TListAdd(q)) \/ TListTruncate \/ TListReopen

LI_Spec == LI_Init /\ [][LI_Next \/ TL_Next]_li_vars
-----------------------------------------------------------------------------
(* The properties. *)

(* Flushing and sorting neither lose nor repeat a row, and until the sort  *)
(* fs_list_get finds a row at the position fs_list_add returned, which     *)
(* import-backend.c uses as the number of a predicate's trees.             *)
ListKeepsRows ==
    /\ list_length(li) = Len(li_added)
    /\ \A q \in Quads : Cardinality({i \in DOMAIN li_added : li_added[i] = q})
                          = Cardinality({i \in 1 .. list_length(li) : list_get(li, i) = q})
    /\ li.sort = "unsorted" => \A i \in DOMAIN li_added : list_get(li, i) = li_added[i]

(* Reading a sorted list gives each of its rows once, in the order of the  *)
(* sort, however the rows fall into chunks: what it has given so far is    *)
(* strictly increasing, and at the end no row is missing.                  *)
MergeIsSortedSet ==
    /\ ~li.unset
    /\ \A i \in 1 .. (Len(li.out) - 1) : RowBefore(li.order, li.out[i], li.out[i + 1])
    /\ li.done => ToSet(li.out) = ToSet(li_added)

(* The header of a triple list counts the rows of the file once the list   *)
(* is flushed, and the length the process computes is right at any time.   *)
TListCountsRows ==
    /\ tl.offset = Len(tl.rows)
    /\ tl.header = Len(tl.rows)

(* The lists between the import and the trees neither lose, repeat nor     *)
(* misplace a row: the three statements above.                             *)
ListsAreExact == ListKeepsRows /\ MergeIsSortedSet /\ TListCountsRows
=============================================================================
