------------------------------- MODULE PTree -------------------------------
(***************************************************************************)
(* A predicate tree: backend/ptree.c.                                      *)
(*                                                                         *)
(* A radix tree over the subject or object of the triples of one           *)
(* predicate.  Each level of the tree looks at the next digit of the key.  *)
(* Leaves are placed no higher than the third level when they are created, *)
(* are pushed down when a second key arrives at the same place, and are    *)
(* moved up by a removal over the whole tree.  A leaf holds the pairs of   *)
(* its key; the pair table promises lists (module PairLists), and that is  *)
(* how they appear here.                                                   *)
(*                                                                         *)
(* Nodes and leaves have the same size and are numbered by their place in  *)
(* one file, which grows by a run of nodes or a run of leaves.             *)
(***************************************************************************)
EXTENDS Integers, Sequences, FiniteSets

CONSTANTS
    Keys,               \* the keys, sequences of Levels digits
    Levels,             \* 64 / FS_PTREE_BRANCH_BITS
    Branches,           \* FS_PTREE_BRANCHES
    KeyModels, KeyObjects, KeyNull,
    Inc,                \* FS_PTREE_SIZE_INC: cells the file grows by
    MaxPairs,           \* bound: pairs in the tree
    MaxCells            \* bound: the file does not grow past this many cells

ASSUME PTreeAssumption ==
    /\ Levels \in Nat /\ Levels > 2
    /\ Branches \in Nat \ {0, 1}
    /\ \A k \in Keys : Len(k) = Levels /\ \A i \in 1 .. Levels : k[i] \in 1 .. Branches
    /\ KeyNull \notin KeyModels \cup KeyObjects
    /\ Inc \in Nat /\ Inc > 2

VARIABLES
    node,       \* node[n]: the branches of node n
    leaf,       \* leaf[l]: the key and the pairs of leaf l, and its length
    freeNodes,  \* the list of free nodes
    freeLeaves, \* the list of free leaves
    nodeBase, nodeSize, leafBase, leafSize, alloc,  \* the header's cell numbers
    nodeCount, leafCount,   \* the nodes and leaves ever made
    pairCount,  \* header->count: the pairs in the tree
    add,        \* the add in progress: the loop of get_or_create_leaf
    treeReply   \* what the call that just ended reported, if a removal

nodeCells == <<freeNodes, nodeBase, nodeSize, nodeCount>>
leafCells == <<freeLeaves, leafBase, leafSize, leafCount>>
cells == <<nodeCells, leafCells, alloc>>
pt_vars == <<node, leaf, cells, pairCount, add, treeReply>>

Lists == INSTANCE PairLists WITH
    Owners <- Keys, Models <- KeyModels, Objects <- KeyObjects, NULL <- KeyNull,
    list <- leaf, reply <- treeReply

(* A branch refers to nothing, to node n (as n) or to leaf l (as -l). *)
Null == 0
IsNode(ref) == ref > 0
IsLeaf(ref) == ref < 0
Refs == {Null} \cup DOMAIN node \cup {-l : l \in DOMAIN leaf}
Root == 1
B == 1 .. Branches
EmptyNode == [b \in B |-> Null]
NoAdd == {}
Entries(s) == {s[i] : i \in DOMAIN s}
Without(f, S) == [z \in DOMAIN f \ S |-> f[z]]
With(f, x, y) == [z \in DOMAIN f \cup {x} |-> IF z = x THEN y ELSE f[z]]
-----------------------------------------------------------------------------
(* fs_ptree_write_header: the first Inc cells are for nodes, the next Inc  *)
(* for leaves, and the cells 0 and Inc are reserved.                       *)
PT_Init ==
    /\ node = [n \in {Root} |-> EmptyNode]
    /\ leaf = << >>
    /\ freeNodes = << >> /\ freeLeaves = << >>
    /\ nodeBase = 2 /\ nodeSize = Inc
    /\ leafBase = Inc + 1 /\ leafSize = 2 * Inc
    /\ alloc = 2 * Inc
    /\ nodeCount = 1 /\ leafCount = 0
    /\ pairCount = 0
    /\ add = NoAdd
    /\ treeReply = Lists!NoReply

\* Mutant: the next run of nodes starts where the last one ended.
NewNodeInPlace(n) ==
    \/ /\ freeNodes # << >>
       /\ n = Head(freeNodes)
       /\ freeNodes' = Tail(freeNodes)
       /\ UNCHANGED <<nodeBase, nodeSize, nodeCount, alloc>>
    \/ /\ freeNodes = << >>
       /\ n = nodeBase
       /\ IF nodeBase < nodeSize
          THEN UNCHANGED <<nodeSize, alloc>>
          ELSE /\ alloc + Inc <= MaxCells
               /\ nodeSize' = nodeSize + Inc
               /\ alloc' = alloc + Inc
       /\ nodeBase' = n + 1
       /\ nodeCount' = nodeCount + 1
       /\ UNCHANGED freeNodes

(* fs_ptree_new_node with fs_ptree_grow_nodes: n is the new node. *)
NewNode(n) ==
    \/ /\ freeNodes # << >>
       /\ n = Head(freeNodes)
       /\ freeNodes' = Tail(freeNodes)
       /\ UNCHANGED <<nodeBase, nodeSize, nodeCount, alloc>>
    \/ /\ freeNodes = << >>
       /\ IF nodeBase < nodeSize
          THEN /\ n = nodeBase
               /\ UNCHANGED <<nodeSize, alloc>>
          ELSE /\ alloc + Inc <= MaxCells
               /\ n = alloc
               /\ nodeSize' = alloc + Inc
               /\ alloc' = alloc + Inc
       /\ nodeBase' = n + 1
       /\ nodeCount' = nodeCount + 1
       /\ UNCHANGED freeNodes

(* fs_ptree_new_leaf with fs_ptree_grow_leaves: l is the new leaf. *)
NewLeaf(l) ==
    \/ /\ freeLeaves # << >>
       /\ l = Head(freeLeaves)
       /\ freeLeaves' = Tail(freeLeaves)
       /\ UNCHANGED <<leafBase, leafSize, leafCount, alloc>>
    \/ /\ freeLeaves = << >>
       /\ IF leafBase < leafSize
          THEN /\ l = leafBase
               /\ UNCHANGED <<leafSize, alloc>>
          ELSE /\ alloc + Inc <= MaxCells
               /\ l = alloc
               /\ leafSize' = alloc + Inc
               /\ alloc' = alloc + Inc
       /\ leafBase' = l + 1
       /\ leafCount' = leafCount + 1
       /\ UNCHANGED freeLeaves

Cells == 2 .. (MaxCells - 1)
-----------------------------------------------------------------------------
(* fs_ptree_add starts get_or_create_leaf at the root. *)
AddStart(k, pair) ==
    /\ add = NoAdd
    /\ pairCount < MaxPairs
    /\ add' = {[key |-> k, pair |-> pair, pos |-> Root, level |-> 1]}
    /\ treeReply' = Lists!NoReply
    /\ UNCHANGED <<node, leaf, cells, pairCount>>

Here(a) == node[a.pos][a.key[a.level]]

(* The branches of its loop: there is a node, and the loop goes down; *)
AddDescend ==
    \E a \in add :
        /\ IsNode(Here(a))
        /\ add' = {[a EXCEPT !.pos = Here(a), !.level = @ + 1]}
        /\ UNCHANGED <<node, leaf, cells, pairCount, treeReply>>

(* there is nothing, on the first two levels, and a node is made; *)
AddNode ==
    \E a \in add, n \in Cells :
        /\ Here(a) = Null
        /\ a.level <= 2
        /\ NewNode(n)
        /\ node' = With([node EXCEPT ![a.pos][a.key[a.level]] = n], n, EmptyNode)
        /\ add' = {[a EXCEPT !.pos = n, !.level = @ + 1]}
        /\ UNCHANGED <<leaf, leafCells, pairCount, treeReply>>

(* The rest of fs_ptree_add: the pair is put in front of the leaf's chain. *)
WithPair(lf, pair) == [lf EXCEPT !.rows = <<pair>> \o @, !.length = @ + 1]

(* there is nothing, further down, and a leaf is made; *)
AddLeaf ==
    \E a \in add, l \in Cells :
        /\ Here(a) = Null
        /\ a.level > 2
        /\ NewLeaf(l)
        /\ node' = [node EXCEPT ![a.pos][a.key[a.level]] = -l]
        /\ leaf' = With(leaf, l, WithPair([key |-> a.key, rows |-> << >>, length |-> 0], a.pair))
        /\ pairCount' = pairCount + 1
        /\ add' = NoAdd
        /\ UNCHANGED <<nodeCells, treeReply>>

(* there is the leaf of the key; *)
AddFound ==
    \E a \in add :
        /\ IsLeaf(Here(a))
        /\ leaf[-Here(a)].key = a.key
        /\ leaf' = [leaf EXCEPT ![-Here(a)] = WithPair(@, a.pair)]
        /\ pairCount' = pairCount + 1
        /\ add' = NoAdd
        /\ UNCHANGED <<node, cells, treeReply>>

(* there is the leaf of another key: a node takes its place, the leaf goes *)
(* below it, and the loop looks at the same place again.                   *)
AddSplit ==
    \E a \in add, n \in Cells :
        /\ IsLeaf(Here(a))
        /\ leaf[-Here(a)].key # a.key
        /\ NewNode(n)
        /\ LET old == leaf[-Here(a)].key[a.level + 1]
           IN node' = With([node EXCEPT ![a.pos][a.key[a.level]] = n],
                           n, [EmptyNode EXCEPT ![old] = Here(a)])
        /\ UNCHANGED <<leaf, leafCells, pairCount, add, treeReply>>
-----------------------------------------------------------------------------
(* The refs that get_leaf_and_parent follows for key k; Null from where    *)
(* the path ends.                                                          *)
Path(k) ==
    LET P[i \in 0 .. Levels] ==
            IF i = 0 THEN Root
            ELSE LET ref == P[i - 1] IN IF IsNode(ref) THEN node[ref][k[i]] ELSE Null
    IN P

(* get_leaf: the leaf of key k, or Null. *)
LeafOf(k) ==
    LET found == {l \in DOMAIN leaf : leaf[l].key = k /\ \E i \in 1 .. Levels : Path(k)[i] = -l}
    IN IF found = {} THEN Null ELSE CHOOSE l \in found : TRUE

\* Mutant: a node is freed with its last leaf or node, whatever its other branches.
CulledWholePath(path, last) == 1 .. last

(* collapse_by_pk: the levels of the path whose nodes are left without a   *)
(* branch, the root excepted.  last is the level of the leaf's parent.     *)
Culled(path, last) ==
    {i \in 1 .. last :
        \A j \in i .. last : \A b \in B : node[path[j]][b] \in {Null, path[j + 1]}}

(* What is left of a leaf, or of the count, when n pairs have gone. *)
Less(lf, pattern) ==
    LET rest == Lists!Without(lf.rows, pattern)
    IN [lf EXCEPT !.rows = rest, !.length = @ - (Len(lf.rows) - Len(rest))]

(* fs_ptree_remove: there is no leaf for the key, or no pair that matches; *)
RemoveNothing(k, pattern) ==
    /\ add = NoAdd
    /\ \A l \in {LeafOf(k)} \ {Null} : Lists!Matching(leaf[l].rows, pattern) = << >>
    /\ treeReply' = Lists!NoReply
    /\ UNCHANGED <<node, leaf, cells, pairCount, add>>

RemovedFrom(l, pattern) ==
    /\ pairCount' = pairCount - Len(Lists!Matching(leaf[l].rows, pattern))
    /\ treeReply' = [removed |-> Len(Lists!Matching(leaf[l].rows, pattern)),
                 models |-> Lists!Reported(leaf[l].rows, pattern)]

(* some pairs of the leaf remain; *)
RemoveSome(k, pattern) ==
    LET l == LeafOf(k)
    IN /\ add = NoAdd
       /\ l # Null
       /\ Lists!Matching(leaf[l].rows, pattern) # << >>
       /\ Less(leaf[l], pattern).length # 0
       /\ RemovedFrom(l, pattern)
       /\ leaf' = [leaf EXCEPT ![l] = Less(@, pattern)]
       /\ UNCHANGED <<node, cells, add>>

(* or no pair of the leaf is left, and collapse_by_pk frees the leaf and   *)
(* the nodes that only led to it, the lowest first.                        *)
RemoveLast(k, pattern) ==
    LET l == LeafOf(k)
        path == Path(k)
        last == CHOOSE i \in 0 .. (Levels - 1) : path[i + 1] = -l
        culled == Culled(path, last)
        top == last - Cardinality(culled)
    IN /\ add = NoAdd
       /\ l # Null
       /\ Lists!Matching(leaf[l].rows, pattern) # << >>
       /\ Less(leaf[l], pattern).length = 0
       /\ RemovedFrom(l, pattern)
       /\ leaf' = Without(leaf, {l})
       /\ freeLeaves' = <<l>> \o freeLeaves
       /\ freeNodes' = [i \in 1 .. (last - top) |-> path[top + i]] \o freeNodes
       /\ node' = [Without(node, {path[i] : i \in culled}) EXCEPT ![path[top]][k[top + 1]] = Null]
       /\ UNCHANGED <<nodeBase, nodeSize, nodeCount, leafBase, leafSize, leafCount, alloc, add>>
-----------------------------------------------------------------------------
(* remove_all_recurse. *)

Stays(l, pattern) ==
    Lists!Without(leaf[l].rows, pattern) # << >> \/ Lists!Matching(leaf[l].rows, pattern) = << >>

(* The value returned for each node: CULL if no branch is left, MERGE if   *)
(* one branch is left and it was a leaf when its parent was processed.     *)
Outcomes(pattern) ==
    LET Out[n \in DOMAIN node] ==
            LET used == {b \in B :
                    \/ IsLeaf(node[n][b]) /\ Stays(-node[n][b], pattern)
                    \/ IsNode(node[n][b]) /\ Out[node[n][b]] # "CULL"}
            IN IF used = {} THEN "CULL"
               ELSE IF Cardinality(used) = 1 /\ \A b \in used : IsLeaf(node[n][b])
               THEN "MERGE"
               ELSE "NONE"
    IN Out

(* What a branch refers to afterwards; a merged node is replaced by what   *)
(* is left of it.                                                          *)
After(pattern) ==
    LET out == Outcomes(pattern)
        A[ref \in Refs] ==
            IF ref = Null THEN Null
            ELSE IF IsLeaf(ref) THEN (IF Stays(-ref, pattern) THEN ref ELSE Null)
            ELSE IF out[ref] = "CULL" THEN Null
            ELSE IF out[ref] = "MERGE"
            THEN CHOOSE r \in {A[node[ref][b]] : b \in B} : r # Null
            ELSE ref
    IN A

(* The nodes and leaves that are freed below node n, in the order of the   *)
(* walk.                                                                   *)
FreedBelow(pattern) ==
    LET out == Outcomes(pattern)
        F[n \in DOMAIN node, b \in 0 .. Branches] ==
            IF b = 0 THEN << >>
            ELSE LET ref == node[n][b]
                 IN F[n, b - 1] \o
                    (IF IsNode(ref)
                     THEN F[ref, Branches] \o (IF out[ref] = "NONE" THEN << >> ELSE <<ref>>)
                     ELSE IF IsLeaf(ref) /\ ~Stays(-ref, pattern) THEN <<ref>> ELSE << >>)
    IN F[Root, Branches]

Backwards(s) == [i \in 1 .. Len(s) |-> s[Len(s) - i + 1]]

(* fs_ptree_remove_all, which fs_delete_models calls with a model and a    *)
(* wildcard.                                                               *)
RemoveFromAll(pattern) ==
    /\ add = NoAdd
    /\ LET after == After(pattern)
           freed == Backwards(FreedBelow(pattern))
           goneLeaves == SelectSeq(freed, IsLeaf)
           goneNodes == SelectSeq(freed, IsNode)
           stay == {l \in DOMAIN leaf : -l \notin Entries(goneLeaves)}
           kept == {n \in DOMAIN node : n \notin Entries(goneNodes)}
       IN /\ node' = [n \in kept |-> [b \in B |-> after[node[n][b]]]]
          /\ leaf' = [l \in stay |-> Less(leaf[l], pattern)]
          /\ freeLeaves' = [i \in DOMAIN goneLeaves |-> -goneLeaves[i]] \o freeLeaves
          /\ freeNodes' = goneNodes \o freeNodes
          /\ pairCount' = pairCount - Cardinality(UNION {
                {l} \X DOMAIN Lists!Matching(leaf[l].rows, pattern) : l \in DOMAIN leaf})
    /\ treeReply' = Lists!NoReply
    /\ UNCHANGED <<nodeBase, nodeSize, nodeCount, leafBase, leafSize, leafCount, alloc, add>>

PT_Next ==
    \/ \E k \in Keys, pair \in Lists!Pairs : AddStart(k, pair)
    \/ AddDescend
    \/ AddNode
    \/ AddLeaf
    \/ AddFound
    \/ AddSplit
    \/ \E k \in Keys, pattern \in Lists!Patterns : 
          \/ RemoveNothing(k, pattern)
          \/ RemoveSome(k, pattern)
          \/ RemoveLast(k, pattern)
    \/ \E m \in KeyModels : RemoveFromAll(<<m, KeyNull>>)

(* The loop of an add is a sequential piece of one request. *)
Adding == AddDescend \/ AddNode \/ AddLeaf \/ AddFound \/ AddSplit
PT_Spec == PT_Init /\ [][PT_Next]_pt_vars /\ WF_pt_vars(Adding)
-----------------------------------------------------------------------------

(* The walk of fs_ptree_traverse_next: the leaves in the order in which it *)
(* reaches them.  The frames of its stack are nodes with the next branch;  *)
(* a node that is met goes below the frame that is being read.             *)
TraverseStep(it) ==
    LET n == it.stack[1][1]
        b == it.stack[1][2]
    IN IF it.stack = << >> THEN it
       ELSE IF b > Branches THEN [it EXCEPT !.stack = Tail(@)]
       ELSE [out |-> IF IsLeaf(node[n][b]) THEN Append(it.out, -node[n][b]) ELSE it.out,
             stack |-> <<<<n, b + 1>>>>
                       \o (IF IsNode(node[n][b]) THEN <<<<node[n][b], 1>>>> ELSE << >>)
                       \o Tail(it.stack)]
Traverse ==
    LET T[i \in 0 .. (Cardinality(DOMAIN node) * (Branches + 1))] ==
            IF i = 0 THEN [out |-> << >>, stack |-> <<<<Root, 1>>>>] ELSE TraverseStep(T[i - 1])
    IN T[Cardinality(DOMAIN node) * (Branches + 1)]
-----------------------------------------------------------------------------
(* The nodes of the tree, and its leaves. *)
TreeNodes ==
    LET T[i \in 0 .. Levels] ==
            IF i = 0 THEN {Root}
            ELSE {ref \in {node[n][b] : n \in T[i - 1], b \in B} : IsNode(ref)}
    IN UNION {T[i] : i \in 0 .. Levels}
LeavesOf(nodes) == {-ref : ref \in {r \in {node[n][b] : n \in nodes, b \in B} : IsLeaf(r)}}

(* No node or leaf is lost or in two places, and no cell of the file is    *)
(* both a node and a leaf, however the runs of the two alternate ("leaves  *)
(* have been leaked", "nodes have been leaked").                           *)
CellsAccountedFor ==
    /\ DOMAIN node = TreeNodes /\ DOMAIN leaf = LeavesOf(DOMAIN node)
    /\ DOMAIN node \cap Entries(freeNodes) = {} /\ DOMAIN leaf \cap Entries(freeLeaves) = {}
    /\ (DOMAIN node \cup Entries(freeNodes)) \cap (DOMAIN leaf \cup Entries(freeLeaves)) = {}
    /\ Cardinality(DOMAIN node) + Len(freeNodes) = nodeCount
    /\ Cardinality(DOMAIN leaf) + Len(freeLeaves) = leafCount
    /\ Cardinality(Entries(freeNodes)) = Len(freeNodes)
    /\ Cardinality(Entries(freeLeaves)) = Len(freeLeaves)

(* The lengths in the leaves and the count in the header are those of the    *)
(* lists, and nothing empty stays in the tree ("should have been           *)
(* colected", "should have been culled", "does not match data").           *)
LengthsAgree ==
    /\ \A l \in DOMAIN leaf : leaf[l].length = Len(leaf[l].rows) /\ leaf[l].length > 0
    /\ pairCount = Cardinality(UNION {{l} \X DOMAIN leaf[l].rows : l \in DOMAIN leaf})
    /\ add = NoAdd => \A n \in DOMAIN node \ {Root} : node[n] # EmptyNode

(* A traversal returns every leaf of the tree once, and comes to its end. *)
TraversalIsComplete ==
    LET walk == Traverse
    IN /\ walk.stack = << >>
       /\ Entries(walk.out) = DOMAIN leaf
       /\ Len(walk.out) = Cardinality(DOMAIN leaf)

(* Every add comes to an end, at the latest when the keys differ ("fell    *)
(* through get_or_create_leaf").                                           *)
AddEnds == add # NoAdd ~> add = NoAdd

rowsOf == [k \in Keys |-> LET l == LeafOf(k) IN IF l = Null THEN << >> ELSE leaf[l].rows]
TreeLists == INSTANCE PairLists WITH
    Owners <- Keys, Models <- KeyModels, Objects <- KeyObjects, NULL <- KeyNull,
    list <- rowsOf, reply <- treeReply

(* The tree keeps the list of pairs of every key: no split, merge or       *)
(* collapse hides the pairs of another key, in no state of an add.         *)
TreeImplementsPairLists == TreeLists!Spec

(* What fs_ptree's consistency check looks for, in every state: no cell is *)
(* lost or shared, counts are right, and a traversal sees every leaf.      *)
TreeIsSound == CellsAccountedFor /\ LengthsAgree /\ TraversalIsComplete
=============================================================================
