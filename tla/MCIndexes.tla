----------------------------- MODULE MCIndexes -----------------------------
(* The files of a segment, checked side by side: which of them changes     *)
(* stays fixed in a behaviour.                                             *)
(*                                                                         *)
(* Model hash: three models; in a table of two slots ra and rb share a     *)
(* slot and fill the one of rc, and growing moves rb to a slot that rc may *)
(* need.                                                                   *)
(* Pair table: two leaves share up to three rows of two pairs.             *)
(* Predicate tree: three keys of four binary digits, two of which differ   *)
(* in the last digit only while the third leaves their path at the second. *)
(* Resource hash: a number, a date and five URIs, so that texts are stored *)
(* in each way and the table doubles three times.                          *)
EXTENDS Mhash, PTable, PTree, TreeRing, RHash, ChunkList

CONSTANTS ra, rb, rc, m1, m2, o1, o2

VARIABLE which

MCHash == ra :> 0 @@ rb :> 2 @@ rc :> 3
MCKeys == {<<1, 1, 1, 1>>, <<1, 1, 1, 2>>, <<1, 2, 1, 1>>}
MCNumberChars == <<"1", "2", ".">>
MCDateChars == <<"1", "2", "T">>
MCResources ==
    {[rid |-> 2, uri |-> FALSE, lex |-> <<"1", ".", "2">>],
     [rid |-> 3, uri |-> FALSE, lex |-> <<"1", "T", "2", "1">>],
     [rid |-> 4, uri |-> TRUE, lex |-> <<"h", "a", "1", "y">>],
     [rid |-> 6, uri |-> TRUE, lex |-> <<"h", "a", "2", "y">>],
     [rid |-> 7, uri |-> TRUE, lex |-> <<"h", "b", "1", "y">>],
     [rid |-> 8, uri |-> TRUE, lex |-> <<"h", "b", "2", "y">>],
     [rid |-> 10, uri |-> TRUE, lex |-> <<"h", "a", "1", "y", "y">>]}
MCQuads == {<<1, 1, 1, 2>>, <<1, 2, 1, 1>>, <<2, 1, 2, 1>>}

\* Two pairs are stored; the patterns also name the two that are not.
TwoPairs == \A r \in DOMAIN data : data[r] \in {<<m1, o1>>, <<m2, o2>>}

\* The number and the date are stored beside a few others only.
FewWithLiteral == (\E r \in rh_put : ~r.uri) => Cardinality(rh_put) <= 4

vars == <<mh_vars, pb_vars, pt_vars, tr_vars, rh_vars, li_vars, which>>

Init ==
    /\ which \in {"mhash", "ptable", "ptree", "ring", "rhash", "lists", "tlists"}
    /\ MH_Init /\ PB_Init /\ PT_Init /\ TR_Init /\ RH_Init /\ LI_Init

ModelHash == which = "mhash" /\ MH_Next
             /\ UNCHANGED <<pb_vars, pt_vars, tr_vars, rh_vars, li_vars, which>>
Table2 == which = "ptable" /\ PB_Next
          /\ UNCHANGED <<mh_vars, pt_vars, tr_vars, rh_vars, li_vars, which>>
Tree == which = "ptree" /\ PT_Next
        /\ UNCHANGED <<mh_vars, pb_vars, tr_vars, rh_vars, li_vars, which>>
Ring == which = "ring" /\ TR_Next
        /\ UNCHANGED <<mh_vars, pb_vars, pt_vars, rh_vars, li_vars, which>>
ResourceHash == which = "rhash" /\ RH_Next
                /\ UNCHANGED <<mh_vars, pb_vars, pt_vars, tr_vars, li_vars, which>>
Chunks == ((which = "lists" /\ LI_Next) \/ (which = "tlists" /\ TL_Next))
          /\ UNCHANGED <<mh_vars, pb_vars, pt_vars, tr_vars, rh_vars, which>>

Next == ModelHash \/ Table2 \/ Tree \/ Ring \/ ResourceHash \/ Chunks

RemovalStep == which = "ptable" /\ (RemoveRow \/ KeepRow \/ RemoveEnd)
               /\ UNCHANGED <<mh_vars, pt_vars, tr_vars, rh_vars, li_vars, which>>
AddStep == which = "ptree" /\ Adding
           /\ UNCHANGED <<mh_vars, pb_vars, tr_vars, rh_vars, li_vars, which>>

(* The loops of a removal and of an add run to their end. *)
Spec == Init /\ [][Next]_vars /\ WF_vars(RemovalStep) /\ WF_vars(AddStep)

-----------------------------------------------------------------------------
(* The loops over a chain of pairs and down a tree end.                    *)
LoopsEnd == RemovalEnds /\ AddEnds
=============================================================================
