---------------------------- MODULE MCClientLink ----------------------------
(* The link that threads share and what common/ gives to all programs, the *)
(* ids of terms and the containers of ids, checked side by side: which of  *)
(* them changes stays fixed in a behaviour.                                *)
(*                                                                         *)
(* Link: segments 0 and 1 on one server and 2 on another; segment 2 is     *)
(* mirrored.                                                               *)
EXTENDS ClientLink, IdVectors, TermIds, TLC

CONSTANTS serverA, serverB

VARIABLE which

MCGroup == (0 :> serverA) @@ (1 :> serverA) @@ (2 :> serverB)
MCMirrored == {2}
MCQuerySets == {{0}, {1, 2}, {0, 1, 2}}

\* Ids in vectors and sets; the first is FS_RID_NULL.
MCVectorRids == {-3, -1, 2}
MCSetRids == MCVectorRids \cup {3, 4}
MCRidNull == -3

\* Terms: URIs, blank nodes in each way they are written, and literals that
\* differ in their text, tag or datatype only.
MCHashTexts == {<<1>>, <<1, 2>>, <<2, 1>>}
MCTerms ==
    {UriTerm(Text("http", "a")), UriTerm(Numbered("_:b", 3)), UriTerm(Numbered("bnode:b", 3)),
     UriTerm(Numbered("skolem", 9)), BnodeTerm(3), BnodeTerm(9)}
    \cup {UriTerm(Xsd(type)) : type \in {"short", "int", "byte"}}
    \cup {Literal(Text("word", w), NoText, dt) :
            w \in {"1", "true"},
            dt \in {NoText, Text("http", "a")}
                   \cup {Xsd(type) : type \in {"string", "integer", "int", "short", "boolean", "byte"}}}
    \cup {Literal(Text("word", "1"), Text("tag", tag), NoText) : tag \in {"en", "EN"}}
    \cup {Literal(text, NoText, NoText) :
            text \in {Numbered("bnode:b", 3), Text("tag", "EN"), Text("http", "a")}}

MCInit ==
    /\ which \in {"link", "containers", "ids"}
    /\ Init /\ IV_Init /\ TI_Init
    /\ which # "containers" => iv_use = "vector"

MCNext ==
    /\ which' = which
    /\ \/ which = "link" /\ Next /\ UNCHANGED <<ivvars, tivars>>
       \/ which = "containers" /\ IV_Next /\ UNCHANGED <<vars, tivars>>
       \/ which = "ids" /\ TI_Next /\ UNCHANGED <<vars, ivvars>>

(* Where the link stays as it was opened nothing fair is enabled. *)
MCSpec == MCInit /\ [][MCNext]_<<which, vars, ivvars, tivars>> /\ Fairness
=============================================================================
