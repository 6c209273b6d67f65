----------------------------- MODULE MCChanges -----------------------------
(* What changes the store from the frontend, checked side by side: the     *)
(* connections and processes of the HTTP server, the requests of three of  *)
(* its clients, SPARQL updates, imports of documents, and access control   *)
(* while the configuration it is read from changes.                        *)
EXTENDS HttpConnections, HttpServer, Updates, ImportStream, AccessControl, TLC

CONSTANT Parts   \* the parts that are checked

VARIABLE which

\* Updates: two graphs and the default graph, triples with and without blank nodes.
g1 == Uri(1)
g2 == Uri(2)
P == Uri(5)
T1 == <<Uri(6), P, Uri(7)>>
TB == <<Bnode(1), P, Uri(7)>>
TC == <<Bnode(1), P, Bnode(2)>>
MCInitial ==
    {{}, {Quad(g1, T1)}, {Quad(g1, TB), Quad(g1, TC)}, {Quad(g1, T1), Quad(g2, TB)},
     {Quad(DefaultGraph, T1), Quad(g2, T1)}, {Quad(g1, T1), Quad(g1, <<Uri(6), P, Uri(6)>>), Quad(g2, TC)}}
UpdateGraphs == {DefaultGraph, g1, g2}
X == <<"var", "x">>
Y == <<"var", "y">>
A == <<"label", "a">>
B == <<"label", "b">>
Template(g, s, p, o) == [g |-> g, t |-> <<s, p, o>>]
Update(d, i, w) == [type |-> "update", del |-> d, ins |-> i, where |-> w]
Wheres == {Template(g1, X, P, Y), Template(g2, X, P, Uri(7))}
MCOps ==
    {[type |-> "unknown"], [type |-> "create"]}
    \cup [type : {"clear"}, g : UpdateGraphs]
    \cup [type : {"load"}, g : {g1}, doc : {{T1}}]
    \cup [type : {"add", "move", "copy"}, from : UpdateGraphs, to : UpdateGraphs]
    \cup {Update({}, {Template(g, Uri(6), P, <<"lit", 1, tag>>)}, NoWhere) : g \in {NoGraph, g1}, tag \in {"EN", "en", ""}}
    \cup {Update({}, {Template(g1, A, P, B), Template(g2, A, P, Uri(7))}, NoWhere)}
    \cup {Update({Template(g, Uri(6), P, Uri(7))}, {}, NoWhere) : g \in {NoGraph, g1, g2}}
    \cup {Update({Template(g1, X, P, Y)}, {}, NoWhere)}
    \cup {Update({Template(g, X, P, Uri(7))}, {Template(h, s, P, o)}, w) :
            g \in {NoGraph, g1}, h \in {g2, NoGraph}, s \in {X, A}, o \in {Y, X}, w \in Wheres}
    \cup {Update({}, {Template(g1, Uri(6), p, X), Template(g2, Uri(8), P, Uri(7))}, w) : p \in {P, Y}, w \in Wheres}

\* Imports: two segments whose buffers fill within a document, and a cache
\* in which resources share places.
G1 == <<"uri", "g1">>
G2 == <<"uri", "g2">>
P1 == <<"uri", "p1">>
P2 == <<"uri", "p2">>
L1 == <<"lit", "l1">>
Line(g, s, p, o) == [g |-> g, s |-> s, p |-> p, o |-> o]
MCStatements ==
    {Line(DefaultOf, P1, P1, L1), Line(G2, P1, P2, L1), Line(DefaultOf, A, P1, B), Line(DefaultOf, P1, P1, A),
     Line(G2, B, P1, L1), Line(Config, P1, TextIndex, TokenPred)}
MCHome == Config :> 0 @@ TextIndex :> 1 @@ TokenPred :> 0 @@ G1 :> 1 @@ G2 :> 0 @@ P1 :> 1 @@ P2 :> 0 @@ L1 :> 0
          @@ Token(L1) :> 1
MCSlot == Config :> 0 @@ TextIndex :> 1 @@ TokenPred :> 2 @@ G1 :> 0 @@ G2 :> 1 @@ P1 :> 2 @@ P2 :> 1 @@ L1 :> 0
          @@ Token(L1) :> 1
MCImportGraphs == {G1, Config}

\* Access control: a configuration without admins, and two that disagree
\* about the admin and about both graphs.
Configuration(admins, access) == [admins |-> admins, access |-> access]
MCConfigs ==
    {Configuration({}, {}), Configuration({"u1"}, {<<"g1", "u1">>}),
     Configuration({"adm"}, {<<"g1", "u2">>, <<"g2", "u1">>})}
MCRows == <<"g1", "g2", "sys", "g1", "g2">>

\* Connections: requests of every kind, one that announces more than it
\* sends, and options that are given in several places or twice.  A request
\* arrives in up to two pieces, and two come while a child is replaced.  The
\* last three requests are only sent if OddHttp has what they ask for.
Param(k, v) == [key |-> <<k>>, value |-> <<v>>]
Flag(k) == [key |-> <<k>>, value |-> << >>]
AskedQuery == Param("query", <<"a", "&", "=">>)
MCAsks ==
    <<Ask("GET", "/sparql/", "none", "none", <<AskedQuery>>),
      Ask("GET", "/sparql/", "none", "none",
          <<AskedQuery, Flag("restricted"), Param("soft-limit", <<"0">>), Param("output", <<"+">>)>>),
      Ask("GET", "/sparql/", "none", "none",
          <<Param("query", <<"b">>), Param("soft-limit", << >>), Param("apikey", <<" ">>), AskedQuery>>),
      Ask("GET", "/status/size/", "none", "none", << >>),
      Ask("GET", "/other", "none", "none", << >>),
      Ask("OPTIONS", "/sparql/", "none", "none", << >>),
      Ask("PUT", "/data/", "none", "none", << >>),
      Ask("POST", "/sparql/", "form", "none", <<AskedQuery>>),
      Ask("POST", "/sparql/", "form", "long", <<AskedQuery>>),
      Ask("POST", "/sparql/", "other", "right", <<AskedQuery>>),
      Ask("POST", "/sparql/", "form", "right",
          <<AskedQuery, Param("soft-limit", <<"5">>), Param("apikey", <<"=">>)>>),
      Ask("POST", "/update/", "form", "right", <<Param("update", <<"a">>)>>),
      Ask("POST", "/data/", "form", "right", <<Param("graph", <<"a">>), Param("data", <<"b">>)>>),
      Ask("POST", "/sparql/", "form", "right", <<AskedQuery, Flag("restricted")>>),
      Ask("POST", "/sparql/", "form", "right", <<AskedQuery, Param("soft-limit", <<"0">>)>>),
      Ask("POST", "/sparql/", "form", "right", <<AskedQuery, Param("output", <<"+">>)>>)>>
Unset == [graph |-> << >>, limit |-> << >>, access |-> << >>, rules |-> << >>, cors |-> << >>]
Scene(line, store, all, first, second, pieces, failures) ==
    [line |-> line, store |-> store, all |-> all, pieces |-> pieces, failures |-> failures,
     asks |-> [c \in Connections |-> IF c = "c1" THEN first ELSE second]]
MCScenes ==
    {Scene([Unset EXCEPT !.rules = <<1>>], [Unset EXCEPT !.graph = <<0>>, !.access = <<1>>],
           [Unset EXCEPT !.graph = <<1>>, !.limit = <<0>>], DOMAIN MCAsks, {}, 1, 0),
     Scene([Unset EXCEPT !.limit = <<2>>, !.cors = <<1>>], [Unset EXCEPT !.limit = <<3>>],
           [Unset EXCEPT !.graph = <<1>>], DOMAIN MCAsks, {}, 1, 0),
     Scene(Unset, Unset, Unset, {1, 11}, {}, 2, 0),
     Scene(Unset, Unset, Unset, {9, 12}, {1}, 1, 1)}
MCSizes == <<<<[quads |-> 2, models |-> 1]>>, <<[quads |-> 3, models |-> 2]>>>>
-----------------------------------------------------------------------------
(* Where connections are not looked at the server has been stopped. *)
Stopped ==
    /\ hc_conn = [c \in Connections |-> NoConnection]
    /\ hc_watch = {} /\ hc_main = {} /\ hc_pool = << >> /\ hc_running = {}
    /\ hc_scene = "none" /\ hc_set = "none"
    /\ hc_parent = "gone" /\ hc_cpid = "nobody" /\ hc_child = "none" /\ hc_failures = 0

Init ==
    /\ which \in Parts
    /\ HS_Init /\ UP_Init /\ IM_Init /\ AC_Init
    /\ IF which = "connections" THEN HC_Init ELSE Stopped
    /\ which # "updates" => up_ref = {}
    /\ which # "access" => ac_config = NoConfig

Next ==
    /\ which' = which
    /\ \/ which = "connections" /\ HC_Next /\ UNCHANGED <<HS_vars, upvars, imvars, acvars>>
       \/ which = "http" /\ HS_Next /\ UNCHANGED <<hcvars, upvars, imvars, acvars>>
       \/ which = "updates" /\ UP_Next /\ UNCHANGED <<hcvars, HS_vars, imvars, acvars>>
       \/ which = "imports" /\ IM_Next /\ UNCHANGED <<hcvars, HS_vars, upvars, acvars>>
       \/ which = "access" /\ AC_Next /\ UNCHANGED <<hcvars, HS_vars, upvars, imvars>>

(* Where the requests stay at their initial state nothing fair is enabled. *)
Spec == Init /\ [][Next]_<<which, hcvars, HS_vars, upvars, imvars, acvars>> /\ HC_Fairness /\ HS_Fairness
=============================================================================
