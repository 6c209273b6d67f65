--------------------------- MODULE HttpConnections ---------------------------
(***************************************************************************)
(* How 4s-httpd (http/httpd.c) reads requests from its connections and     *)
(* gives them to those who answer, and the processes it consists of.       *)
(*                                                                         *)
(* A parent process holds the listening socket and runs one child at a     *)
(* time.  The child's main loop watches its connections: it reads a head   *)
(* line by line as the pieces arrive, a form in a loop that does nothing   *)
(* else, and hands queries to a pool of threads.  What becomes of imports  *)
(* and updates once they are handed over is in HttpServer, access control  *)
(* of changes in AccessControl.                                            *)
(*                                                                         *)
(* A request is a sequence of tokens.  The request line is two tokens, a   *)
(* header one, and a line ends in CR and LF.  Parameters are spelt out,    *)
(* since what is escaped in them matters.                                  *)
(***************************************************************************)
EXTENDS Integers, Sequences, FiniteSets

LOCAL INSTANCE SequencesExt
LOCAL INSTANCE FiniteSetsExt

CONSTANTS
    Connections,
    Asks,           \* Asks[a]: a request that a client may send, see Ask
    Scenes,         \* how the server is configured (line, store, all: see
                    \* Settings), asks[c]: the requests that client c may send,
                    \* pieces: bound on the pieces in which one arrives, and
                    \* failures: bound on the children that exit by themselves
    SegmentSizes,   \* what the segments reply when asked for their sizes: a
                    \* sequence of at most one record [quads, models] each
    PoolSize,       \* QUERY_THREAD_POOL_SIZE
    PieceSize,      \* what recv_fn takes of an unfinished line, in tokens
    OddHttp         \* what clients do beyond what the code copes with, see
                    \* Deliver, Peculiar and KillServer

ASSUME HttpConnectionsAssumption ==
    /\ PoolSize \in Nat \ {0} /\ PieceSize \in Nat \ {0}
    /\ OddHttp \subseteq {"split", "zero", "restricted", "output", "kill"}

VARIABLES
    hc_conn,    \* hc_conn[c]: the connection and its context (client_ctxt)
    hc_watch,   \* the connections that the main loop watches
    hc_main,    \* the connection whose form the main thread is reading, as a set
    hc_pool,    \* the queries that wait for a thread
    hc_running, \* the queries that have one
    hc_scene,   \* the scene
    hc_set,     \* the settings
    hc_parent,  \* where the parent is in the loop at the end of main
    hc_cpid,    \* whom cpid names: nobody yet, the child, or the one before it
    hc_child,   \* the child process
    hc_failures

hcvars == <<hc_conn, hc_watch, hc_main, hc_pool, hc_running, hc_scene, hc_set,
            hc_parent, hc_cpid, hc_child, hc_failures>>
-----------------------------------------------------------------------------
(* What clients send.  A request has a method, a path, parameters (records *)
(* of a key and a sequence of at most one value), the type of its form and *)
(* the length it announces: none, the right one, or more than it sends.    *)
Raw(x) == <<"raw", x>>
Escaped(x) == <<"%", x>>
CR == Raw("CR")
LF == Raw("LF")
RequestLine == <<Raw("request"), Raw("line")>>
ContentType == <<Raw("content-type")>>
ContentLength == <<Raw("content-length")>>

Spelt(text) ==
    [i \in DOMAIN text |-> CASE text[i] = " " -> Raw("+")
                             [] text[i] \in {"&", "=", "%", "+"} -> Escaped(text[i])
                             [] OTHER -> Raw(text[i])]
Written(params) ==
    FoldLeft(LAMBDA s, p : s \o (IF s = << >> THEN s ELSE <<Raw("&")>>) \o Spelt(p.key)
                             \o FoldLeft(LAMBDA t, v : t \o <<Raw("=")>> \o Spelt(v), << >>, p.value),
             << >>, params)
Ask(method, path, type, length, params) ==
    LET headers == (IF type = "none" THEN << >> ELSE <<ContentType>>)
                   \o (IF length = "none" THEN << >> ELSE <<ContentLength>>)
        text == Written(params)
        body == IF method = "POST" THEN text ELSE << >>
    IN [method |-> method, path |-> path, type |-> type, params |-> params, text |-> text,
        headers |-> {headers[i] : i \in DOMAIN headers},
        length |-> CASE length = "none" -> 0
                     [] length = "right" -> Len(body)
                     [] length = "long" -> Len(body) + 1,
        sent |-> RequestLine \o <<CR, LF>> \o FoldLeft(LAMBDA s, h : s \o h \o <<CR, LF>>, << >>, headers)
                 \o <<CR, LF>> \o body]
-----------------------------------------------------------------------------
(* set_string and set_boolean: the group of the store, or else the group   *)
(* default, or else what there was.  Values are sequences of at most one.  *)
FromFile(scene, key, old) ==
    IF scene.store[key] # << >> THEN scene.store[key]
    ELSE IF scene.all[key] # << >> THEN scene.all[key] ELSE old

(* main: a soft limit on the command line is not overridden, and 0 means   *)
(* that there is none (-1).                                                *)
Settings(scene) ==
    LET is(key) == FromFile(scene, key, scene.line[key]) = <<1>>
        limit == IF scene.line.limit # << >> THEN scene.line.limit
                 ELSE FromFile(scene, "limit", << >>)
    IN [graph |-> is("graph"), access |-> is("access"), cors |-> is("cors"),
        rules |-> scene.line.rules = <<1>>,
        limit |-> IF limit = << >> THEN 0 ELSE IF limit = <<0>> THEN -1 ELSE limit[1]]
-----------------------------------------------------------------------------
(* The context that accept_fn makes. *)
NoOptions == [query |-> << >>, update |-> << >>, graph |-> << >>, data |-> << >>, output |-> << >>,
              apikey |-> << >>, rules |-> << >>, flags |-> {}, limit |-> 0]
NoConnection ==
    [at |-> "none", ask |-> 0, out |-> << >>, pieces |-> 0, hung |-> FALSE, chan |-> << >>, partial |-> << >>,
     request |-> << >>, headers |-> {}, left |-> 0, form |-> << >>, opts |-> NoOptions, answers |-> << >>]
Defaults(set) ==
    [NoOptions EXCEPT !.flags = IF set.graph THEN {"default graph"} ELSE {}, !.limit = set.limit]

(* http_close, after an answer with that code, or with the sizes. *)
NoSizes == [quads |-> 0, models |-> 0]
AnsweredWith(k, code, sizes) ==
    [NoConnection EXCEPT !.at = "closed", !.hung = k.hung,
                         !.answers = Append(k.answers, [code |-> code, sizes |-> sizes])]
Answered(k, code) == AnsweredWith(k, code, NoSizes)
Dropped(k) == [NoConnection EXCEPT !.at = "closed", !.hung = TRUE, !.answers = k.answers]

HC_Init ==
    /\ hc_conn = [c \in Connections |-> NoConnection]
    /\ hc_watch = {} /\ hc_main = {} /\ hc_pool = << >> /\ hc_running = {}
    /\ hc_scene \in Scenes /\ hc_set = Settings(hc_scene)
    /\ hc_parent = "fork" /\ hc_cpid = "nobody" /\ hc_child = "none" /\ hc_failures = 0
-----------------------------------------------------------------------------
(* url_decode *)
UrlDecode(s) == [i \in DOMAIN s |-> IF s[i] = Raw("+") THEN " " ELSE s[i][2]]

(* The loops that take a query string or a form apart: at "&", each field  *)
(* at its first "=", and only then are key and value decoded.              *)
Split(s) ==
    LET ends == SetToSortSeq({i \in DOMAIN s : s[i] = Raw("&")} \cup {Len(s) + 1}, <)
    IN [j \in DOMAIN ends |-> SubSeq(s, IF j = 1 THEN 1 ELSE ends[j - 1] + 1, ends[j] - 1)]
Field(s) ==
    LET equals == {i \in DOMAIN s : s[i] = Raw("=")}
        first == CHOOSE i \in equals : \A j \in equals : i <= j
    IN IF equals = {} THEN [key |-> UrlDecode(s), value |-> << >>]
       ELSE [key |-> UrlDecode(SubSeq(s, 1, first - 1)), value |-> <<UrlDecode(SubSeq(s, first + 1, Len(s)))>>]
Fields(s) == LET parts == Split(s) IN [j \in DOMAIN parts |-> Field(parts[j])]

Atoi(text) == CASE text[1] = "0" -> 0 [] text[1] = "5" -> 5 [] OTHER -> 0

(* What a field does to the options of a query: in http_get_request, and   *)
(* (isForm) in http_post_request, which takes no output, does not read a   *)
(* limit of 0 as none, and forgets the default graph with "restricted".    *)
Option(set, isForm, opts, f) ==
    LET key == f.key[1]
    IN  CASE f.key = <<"restricted">> ->
                [opts EXCEPT !.flags = (IF isForm THEN {} ELSE @) \cup {"restricted"}]
          [] f.key = <<"soft-limit">> /\ f.value # << >> ->
                IF f.value[1] = << >> THEN opts
                ELSE [opts EXCEPT !.limit = IF Atoi(f.value[1]) = 0 /\ ~isForm THEN -1 ELSE Atoi(f.value[1])]
          [] f.key \in {<<"query">>, <<"apikey">>} /\ f.value # << >> -> [opts EXCEPT ![key] = f.value]
          [] f.key = <<"output">> /\ f.value # << >> /\ ~isForm -> [opts EXCEPT !.output = f.value]
          [] f.key = <<"rules">> /\ f.value # << >> /\ set.rules -> [opts EXCEPT !.rules = f.value]
          [] OTHER -> opts

(* The forms of /update/ and /data/ *)
ChangeOption(opts, f) ==
    IF f.key \in {<<"update">>, <<"graph">>, <<"data">>, <<"apikey">>} /\ f.value # << >>
    THEN [opts EXCEPT ![f.key[1]] = f.value] ELSE opts

(* The end of http_get_request and http_post_request for /sparql/:         *)
(* http_answer_query, if there is something to answer.                     *)
Sparql(k, set, isForm, text) ==
    LET o == FoldLeft(LAMBDA opts, f : Option(set, isForm, opts, f), k.opts, Fields(text))
        opts == IF set.rules /\ o.rules = << >> THEN [o EXCEPT !.rules = <<<<"DEFAULT">>>>] ELSE o
    IN IF set.access /\ opts.apikey = << >> THEN Answered(k, "403")
       ELSE IF opts.query = << >> THEN Answered(k, "500")
       ELSE [k EXCEPT !.at = "query", !.opts = opts, !.form = << >>]

(* The end of http_post_request for /update/ and /data/.  Whether access   *)
(* control lets the change through is in AccessControl.                    *)
Changes(k) ==
    LET opts == FoldLeft(ChangeOption, k.opts, Fields(k.form))
        asked == IF Asks[k.ask].path = "/update/" THEN opts.update # << >>
                 ELSE opts.graph # << >> /\ opts.data # << >>
    IN IF ~asked THEN Answered(k, "500") ELSE [k EXCEPT !.at = "change", !.opts = opts, !.form = << >>]

(* http_size_report, http_service_description: the sizes of all segments.  *)
(* One that does not answer leaves sz as it was for the segment before it  *)
(* (for the first one, uninitialized).                                     *)
Total(replies) ==
    FoldLeft(LAMBDA t, r :
                LET sz == IF r = << >> THEN t.sz ELSE r[1]
                IN [sz |-> sz, quads |-> t.quads + sz.quads,
                    models |-> IF sz.models > t.models THEN sz.models ELSE t.models],
             [sz |-> NoSizes, quads |-> 0, models |-> 0], replies)
SizeReport(k) ==
    LET total == Total(SegmentSizes)
    IN AnsweredWith(k, "200", [quads |-> total.quads, models |-> total.models])

(* http_status_report, http_cache_report and http_query_widget read what   *)
(* they show and change nothing.                                           *)
Page(k) == Answered(k, "200")

(* http_get_request *)
Get(k, set) ==
    CASE Asks[k.ask].path = "/sparql/" -> Sparql(k, set, FALSE, Asks[k.ask].text)
      [] Asks[k.ask].path = "/update/" -> Answered(k, "500")
      [] Asks[k.ask].path \in {"/sparql", "/status", "/test"} -> Answered(k, "301")
      [] Asks[k.ask].path \in {"/status/size/", "/description/"} -> SizeReport(k)
      [] Asks[k.ask].path \in {"/status/", "/status/cache/", "/status/cache", "/test/"} -> Page(k)
      [] OTHER -> Answered(k, "404")

(* http_post_request, until it begins to read the form *)
Post(k) ==
    CASE Asks[k.ask].path \notin {"/sparql/", "/update/", "/data/"} -> Answered(k, "404")
      [] ContentType \notin k.headers \/ Asks[k.ask].type # "form" -> Answered(k, "400")
      [] ContentLength \notin k.headers \/ Asks[k.ask].length = 0 -> Answered(k, "411")
      [] OTHER -> [k EXCEPT !.at = "form", !.left = Asks[k.ask].length]

(* http_request, http_head_request and http_options_request; a PUT and a   *)
(* DELETE go to their handlers.  A request line that was not read as it    *)
(* was sent names no path.                                                 *)
Headed == {"/sparql/", "/status/", "/status/size/", "/test/"}
HttpRequest(k, set) ==
    LET method == Asks[k.ask].method
    IN  CASE k.request # RequestLine -> Answered(k, "404")
          [] method = "POST" -> Post(k)
          [] method = "GET" -> Get(k, set)
          [] method = "HEAD" -> Answered(k, IF Asks[k.ask].path \in Headed THEN "200" ELSE "404")
          [] method \in {"PUT", "DELETE"} -> [k EXCEPT !.at = "change"]
          [] method = "OPTIONS" /\ set.cors -> Answered(k, "200")
          [] OTHER -> Answered(k, "400")

(* http_line: the request line without the end, a header, or the end. *)
Chomped(line) ==
    LET text == {i \in DOMAIN line : line[i] \notin {CR, LF}}
    IN SubSeq(line, 1, IF text = {} THEN 0 ELSE CHOOSE i \in text : \A j \in text : j <= i)
HttpLine(k, set, line) ==
    IF k.request = << >> THEN [k EXCEPT !.request = Chomped(line)]
    ELSE IF line = <<CR, LF>> THEN HttpRequest(k, set)
    ELSE [k EXCEPT !.headers = @ \cup {Chomped(line)}]
-----------------------------------------------------------------------------
(* The context of connection c is now k: http_answer_query puts it into    *)
(* the pool, and whoever takes it over or closes it ends the watch.        *)
ProceedWatching(c, k) ==
    /\ hc_conn' = [hc_conn EXCEPT ![c] = k]
    /\ hc_watch' = hc_watch
    /\ hc_main' = IF k.at = "form" THEN {c} ELSE {}
    /\ hc_pool' = IF k.at = "query" THEN Append(hc_pool, c) ELSE hc_pool
    /\ UNCHANGED <<hc_running, hc_scene, hc_set, hc_parent, hc_cpid, hc_child, hc_failures>>
Proceed(c, k) ==
    /\ hc_conn' = [hc_conn EXCEPT ![c] = k]
    /\ hc_watch' = IF k.at \in {"head", "form"} THEN hc_watch ELSE hc_watch \ {c}
    /\ hc_main' = IF k.at = "form" THEN {c} ELSE {}
    /\ hc_pool' = IF k.at = "query" THEN Append(hc_pool, c) ELSE hc_pool
    /\ UNCHANGED <<hc_running, hc_scene, hc_set, hc_parent, hc_cpid, hc_child, hc_failures>>

OnlyConnection(c, k) ==
    /\ hc_conn' = [hc_conn EXCEPT ![c] = k]
    /\ UNCHANGED <<hc_watch, hc_main, hc_pool, hc_running, hc_scene, hc_set,
                   hc_parent, hc_cpid, hc_child, hc_failures>>

(* A client connects; the parent keeps the socket open between children.   *)
(* Peculiar says which of its wishes http_post_request treats unlike       *)
(* http_get_request.                                                       *)
Peculiar(ask, set) ==
    {odd \in {"zero", "restricted", "output"} :
        /\ ask.method = "POST"
        /\ \E i \in DOMAIN ask.params :
            LET p == ask.params[i]
            IN  CASE odd = "zero" -> p = [key |-> <<"soft-limit">>, value |-> <<<<"0">>>>]
                  [] odd = "restricted" -> p.key = <<"restricted">> /\ set.graph
                  [] odd = "output" -> p.key = <<"output">>}
Connect(c) ==
    /\ hc_conn[c].at = "none" /\ hc_parent # "gone"
    /\ \E ask \in hc_scene.asks[c] :
        /\ Peculiar(Asks[ask], hc_set) \subseteq OddHttp
        /\ OnlyConnection(c, [hc_conn[c] EXCEPT !.at = "backlog", !.ask = ask, !.out = Asks[ask].sent])

(* The next piece of what the client sends arrives.  Only if "split" is in *)
(* OddHttp is a piece cut between CR and LF: recv_fn moves the CR into     *)
(* partial, and g_io_channel_read_line finds no end of that line.          *)
Deliver(c) ==
    LET k == hc_conn[c]
    IN \E n \in DOMAIN k.out :
        /\ k.out[n] # CR \/ "split" \in OddHttp
        /\ n = Len(k.out) \/ k.pieces + 1 < hc_scene.pieces
        /\ OnlyConnection(c, [k EXCEPT !.chan = @ \o SubSeq(k.out, 1, n), !.pieces = @ + 1,
                                       !.out = SubSeq(@, n + 1, Len(@))])

(* The client sends no more. *)
HangUp(c) ==
    LET k == hc_conn[c]
    IN /\ k.at \notin {"none", "closed"} /\ ~k.hung
       /\ OnlyConnection(c, [k EXCEPT !.hung = TRUE, !.out = << >>])

(* accept_fn *)
Accept(c) ==
    /\ hc_child = "serving" /\ hc_main = {} /\ hc_conn[c].at = "backlog"
    /\ hc_conn' = [hc_conn EXCEPT ![c].at = "head", ![c].opts = Defaults(hc_set)]
    /\ hc_watch' = hc_watch \cup {c}
    /\ UNCHANGED <<hc_main, hc_pool, hc_running, hc_scene, hc_set, hc_parent, hc_cpid, hc_child, hc_failures>>

(* recv_fn: a line that is complete, or all there is at the end; the end;  *)
(* or a part of a line, which is kept until the rest is there.             *)
LineEnds(s) == {i \in 1 .. Len(s) - 1 : s[i] = CR /\ s[i + 1] = LF}
ReadLine(k) ==
    LET ends == LineEnds(k.chan)
    IN IF ends # {} THEN (CHOOSE i \in ends : \A j \in ends : i <= j) + 1
       ELSE IF k.hung THEN Len(k.chan) ELSE 0
Kept(k) ==
    LET m == IF Len(k.chan) < PieceSize THEN Len(k.chan) ELSE PieceSize
    IN [k EXCEPT !.partial = @ \o SubSeq(k.chan, 1, m), !.chan = SubSeq(@, m + 1, Len(@))]
ReceiveLine(c) ==
    LET k == hc_conn[c]
    IN  /\ c \in hc_watch /\ hc_main = {}
        /\ k.chan # << >> \/ k.hung
        /\ \E n \in {ReadLine(k)} :
            \E rest \in {[k EXCEPT !.chan = SubSeq(@, n + 1, Len(@)), !.partial = << >>]} :
                \/ /\ n > 0
                   /\ \E next \in {HttpLine(rest, hc_set, k.partial \o SubSeq(k.chan, 1, n))} : Proceed(c, next)
                \/ n = 0 /\ k.chan = << >> /\ Proceed(c, Dropped(k))
                \/ n = 0 /\ k.chan # << >> /\ Proceed(c, Kept(k))

(* The loop of http_post_request that reads a form: the main thread does   *)
(* nothing else until the form is there or the connection ends.            *)
ReadForm(c) ==
    LET k == hc_conn[c]
        n == IF k.left < Len(k.chan) THEN k.left ELSE Len(k.chan)
    IN  /\ c \in hc_main
        /\ k.chan # << >> \/ k.hung
        /\ \E read \in {[k EXCEPT !.form = @ \o SubSeq(k.chan, 1, n), !.left = @ - n,
                                    !.chan = SubSeq(@, n + 1, Len(@))]} :
            \E next \in {IF n = 0 THEN Answered(k, "500")
                          ELSE IF read.left > 0 THEN read
                          ELSE IF Asks[k.ask].path = "/sparql/" THEN Sparql(read, hc_set, TRUE, read.form)
                          ELSE Changes(read)} : Proceed(c, next)

(* A thread of the pool takes the next query, *)
StartQuery ==
    /\ hc_pool # << >> /\ Cardinality(hc_running) < PoolSize
    /\ hc_running' = hc_running \cup {Head(hc_pool)}
    /\ hc_pool' = Tail(hc_pool)
    /\ UNCHANGED <<hc_conn, hc_watch, hc_main, hc_scene, hc_set, hc_parent, hc_cpid, hc_child, hc_failures>>

(* and http_query_worker answers it. *)
QueryWorker(c) ==
    /\ c \in hc_running
    /\ hc_running' = hc_running \ {c}
    /\ \E code \in {"200", "400"} : hc_conn' = [hc_conn EXCEPT ![c] = Answered(hc_conn[c], code)]
    /\ hc_watch' = hc_watch \ {c}
    /\ UNCHANGED <<hc_main, hc_pool, hc_scene, hc_set, hc_parent, hc_cpid, hc_child, hc_failures>>

(* A change is made, or refused, and answered. *)
ChangeDone(c) ==
    /\ hc_conn[c].at = "change" /\ hc_main = {}
    /\ \E code \in {"200", "403"} : OnlyConnection(c, Answered(hc_conn[c], code))
-----------------------------------------------------------------------------
(* A child is gone, and with it every connection it had accepted. *)
ChildGone ==
    /\ hc_conn' = [c \in Connections |->
            IF hc_conn[c].at \in {"none", "backlog", "closed"} THEN hc_conn[c] ELSE Dropped(hc_conn[c])]
    /\ hc_watch' = {} /\ hc_main' = {} /\ hc_pool' = << >> /\ hc_running' = {}
    /\ UNCHANGED <<hc_scene, hc_set>>

(* The loop of main: create_child, *)
Fork ==
    /\ hc_parent = "fork"
    /\ hc_parent' = "forked" /\ hc_child' = "opening"
    /\ UNCHANGED <<hc_conn, hc_watch, hc_main, hc_pool, hc_running, hc_scene, hc_set, hc_cpid, hc_failures>>
SetCpid ==
    /\ hc_parent = "forked"
    /\ hc_parent' = "sleep" /\ hc_cpid' = "child"
    /\ UNCHANGED <<hc_conn, hc_watch, hc_main, hc_pool, hc_running, hc_scene, hc_set, hc_child, hc_failures>>

(* sleep, waitpid and child_exited *)
Sleep ==
    /\ hc_parent = "sleep" /\ hc_parent' = "wait"
    /\ UNCHANGED <<hc_conn, hc_watch, hc_main, hc_pool, hc_running, hc_scene, hc_set,
                   hc_cpid, hc_child, hc_failures>>
WaitPidOnce ==
    /\ hc_parent = "wait" /\ hc_child = "exited"
    /\ hc_parent' = "done" /\ hc_child' = "none" /\ hc_cpid' = "old"
    /\ UNCHANGED <<hc_conn, hc_watch, hc_main, hc_pool, hc_running, hc_scene, hc_set, hc_failures>>
WaitPid ==
    /\ hc_parent = "wait" /\ hc_child = "exited"
    /\ hc_parent' = "fork" /\ hc_child' = "none" /\ hc_cpid' = "old"
    /\ UNCHANGED <<hc_conn, hc_watch, hc_main, hc_pool, hc_running, hc_scene, hc_set, hc_failures>>

(* child: the link is opened and answers, or the child exits; it may also  *)
(* crash later (do_backtrace).                                             *)
OpenLink ==
    /\ hc_child = "opening" /\ hc_child' = "serving"
    /\ UNCHANGED <<hc_conn, hc_watch, hc_main, hc_pool, hc_running, hc_scene, hc_set,
                   hc_parent, hc_cpid, hc_failures>>
ChildFails ==
    /\ hc_child \in {"opening", "serving"} /\ hc_failures < hc_scene.failures
    /\ hc_child' = "exited" /\ hc_failures' = hc_failures + 1
    /\ ChildGone
    /\ UNCHANGED <<hc_parent, hc_cpid>>

(* do_kill in the parent passes the signal to cpid and dies.  Before cpid  *)
(* is set for the first time it is 0, which names all processes of the     *)
(* group; after a child has been replaced, a signal between fork and the   *)
(* assignment goes to the old one ("kill" in OddHttp).                     *)
KillServer ==
    /\ hc_parent # "gone"
    /\ hc_parent = "forked" /\ hc_cpid = "old" => "kill" \in OddHttp
    /\ hc_parent' = "gone"
    /\ IF hc_cpid = "old"
       THEN UNCHANGED <<hc_conn, hc_watch, hc_main, hc_pool, hc_running, hc_scene, hc_set, hc_child>>
       ELSE /\ hc_child' = IF hc_child = "none" THEN "none" ELSE "exited"
            /\ ChildGone
    /\ UNCHANGED <<hc_cpid, hc_failures>>

(* The last socket is closed, and who has not been accepted is refused. *)
Refuse(c) ==
    /\ hc_parent = "gone" /\ hc_child \in {"none", "exited"} /\ hc_conn[c].at = "backlog"
    /\ OnlyConnection(c, Dropped(hc_conn[c]))

HC_Next ==
    \/ \E c \in Connections :
        \/ Connect(c) \/ Deliver(c) \/ HangUp(c) \/ Accept(c) \/ ReceiveLine(c) \/ ReadForm(c)
        \/ QueryWorker(c) \/ ChangeDone(c) \/ Refuse(c)
    \/ StartQuery
    \/ Fork \/ SetCpid \/ Sleep \/ WaitPid \/ OpenLink \/ ChildFails \/ KillServer

(* What the processes and threads of the server can do is done, and the    *)
(* client whose form is being read goes on sending or hangs up, since the  *)
(* main thread waits for it.  No step is repeated for ever (a connection   *)
(* carries one request, and children exit finitely often), so fairness     *)
(* means that the server does not stop where it can go on: ServerReady     *)
(* says when one of its steps is enabled.                                  *)
ServerReady ==
    \/ hc_parent \in {"fork", "forked", "sleep"} \/ hc_child = "opening"
    \/ hc_parent = "wait" /\ hc_child = "exited"
    \/ hc_pool # << >> \/ hc_running # {}
    \/ \E c \in Connections :
        LET k == hc_conn[c]
        IN \/ k.at = "backlog" /\ hc_child = "serving" /\ hc_main = {}
           \/ k.at = "backlog" /\ hc_child \in {"none", "exited"} /\ hc_parent = "gone"
           \/ k.at = "change" /\ hc_main = {}
           \/ (k.chan # << >> \/ k.hung) /\ c \in hc_watch /\ hc_main \subseteq {c}
FormAwaited == \E c \in hc_main : ~hc_conn[c].hung
HC_Fairness == []<>~ServerReady /\ []<>~FormAwaited

HC_Spec == HC_Init /\ [][HC_Next]_hcvars /\ HC_Fairness
-----------------------------------------------------------------------------
(* However the pieces of a head are cut, the request line and every header *)
(* are read as they were sent, and a form is read from its beginning.      *)
(* (When a client hangs up within a line, its last line is what there is;  *)
(* the request is then dropped.)                                           *)
LinesAreWhole ==
    \A c \in Connections :
        LET k == hc_conn[c]
        IN /\ k.at \in {"head", "form", "query", "change"} /\ ~k.hung =>
                k.request \in {<< >>, RequestLine} /\ k.headers \subseteq Asks[k.ask].headers
           /\ k.at \in {"form", "query", "change"} => k.headers = Asks[k.ask].headers
           /\ k.at = "form" => k.form = SubSeq(Asks[k.ask].text, 1, Len(k.form))

(* A query is run with the text and the options its client asked for, the  *)
(* last one if an option is given twice: whatever characters they contain, *)
(* and whether they come in the address or in a form.                      *)
Wanted(params, key) ==
    LET given == {i \in DOMAIN params : params[i].key = <<key>> /\ params[i].value \notin {<< >>, <<<< >>>>}}
    IN IF given = {} THEN << >> ELSE params[CHOOSE i \in given : \A j \in given : j <= i].value
QueriesAreAsAsked ==
    \A c \in Connections :
        LET k == hc_conn[c]
            limit == Wanted(Asks[k.ask].params, "soft-limit")
        IN k.at = "query" =>
            /\ k.opts.query = Wanted(Asks[k.ask].params, "query")
            /\ k.opts.output = Wanted(Asks[k.ask].params, "output")
            /\ k.opts.apikey = Wanted(Asks[k.ask].params, "apikey")
            /\ k.opts.limit = IF limit = << >> THEN hc_set.limit ELSE IF limit[1] = <<"0">> THEN -1 ELSE 5
            /\ "restricted" \in k.opts.flags <=>
                    \E i \in DOMAIN Asks[k.ask].params : Asks[k.ask].params[i].key = <<"restricted">>
            /\ "default graph" \in k.opts.flags <=> hc_set.graph

(* Every open context has one owner, the main loop, the pool, a thread or  *)
(* the import queue, and one that is freed has none; so it is freed once,  *)
(* and a connection that stays gets one answer.                            *)
Waiting == {hc_pool[i] : i \in DOMAIN hc_pool}
ContextsAreOwned ==
    /\ Cardinality(Waiting) = Len(hc_pool) /\ Waiting \cap hc_running = {}
    /\ Cardinality(hc_running) <= PoolSize
    /\ \A c \in Connections :
        LET k == hc_conn[c]
        IN /\ c \in hc_watch <=> k.at \in {"head", "form"}
           /\ c \in Waiting \cup hc_running <=> k.at = "query"
           /\ c \in hc_main <=> k.at = "form"
           /\ k.at = "closed" => Len(k.answers) = 1 \/ k.hung

(* The sizes reported are those of the whole store: a model may be in      *)
(* several segments.                                                       *)
SizesAddUp ==
    \A c \in Connections : \A i \in DOMAIN hc_conn[c].answers :
        LET shown == hc_conn[c].answers[i].sizes
            replies == {s \in DOMAIN SegmentSizes : SegmentSizes[s] # << >>}
        IN shown # NoSizes =>
            /\ shown.quads = MapThenSumSet(LAMBDA s : SegmentSizes[s][1].quads, replies)
            /\ \A s \in replies : SegmentSizes[s][1].models <= shown.models

(* There is never a second child, and none is left when the server is      *)
(* killed.                                                                 *)
ChildrenHaveParents ==
    /\ hc_parent = "fork" => hc_child = "none"
    /\ hc_parent = "gone" => hc_child \in {"none", "exited"}

(* What clients ask of 4s-httpd is what is answered, once. *)
RequestsAreUnderstood ==
    LinesAreWhole /\ QueriesAreAsAsked /\ ContextsAreOwned /\ SizesAddUp /\ ChildrenHaveParents

(* Every client that has sent its request is answered in the end, or loses *)
(* its connection with the child, also if it came while there was none:    *)
(* the parent starts the next one.                                         *)
ConnectionsEnd ==
    <>[](\A c \in Connections : hc_conn[c].at \in {"none", "closed"} \/ hc_conn[c].out # << >>)
=============================================================================
