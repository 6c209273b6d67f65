--------------------------- MODULE AccessControl ---------------------------
(***************************************************************************)
(* Access control by graph: the wrapper of binds in frontend/query-cache.c *)
(* with the data it loads from system:config, the flag that says to load   *)
(* it again (common/4s-client.c), the check of http/httpd.c before         *)
(* changes, and the places where changes of system:config set the flag     *)
(* (frontend/update.c, frontend/import.c, fsp_delete_model_all).           *)
(*                                                                         *)
(* Queries run in threads and load under cache_mutex; the main thread      *)
(* makes the changes, and loads as well.  A configuration is the set of    *)
(* its admin users and the pairs of graphs and users who may read them.    *)
(*                                                                         *)
(* OddAccess: "no mutex", the main thread loads without taking the mutex,  *)
(* as it does; "early flag", a query loads between the moment an update    *)
(* sets the flag and the moment its quads are committed; "read while       *)
(* loading", a query looks at the data while another thread replaces them. *)
(***************************************************************************)
EXTENDS Integers, Sequences, FiniteSets, SequencesExt

CONSTANTS
    AclThreads, AclMain,  \* threads of queries, and the main thread
    Users, DefaultAdmin,
    SystemConfig,         \* the graph of the configuration
    Configs,              \* configurations: [admins, access]
    BoundRows,            \* the graphs of the rows a bind gives, in order
    OddAccess

ASSUME AccessControlAssumption ==
    /\ AclMain \notin AclThreads /\ DefaultAdmin \in Users
    /\ OddAccess \subseteq {"no mutex", "early flag", "read while loading"}

VARIABLES
    ac_config,   \* the committed configuration
    ac_old,      \* the one before the change in progress
    ac_info,     \* link->acl_system_info: admins, graphs and the reload flag
    ac_mutex,    \* who holds cache_mutex
    ac_at,       \* per thread: what it is doing
    ac_saw,      \* per thread: the configuration its load has bound
    ac_change,   \* of the main thread: kind of change and the configuration to be
    ac_query     \* per query thread: its user, what the configurations in effect
                 \* since it began deny the user, and the rows of the answer

acvars == <<ac_config, ac_old, ac_info, ac_mutex, ac_at, ac_saw, ac_change, ac_query>>

AllThreads == AclThreads \cup {AclMain}
NoThread == <<"nobody">>
Holder(t) == <<"thread", t>>
NoQuery == [user |-> DefaultAdmin, seen |-> {}, rows |-> <<>>]
NoConfig == [admins |-> {}, access |-> {}]
NoChange == [kind |-> "none", to |-> NoConfig]

(* What fs_acl_load_system_info makes of a configuration: only admins see  *)
(* system:config, and there always is an admin.                            *)
Loaded(config) ==
    LET admins == IF config.admins = {} THEN {DefaultAdmin} ELSE config.admins
        users(g) == {a[2] : a \in {b \in config.access : b[1] = g}}
    IN [admins |-> admins, reload |-> FALSE,
        graphs |-> {[graph |-> g, users |-> users(g)] : g \in {a[1] : a \in config.access} \ {SystemConfig}}
                   \cup {[graph |-> SystemConfig, users |-> admins]}]
\* The data while they are being replaced.
Torn(reload) == [admins |-> {}, reload |-> reload, graphs |-> {}]

\* no_access_for_user, key_in and is_admin
no_access_for_user(info, user) ==
    IF user \in info.admins THEN {} ELSE {e.graph : e \in {f \in info.graphs : user \notin f.users}}

(* The rows that are left: those marked by fs_mark_discard_rows are        *)
(* overwritten by the ones after them.                                     *)
fs_mark_discard_rows(denied) == {i \in DOMAIN BoundRows : BoundRows[i] \in denied}
Shifts(marked, i) == Cardinality({j \in marked : j <= i})

\* Row i is copied to i less the rows marked before it; the last copy stays.
Compacted(marked) ==
    [k \in 1 .. Len(BoundRows) - Cardinality(marked) |->
        BoundRows[Max({i \in DOMAIN BoundRows : i - Shifts(marked, i - 1) = k})]]

AC_Init ==
    /\ ac_config \in Configs /\ ac_old = ac_config
    /\ ac_info = Torn(TRUE)
    /\ ac_mutex = NoThread
    /\ ac_at = [t \in AllThreads |-> "idle"]
    /\ ac_saw = [t \in AllThreads |-> NoConfig]
    /\ ac_change = NoChange
    /\ ac_query = [t \in AclThreads |-> NoQuery]

Loading == {t \in AllThreads : ac_at[t] \in {"bound", "torn"}}
-----------------------------------------------------------------------------
(* fs_acl_load_system_info, for a thread that found the flag set: bind the *)
(* configuration, free the old data, fill in the new.                      *)
LoadBind(t) ==
    /\ ac_at[t] = "load"
    /\ t \in AclThreads /\ ac_at[AclMain] = "flagged" => "early flag" \in OddAccess
    /\ ac_saw' = [ac_saw EXCEPT ![t] = ac_config]
    /\ ac_at' = [ac_at EXCEPT ![t] = "bound"]
    /\ UNCHANGED <<ac_config, ac_old, ac_info, ac_mutex, ac_change, ac_query>>

LoadFree(t) ==
    /\ ac_at[t] = "bound"
    /\ ac_info' = Torn(ac_info.reload)
    /\ ac_at' = [ac_at EXCEPT ![t] = "torn"]
    /\ UNCHANGED <<ac_config, ac_old, ac_mutex, ac_saw, ac_change, ac_query>>

LoadFill(t) ==
    /\ ac_at[t] = "torn"
    /\ ac_info' = Loaded(ac_saw[t])
    /\ ac_saw' = [ac_saw EXCEPT ![t] = NoConfig]
    /\ ac_at' = [ac_at EXCEPT ![t] = "loaded"]
    /\ UNCHANGED <<ac_config, ac_old, ac_mutex, ac_change, ac_query>>

(* fs_bind_cache_wrapper_intl *)
QueryStart(t, user) ==
    /\ ac_at[t] = "idle" /\ ac_mutex = NoThread
    /\ ac_mutex' = Holder(t)
    /\ ac_query' = [ac_query EXCEPT ![t] = 
            [user |-> user, rows |-> <<>>,
             seen |-> {no_access_for_user(Loaded(c), user) : c \in {ac_config, ac_old}}]]
    /\ ac_at' = [ac_at EXCEPT ![t] = IF ac_info.reload THEN "load" ELSE "loaded"]
    /\ UNCHANGED <<ac_config, ac_old, ac_info, ac_saw, ac_change>>

QueryUnlock(t) ==
    /\ ac_at[t] = "loaded" /\ t \in AclThreads
    /\ ac_mutex' = NoThread
    /\ ac_at' = [ac_at EXCEPT ![t] = "filter"]
    /\ UNCHANGED <<ac_config, ac_old, ac_info, ac_saw, ac_change, ac_query>>

(* The rest of fs_bind_cache_wrapper_intl_acl *)
QueryFilter(t) ==
    /\ ac_at[t] = "filter"
    /\ (\E u \in Loading : ac_at[u] = "torn") => "read while loading" \in OddAccess
    /\ ac_query' = [ac_query EXCEPT ![t].rows =
            Compacted(fs_mark_discard_rows(no_access_for_user(ac_info, ac_query[t].user)))]
    /\ ac_at' = [ac_at EXCEPT ![t] = "answered"]
    /\ UNCHANGED <<ac_config, ac_old, ac_info, ac_mutex, ac_saw, ac_change>>

QueryEnd(t) ==
    /\ ac_at[t] = "answered"
    /\ ac_at' = [ac_at EXCEPT ![t] = "idle"]
    /\ ac_query' = [ac_query EXCEPT ![t] = NoQuery]
    /\ UNCHANGED <<ac_config, ac_old, ac_info, ac_mutex, ac_saw, ac_change>>
-----------------------------------------------------------------------------
(* data_modification_acl_granted: the main thread may load.  It takes no   *)
(* mutex.                                                                  *)
ChangeStart(kind, config) ==
    /\ ac_at[AclMain] = "idle"
    /\ ac_change' = [kind |-> kind, to |-> config]
    /\ IF "no mutex" \in OddAccess THEN UNCHANGED ac_mutex
       ELSE ac_mutex = NoThread /\ ac_mutex' = Holder(AclMain)
    /\ ac_at' = [ac_at EXCEPT ![AclMain] = IF ac_info.reload THEN "load" ELSE "loaded"]
    /\ UNCHANGED <<ac_config, ac_old, ac_info, ac_saw, ac_query>>

ChangeGranted(user) ==
    /\ ac_at[AclMain] = "loaded"
    /\ ac_mutex' = IF "no mutex" \in OddAccess THEN ac_mutex ELSE NoThread
    /\ IF user \in ac_info.admins
       THEN ac_at' = [ac_at EXCEPT ![AclMain] = "granted"] /\ UNCHANGED ac_change
       ELSE ac_at' = [ac_at EXCEPT ![AclMain] = "idle"] /\ ac_change' = NoChange
    /\ UNCHANGED <<ac_config, ac_old, ac_info, ac_saw, ac_query>>

\* Mutant: the flag is not set.
NotFlagged == ac_info

\* fsp_reload_acl_system
Flagged == [ac_info EXCEPT !.reload = TRUE]

(* An update sets the flag when it sends a quad of system:config. *)
UpdateFlag ==
    /\ ac_at[AclMain] = "granted" /\ ac_change.kind = "update"
    /\ ac_info' = Flagged
    /\ ac_at' = [ac_at EXCEPT ![AclMain] = "flagged"]
    /\ UNCHANGED <<ac_config, ac_old, ac_mutex, ac_saw, ac_change, ac_query>>

(* The quads are committed, or deleted. *)
ChangeCommit ==
    /\ ac_at[AclMain] = IF ac_change.kind = "update" THEN "flagged" ELSE "granted"
    /\ ac_config' = ac_change.to
    /\ ac_old' = IF ac_change.kind = "update" THEN ac_change.to ELSE ac_config
    /\ ac_query' = [t \in AclThreads |->
            IF ac_at[t] = "idle" THEN ac_query[t]
            ELSE [ac_query[t] EXCEPT !.seen = @ \cup {no_access_for_user(Loaded(ac_change.to), ac_query[t].user)}]]
    /\ ac_at' = [ac_at EXCEPT ![AclMain] = IF ac_change.kind = "update" THEN "idle" ELSE "committed"]
    /\ ac_change' = NoChange
    /\ UNCHANGED <<ac_info, ac_mutex, ac_saw>>

(* An import and the deletion of a graph set the flag afterwards. *)
ChangeFlag ==
    /\ ac_at[AclMain] = "committed"
    /\ ac_info' = Flagged
    /\ ac_old' = ac_config
    /\ ac_at' = [ac_at EXCEPT ![AclMain] = "idle"]
    /\ UNCHANGED <<ac_config, ac_mutex, ac_saw, ac_change, ac_query>>

AC_Next ==
    \/ \E t \in AllThreads : LoadBind(t) \/ LoadFree(t) \/ LoadFill(t)
    \/ \E t \in AclThreads :
        \/ \E user \in Users : QueryStart(t, user)
        \/ QueryUnlock(t) \/ QueryFilter(t) \/ QueryEnd(t)
    \/ \E kind \in {"update", "import or delete"}, config \in Configs : ChangeStart(kind, config)
    \/ \E user \in Users : ChangeGranted(user)
    \/ UpdateFlag \/ ChangeCommit \/ ChangeFlag
-----------------------------------------------------------------------------
(* When no change is in progress and nobody loads, data that are not       *)
(* flagged for loading are those of the committed configuration.           *)
AclIsCurrent ==
    ac_at[AclMain] = "idle" /\ Loading = {} /\ ~ac_info.reload => ac_info = Loaded(ac_config)

(* A query gets exactly the rows of the graphs its user may read under one *)
(* of the configurations in effect while it ran.                           *)
AnswersFollowAccess ==
    \A t \in AclThreads : ac_at[t] = "answered" =>
        \E denied \in ac_query[t].seen :
            ac_query[t].rows = SelectSeq(BoundRows, LAMBDA g : g \notin denied)

(* "this function should be under mutex conditions": two threads are never *)
(* in fs_acl_load_system_info at once.                                     *)
OneLoader == Cardinality(Loading) <= 1

(* Access is decided by the configuration in effect.                       *)
AccessIsCurrent == AclIsCurrent /\ AnswersFollowAccess
=============================================================================
