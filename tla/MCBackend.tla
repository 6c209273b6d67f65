------------------------------- MODULE MCBackend -------------------------------
(* The processes of a backend, the opening of links to it, the calls on a   *)
(* link, the administration of a cluster and the messages it uses, checked  *)
(* side by side: what is checked stays fixed in a behaviour.                *)
EXTENDS ServerProcess, Links, ClusterAdmin, AdminMessages

VARIABLE which

vars == <<sp_vars, lk_vars, lc_vars, ad_vars, am_vars, which>>

MCFaults == {{}, {<<0, 1>>}}
MCGroup == [s \in LinkSegments |-> 0]

(* Names are numbers here: 31 is the longest that a byte counts, 1023 the  *)
(* most data that a header announces, with ByteSize = 32.                  *)
Text(n) == [i \in 1..n |-> 1 + (i % 7)]
Command(c, n) == [cmd |-> c, text |-> Text(n)]
Answered(c, v, n, msg) == [cmd |-> c, val |-> v, text |-> Text(n), msg |-> Text(msg)]
Many(n, max) == [cmd |-> ADM_RSP_EXPECT_N_KB, n |-> n, max |-> max]
Info(n, pid, segs) ==
    [name |-> Text(n), pid |-> pid, port |-> 40, status |-> 1, num_segments |-> 64, segments |-> segs]
Infos(c, s) == [cmd |-> c, infos |-> s]
Create(n, pw, flag) ==
    [cmd |-> ADM_CMD_CREATE_KB, node_id |-> 1, cluster_size |-> 2, num_segments |-> 33, mirror |-> flag,
     model_files |-> ~flag, delete_existing |-> flag, text |-> Text(n), password |-> Text(pw)]
Ask(node, c, answers) == [node |-> node, asks |-> c, says |-> answers]
All(c) == [cmd |-> c]

MCJobs ==
    {<<Ask(1, All(c), <<Many(2, 31), Answered(a, 0, 2, 0), Answered(a, 9, 31, 3)>>),
       Ask(2, All(c), <<Many(0, 0)>>)>> :
         <<c, a>> \in {<<ADM_CMD_STOP_KB_ALL, ADM_RSP_STOP_KB>>, <<ADM_CMD_FSTOP_KB_ALL, ADM_RSP_STOP_KB>>,
                       <<ADM_CMD_START_KB_ALL, ADM_RSP_START_KB>>}}
    \cup
    {<<Ask(1, Command(c, n), <<Answered(a, 0, n, m)>>), Ask(1, Command(c, 1), <<Answered(a, 11, 1, 0)>>),
       Ask(2, Command(c, n), <<Command(ADM_RSP_ERROR, 5)>>)>> :
         <<c, a>> \in {<<ADM_CMD_STOP_KB, ADM_RSP_STOP_KB>>, <<ADM_CMD_FSTOP_KB, ADM_RSP_STOP_KB>>,
                       <<ADM_CMD_START_KB, ADM_RSP_START_KB>>, <<ADM_CMD_DELETE_KB, ADM_RSP_DELETE_KB>>},
         <<n, m>> \in {<<3, 2>>, <<31, 988>>}}
    \cup
    {<<Ask(1, Create(n, pw, f), <<Answered(ADM_RSP_CREATE_KB, 0, n, 4)>>),
       Ask(2, Create(n, pw, ~f), <<Answered(ADM_RSP_CREATE_KB, 12, n, 0)>>)>> :
         n \in {2, 31, 32}, pw \in {0, 31}, f \in BOOLEAN}
    \cup
    {<<Ask(1, All(ADM_CMD_GET_KB_INFO_ALL),
           <<Infos(ADM_RSP_GET_KB_INFO_ALL, <<Info(1, 5, <<0, 40>>), Info(31, 40000, <<>>)>>)>>),
       Ask(2, All(ADM_CMD_GET_KB_INFO_ALL), <<Command(ADM_RSP_ERROR, 6)>>),
       Ask(3, All(ADM_CMD_GET_KB_INFO_ALL), <<Infos(ADM_RSP_GET_KB_INFO_ALL, <<Info(1, 7, <<1>>)>>)>>)>>,
     <<Ask(1, Command(ADM_CMD_GET_KB_INFO, 1), <<Infos(ADM_RSP_GET_KB_INFO, <<Info(1, 5, <<0, 2>>)>>)>>),
       Ask(2, Command(ADM_CMD_GET_KB_INFO, 1), <<Infos(ADM_RSP_GET_KB_INFO, <<Info(1, 6, <<1, 3>>)>>)>>)>>}
    \cup
    {<<Ask(1, Command(ADM_CMD_STOP_KB, 0), <<Answered(ADM_RSP_STOP_KB, 0, 0, 0)>>)>>}
    \cup
    {<<Ask(1, Command(ADM_CMD_STOP_KB, 32), <<Answered(ADM_RSP_STOP_KB, 11, 32, 0)>>)>> :
         x \in OddMessages \cap {"long name"}}
    \cup
    {<<Ask(1, Command(ADM_CMD_DELETE_KB, 1), <<Answered(ADM_RSP_DELETE_KB, 11, 1, 1020)>>)>> :
         x \in OddMessages \cap {"long answer"}}

OneJob == <<Ask(1, Command(ADM_CMD_STOP_KB, 0), <<Answered(ADM_RSP_STOP_KB, 0, 0, 0)>>)>>

Init ==
    /\ which \in {"processes", "opening", "calls", "nodes", "messages"}
    /\ SP_Init /\ LK_Init /\ LC_Init /\ AD_Init /\ AM_Init
    /\ which # "processes" => sp_file = [k \in KBs |-> NoKb]
    /\ which # "opening" => lk_bad = {}
    /\ which # "nodes" => ad_kb = [n \in AdminNodes |-> [k \in Stores |-> NoStore]]
    /\ which # "messages" => am_job = OneJob

Processes == which = "processes" /\ SP_Next /\ UNCHANGED <<lk_vars, lc_vars, ad_vars, am_vars, which>>
Opening == which = "opening" /\ LK_Next /\ UNCHANGED <<sp_vars, lc_vars, ad_vars, am_vars, which>>
Calling == which = "calls" /\ LC_Next /\ UNCHANGED <<sp_vars, lk_vars, ad_vars, am_vars, which>>

Administering == which = "nodes" /\ AD_Next /\ UNCHANGED <<sp_vars, lk_vars, lc_vars, am_vars, which>>
Messaging == which = "messages" /\ AM_Next /\ UNCHANGED <<sp_vars, lk_vars, lc_vars, ad_vars, which>>

Next == Processes \/ Opening \/ Calling \/ Administering \/ Messaging

OpeningStep(c) ==
    which = "opening" /\ LK_Step(c) /\ UNCHANGED <<sp_vars, lc_vars, ad_vars, am_vars, which>>
ClosingStep(c) ==
    which = "opening" /\ CloseLink(c) /\ UNCHANGED <<sp_vars, lc_vars, ad_vars, am_vars, which>>
CallingStep ==
    which = "calls" /\ CallStep /\ UNCHANGED <<sp_vars, lk_vars, ad_vars, am_vars, which>>

(* A client that opens a link goes on and one that has it closes it in the  *)
(* end; a call in progress goes on.                                         *)
Spec ==
    /\ Init /\ [][Next]_vars
    /\ \A c \in Clients : WF_vars(OpeningStep(c)) /\ WF_vars(ClosingStep(c))
    /\ WF_vars(CallingStep)

-----------------------------------------------------------------------------
(* A link that opens reaches its own segments and nobody else's, the calls *)
(* on it read their own answers and leave it clean, and ranges of blank    *)
(* nodes are given out once.                                               *)
LinksAreSound ==
    /\ LinkHoldsItsSegments /\ NoSegmentSpoilt /\ BnodeRangesDisjoint
    /\ AnswersAreOwn /\ LinkIsIdle

(* Opening a link comes to a decision and every call on a link returns.    *)
LinksProceed == LinksDecide /\ CallsReturn

(* What the administrator may rely on when a command has ended, whichever  *)
(* daemons went away in between: the statements of ClusterAdmin on stores  *)
(* that are made, removed, started and stopped, over messages that are     *)
(* read the way they were written.                                         *)
StoresAreWhole ==
    /\ AnswersAreTrue /\ NoServerOfRemovedStore
    /\ CreationIsAllOrNothing /\ EverySegmentHasItsNode /\ DeletionIsComplete
    /\ MessagesAreReadBack /\ ListIsTrue
=============================================================================
