---------------------------- MODULE AdminMessages ----------------------------
(***************************************************************************)
(* The messages between 4s-admin and the daemons 4s-boss of the nodes: how *)
(* admin/admin_protocol.c packs and unpacks them, and how the bytes go     *)
(* over a connection (admin/admin_common.c, admin/admin_frontend.c and     *)
(* admin/admind.c).                                                        *)
(*                                                                         *)
(* A packet has a header with the command and the number of bytes that     *)
(* follow.  The writer may need several calls of send() for it.  The       *)
(* reader takes a whole header, and then as many bytes as it announces, so *)
(* a wrong length spoils whatever comes next on the connection.  A byte    *)
(* has ByteSize values (256 in the code); with a smaller number the limits *)
(* of the one and two byte lengths are met by short names.                 *)
(***************************************************************************)
EXTENDS Integers, Sequences, FiniteSets, SequencesExt

CONSTANTS
    ByteSize,
    Jobs,           \* sequences of exchanges [node, asks, says] that the tool makes
    SendSizes,      \* how many bytes send() takes, if there are more
    OddMessages     \* "cut": a daemon may go away in the middle of a packet;
                    \* "long name", "long answer": see the lengths of packets

ASSUME AM_Assumption ==
    /\ ByteSize \in Nat /\ ByteSize > 30 /\ SendSizes \subseteq Nat \ {0}
    /\ OddMessages \subseteq {"cut", "long name", "long answer"}

VARIABLES
    am_job,     \* the exchanges that are still to be made, the current one first
    am_left,    \* messages that the writer has not packed yet
    am_out,     \* bytes of a packet that send() has not taken yet
    am_wire,    \* bytes that the reader has not taken yet
    am_turn,    \* "ask": the daemon reads; "answer": the tool reads
    am_head,    \* the header that was read last, NoHeader if none is pending
    am_got,     \* messages read in this turn
    am_open,    \* whether the peer still has the connection open
    am_list     \* ki_list: the kb_infos of the nodes so far

am_vars == <<am_job, am_left, am_out, am_wire, am_turn, am_head, am_got, am_open, am_list>>

ADM_PROTO_VERS == 3
ADM_HEADER_LEN == 6
ByteA == 10
ByteC == 12

ADM_CMD_GET_KB_INFO == 5
ADM_RSP_GET_KB_INFO == 6
ADM_CMD_GET_KB_INFO_ALL == 7
ADM_RSP_GET_KB_INFO_ALL == 8
ADM_CMD_STOP_KB == 9
ADM_RSP_STOP_KB == 10
ADM_CMD_START_KB == 11
ADM_RSP_START_KB == 12
ADM_CMD_STOP_KB_ALL == 13
ADM_CMD_START_KB_ALL == 14
ADM_CMD_DELETE_KB == 17
ADM_RSP_DELETE_KB == 18
ADM_CMD_CREATE_KB == 19
ADM_RSP_CREATE_KB == 20
ADM_CMD_FSTOP_KB == 21
ADM_CMD_FSTOP_KB_ALL == 22
ADM_RSP_EXPECT_N_KB == ByteSize - 4
ADM_RSP_ERROR == ByteSize - 1

KbCommands == {ADM_CMD_GET_KB_INFO, ADM_CMD_STOP_KB, ADM_CMD_FSTOP_KB, ADM_CMD_START_KB,
               ADM_CMD_DELETE_KB}
AllCommands == {ADM_CMD_GET_KB_INFO_ALL, ADM_CMD_STOP_KB_ALL, ADM_CMD_FSTOP_KB_ALL,
                ADM_CMD_START_KB_ALL}
KbResponses == {ADM_RSP_STOP_KB, ADM_RSP_START_KB, ADM_RSP_DELETE_KB, ADM_RSP_CREATE_KB}
KbInfos == {ADM_RSP_GET_KB_INFO, ADM_RSP_GET_KB_INFO_ALL}

-----------------------------------------------------------------------------
(* An unsigned number in w bytes, the low one first, and back. *)
Bytes(n, w) == [i \in 1..w |-> (n \div ByteSize^(i - 1)) % ByteSize]
Number(b) == FoldRight(LAMBDA x, high : x + ByteSize * high, b, 0)

(* The n bytes of a buffer from place i on; what lies past the end of the  *)
(* buffer is memory nobody wrote, taken to be 0 here.                      *)
Part(b, i, n) == SubSeq(b \o [j \in 1 .. i + n |-> 0], i, i + n - 1)

init_packet(cmd, data) ==
    <<ByteA, ByteC, ADM_PROTO_VERS, cmd>> \o Bytes(Len(data), 2) \o data

NoHeader == [ok |-> FALSE, cmd |-> 0, size |-> 0]

fsap_decode_header(buf) ==
    IF buf[1] = ByteA /\ buf[2] = ByteC /\ buf[3] = ADM_PROTO_VERS
    THEN [ok |-> TRUE, cmd |-> buf[4], size |-> Number(Part(buf, 5, 2))]
    ELSE NoHeader

(* A packet that is not made: the functions return NULL. *)
NoPacket == <<>>

fsap_encode_cmd_no_params(m) == init_packet(m.cmd, <<>>)

(* The commands on one store, and the error message, are a text only. *)
fsap_encode_text(m) == init_packet(m.cmd, m.text)

(* A text that is NULL has length 0, and one of length 0 is unpacked as    *)
(* NULL; both are <<>> here.                                               *)
encode_kb_response(m) ==
    IF Len(m.text) >= ByteSize \/ Len(m.msg) >= ByteSize^2
    THEN NoPacket
    ELSE init_packet(m.cmd, <<m.val % ByteSize>> \o Bytes(Len(m.text), 1)
                            \o Bytes(Len(m.msg), 2) \o m.text \o m.msg)

decode_kb_response(cmd, buf) ==
    LET name == buf[2]
    IN [cmd |-> cmd, val |-> buf[1], text |-> Part(buf, 5, name),
        msg |-> Part(buf, 5 + name, Number(Part(buf, 3, 2)))]

fsap_encode_rsp_expect_n_kb(m) == init_packet(m.cmd, Bytes(m.n, 2) \o Bytes(m.max, 1))
fsap_decode_rsp_expect_n_kb(cmd, buf) ==
    [cmd |-> cmd, n |-> Number(Part(buf, 1, 2)), max |-> buf[3]]

(* One entry: name_len name pid port status num_segments p_segments_len    *)
(* and the segments.                                                       *)
PackedInfo(k) ==
    Bytes(Len(k.name), 1) \o k.name \o Bytes(k.pid, 4) \o Bytes(k.port, 2) \o <<k.status>>
    \o Bytes(k.num_segments, 2) \o Bytes(Len(k.segments), 2)
    \o FlattenSeq([i \in DOMAIN k.segments |-> Bytes(k.segments[i], 2)])

fsap_encode_rsp_get_kb_info_all(m) ==
    init_packet(m.cmd, Bytes(Len(m.infos), 2)
                       \o FlattenSeq([i \in DOMAIN m.infos |-> PackedInfo(m.infos[i])]))

(* The entry at place p: [info, next], next the place after it. *)
UnpackedInfo(buf, p) ==
    LET name == Number(Part(buf, p, 1))
        q == p + 1 + name
        segs == Number(Part(buf, q + 9, 2))
    IN [info |-> [name |-> Part(buf, p + 1, name), pid |-> Number(Part(buf, q, 4)),
                  port |-> Number(Part(buf, q + 4, 2)), status |-> Number(Part(buf, q + 6, 1)),
                  num_segments |-> Number(Part(buf, q + 7, 2)),
                  segments |-> [i \in 1..segs |-> Number(Part(buf, q + 11 + 2 * (i - 1), 2))]],
        next |-> q + 11 + 2 * segs]

(* Each entry is put in front of those before it. *)
fsap_decode_rsp_get_kb_info_all(cmd, buf) ==
    LET Step(done, i) == LET u == UnpackedInfo(buf, done.next)
                         IN [next |-> u.next, infos |-> <<u.info>> \o done.infos]
        all == FoldLeft(Step, [next |-> 3, infos |-> <<>>],
                        [i \in 1..Number(Part(buf, 1, 2)) |-> i])
    IN [cmd |-> cmd, infos |-> all.infos]

FSAP_KSA_MIRROR == 1
FSAP_KSA_MODEL_FILES == 2
FSAP_KSA_DELETE_EXISTING == 4

Flags(m) ==
    (IF m.mirror THEN FSAP_KSA_MIRROR ELSE 0) + (IF m.model_files THEN FSAP_KSA_MODEL_FILES ELSE 0)
    + (IF m.delete_existing THEN FSAP_KSA_DELETE_EXISTING ELSE 0)
HasFlag(flags, f) == (flags \div f) % 2 = 1

fsap_encode_cmd_create_kb(m) ==
    IF Len(m.text) >= ByteSize \/ Len(m.password) >= ByteSize
    THEN NoPacket
    ELSE init_packet(m.cmd, <<m.node_id, m.cluster_size>> \o Bytes(m.num_segments, 2) \o <<Flags(m)>>
                            \o Bytes(Len(m.text), 1) \o m.text
                            \o Bytes(Len(m.password), 1) \o m.password)

fsap_decode_cmd_create_kb(cmd, buf) ==
    LET name == buf[6]
    IN [cmd |-> cmd, node_id |-> buf[1], cluster_size |-> buf[2],
        num_segments |-> Number(Part(buf, 3, 2)),
        mirror |-> HasFlag(buf[5], FSAP_KSA_MIRROR),
        model_files |-> HasFlag(buf[5], FSAP_KSA_MODEL_FILES),
        delete_existing |-> HasFlag(buf[5], FSAP_KSA_DELETE_EXISTING),
        text |-> Part(buf, 7, name),
        password |-> Part(buf, 8 + name, Number(Part(buf, 7 + name, 1)))]

Packed(m) ==
    CASE m.cmd \in AllCommands -> fsap_encode_cmd_no_params(m)
      [] m.cmd \in KbCommands \cup {ADM_RSP_ERROR} -> fsap_encode_text(m)
      [] m.cmd \in KbResponses -> encode_kb_response(m)
      [] m.cmd = ADM_RSP_EXPECT_N_KB -> fsap_encode_rsp_expect_n_kb(m)
      [] m.cmd \in KbInfos -> fsap_encode_rsp_get_kb_info_all(m)
      [] m.cmd = ADM_CMD_CREATE_KB -> fsap_encode_cmd_create_kb(m)

Unpacked(cmd, buf) ==
    CASE cmd \in AllCommands -> [cmd |-> cmd]
      [] cmd \in KbCommands \cup {ADM_RSP_ERROR} -> [cmd |-> cmd, text |-> buf]
      [] cmd \in KbResponses -> decode_kb_response(cmd, Part(buf, 1, Len(buf) + 4))
      [] cmd = ADM_RSP_EXPECT_N_KB -> fsap_decode_rsp_expect_n_kb(cmd, Part(buf, 1, Len(buf) + 3))
      [] cmd \in KbInfos -> fsap_decode_rsp_get_kb_info_all(cmd, buf)
      [] cmd = ADM_CMD_CREATE_KB -> fsap_decode_cmd_create_kb(cmd, Part(buf, 1, Len(buf) + 8))
      [] OTHER -> [cmd |-> cmd]

-----------------------------------------------------------------------------
Now == Head(am_job)
Messages == IF am_turn = "ask" THEN <<Now.asks>> ELSE Now.says

(* The turn in which the messages ms are written and read. *)
Turn(turn, ms) ==
    /\ am_turn' = turn /\ am_left' = ms /\ am_got' = <<>> /\ am_head' = NoHeader

NoTurn == Turn("none", <<>>) /\ am_out' = <<>> /\ am_wire' = <<>> /\ am_open' = TRUE

(* The tool goes on with the exchanges rest: on the connection it has, or  *)
(* on a new one to the next node.                                          *)
GoOn(rest) ==
    /\ am_job' = rest
    /\ IF rest = <<>> THEN NoTurn
       ELSE /\ Turn("ask", <<Head(rest).asks>>)
            /\ IF Head(rest).node = Now.node THEN UNCHANGED <<am_out, am_wire, am_open>>
               ELSE am_out' = <<>> /\ am_wire' = <<>> /\ am_open' = TRUE

(* The exchanges with the nodes that come after this one. *)
OtherNodes == SelectSeq(am_job, LAMBDA x : x.node # Now.node)

AM_Init ==
    /\ am_job \in Jobs
    /\ am_turn = "ask" /\ am_left = <<Now.asks>> /\ am_got = <<>> /\ am_head = NoHeader
    /\ am_out = <<>> /\ am_wire = <<>> /\ am_open = TRUE /\ am_list = <<>>

(* The next message is packed.  The tool ends if that cannot be done; the  *)
(* daemon sends nothing, and does not close the connection either.         *)
Pack ==
    /\ am_left # <<>> /\ am_out = <<>> /\ am_open
    /\ LET p == Packed(Head(am_left))
       IN IF p = NoPacket /\ am_turn = "ask"
          THEN GoOn(<<>>) /\ UNCHANGED am_list
          ELSE /\ am_out' = p /\ am_left' = Tail(am_left)
               /\ UNCHANGED <<am_job, am_wire, am_turn, am_head, am_got, am_open, am_list>>

(* One call of send() in the loop of fsa_sendall. *)
fsa_sendall ==
    /\ am_out # <<>> /\ am_open
    /\ \E n \in {k \in SendSizes : k < Len(am_out)} \cup {Len(am_out)} :
           /\ am_wire' = am_wire \o SubSeq(am_out, 1, n)
           /\ am_out' = SubSeq(am_out, n + 1, Len(am_out))
    /\ UNCHANGED <<am_job, am_left, am_turn, am_head, am_got, am_open, am_list>>

(* What recv() with MSG_WAITALL gives: n bytes, or fewer when the peer has *)
(* closed the connection.                                                  *)
CanRecv(n) == Len(am_wire) >= n \/ ~am_open
Received(n) == Part(am_wire, 1, n)
Rest(n) == SubSeq(am_wire, n + 1, Len(am_wire))

(* fsa_fetch_header in the tool, recv_from_client in the daemon.  The      *)
(* daemon reads no further for a command without data.                     *)
FetchHeader ==
    /\ am_turn \in {"ask", "answer"} /\ am_head = NoHeader
    /\ CanRecv(ADM_HEADER_LEN) /\ am_wire # <<>>
    /\ LET h == fsap_decode_header(Received(ADM_HEADER_LEN))
       IN IF ~h.ok
          THEN GoOn(OtherNodes) /\ UNCHANGED am_list
          ELSE /\ am_wire' = Rest(ADM_HEADER_LEN)
               /\ am_head' = h
               /\ UNCHANGED <<am_job, am_left, am_out, am_turn, am_got, am_open, am_list>>

(* fsaf_fetch_kb_info closes the connection on any other answer. *)
Ignored ==
    Now.asks.cmd \in {ADM_CMD_GET_KB_INFO, ADM_CMD_GET_KB_INFO_ALL} /\ am_head.cmd \notin KbInfos

IgnoreAnswer ==
    /\ am_turn = "answer" /\ am_head.ok /\ Ignored
    /\ GoOn(OtherNodes) /\ UNCHANGED am_list

(* The peer hung up: the tool is done with that node. *)
HungUp ==
    /\ am_turn = "answer" /\ ~am_open /\ am_wire = <<>> /\ am_left = <<>>
    /\ am_head.ok => am_head.size > 0 /\ ~Ignored
    /\ GoOn(OtherNodes) /\ UNCHANGED am_list

(* recv_from_client for the data of a command.  A recv() of no bytes       *)
(* returns 0, which counts as a client that hung up.                       *)
ReadCommand ==
    /\ am_turn = "ask" /\ am_head.ok /\ CanRecv(am_head.size)
    /\ IF am_head.cmd \notin AllCommands /\ am_head.size = 0
       THEN /\ am_open' = FALSE /\ am_turn' = "answer"
            /\ am_left' = <<>> /\ am_got' = <<>> /\ am_head' = NoHeader
            /\ UNCHANGED <<am_job, am_out, am_wire, am_list>>
       ELSE LET m == Unpacked(am_head.cmd, Received(am_head.size))
            IN /\ am_got' = <<m>>
               /\ am_wire' = Rest(am_head.size)
               /\ am_head' = NoHeader
               /\ am_turn' = "heard"
               /\ UNCHANGED <<am_job, am_left, am_out, am_open, am_list>>

(* The daemon answers the command it has heard. *)
Reply ==
    /\ am_turn = "heard" /\ Turn("answer", Now.says)
    /\ UNCHANGED <<am_job, am_out, am_wire, am_open, am_list>>

(* How many messages the tool waits for in all. *)
Expected(got) == IF got[1].cmd = ADM_RSP_EXPECT_N_KB THEN 1 + got[1].n ELSE 1

(* fsaf_fetch_kb_info puts the infos of a node before those it has.        *)
Gathered(m) ==
    IF m.cmd \in KbInfos
    THEN [i \in DOMAIN m.infos |-> [node |-> Now.node, info |-> m.infos[i]]] \o am_list
    ELSE am_list

(* fsaf_recv_from_admind and what is made of the answer. *)
fsaf_send_recv_cmd ==
    /\ am_turn = "answer" /\ am_head.ok /\ ~Ignored /\ CanRecv(am_head.size)
    /\ am_head.size = 0 \/ am_wire # <<>>
    /\ LET m == Unpacked(am_head.cmd, Received(am_head.size))
           got == Append(am_got, m)
       IN /\ am_list' = Gathered(m)
          /\ am_wire' = Rest(am_head.size)
          /\ am_got' = got
          /\ am_head' = NoHeader
          /\ am_turn' = IF Len(got) >= Expected(got) THEN "read" ELSE "answer"
          /\ UNCHANGED <<am_job, am_left, am_out, am_open>>

(* The tool has its answer and goes on. *)
NextExchange ==
    /\ am_turn = "read" /\ GoOn(Tail(am_job)) /\ UNCHANGED am_list

(* A daemon goes away: between two messages, or with "cut" in the middle   *)
(* of one.                                                                 *)
DaemonEnds ==
    /\ am_turn = "answer" /\ am_open
    /\ am_out = <<>> \/ "cut" \in OddMessages
    /\ am_open' = FALSE /\ am_left' = <<>> /\ am_out' = <<>>
    /\ UNCHANGED <<am_job, am_wire, am_turn, am_head, am_got, am_list>>

AM_Next ==
    Pack \/ fsa_sendall \/ FetchHeader \/ HungUp \/ ReadCommand \/ Reply
         \/ IgnoreAnswer \/ fsaf_send_recv_cmd \/ NextExchange \/ DaemonEnds

-----------------------------------------------------------------------------
(* The reader has the infos of a node in the opposite order. *)
AsRead(m) == IF m.cmd \in KbInfos THEN [m EXCEPT !.infos = Reverse(@)] ELSE m
AsSaid == [i \in DOMAIN Now.says |-> AsRead(Now.says[i])]

(* Whatever pieces send() makes of the packets and however far the writer  *)
(* is ahead, the reader unpacks the very messages that were packed, and    *)
(* both sides agree where they end: a command or an answer that is         *)
(* complete leaves no byte behind for the next one, and nobody waits for   *)
(* bytes that will not come.                                               *)
MessagesAreReadBack ==
    /\ am_turn = "heard" => am_got = <<Now.asks>> /\ am_wire = <<>> /\ am_out = <<>>
    /\ am_turn \in {"answer", "read"} => IsPrefix(am_got, AsSaid)
    /\ am_turn = "read" => am_got = AsSaid /\ am_wire = <<>> /\ am_out = <<>>
    /\ am_turn \in {"ask", "answer"} /\ am_open /\ am_left = <<>> /\ am_out = <<>> =>
          CanRecv(IF am_head.ok THEN am_head.size ELSE ADM_HEADER_LEN)

(* The list that fsaf_fetch_kb_info makes of the answers of several nodes  *)
(* has every store of a node that answered once, with what the node said   *)
(* of it; the nodes that failed or went away leave no trace in it.         *)
ListIsTrue ==
    am_turn = "read" /\ Now.says[1].cmd \in KbInfos =>
        SelectSeq(am_list, LAMBDA k : k.node = Now.node)
            = [i \in DOMAIN AsSaid[1].infos |-> [node |-> Now.node, info |-> AsSaid[1].infos[i]]]
=============================================================================
