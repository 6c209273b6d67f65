---------------------------- MODULE ServerProcess ----------------------------
(***************************************************************************)
(* The processes of 4s-backend on one host and the files that tie them to  *)
(* a knowledge base: main of backend/server.c, fs_lock_kb of               *)
(* backend/lock.c, fsp_serve, accept_fn and init_runtime_info of           *)
(* common/4s-server.c, fs_backend_init of backend/backend.c, the flush of  *)
(* backend/metadata.c, and the utilities that make, copy and remove a      *)
(* knowledge base.                                                         *)
(*                                                                         *)
(* The lock on metadata.nt is an flock: it belongs to the open file, so    *)
(* the children that a server forks hold it with the server, and it is     *)
(* gone when the last of them is.  A flush of the metadata truncates the   *)
(* file and then writes all of it.                                         *)
(***************************************************************************)
EXTENDS Integers, FiniteSets

CONSTANTS
    Servers, Kids,      \* server processes and children there may be at a time
    KBs,                \* names of knowledge bases
    Ports,              \* the ports tried, FS_DEFAULT_PORT first
    MaxMade,            \* bound on the metadata files ever made
    OddServers          \* "crash": a process may be killed inside a flush;
                        \* "setup": set-up and removal of a KB that is served

ASSUME SP_Assumption ==
    /\ Ports \subseteq Nat /\ Ports # {} /\ IsFiniteSet(Ports)
    /\ MaxMade \in Nat /\ OddServers \subseteq {"crash", "setup"}
    /\ "none" \notin Servers \cup KBs

VARIABLES
    sp_file,    \* sp_file[k]: the metadata file of k, see NoKb
    sp_info,    \* sp_info[k]: what runtime.info of k says, see NoInfo
    sp_srv,     \* sp_srv[v]: the main process v, see OffServer
    sp_kid,     \* sp_kid[i]: a child process, see NoKid
    sp_made     \* metadata files and UUIDs made so far

sp_vars == <<sp_file, sp_info, sp_srv, sp_kid, sp_made>>

NoKb == [state |-> "nodir", ino |-> 0, uuid |-> 0]
NoInfo == [srv |-> "none", port |-> 0]
OffServer == [phase |-> "off", kb |-> "none", ino |-> 0, port |-> 0]
NoKid == [srv |-> "none", kb |-> "none", ino |-> 0, port |-> 0, uuid |-> 0, flush |-> FALSE]

SP_Init ==
    \* a knowledge base that was made before UUIDs has none
    /\ sp_file \in [KBs -> {NoKb, [state |-> "whole", ino |-> 0, uuid |-> 0]}]
    /\ sp_info = [k \in KBs |-> NoInfo]
    /\ sp_srv = [v \in Servers |-> OffServer]
    /\ sp_kid = [i \in Kids |-> NoKid]
    /\ sp_made = 0

(* fs_backend_init: the metadata can be read and is that of this KB. *)
Readable(k) == sp_file[k].state = "whole"

Running(v) == sp_srv[v].phase # "off"
Alive(i) == sp_kid[i] # NoKid

\* Mutant: the lock is the server's alone, as with fcntl.
HeldByServer(k) == \E v \in Servers : Running(v) /\ sp_srv[v].kb = k /\ sp_srv[v].ino = sp_file[k].ino

(* The metadata file of k is open, and locked, in some process. *)
Locked(k) ==
    \/ \E v \in Servers : Running(v) /\ sp_srv[v].kb = k /\ sp_srv[v].ino = sp_file[k].ino
    \/ \E i \in Kids : Alive(i) /\ sp_kid[i].kb = k /\ sp_kid[i].ino = sp_file[k].ino

FreePorts == {p \in Ports : /\ \A v \in Servers : Running(v) => sp_srv[v].port # p
                            /\ \A i \in Kids : Alive(i) => sp_kid[i].port # p}

SetServer(v, rec) == sp_srv' = [sp_srv EXCEPT ![v] = rec]
-----------------------------------------------------------------------------
(* main: fs_lock_kb, before anything else. *)
LockKb(v, k) ==
    /\ ~Running(v) /\ sp_file[k].state # "nodir" /\ ~Locked(k)
    /\ SetServer(v, [phase |-> "locked", kb |-> k, ino |-> sp_file[k].ino, port |-> 0])
    /\ UNCHANGED <<sp_file, sp_info, sp_kid, sp_made>>

(* fsp_serve: the first port that can be bound, from the default port up.  *)
(* The listening sockets too are inherited by the children.                *)
Listen(v) ==
    /\ sp_srv[v].phase = "locked"
    /\ SetServer(v, IF FreePorts = {} THEN OffServer
                    ELSE [sp_srv[v] EXCEPT !.phase = "listening",
                            !.port = CHOOSE p \in FreePorts : \A q \in FreePorts : p <= q])
    /\ UNCHANGED <<sp_file, sp_info, sp_kid, sp_made>>

(* A KB without a UUID is given one, which is flushed to the file. *)
Preloaded(v) ==
    [sp_srv[v] EXCEPT !.phase = IF sp_file[sp_srv[v].kb].uuid = 0 THEN "naming" ELSE "announced"]

(* fsp_serve: fs_backend_init with FS_BACKEND_PRELOAD reads the metadata,  *)
(* and the service is announced.                                           *)
Preload(v) ==
    LET k == sp_srv[v].kb IN
    /\ sp_srv[v].phase = "listening"
    /\ IF ~Readable(k)
       THEN SetServer(v, OffServer) /\ UNCHANGED sp_file
       ELSE /\ SetServer(v, Preloaded(v))
            /\ sp_file' = IF Preloaded(v).phase = "naming"
                          THEN [sp_file EXCEPT ![k].state = "torn"] ELSE sp_file
    /\ UNCHANGED <<sp_info, sp_kid, sp_made>>

PreloadFlushed(v) ==
    /\ sp_srv[v].phase = "naming" /\ sp_made < MaxMade
    /\ sp_file' = [sp_file EXCEPT ![sp_srv[v].kb].state = "whole",
                                  ![sp_srv[v].kb].uuid = sp_made + 1]
    /\ SetServer(v, [sp_srv[v] EXCEPT !.phase = "announced"])
    /\ sp_made' = sp_made + 1
    /\ UNCHANGED <<sp_info, sp_kid>>

(* init_runtime_info: fopen truncates the file. *)
TruncateInfo(v) ==
    /\ sp_srv[v].phase = "announced"
    /\ sp_info' = [sp_info EXCEPT ![sp_srv[v].kb] = NoInfo]
    /\ SetServer(v, [sp_srv[v] EXCEPT !.phase = "info"])
    /\ UNCHANGED <<sp_file, sp_kid, sp_made>>

InfoOf(v) == [srv |-> v, port |-> sp_srv[v].port]

(* The fcntl lock of the file is taken and the pid and the port written,   *)
(* unless another server has the lock.                                     *)
WriteInfo(v) ==
    LET k == sp_srv[v].kb IN
    /\ sp_srv[v].phase = "info"
    /\ IF \E w \in Servers \ {v} : sp_srv[w].phase = "serving" /\ sp_srv[w].kb = k
                                   /\ sp_srv[w].ino = sp_srv[v].ino
       THEN SetServer(v, OffServer) /\ UNCHANGED sp_info
       ELSE /\ sp_info' = [sp_info EXCEPT ![k] = InfoOf(v)]
            /\ SetServer(v, [sp_srv[v] EXCEPT !.phase = "serving"])
    /\ UNCHANGED <<sp_file, sp_kid, sp_made>>

(* accept_fn: the child reads the metadata; if that fails it exits.  If    *)
(* there is no UUID it makes one too.                                      *)
AcceptKid(v, i) ==
    LET k == sp_srv[v].kb
        new == sp_file[k].uuid = 0
    IN /\ sp_srv[v].phase = "serving" /\ ~Alive(i) /\ Readable(k)
       /\ new => sp_made < MaxMade
       /\ sp_kid' = [sp_kid EXCEPT ![i] =
              [srv |-> v, kb |-> k, ino |-> sp_srv[v].ino, port |-> sp_srv[v].port, flush |-> new,
               uuid |-> IF new THEN sp_made + 1 ELSE sp_file[k].uuid]]
       /\ sp_made' = IF new THEN sp_made + 1 ELSE sp_made
       /\ sp_file' = IF new THEN [sp_file EXCEPT ![k].state = "torn"] ELSE sp_file
       /\ UNCHANGED <<sp_info, sp_srv>>

(* fs_metadata_flush of a child, for instance after BNODE ALLOC. *)
KidFlush(i) ==
    /\ Alive(i) /\ ~sp_kid[i].flush /\ sp_file[sp_kid[i].kb].state # "nodir"
    /\ sp_kid' = [sp_kid EXCEPT ![i].flush = TRUE]
    /\ sp_file' = [sp_file EXCEPT ![sp_kid[i].kb].state = "torn"]
    /\ UNCHANGED <<sp_info, sp_srv, sp_made>>

KidFlushed(i) ==
    /\ Alive(i) /\ sp_kid[i].flush
    /\ sp_kid' = [sp_kid EXCEPT ![i].flush = FALSE]
    /\ sp_file' = [sp_file EXCEPT ![sp_kid[i].kb].state = "whole",
                                  ![sp_kid[i].kb].uuid = sp_kid[i].uuid]
    /\ UNCHANGED <<sp_info, sp_srv, sp_made>>

(* The client closes the connection, or the child is killed. *)
KidEnds(i) ==
    /\ Alive(i) /\ (sp_kid[i].flush => "crash" \in OddServers)
    /\ sp_kid' = [sp_kid EXCEPT ![i] = NoKid]
    /\ UNCHANGED <<sp_file, sp_info, sp_srv, sp_made>>

(* The server alone is killed: its children go on serving their clients. *)
KillServer(v) ==
    /\ Running(v) /\ (sp_srv[v].phase = "naming" => "crash" \in OddServers)
    /\ SetServer(v, OffServer)
    /\ UNCHANGED <<sp_file, sp_info, sp_kid, sp_made>>
-----------------------------------------------------------------------------
(* The utilities take no lock. *)
MayReplace(k) == "setup" \in OddServers \/ ~Locked(k)

(* 4s-backend-setup: the directory is removed and made anew. *)
BackendSetup(k) ==
    /\ MayReplace(k) /\ sp_made < MaxMade
    /\ sp_file' = [sp_file EXCEPT ![k] =
                     [state |-> "whole", ino |-> sp_made + 1, uuid |-> sp_made + 1]]
    /\ sp_info' = [sp_info EXCEPT ![k] = NoInfo]
    /\ sp_made' = sp_made + 1
    /\ UNCHANGED <<sp_srv, sp_kid>>

(* 4s-backend-destroy. *)
BackendDestroy(k) ==
    /\ MayReplace(k) /\ sp_file[k].state # "nodir"
    /\ sp_file' = [sp_file EXCEPT ![k] = NoKb]
    /\ sp_info' = [sp_info EXCEPT ![k] = NoInfo]
    /\ UNCHANGED <<sp_srv, sp_kid, sp_made>>

(* 4s-backend-copy: all files, runtime.info and the UUID included, to a    *)
(* name that is not in use.  A copy of a torn file does not open again.    *)
BackendCopy(from, to) ==
    /\ sp_file[from].state # "nodir" /\ sp_file[to].state = "nodir" /\ sp_made < MaxMade
    /\ ~Locked(to)
    /\ sp_file' = [sp_file EXCEPT ![to] = [sp_file[from] EXCEPT !.ino = sp_made + 1]]
    /\ sp_info' = [sp_info EXCEPT ![to] = sp_info[from]]
    /\ sp_made' = sp_made + 1
    /\ UNCHANGED <<sp_srv, sp_kid>>

SP_Next ==
    \/ \E v \in Servers : \/ \E k \in KBs : LockKb(v, k)
                          \/ Listen(v) \/ Preload(v) \/ PreloadFlushed(v)
                          \/ TruncateInfo(v) \/ WriteInfo(v) \/ KillServer(v)
                          \/ \E i \in Kids : AcceptKid(v, i)
    \/ \E i \in Kids : KidFlush(i) \/ KidFlushed(i) \/ KidEnds(i)
    \/ \E k \in KBs : BackendSetup(k) \/ BackendDestroy(k)
    \/ \E from, to \in KBs : BackendCopy(from, to)

SP_Spec == SP_Init /\ [][SP_Next]_sp_vars
-----------------------------------------------------------------------------
(* All processes that serve a knowledge base, children included, descend   *)
(* from one server: a second server is refused as long as a child of the   *)
(* first one lives, so that no two families change the files of a KB.      *)
OneFamilyPerKb ==
    /\ \A v, w \in Servers : Running(v) /\ Running(w) /\ sp_srv[v].kb = sp_srv[w].kb => v = w
    /\ \A v \in Servers, i \in Kids : Running(v) /\ Alive(i) /\ sp_kid[i].kb = sp_srv[v].kb
           => sp_kid[i].srv = v
    /\ \A i, j \in Kids : Alive(i) /\ Alive(j) /\ sp_kid[i].kb = sp_kid[j].kb
           => sp_kid[i].srv = sp_kid[j].srv

(* While a server accepts connections, runtime.info names it and a port    *)
(* that no other server listens on: the truncation by fopen, which comes   *)
(* before the lock of that file is looked at, never hits a live server.    *)
RuntimeInfoIsLive ==
    \A v \in Servers : sp_srv[v].phase = "serving" =>
        /\ sp_info[sp_srv[v].kb] = [srv |-> v, port |-> sp_srv[v].port]
        /\ \A w \in Servers \ {v} : Running(w) => sp_srv[w].port # sp_srv[v].port

(* The clients of a knowledge base all see the UUID that is on disk, and   *)
(* a server that accepts connections can read its metadata unless one of   *)
(* its children is writing it.                                             *)
MetadataIsShared ==
    /\ \A i \in Kids : Alive(i) => sp_kid[i].uuid = sp_file[sp_kid[i].kb].uuid
    /\ \A v \in Servers : sp_srv[v].phase = "serving" =>
           \/ sp_file[sp_srv[v].kb].state = "whole"
           \/ \E i \in Kids : sp_kid[i].kb = sp_srv[v].kb /\ sp_kid[i].flush

(* A knowledge base has one family of processes, which the port in         *)
(* runtime.info leads to and whose members see the same metadata.          *)
KbHasOneServer == OneFamilyPerKb /\ RuntimeInfoIsLive /\ MetadataIsShared
=============================================================================
