------------------------------ MODULE NbdServer ------------------------------
(***************************************************************************)
(* The NBD server transport (src/libvdf/transport/nbd_server.c) driven     *)
(* through the transport layer (src/libvdf/transport.c) on one drive.     *)
(*                                                                         *)
(* Two kinds of thread share the server's client list and num_clients    *)
(* without a lock: the application's thread, which calls                  *)
(* vdf_transport_start, vdf_transport_process (accept one connection and *)
(* start its thread) and vdf_transport_stop (close every client socket   *)
(* and join its thread), and one client_threadfunc thread per accepted    *)
(* connection, which answers requests and ends in free_client.  The      *)
(* remote NBD clients are the environment: they connect, send requests   *)
(* from Cmds, and may drop the connection at any time.                    *)
(*                                                                         *)
(* Each step is one access to shared state; num_clients++ and            *)
(* --num_clients are a load and a store, so updates can be lost.  List   *)
(* operations are taken as atomic.  A closed server-side socket makes     *)
(* the thread's pending sock_read fail, as closesocket does.              *)
(***************************************************************************)
EXTENDS Integers, Sequences, SequencesExt

CONSTANTS
    Clients,      \* connection slots: one remote client and its nbd_client
    NoClient,     \* no client
    Build,        \* "posix" (pthread_create) or "win32" (CreateThread)
    Cmds,         \* the requests remote clients send
    MaxReq,       \* requests per connection
    StartFails,   \* whether socket, bind or listen may fail in nbdserv_start
    MaxLock       \* bound on the drive's lock count

ASSUME Build \in {"posix", "win32"}
ASSUME Cmds \subseteq {"read", "read_oob", "write", "flush", "disc"}

VARIABLES
    lockcnt,   \* drv->lockcnt
    tflags,    \* trans->flags: subset of {"running", "error", "active"}
    srv,       \* dat->srvsock: "listening" or "closed"
    clients,   \* dat->clients, in list order
    num,       \* dat->num_clients
    alloc,     \* the nbd_client structures not yet freed
    mpc,       \* where the application thread is
    mcur,      \* the client the application thread is working on (cli, pos)
    mnext,     \* the next client of stop's safe iteration (cli_n)
    mload,     \* the value of num_clients it loaded
    tpc,       \* where each client thread is
    tload,     \* the value of num_clients each client thread loaded
    sock,      \* cli->sock: "open" or "closed"
    conn,      \* the remote client: "idle", "pending", "open" or "closed"
    pend,      \* its request: "none", "sent", or "lost" (read, never answered)
    req,       \* the command of the request it sent last
    last,      \* the request struct of the thread, reused when a read gets 0 bytes
    sent,      \* requests sent on the connection
    ub         \* undefined behaviour reached, "none" if not

vars == <<lockcnt, tflags, srv, clients, num, alloc, mpc, mcur, mnext, mload,
          tpc, tload, sock, conn, pend, req, last, sent, ub>>
mainVars == <<mpc, mcur, mnext, mload>>
peerVars == <<conn, pend, req, last, sent>>

Init ==
    /\ lockcnt = 0
    /\ tflags = {}
    /\ srv = "closed"
    /\ clients = <<>>
    /\ num = 0
    /\ alloc = {}
    /\ mpc = "idle" /\ mcur = NoClient /\ mnext = NoClient /\ mload = 0
    /\ tpc = [c \in Clients |-> "none"]
    /\ tload = [c \in Clients |-> 0]
    /\ sock = [c \in Clients |-> "closed"]
    /\ conn = [c \in Clients |-> "idle"]
    /\ pend = [c \in Clients |-> "none"]
    /\ req = [c \in Clients |-> "none"]
    /\ last = [c \in Clients |-> "none"]
    /\ sent = [c \in Clients |-> 0]
    /\ ub = "none"

Undefined(what) ==
    /\ ub' = what
    /\ UNCHANGED <<lockcnt, tflags, srv, clients, num, alloc, mainVars,
                   tpc, tload, sock, peerVars>>

\* the entry after c in the list, NoClient at the head
After(c) == LET i == SelectInSeq(clients, LAMBDA x : x = c)
            IN  IF i = Len(clients) THEN NoClient ELSE clients[i + 1]

First(s) == IF s = <<>> THEN NoClient ELSE s[1]

-----------------------------------------------------------------------------
(* The application thread.                                                 *)

\* nbdserv_start: socket, bind and listen.  num_clients is reset between
\* socket and bind, so a failure may come before or after the reset.
NbdservStart ==
    \/ srv' = "listening" /\ num' = 0
    \/ /\ StartFails
       /\ srv' = "closed"
       /\ num' \in {num, 0}

\* vdf_transport_start: lock the drive (the drive is clean, so
\* vdf_drive_lock only counts), clear the error, then nbdserv_start; when
\* that fails the call returns -1 and the lock is kept.
TransportStart ==
    /\ mpc = "idle"
    /\ "running" \notin tflags
    /\ lockcnt < MaxLock
    /\ lockcnt' = lockcnt + 1
    /\ NbdservStart
    /\ tflags' = IF srv' = "listening" THEN (tflags \ {"error"}) \cup {"running"}
                                       ELSE tflags \ {"error"}
    /\ UNCHANGED <<clients, alloc, mainVars, tpc, tload, sock, peerVars, ub>>

\* nbdserv_process up to list_add_tail: accept a pending connection,
\* allocate its nbd_client and start its thread.  The POSIX build takes
\* pthread_create's 0 (success) for a failure: it sets the error, closes
\* the socket and frees cli, while the new thread runs on cli.
NbdservProcess(c) ==
    /\ conn[c] = "pending"
    /\ conn' = [conn EXCEPT ![c] = "open"]
    /\ tpc' = [tpc EXCEPT ![c] = "hs"]
    /\ IF Build = "posix"
       THEN /\ tflags' = tflags \cup {"error"}
            /\ UNCHANGED <<alloc, sock, mainVars>>
       ELSE /\ alloc' = alloc \cup {c}
            /\ sock' = [sock EXCEPT ![c] = "open"]
            /\ mpc' = "register" /\ mcur' = c
            /\ UNCHANGED <<tflags, mnext, mload>>

\* vdf_transport_process: only a running transport without an error
\* calls the driver's process
TransportProcess(c) ==
    /\ mpc = "idle"
    /\ "running" \in tflags /\ "error" \notin tflags
    /\ NbdservProcess(c)
    /\ UNCHANGED <<lockcnt, srv, clients, num, tload, pend, req, last, sent, ub>>

\* list_add_tail(&cli->list, &dat->clients), then the load of num_clients
ProcessRegister ==
    /\ mpc = "register"
    /\ IF mcur \notin alloc
       THEN Undefined("use_after_free")
       ELSE /\ clients' = Append(clients, mcur)
            /\ mload' = num
            /\ mpc' = "count"
            /\ UNCHANGED <<lockcnt, tflags, srv, num, alloc, mcur, mnext,
                           tpc, tload, sock, peerVars, ub>>

\* the store of num_clients + 1, the connect callback, trans_set_active(1)
ProcessCount ==
    /\ mpc = "count"
    /\ num' = mload + 1
    /\ tflags' = tflags \cup {"active"}
    /\ mpc' = "idle" /\ mcur' = NoClient
    /\ UNCHANGED <<lockcnt, srv, clients, alloc, mnext, mload, tpc, tload,
                   sock, peerVars, ub>>

\* vdf_transport_stop -> nbdserv_stop: list_foreach_item_safe over the
\* clients takes pos and n = pos->next.
StopBegin ==
    /\ mpc = "idle"
    /\ "running" \in tflags
    /\ mpc' = "stop"
    /\ mcur' = First(clients)
    /\ mnext' = IF clients = <<>> THEN NoClient ELSE After(First(clients))
    /\ UNCHANGED <<lockcnt, tflags, srv, clients, num, alloc, mload, tpc,
                   tload, sock, peerVars, ub>>

\* mutant: stop_client without sock_close(cli->sock)
StopClientNoClose ==
    /\ mpc = "stop" /\ mcur # NoClient
    /\ IF mcur \notin alloc
       THEN Undefined("use_after_free")
       ELSE /\ mpc' = "join"
            /\ UNCHANGED <<lockcnt, tflags, srv, clients, num, alloc, mcur,
                           mnext, mload, tpc, tload, sock, peerVars, ub>>

\* stop_client(pos): take and close cli->sock; then pthread_join
StopClient ==
    /\ mpc = "stop" /\ mcur # NoClient
    /\ IF mcur \notin alloc
       THEN Undefined("use_after_free")
       ELSE /\ sock' = [sock EXCEPT ![mcur] = "closed"]
            /\ mpc' = "join"
            /\ UNCHANGED <<lockcnt, tflags, srv, clients, num, alloc, mcur,
                           mnext, mload, tpc, tload, peerVars, ub>>

\* mutant: the loop goes on without pthread_join
StopJoinNoWait ==
    /\ mpc = "join"
    /\ IF mnext # NoClient /\ mnext \notin alloc
       THEN Undefined("use_after_free")
       ELSE /\ mcur' = mnext
            /\ mnext' = IF mnext = NoClient THEN NoClient ELSE After(mnext)
            /\ mpc' = "stop"
            /\ UNCHANGED <<lockcnt, tflags, srv, clients, num, alloc, mload,
                           tpc, tload, sock, peerVars, ub>>

\* the join returns once the thread has exited; then pos = n and
\* n = pos->next, read from a structure its own thread may have freed
StopJoin ==
    /\ mpc = "join"
    /\ tpc[mcur] = "done"
    /\ IF mnext # NoClient /\ mnext \notin alloc
       THEN Undefined("use_after_free")
       ELSE /\ mcur' = mnext
            /\ mnext' = IF mnext = NoClient THEN NoClient ELSE After(mnext)
            /\ mpc' = "stop"
            /\ UNCHANGED <<lockcnt, tflags, srv, clients, num, alloc, mload,
                           tpc, tload, sock, peerVars, ub>>

\* the loop is done: close the server socket, vdf_drive_unlock, and clear
\* VTF_RUNNING and VTF_ACTIVE
StopFinish ==
    /\ mpc = "stop" /\ mcur = NoClient
    /\ srv' = "closed"
    /\ mpc' = "idle"
    /\ IF lockcnt = 0
       THEN UNCHANGED <<lockcnt, tflags>>
       ELSE /\ lockcnt' = lockcnt - 1
            /\ tflags' = tflags \ {"running", "active"}
    /\ UNCHANGED <<clients, num, alloc, mcur, mnext, mload, tpc, tload, sock,
                   peerVars, ub>>

-----------------------------------------------------------------------------
(* A client thread, client_threadfunc(cli), and free_client.              *)

\* a thread's every access goes through cli
ThreadStep(c, A) == IF c \notin alloc THEN Undefined("use_after_free") ELSE A

\* sock_write to the remote client fails once either side has closed
Writable(c) == sock[c] = "open" /\ conn[c] = "open"

SetThread(c, pc) == tpc' = [tpc EXCEPT ![c] = pc]

\* the handshake: "NBDMAGIC", the magic, the size, the flags, 124 zeros
Handshake(c) ==
    /\ tpc[c] = "hs"
    /\ ThreadStep(c,
          /\ SetThread(c, IF Writable(c) THEN "wait" ELSE "finish")
          /\ UNCHANGED <<lockcnt, tflags, srv, clients, num, alloc, mainVars,
                         tload, sock, peerVars, ub>>)

\* mutant: the range check of READ off by one, so a READ that ends at
\* the end of the disk is skipped like one past it
ServeReadOffByOne(c, cmd) ==
    CASE cmd = "disc" ->
            SetThread(c, "finish") /\ pend' = [pend EXCEPT ![c] = "none"]
      [] cmd = "flush" ->
            IF Writable(c)
            THEN UNCHANGED tpc /\ pend' = [pend EXCEPT ![c] = "none"]
            ELSE SetThread(c, "finish") /\ UNCHANGED pend
      [] cmd \in {"read", "read_oob"} ->
            UNCHANGED tpc /\ pend' = [pend EXCEPT ![c] = IF @ = "sent" THEN "lost" ELSE @]
      [] cmd = "write" ->
            SetThread(c, "write_loop") /\ UNCHANGED pend

\* The effect of one request struct: DISC ends the thread; READ in range
\* and FLUSH write a reply (and READ its data), and end the thread if that
\* write fails; READ past the end is skipped without a reply; WRITE enters
\* the loop whose len never decreases.
Serve(c, cmd) ==
    CASE cmd = "disc" ->
            SetThread(c, "finish") /\ pend' = [pend EXCEPT ![c] = "none"]
      [] cmd \in {"read", "flush"} ->
            IF Writable(c)
            THEN UNCHANGED tpc /\ pend' = [pend EXCEPT ![c] = "none"]
            ELSE SetThread(c, "finish") /\ UNCHANGED pend
      [] cmd = "read_oob" ->
            UNCHANGED tpc /\ pend' = [pend EXCEPT ![c] = IF @ = "sent" THEN "lost" ELSE @]
      [] cmd = "write" ->
            SetThread(c, "write_loop") /\ UNCHANGED pend

\* sock_read: -1 on a socket closed on this side; the bytes of a request
\* that arrived; 0 bytes, returned as 0 and not as -1, once the remote
\* client has gone
SockRead(c) == CASE sock[c] = "closed" -> "error"
                 [] pend[c] = "sent"   -> "request"
                 [] OTHER              -> "eof"

\* The request loop: an error ends the thread, a request that arrived is
\* served; on "eof" the request struct still holds the previous request,
\* which is served again.  Before any request the struct is uninitialised
\* and its magic fails the check.
ReadRequest(c) ==
    /\ tpc[c] = "wait"
    /\ sock[c] = "closed" \/ pend[c] = "sent" \/ conn[c] = "closed"
    /\ ThreadStep(c,
          /\ CASE SockRead(c) = "error" ->
                    SetThread(c, "finish") /\ UNCHANGED <<pend, last>>
              [] SockRead(c) = "request" ->
                    Serve(c, req[c]) /\ last' = [last EXCEPT ![c] = req[c]]
              [] last[c] = "none" ->
                    SetThread(c, "finish") /\ UNCHANGED <<pend, last>>
              [] OTHER ->
                    Serve(c, last[c]) /\ UNCHANGED last
          /\ UNCHANGED <<lockcnt, tflags, srv, clients, num, alloc, mainVars,
                         tload, sock, conn, req, sent, ub>>)

\* the WRITE loop: sock_read of the payload returns -1 only on a closed
\* socket; 0 bytes from a remote client that has gone do not end it
WriteLoop(c) ==
    /\ tpc[c] = "write_loop"
    /\ sock[c] = "closed"
    /\ ThreadStep(c,
          /\ SetThread(c, "finish")
          /\ UNCHANGED <<lockcnt, tflags, srv, clients, num, alloc, mainVars,
                         tload, sock, peerVars, ub>>)

\* free_client: the disconnect callback, NCF_DELETED, list_del of a node
\* that is uninitialised unless the application thread linked it, and
\* the load of num_clients
FreeUnlink(c) ==
    /\ tpc[c] = "finish"
    /\ ThreadStep(c,
          IF ~Contains(clients, c)
          THEN Undefined("uninitialised_list")
          ELSE /\ clients' = Remove(clients, c)
               /\ tload' = [tload EXCEPT ![c] = num]
               /\ SetThread(c, "free_count")
               /\ UNCHANGED <<lockcnt, tflags, srv, num, alloc, mainVars,
                              sock, peerVars, ub>>)

\* the store of num_clients - 1, trans_set_active(0) when it reached 0,
\* sock_close, free(cli); the thread returns
FreeCount(c) ==
    /\ tpc[c] = "free_count"
    /\ num' = tload[c] - 1
    /\ tflags' = IF tload[c] - 1 = 0 THEN tflags \ {"active"} ELSE tflags
    /\ sock' = [sock EXCEPT ![c] = "closed"]
    /\ alloc' = alloc \ {c}
    /\ SetThread(c, "done")
    /\ conn' = [conn EXCEPT ![c] = "closed"]
    /\ UNCHANGED <<lockcnt, srv, clients, mainVars, tload, pend, req, last,
                   sent, ub>>

-----------------------------------------------------------------------------
(* The remote NBD clients.                                                 *)

\* connect() to the listening socket; the connection waits for accept
Connect(c) ==
    /\ conn[c] = "idle" /\ srv = "listening"
    /\ conn' = [conn EXCEPT ![c] = "pending"]
    /\ UNCHANGED <<lockcnt, tflags, srv, clients, num, alloc, mainVars, tpc,
                   tload, sock, pend, req, last, sent, ub>>

\* send one request and wait for its answer
SendRequest(c, cmd) ==
    /\ conn[c] = "open" /\ pend[c] = "none" /\ sent[c] < MaxReq
    /\ pend' = [pend EXCEPT ![c] = "sent"]
    /\ req' = [req EXCEPT ![c] = cmd]
    /\ sent' = [sent EXCEPT ![c] = @ + 1]
    /\ UNCHANGED <<lockcnt, tflags, srv, clients, num, alloc, mainVars, tpc,
                   tload, sock, conn, last, ub>>

\* drop the connection without NBD_CMD_DISC
Drop(c) ==
    /\ conn[c] \in {"pending", "open"}
    /\ conn' = [conn EXCEPT ![c] = "closed"]
    /\ UNCHANGED <<lockcnt, tflags, srv, clients, num, alloc, mainVars, tpc,
                   tload, sock, pend, req, last, sent, ub>>

-----------------------------------------------------------------------------
Live == ub = "none"

\* the steps inside vdf_transport_process and vdf_transport_stop, once
\* called
ApiInternal == ProcessRegister \/ ProcessCount \/ StopClient \/ StopJoin \/ StopFinish

ThreadNext(c) == Handshake(c) \/ ReadRequest(c) \/ WriteLoop(c) \/ FreeUnlink(c) \/ FreeCount(c)

DoStart == Live /\ TransportStart
DoProcess == Live /\ \E c \in Clients : TransportProcess(c)
DoRegister == Live /\ ProcessRegister
DoCount == Live /\ ProcessCount
DoStopBegin == Live /\ StopBegin
DoStopClient == Live /\ StopClient
DoStopJoin == Live /\ StopJoin
DoStopFinish == Live /\ StopFinish
DoHandshake == Live /\ \E c \in Clients : Handshake(c)
DoReadRequest == Live /\ \E c \in Clients : ReadRequest(c)
DoWriteLoop == Live /\ \E c \in Clients : WriteLoop(c)
DoFreeUnlink == Live /\ \E c \in Clients : FreeUnlink(c)
DoFreeCount == Live /\ \E c \in Clients : FreeCount(c)
DoConnect == Live /\ \E c \in Clients : Connect(c)
DoSend == Live /\ \E c \in Clients, cmd \in Cmds : SendRequest(c, cmd)
DoDrop == Live /\ \E c \in Clients : Drop(c)

Next ==
    \/ DoStart \/ DoProcess \/ DoRegister \/ DoCount
    \/ DoStopBegin \/ DoStopClient \/ DoStopJoin \/ DoStopFinish
    \/ DoHandshake \/ DoReadRequest \/ DoWriteLoop \/ DoFreeUnlink \/ DoFreeCount
    \/ DoConnect \/ DoSend \/ DoDrop

\* Threads are scheduled by the operating system: a thread that can run
\* eventually does.  A call the application made runs to its end.  The
\* application's choice of calls and the remote clients are not fair.
Fairness ==
    /\ WF_vars(Live /\ ApiInternal)
    /\ \A c \in Clients : WF_vars(Live /\ ThreadNext(c))

Spec == Init /\ [][Next]_vars /\ Fairness

-----------------------------------------------------------------------------
TypeOK ==
    /\ lockcnt \in 0..MaxLock
    /\ tflags \subseteq {"running", "error", "active"}
    /\ clients \in Seq(Clients) /\ alloc \subseteq Clients
    /\ tpc \in [Clients -> {"none", "hs", "wait", "write_loop", "finish",
                             "free_count", "done"}]
    /\ pend \in [Clients -> {"none", "sent", "lost"}]

(* A client thread serves the drive (vdf_read_bytes) only while the      *)
(* transport runs and holds its drive lock: vdf_transport_stop joins      *)
(* every client thread before nbdserv_stop returns and the drive is       *)
(* unlocked, so no thread reads a drive that may be changed.              *)
ServingImpliesLocked ==
    (\E c \in alloc : tpc[c] \in {"hs", "wait", "write_loop"})
        => lockcnt > 0 /\ "running" \in tflags

(* Once the application calls vdf_transport_stop it returns: closing     *)
(* each client's socket ends its thread's sock_read, so each join         *)
(* returns (in behaviours free of undefined behaviour).                   *)
StopCompletes ==
    [](ub = "none") => ((mpc \in {"stop", "join"}) ~> (mpc = "idle"))

(* Every request a remote client sends is answered, or its connection    *)
(* is torn down: client_threadfunc never leaves a request pending         *)
(* (in behaviours free of undefined behaviour).                           *)
RequestAnswered ==
    [](ub = "none") =>
        \A c \in Clients : (pend[c] = "sent") ~> (pend[c] = "none" \/ tpc[c] = "done")

(* The same for the requests of a client that honours the read-only flag *)
(* and the size of the handshake (READ in range, FLUSH, DISC), whatever   *)
(* the other clients send.                                                *)
ConformingRequestAnswered ==
    [](ub = "none") =>
        \A c \in Clients :
            (pend[c] = "sent" /\ req[c] \in {"read", "flush", "disc"})
                ~> (pend[c] = "none" \/ tpc[c] = "done")

(* num_clients counts the clients on the list: whenever neither          *)
(* nbdserv_process nor a free_client is between its load and its store   *)
(* of num_clients, the count is the list's length.  trans_set_active(0)  *)
(* fires when it reaches 0, so a wrong count marks a transport that       *)
(* serves clients inactive.                                               *)
ClientCountExact ==
    (ub = "none" /\ mpc # "count" /\ \A c \in Clients : tpc[c] # "free_count")
        => num = Len(clients)

(* No interleaving of the application thread, the client threads and the *)
(* remote clients reaches undefined behaviour.                            *)
NoUndefinedBehaviour == ub = "none"

(* The client list and num_clients, which nbdserv_process and the client *)
(* threads' free_client share without a lock, stay sound: no interleaving *)
(* reaches undefined behaviour on them, and the count is exact whenever   *)
(* no thread is between its load and its store of it.                     *)
SharedClientStateSound == NoUndefinedBehaviour /\ ClientCountExact

(* What the server owes each connected client: the state its threads     *)
(* share stays sound in every state, and each request the client sends   *)
(* is answered or its connection torn down.                               *)
ClientsServed ==
    \A c \in Clients :
        /\ []SharedClientStateSound
        /\ (pend[c] = "sent") ~> (pend[c] = "none" \/ tpc[c] = "done")

=============================================================================
