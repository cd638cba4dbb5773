------------------------------ MODULE NbdClient ------------------------------
(***************************************************************************)
(* The NBD client transport (src/libvdf/transport/nbd_client.c) driven    *)
(* through the transport layer (src/libvdf/transport.c) on one drive.     *)
(* The transport connects out to a remote peer, sends the handshake and   *)
(* then serves the peer's requests, one vdf_transport_process call per    *)
(* request, all on the application's thread.                              *)
(*                                                                         *)
(* The byte stream is abstracted to units: a request header              *)
(* (struct nbd_request, 28 bytes) is two units, its first half (magic,    *)
(* type, part of the handle) and its second (the rest of the handle,     *)
(* offset and length); a WRITE's payload is one unit.  TCP delivers the   *)
(* units in order, any number at a time, so a header may arrive in two    *)
(* segments.  recv returns what has arrived, up to the count it is given. *)
(* The peer is the environment: it pipelines up to MaxReq requests from   *)
(* Cmds on a connection and may close it.                                 *)
(*                                                                         *)
(* The same thread may call the two dump functions of src/libvdf/dump.c,  *)
(* which hold the drive's lock for the length of the call.                *)
(*                                                                         *)
(* The drive's transport list holds the client ("cli") and the transports *)
(* of Others, whose drivers are abstracted to a start that may fail and a *)
(* stop that succeeds (nbdserv_stop, nbdcli_stop).  vdf_drive_start and   *)
(* vdf_drive_stop walk that list one transport per step.                  *)
(***************************************************************************)
EXTENDS Integers, Sequences, SequencesExt

CONSTANTS
    Cmds,         \* the requests the peer sends
    MaxReq,       \* requests per connection
    StartFails,   \* whether malloc, socket, connect or the handshake may fail
    PeerCloses,   \* whether the peer may close the connection
    NonBlockArgs, \* the values the application passes to vdf_set_transport_non_block
    MaxLock,      \* bound on the drive's lock count
    DumpOutcomes, \* how a vdf_dump_drive call may end
    HasLabel,     \* drv->label != NULL
    Others,       \* the drive's other transports
    OtherStartFails,   \* whether their driver's start may fail
    PerTransportCalls  \* whether the application also starts and stops single transports

ASSUME Cmds \subseteq {"read", "read_oob", "write", "flush", "disc"}
ASSUME DumpOutcomes \subseteq {"ok", "lockfail", "nomem", "openfail", "ioerr"}

VARIABLES
    lockcnt,   \* drv->lockcnt
    tflags,    \* trans->flags: subset of {"running", "error", "active", "nonblock"}
    sock,      \* dat->sock: "open" or "invalid"
    sockNB,    \* whether the socket is in O_NONBLOCK mode
    pc,        \* where the application thread is in vdf_transport_process
    got,       \* the units sock_read has put into the request struct
    conn,      \* the peer's end: "open" or "closed"
    cmds,      \* the commands of the requests the peer sent on the connection
    wire,      \* units sent and not yet arrived
    rbuf,      \* units arrived and not yet received
    ub,        \* undefined behaviour reached, "none" if not
    tlist,     \* drv->transports, head first
    orun,      \* the transports of Others with VTF_RUNNING set
    loop       \* the transports vdf_drive_start or _stop has still to visit

vars == <<lockcnt, tflags, sock, sockNB, pc, got, conn, cmds, wire, rbuf, ub, tlist, orun, loop>>
regVars == <<tlist, orun, loop>>

Transports == {"cli"} \cup Others
peerVars == <<conn, cmds, wire, rbuf>>

Unit(r, part) == [r |-> r, part |-> part]

\* the units of request r: its header, then a WRITE's payload
Units(r, c) == <<Unit(r, 1), Unit(r, 2)>> \o (IF c = "write" THEN <<Unit(r, 3)>> ELSE <<>>)

Running == "running" \in tflags

IsRunning(t) == IF t = "cli" THEN Running ELSE t \in orun

\* nbdcli_open leaves the socket invalid; the peer has not connected
Init ==
    /\ lockcnt = 0
    /\ tflags = {}
    /\ sock = "invalid" /\ sockNB = FALSE
    /\ pc = "idle" /\ got = <<>>
    /\ conn = "closed" /\ cmds = <<>> /\ wire = <<>> /\ rbuf = <<>>
    /\ ub = "none"
    /\ tlist = <<>> /\ orun = {} /\ loop = <<>>

-----------------------------------------------------------------------------
(* The application's calls.                                                *)

\* nbdcli_start: malloc, socket, connect and the handshake writes; any of
\* them may fail, which closes the socket and returns -1.  On success the
\* peer has a fresh connection and the transport is active.
NbdcliStart ==
    \/ /\ sock' = "open" /\ sockNB' = FALSE
       /\ conn' = "open" /\ cmds' = <<>> /\ wire' = <<>> /\ rbuf' = <<>>
    \/ /\ StartFails
       /\ sock' = "invalid"
       /\ UNCHANGED <<sockNB, peerVars>>

\* vdf_transport_start past its VTF_RUNNING check: lock the drive, clear
\* the error, then the driver's start; when that fails the call returns
\* -1 and the lock is kept.
StartOf(t) ==
    /\ lockcnt < MaxLock
    /\ lockcnt' = lockcnt + 1
    /\ IF t = "cli"
       THEN /\ NbdcliStart
            /\ tflags' = IF sock' = "open" THEN (tflags \ {"error"}) \cup {"running", "active"}
                                           ELSE tflags \ {"error"}
            /\ UNCHANGED orun
       ELSE /\ \/ orun' = orun \cup {t}
               \/ OtherStartFails /\ UNCHANGED orun
            /\ UNCHANGED <<tflags, sock, sockNB, peerVars>>

Started(t) == IF t = "cli" THEN "running" \in tflags' ELSE t \in orun'

\* nbdcli_stop closes the socket and clears active, then the drive is
\* unlocked and running cleared
Stop(fl) ==
    /\ sock' = "invalid"
    /\ lockcnt' = lockcnt - 1
    /\ tflags' = fl \ {"running", "active"}

\* vdf_transport_stop past its VTF_RUNNING check
StopOf(t) ==
    IF t = "cli"
    THEN Stop(tflags) /\ UNCHANGED <<sockNB, peerVars, orun>>
    ELSE /\ orun' = orun \ {t} /\ lockcnt' = lockcnt - 1
         /\ UNCHANGED <<tflags, sock, sockNB, peerVars>>

TransportStart(t) ==
    /\ PerTransportCalls /\ pc = "idle"
    /\ t \in ToSet(tlist) /\ ~IsRunning(t)
    /\ StartOf(t)
    /\ UNCHANGED <<pc, got, ub, tlist, loop>>

TransportStop(t) ==
    /\ PerTransportCalls /\ pc = "idle"
    /\ IsRunning(t)
    /\ StopOf(t)
    /\ UNCHANGED <<pc, got, ub, tlist, loop>>

\* vdf_transport_open: the driver's open (nbdcli_open leaves the socket
\* invalid), then list_add at the head of drv->transports; an open that
\* fails frees the transport and changes nothing
TransportOpen(t) ==
    /\ pc = "idle"
    /\ t \in Transports \ ToSet(tlist)
    /\ tlist' = <<t>> \o tlist
    /\ IF t = "cli" THEN tflags' = {} /\ sock' = "invalid" /\ sockNB' = FALSE
                    ELSE UNCHANGED <<tflags, sock, sockNB>>
    /\ UNCHANGED <<lockcnt, pc, got, peerVars, ub, orun, loop>>

\* vdf_transport_close: vdf_transport_stop when running, the driver's
\* close (which does nothing for either NBD driver) and list_del
TransportClose(t) ==
    /\ pc = "idle"
    /\ t \in ToSet(tlist)
    /\ IF IsRunning(t) THEN StopOf(t)
                       ELSE UNCHANGED <<lockcnt, tflags, sock, sockNB, peerVars, orun>>
    /\ tlist' = SelectSeq(tlist, LAMBDA u : u # t)
    /\ UNCHANGED <<pc, got, ub, loop>>

\* nbdcli_nonblock: its body is compiled out (#if 0), so the socket's
\* mode is left as it is and the call returns 0
NbdcliNonblock == UNCHANGED <<sock, sockNB>>

\* vdf_set_transport_non_block: only VTF_NONBLOCK changes
SetNonBlock(b) ==
    /\ pc = "idle" /\ "cli" \in ToSet(tlist)
    /\ tflags' = IF b THEN tflags \cup {"nonblock"} ELSE tflags \ {"nonblock"}
    /\ NbdcliNonblock
    /\ UNCHANGED <<lockcnt, pc, got, peerVars, ub, regVars>>

\* the start of nbdcli_process: it sets the socket non-blocking when
\* VTF_NONBLOCK is set (and never back here) and starts sock_read on the
\* request header with nothing read yet
NbdcliProcessBegin ==
    /\ sockNB' = (sockNB \/ "nonblock" \in tflags)
    /\ pc' = "hdr" /\ got' = <<>>

\* vdf_transport_process on a running transport without an error
ProcessBegin ==
    /\ pc = "idle"
    /\ Running /\ "error" \notin tflags
    /\ NbdcliProcessBegin
    /\ UNCHANGED <<lockcnt, tflags, sock, peerVars, ub, regVars>>

\* the fail label: trans_set_error(EIO), then vdf_transport_stop
Fail ==
    /\ Stop(tflags \cup {"error"})
    /\ pc' = "idle"

\* vdf_drive_start and vdf_drive_stop: list_foreach_item over
\* drv->transports from the head, one transport per step (an empty list
\* returns 0 at once and is left out)
DriveStartBegin ==
    /\ pc = "idle" /\ tlist # <<>>
    /\ pc' = "dstart" /\ loop' = tlist
    /\ UNCHANGED <<lockcnt, tflags, sock, sockNB, got, peerVars, ub, tlist, orun>>

DriveStopBegin ==
    /\ pc = "idle" /\ tlist # <<>>
    /\ pc' = "dstop" /\ loop' = tlist
    /\ UNCHANGED <<lockcnt, tflags, sock, sockNB, got, peerVars, ub, tlist, orun>>

\* vdf_transport_start fails with EINVAL on a running transport, and
\* vdf_drive_start returns -1 at the first failure, leaving the
\* transports before it running
DriveStartStep ==
    LET t == Head(loop) IN
    /\ pc = "dstart"
    /\ \/ /\ IsRunning(t) /\ loop' = <<>>
          /\ UNCHANGED <<lockcnt, tflags, sock, sockNB, peerVars, orun>>
       \/ /\ ~IsRunning(t) /\ StartOf(t)
          /\ loop' = IF Started(t) THEN Tail(loop) ELSE <<>>
    /\ pc' = IF loop' = <<>> THEN "idle" ELSE "dstart"
    /\ UNCHANGED <<got, ub, tlist>>

\* vdf_transport_stop fails with EINVAL on a transport that is not
\* running, and vdf_drive_stop returns -1 there
DriveStopStep ==
    LET t == Head(loop) IN
    /\ pc = "dstop"
    /\ \/ /\ ~IsRunning(t) /\ loop' = <<>>
          /\ UNCHANGED <<lockcnt, tflags, sock, sockNB, peerVars, orun>>
       \/ /\ IsRunning(t) /\ StopOf(t) /\ loop' = Tail(loop)
    /\ pc' = IF loop' = <<>> THEN "idle" ELSE "dstop"
    /\ UNCHANGED <<got, ub, tlist>>

\* vdf_dump_drive: vdf_drive_lock (whose recalc may fail when the count
\* is 0), malloc of the cluster buffer, open of the image file, then the
\* read and write loop.  The exits after open all unlock; the malloc
\* failure returns with the lock held.
DumpDrive(o) ==
    /\ pc = "idle"
    /\ lockcnt < MaxLock
    /\ o = "lockfail" => lockcnt = 0
    /\ lockcnt' = IF o = "nomem" THEN lockcnt + 1 ELSE lockcnt
    /\ UNCHANGED <<tflags, sock, sockNB, pc, got, peerVars, ub, regVars>>

\* vdf_dump_drive_info locks, prints and unlocks; its label line passes
\* drv->label to %s exactly when it is NULL
DumpDriveInfo ==
    /\ pc = "idle"
    /\ lockcnt < MaxLock
    /\ ub' = IF HasLabel THEN ub ELSE "null_label"
    /\ UNCHANGED <<lockcnt, tflags, sock, sockNB, pc, got, peerVars, regVars>>

-----------------------------------------------------------------------------
(* sock_read(dat->sock, &request, sizeof(request)) inside nbdcli_process.  *)

Least(a, b) == IF a < b THEN a ELSE b

\* one recv: it is given cnt, not cnt - total, so after a short first recv
\* it may take more than the rest of the header into b + total, past the
\* end of the request struct
RecvData ==
    LET k == Least(2, Len(rbuf))
        g == got \o SubSeq(rbuf, 1, k)
    IN  /\ pc = "hdr" /\ rbuf # <<>>
        /\ rbuf' = SubSeq(rbuf, k + 1, Len(rbuf))
        /\ got' = g
        /\ IF Len(g) > 2 THEN ub' = "overflow" /\ UNCHANGED pc
           ELSE /\ pc' = IF Len(g) = 2 THEN "decode" ELSE "hdr"
                /\ UNCHANGED ub
        /\ UNCHANGED <<lockcnt, tflags, sock, sockNB, conn, cmds, wire, regVars>>

\* recv fails with EAGAIN on a non-blocking socket with nothing arrived:
\* sock_read returns -1 and nbdcli_process returns 0, and the units it
\* already took into the struct are dropped
RecvAgain ==
    /\ pc = "hdr" /\ rbuf = <<>> /\ sockNB
    /\ pc' = "idle" /\ got' = <<>>
    /\ UNCHANGED <<lockcnt, tflags, sock, sockNB, peerVars, ub, regVars>>

\* recv returns 0 once the peer has closed and everything has arrived:
\* sock_read breaks and returns the short total, which is not -1, so
\* nbdcli_process decodes a request struct it has not filled
RecvEof ==
    /\ pc = "hdr" /\ rbuf = <<>> /\ wire = <<>> /\ conn = "closed"
    /\ ub' = "uninit"
    /\ UNCHANGED <<lockcnt, tflags, sock, sockNB, pc, got, peerVars, regVars>>

-----------------------------------------------------------------------------
(* The rest of nbdcli_process.                                             *)

\* sock_non_block(dat->sock, 0), the magic check, then the command.  A
\* reply (READ in range, FLUSH) goes out with sock_write, which fails once
\* the peer has closed.
Decode ==
    LET c == cmds[got[1].r]
    IN  /\ pc = "decode"
        /\ sockNB' = FALSE
        /\ CASE got[1].part # 1 -> Fail
             [] c = "disc" -> Stop(tflags) /\ pc' = "idle"
             [] c \in {"read", "flush"} /\ conn = "closed" -> Fail
             [] c = "write" -> pc' = "wloop" /\ UNCHANGED <<lockcnt, tflags, sock>>
             [] OTHER -> pc' = "idle" /\ UNCHANGED <<lockcnt, tflags, sock>>
        /\ UNCHANGED <<got, peerVars, ub, regVars>>

\* the NBD_CMD_WRITE loop reads into the buffer but never decreases len:
\* it takes whatever arrives, for ever
WriteLoop ==
    /\ pc = "wloop" /\ rbuf # <<>>
    /\ rbuf' = Tail(rbuf)
    /\ UNCHANGED <<lockcnt, tflags, sock, sockNB, pc, got, conn, cmds, wire, ub, regVars>>

-----------------------------------------------------------------------------
(* The peer and the network.                                               *)

PeerSend(c) ==
    /\ conn = "open" /\ sock = "open"
    /\ Len(cmds) < MaxReq
    /\ cmds' = Append(cmds, c)
    /\ wire' = wire \o Units(Len(cmds) + 1, c)
    /\ UNCHANGED <<lockcnt, tflags, sock, sockNB, pc, got, conn, rbuf, ub, regVars>>

\* the next unit arrives in the socket's receive buffer
Deliver ==
    /\ wire # <<>> /\ sock = "open"
    /\ rbuf' = Append(rbuf, Head(wire)) /\ wire' = Tail(wire)
    /\ UNCHANGED <<lockcnt, tflags, sock, sockNB, pc, got, conn, cmds, ub, regVars>>

PeerClose ==
    /\ PeerCloses /\ conn = "open"
    /\ conn' = "closed"
    /\ UNCHANGED <<lockcnt, tflags, sock, sockNB, pc, got, cmds, wire, rbuf, ub, regVars>>

-----------------------------------------------------------------------------
Live == ub = "none"

Next ==
    \/ Live /\ (\E t \in Transports : TransportOpen(t) \/ TransportClose(t)
                                     \/ TransportStart(t) \/ TransportStop(t))
    \/ Live /\ (ProcessBegin \/ \E b \in NonBlockArgs : SetNonBlock(b))
    \/ Live /\ (DriveStartBegin \/ DriveStopBegin \/ DriveStartStep \/ DriveStopStep)
    \/ Live /\ (DumpDriveInfo \/ \E o \in DumpOutcomes : DumpDrive(o))
    \/ Live /\ (RecvData \/ RecvAgain \/ RecvEof \/ Decode \/ WriteLoop)
    \/ Live /\ (\E c \in Cmds : PeerSend(c))
    \/ Live /\ (Deliver \/ PeerClose)

Spec == Init /\ [][Next]_vars

-----------------------------------------------------------------------------
(* nbdcli_process never writes past the request struct nor decodes one  *)
(* it has not filled, however the header is split in transit, whether    *)
(* the socket is non-blocking and whether the peer has closed; and       *)
(* vdf_dump_drive_info never prints a null label.                        *)
NoUndefinedBehaviour == ub = "none"

(* The transport enters the error state (vdf_transport_error reports     *)
(* EIO) only when the peer has closed the connection, never because      *)
(* nbdcli_process lost its place in a well-formed request stream.         *)
NoSpuriousError == "error" \in tflags => conn = "closed"

(* The drive is locked once for every running transport of its list,   *)
(* whatever vdf_transport_start, vdf_transport_stop, vdf_drive_start,     *)
(* vdf_drive_stop, a failing request or a dump did: with every transport  *)
(* stopped and every dump finished, the drive's tree is free to change.   *)
LockFollowsRunning == lockcnt = Cardinality({t \in Transports : IsRunning(t)})

(* When vdf_drive_stop returns, no transport of the drive is running: the *)
(* drivers' stops cannot fail, so nothing stands between the call and     *)
(* its purpose, even after a client transport stopped itself on a peer    *)
(* error or a vdf_drive_start that failed half way.                       *)
DriveStopStopsAll ==
    pc = "dstop" /\ pc' = "idle" => \A t \in Transports : ~IsRunning(t)'

(* A transport serving a peer that sends well-formed requests stays sound *)
(* in all the respects above.                                             *)
ClientTransportSound ==
    /\ [](NoUndefinedBehaviour /\ NoSpuriousError /\ LockFollowsRunning)
    /\ [][DriveStopStopsAll]_vars

=============================================================================
