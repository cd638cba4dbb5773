----------------------------- MODULE MC_NbdServer -----------------------------
(* Two connections to one NBD server transport: enough for one client's  *)
(* thread to free itself while the application registers or stops        *)
(* another.                                                               *)
EXTENDS NbdServer

CONSTANTS c1, c2

MCClients == {c1, c2}

\* every request the server tells apart: READ in range and past the end,
\* WRITE, FLUSH and DISC
MCCmds == {"read", "read_oob", "write", "flush", "disc"}

\* a client that asks for bytes past the size the handshake announced
MCOutOfRange == {"read_oob"}

=============================================================================
