------------------------------- MODULE Proxy -------------------------------
(***************************************************************************)
(* Client sessions of pgdog (frontend/client.rs, Client::spawn and         *)
(* Client::buffer) multiplexed onto pooled server connections              *)
(* (backend/server.rs, modelled in ServerConn) by the pool (the pool       *)
(* implementation is not among the sources: checkout and guard release    *)
(* follow the specification, sections 4.3 and 9).                          *)
(*                                                                         *)
(* Each client is an application on the other end of a socket: it writes  *)
(* messages (csock) and receives what the session forwards to it (recv).   *)
(* Each session loops over a tokio select! between Client::buffer, which   *)
(* reads client messages into a local Buffer until a sync point, and       *)
(* reading one message from the server connection it holds.                *)
(***************************************************************************)
EXTENDS Naturals, Sequences, SequencesExt, FiniteSets, ServerConn

CONSTANTS
    Clients,      \* client sessions
    Conns,        \* identities a server connection can have
    PoolMax,      \* pool Config::max
    MaxMsgs,      \* bound: messages a client writes in a behaviour
    MaxCrashes,   \* bound: server connections that die in a behaviour
    Pipelining,   \* may a client write before it has all its answers?
    Writable,     \* the messages the applications write in this model
    Healthchecks, \* does the pool's monitor healthcheck idle connections?
    Pool,         \* owner of the requests the pool itself sends (ROLLBACK)
    NoConn        \* a session that holds no server connection

ASSUME /\ Owners = Clients \cup {Pool}
       /\ PoolMax \in Nat \ {0}
       /\ Cardinality(Conns) > PoolMax
       /\ MaxMsgs \in Nat /\ MaxCrashes \in Nat
       /\ Pipelining \in BOOLEAN /\ Healthchecks \in BOOLEAN
       /\ Writable \subseteq ClientMsgs
       /\ NoConn \notin Conns

VARIABLES
    csock,    \* csock[c]: messages c wrote that its session has not read
    sent,     \* sent[c]: every message c wrote (history)
    fwd,      \* fwd[c]: every message the session sent to a server for c (history)
    recv,     \* recv[c]: every backend message flushed to c's socket
    wbuf,     \* wbuf[c]: messages written to c's stream but not flushed
    flush,    \* flush[c]: the local `flush` of Client::spawn
    buf,      \* buf[c]: the Buffer local to the running Client::buffer call
    pc,       \* pc[c]: "select" (in the loop), "waiting" (server.get), "done"
    conn,     \* conn[c]: the server connection c's session holds, or NoConn
    srv,      \* srv[s]: the ServerConn record of connection s
    idle,     \* the pool's idle connections, most recently returned first
    open,     \* connections that exist (idle or checked out)
    crashes,  \* connections crashed so far
    checking  \* the connection the monitor is healthchecking, or NoConn

vars == <<csock, sent, fwd, recv, wbuf, flush, buf, pc, conn, srv, idle, open,
          crashes, checking>>

-----------------------------------------------------------------------------

\* Buffer::full: a Query, a Sync or a Flush completes a request.
Full(m) == m \in QueryMsgs \cup {"Sync", "Flush"}

\* Buffer::flush: the request ends with a Flush.
BufferFlush(m) == m = "Flush"

IsZ(m) == m.code = "Z"

\* Replies to c's complete requests that have not reached c yet.
Awaiting(c) == Len(Answers(c, sent[c])) - Len(recv[c])

\* The transaction status the client last saw.
ClientTx(c) ==
    LET k == SelectLastInSeq(recv[c], IsZ)
    IN  IF k = 0 THEN "I" ELSE recv[c][k].st

Terminated(c) == "X" \in ToSet(sent[c])

-----------------------------------------------------------------------------
(* Pool (specification 4.3; pool_impl.rs is not among the sources).        *)

\* A checkout can be served now: an idle connection, or room for a new one.
Available == idle # <<>> \/ Cardinality(open) < PoolMax

\* Mutant: connections in Error are put back in the idle list.
CheckinKeepsErrors(s, r, idl, opn) ==
    /\ srv'  = [srv EXCEPT ![s] = Rollback(r, Pool)]
    /\ idle' = <<s>> \o idl
    /\ open' = opn

\* Guard drop / release of s, whose record is r, into a pool whose idle
\* list and open set are idl and opn: roll back (Server::rollback); a
\* connection in Error is discarded (Drop sends Terminate), any other goes
\* back on top of the idle list.
Checkin(s, r, idl, opn) ==
    LET rb == Rollback(r, Pool)
    IN  IF IsError(rb)
        THEN /\ srv'  = [srv EXCEPT ![s] = Closed]
             /\ open' = opn \ {s}
             /\ idle' = idl
        ELSE /\ srv'  = [srv EXCEPT ![s] = rb]
             /\ idle' = <<s>> \o idl
             /\ open' = opn

\* The session of c ends (loop left with break or with an error through
\* `?`): its Buffer and its Connection are dropped. s is the connection
\* it holds (or NoConn), r its record after this step's own operation.
EndSession(c, s, r, idl, opn) ==
    /\ pc'   = [pc EXCEPT ![c] = "done"]
    /\ buf'  = [buf EXCEPT ![c] = <<>>]
    /\ wbuf' = [wbuf EXCEPT ![c] = <<>>]
    /\ conn' = [conn EXCEPT ![c] = NoConn]
    /\ IF s = NoConn THEN UNCHANGED <<srv, idle, open>>
       ELSE Checkin(s, r, idl, opn)

\* The record of the connection c holds.
HeldRec(c) == IF conn[c] = NoConn THEN Closed ELSE srv[conn[c]]

\* server.send(buffer) on connection s whose record is r, the pool being
\* idl/opn; an I/O error ends the session through `?`.
SendOn(c, s, r, b, idl, opn) ==
    LET w == Send(r, b, c)
    IN  IF IsError(w)
        THEN /\ EndSession(c, s, w, idl, opn)
             /\ UNCHANGED fwd
        ELSE /\ srv'  = [srv EXCEPT ![s] = w]
             /\ conn' = [conn EXCEPT ![c] = s]
             /\ fwd'  = [fwd EXCEPT ![c] = fwd[c] \o b]
             /\ buf'  = [buf EXCEPT ![c] = <<>>]
             /\ pc'   = [pc EXCEPT ![c] = "select"]
             /\ idle' = idl /\ open' = opn
             /\ UNCHANGED wbuf

-----------------------------------------------------------------------------
(* The application behind each client socket (environment).                *)

ClientWrite(c) ==
    /\ pc[c] # "done" /\ ~Terminated(c)
    /\ Len(sent[c]) < MaxMsgs
    /\ \E m \in Writable \cup {"X"} :
          /\ Pipelining \/ Awaiting(c) = 0 \/ m = "X"
          /\ csock' = [csock EXCEPT ![c] = Append(@, m)]
          /\ sent'  = [sent EXCEPT ![c] = Append(@, m)]
    /\ UNCHANGED <<fwd, recv, wbuf, flush, buf, pc, conn, srv, idle, open, crashes,
                   checking>>

\* A connection dies, idle or checked out.
ServerCrash(s) ==
    /\ crashes < MaxCrashes
    /\ s \in open /\ ~srv[s].broken
    /\ srv' = [srv EXCEPT ![s] = Crash(@)]
    /\ crashes' = crashes + 1
    /\ UNCHANGED <<csock, sent, fwd, recv, wbuf, flush, buf, pc, conn, idle, open,
                   checking>>

-----------------------------------------------------------------------------
(* frontend/client.rs                                                      *)

\* The request a full buffer carries (Buffer::push, then buffer.into()).
Request(c, m) == Append(buf[c], m)

\* Mutant: the Terminate arm never matches.
IsTerminateNever(m) == FALSE

\* Client::buffer's match on the message code: Terminate ('X').
IsTerminate(m) == m = "X"

\* Client::buffer reads one message; Terminate ends the loop, a sync point
\* completes the buffer and the select! arm dispatches it: send on the
\* connection held, or check one out first (server.get).
BufferRead(c) ==
    /\ pc[c] = "select" /\ csock[c] # <<>>
    /\ csock' = [csock EXCEPT ![c] = Tail(@)]
    /\ LET m == Head(csock[c]) IN
       \/ /\ IsTerminate(m)
          /\ EndSession(c, conn[c], HeldRec(c), idle, open)
          /\ UNCHANGED <<fwd, flush>>
       \/ /\ ~IsTerminate(m) /\ ~Full(m)
          /\ buf' = [buf EXCEPT ![c] = Append(@, m)]
          /\ UNCHANGED <<fwd, wbuf, flush, pc, conn, srv, idle, open>>
       \/ /\ ~IsTerminate(m) /\ Full(m) /\ conn[c] = NoConn
          /\ buf' = [buf EXCEPT ![c] = Request(c, m)]
          /\ flush' = [flush EXCEPT ![c] = BufferFlush(m)]
          /\ pc'  = [pc EXCEPT ![c] = "waiting"]
          /\ UNCHANGED <<fwd, wbuf, conn, srv, idle, open>>
       \/ /\ ~IsTerminate(m) /\ Full(m) /\ conn[c] # NoConn
          /\ flush' = [flush EXCEPT ![c] = BufferFlush(m)]
          /\ SendOn(c, conn[c], srv[conn[c]], Request(c, m), idle, open)
    /\ UNCHANGED <<sent, recv, crashes, checking>>

\* Mutant: the idle connection handed out stays in the idle list.
CheckoutNoPop(c) ==
    /\ pc[c] = "waiting"
    /\ \/ /\ idle # <<>>
          /\ SendOn(c, Head(idle), srv[Head(idle)], buf[c], idle, open)
       \/ /\ idle = <<>> /\ Cardinality(open) < PoolMax
          /\ \E s \in Conns \ open :
                SendOn(c, s, Connect, buf[c], idle, open \cup {s})
    /\ UNCHANGED <<csock, sent, recv, flush, crashes, checking>>

\* server.get returns a connection (pool checkout: the most recently
\* returned idle one, else a new one while below max) and the buffer is sent.
Checkout(c) ==
    /\ pc[c] = "waiting"
    /\ \/ /\ idle # <<>>
          /\ SendOn(c, Head(idle), srv[Head(idle)], buf[c], Tail(idle), open)
       \/ /\ idle = <<>> /\ Cardinality(open) < PoolMax
          /\ \E s \in Conns \ open :
                SendOn(c, s, Connect, buf[c], idle, open \cup {s})
    /\ UNCHANGED <<csock, sent, recv, flush, crashes, checking>>

\* server.get fails with a checkout timeout: the session ends.
CheckoutTimeout(c) ==
    /\ pc[c] = "waiting" /\ ~Available
    /\ EndSession(c, NoConn, Closed, idle, open)
    /\ UNCHANGED <<csock, sent, fwd, recv, flush, crashes, checking>>

\* Mutant: ReadyForQuery is written like any other reply, unflushed.
ForwardUnflushedZ(c, m) ==
    IF flush[c]
    THEN /\ recv'  = [recv EXCEPT ![c] = @ \o wbuf[c] \o <<m>>]
         /\ wbuf'  = [wbuf EXCEPT ![c] = <<>>]
         /\ flush' = [flush EXCEPT ![c] = FALSE]
    ELSE /\ wbuf'  = [wbuf EXCEPT ![c] = Append(@, m)]
         /\ UNCHANGED <<recv, flush>>

\* The reply m goes to c's stream: ReadyForQuery (or CopyInResponse), or
\* any reply while `flush` is set, goes with send_flush, which writes it
\* after what is buffered, flushes all to the socket and clears `flush`;
\* any other reply is written with send, into the stream's buffer.
Forward(c, m) ==
    IF IsZ(m) \/ flush[c]
    THEN /\ recv'  = [recv EXCEPT ![c] = @ \o wbuf[c] \o <<m>>]
         /\ wbuf'  = [wbuf EXCEPT ![c] = <<>>]
         /\ flush' = [flush EXCEPT ![c] = FALSE]
    ELSE /\ wbuf'  = [wbuf EXCEPT ![c] = Append(@, m)]
         /\ UNCHANGED <<recv, flush>>

\* server.read() wins the select!: the message goes to the client; the
\* Buffer of the Client::buffer call it raced is dropped; when the server
\* is done (Idle) the connection is given back.
ServerRead(c) ==
    /\ pc[c] = "select" /\ conn[c] # NoConn
    /\ LET s == conn[c]
           r == srv[s]
       IN  \/ /\ ~r.broken /\ r.out # <<>>
              /\ Forward(c, Head(r.out))
              /\ buf'  = [buf EXCEPT ![c] = <<>>]
              /\ IF Done(Read(r))
                 THEN /\ conn' = [conn EXCEPT ![c] = NoConn]
                      /\ Checkin(s, Read(r), idle, open)
                 ELSE /\ srv' = [srv EXCEPT ![s] = Read(r)]
                      /\ UNCHANGED <<conn, idle, open>>
              /\ UNCHANGED pc
           \/ /\ r.broken
              /\ EndSession(c, s, Read(r), idle, open)
              /\ UNCHANGED <<recv, flush>>
    /\ UNCHANGED <<csock, sent, fwd, crashes, checking>>

-----------------------------------------------------------------------------
(* Pool monitor healthchecks (specification 4.3; monitor.rs is not among   *)
(* the sources): an idle connection due for a check is taken out of the    *)
(* idle list while Server::healthcheck runs SELECT 1 on it.                *)

HealthStart(s) ==
    /\ Healthchecks /\ checking = NoConn
    /\ s \in ToSet(idle)
    /\ checking' = s
    /\ idle' = SelectSeq(idle, LAMBDA x : x # s)
    /\ UNCHANGED <<csock, sent, fwd, recv, wbuf, flush, buf, pc, conn, srv, open,
                   crashes>>

\* Mutant: a connection that failed its healthcheck goes back to idle.
HealthEndKeepsFailed ==
    /\ checking # NoConn
    /\ LET s == checking
           e == Execute(srv[s], "Select", Pool)
       IN  IF HealthcheckOk(srv[s], "Select", Pool)
           THEN Checkin(s, e, idle, open)
           ELSE /\ srv' = [srv EXCEPT ![s] = e]
                /\ idle' = <<s>> \o idle
                /\ UNCHANGED open
    /\ checking' = NoConn
    /\ UNCHANGED <<csock, sent, fwd, recv, wbuf, flush, buf, pc, conn, crashes>>

\* The healthcheck returns: a healthy connection is given back like a
\* guard, a failed one is discarded (the ban it causes is in PoolTimers).
HealthEnd ==
    /\ checking # NoConn
    /\ LET s == checking
           e == Execute(srv[s], "Select", Pool)
       IN  IF HealthcheckOk(srv[s], "Select", Pool)
           THEN Checkin(s, e, idle, open)
           ELSE /\ srv' = [srv EXCEPT ![s] = Closed]
                /\ open' = open \ {s}
                /\ UNCHANGED idle
    /\ checking' = NoConn
    /\ UNCHANGED <<csock, sent, fwd, recv, wbuf, flush, buf, pc, conn, crashes>>

-----------------------------------------------------------------------------
Init ==
    /\ csock = [c \in Clients |-> <<>>]
    /\ sent  = [c \in Clients |-> <<>>]
    /\ fwd   = [c \in Clients |-> <<>>]
    /\ recv  = [c \in Clients |-> <<>>]
    /\ wbuf  = [c \in Clients |-> <<>>]
    /\ flush = [c \in Clients |-> FALSE]
    /\ buf   = [c \in Clients |-> <<>>]
    /\ pc    = [c \in Clients |-> "select"]
    /\ conn  = [c \in Clients |-> NoConn]
    /\ srv   = [s \in Conns |-> Closed]
    /\ idle  = <<>>
    /\ open  = {}
    /\ crashes = 0
    /\ checking = NoConn

Next ==
    \/ \E c \in Clients :
          \/ ClientWrite(c) \/ BufferRead(c) \/ Checkout(c)
          \/ CheckoutTimeout(c) \/ ServerRead(c)
    \/ \E s \in Conns : ServerCrash(s) \/ HealthStart(s)
    \/ HealthEnd

\* Tokio schedules every ready task: a session that can read its client or
\* its server, or whose checkout can be served, eventually does. The
\* checkout timer fires once it has run out, however often a connection
\* is returned meanwhile. The monitor's loop wakes on its interval and
\* checks each idle connection that is due, and a healthcheck it started
\* returns. The applications and the crashes are not fair.
Fairness ==
    /\ \A c \in Clients :
          /\ WF_vars(BufferRead(c)) /\ WF_vars(ServerRead(c))
          /\ WF_vars(Checkout(c))   /\ SF_vars(CheckoutTimeout(c))
    /\ \A s \in Conns : WF_vars(HealthStart(s))
    /\ WF_vars(HealthEnd)

Spec == Init /\ [][Next]_vars /\ Fairness

=============================================================================
