------------------------------ MODULE MCProxy ------------------------------
(***************************************************************************)
(* Model-checking instance of Proxy: the properties checked and the        *)
(* constants the .cfg files give it.                                       *)
(***************************************************************************)
EXTENDS Proxy, TLC

CONSTANTS c1, c2, s1, s2, s3

MCClients == {c1, c2}
MCOwners  == MCClients \cup {Pool}
MCConns2  == {s1, s2}
MCConns3  == {s1, s2, s3}

Symmetry == Permutations(MCClients) \cup Permutations(MCConns2)

-----------------------------------------------------------------------------
TypeOK ==
    /\ csock \in [Clients -> Seq(ClientMsgs \cup {"X"})]
    /\ sent  \in [Clients -> Seq(ClientMsgs \cup {"X"})]
    /\ fwd   \in [Clients -> Seq(ClientMsgs)]
    /\ recv  \in [Clients -> Seq(Replies)]
    /\ wbuf  \in [Clients -> Seq(Replies)]
    /\ flush \in [Clients -> BOOLEAN]
    /\ buf   \in [Clients -> Seq(ClientMsgs)]
    /\ pc    \in [Clients -> {"select", "waiting", "done"}]
    /\ conn  \in [Clients -> Conns \cup {NoConn}]
    /\ srv   \in [Conns -> Conn]
    /\ idle  \in Seq(Conns)
    /\ open  \in SUBSET Conns
    /\ crashes \in 0..MaxCrashes
    /\ checking \in Conns \cup {NoConn}

\* Every connection that exists is owned by exactly one of: the pool's
\* idle list (once), one session's guard, or the monitor's healthcheck; a
\* closed one by nobody
\* (specification 9, Ownership of pooled connections). Broken by a
\* checkout that hands out a connection without taking it off the idle
\* list, or a release that leaves the session holding it.
OwnershipExclusive ==
    \A s \in Conns :
        Len(SelectSeq(idle, LAMBDA x : x = s))
          + Cardinality({c \in Clients : conn[c] = s})
          + (IF checking = s THEN 1 ELSE 0)
        = IF s \in open THEN 1 ELSE 0

\* A connection in the idle list can be handed to any client: it is in
\* sync with nothing left to read and no transaction open on the backend
\* (specification 8.3 and 8.4: every Query's ReadyForQuery was read before
\* release, Error connections are never returned). Depends on
\* ServerRead releasing only when done and on Server::rollback turning a
\* connection released mid-request into Error.
IdleConnReusable ==
    \A i \in 1..Len(idle) :
        LET r == srv[idle[i]]
        IN  r.state = "Idle" /\ r.out = <<>> /\ r.tx = "I"

\* A client that last saw ReadyForQuery inside a transaction still holds
\* the connection its transaction runs on, and a backend transaction is
\* only ever held by the session that began it (specification 8.1).
TransactionPinned ==
    /\ \A c \in Clients :
          (pc[c] # "done" /\ ClientTx(c) # "I") => conn[c] # NoConn
    /\ \A s \in open :
          srv[s].tx # "I" => \E c \in Clients :
                                conn[c] = s /\ c = srv[s].txOwner

-----------------------------------------------------------------------------
(* Refinement: the sessions implement Session, the abstract service in     *)
(* which each client has a backend of its own. The client-visible state   *)
(* maps to itself; a session is live until Client::spawn returns.          *)

SessionLive == [c \in Clients |-> pc[c] # "done"]

AbstractSession == INSTANCE Session WITH live <- SessionLive

\* A reply of c's own backend is due and c's session runs: the condition
\* under which Session's Reply(c) is enabled.
ReplyDue(c) ==
    SessionLive[c] /\ Len(recv[c]) < Len(AbstractSession!Ideal(c))

\* Every step of the sessions, the pool and the server connections is a
\* step of Session: each client receives exactly the replies its own
\* backend would send to its completed requests, in order, whichever
\* connection served them, whoever used it before, and whatever
\* Server::rollback did on checkin. About Client::spawn's forwarding and
\* release on done(), the pool's checkout and checkin.
ImplementsSession ==
    AbstractSession!Init /\ [][AbstractSession!Next]_(AbstractSession!avars)

\* Session's fairness, WF(Reply(c)), written out: a reply that stays due
\* is delivered. Together with ImplementsSession, the sessions implement
\* Session!Spec. About the select! loop polling the server, checkout
\* being served or timing out, and release only after the last reply.
RepliesDelivered ==
    \A c \in Clients :
        \/ []<>~ReplyDue(c)
        \/ []<><<AbstractSession!Reply(c)>>_(AbstractSession!avars)

=============================================================================
