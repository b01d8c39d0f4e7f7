----------------------------- MODULE ServerConn -----------------------------
(***************************************************************************)
(* One PostgreSQL server connection as pgdog's backend/server.rs keeps it, *)
(* together with the PostgreSQL backend process on the other end of the    *)
(* socket.                                                                 *)
(*                                                                         *)
(* A connection is a record                                                *)
(*   state   : Server.state, driven by send/read/rollback (server.rs)      *)
(*   out     : replies the backend produced that pgdog has not read yet    *)
(*   tx      : the backend's own transaction status ("I", "T", "E")        *)
(*   txOwner : on whose behalf the open backend transaction was begun      *)
(*   broken  : the socket is dead (backend crashed / network lost)         *)
(* Every server.rs method that changes state is an operator from record    *)
(* to record, so that the modules that compose a connection with a client  *)
(* session and a pool apply it inside their own atomic steps.              *)
(*                                                                         *)
(* The backend answers each message as soon as it is written: it has no   *)
(* input but this socket, so when it answers is only a matter of when      *)
(* pgdog reads the answer, and every such order is explored by the         *)
(* composing module.                                                       *)
(***************************************************************************)
EXTENDS Naturals, Sequences, SequencesExt

CONSTANTS
    Owners,     \* who a request can be sent for: client sessions and the pool
    NoOwner     \* txOwner of a backend that is not inside a transaction

ASSUME NoOwner \notin Owners

\* State of backend/server.rs (crate::state::State, server-side values).
States == {"Idle", "Active", "IdleInTransaction", "TransactionError",
           "Error", "Disconnected"}

\* Frontend messages a client can send. "Begin", "Commit", "Select" are
\* simple-protocol Query ('Q') messages, "Parse"/"Sync"/"Flush" extended
\* protocol.
QueryMsgs  == {"Begin", "Commit", "Select"}
ClientMsgs == QueryMsgs \cup {"Parse", "Sync", "Flush"}

\* Backend messages, abstracted to their tag: CommandComplete, ParseComplete,
\* ErrorResponse, ReadyForQuery (st is the ReadyForQuery status byte).
Replies == [code : {"C", "1", "E", "Z"}, st : {"I", "T", "E", "-"},
            owner : Owners]

Conn == [state : States, out : Seq(Replies), tx : {"I", "T", "E"},
         txOwner : Owners \cup {NoOwner}, broken : BOOLEAN]

-----------------------------------------------------------------------------
(* The PostgreSQL backend (environment, not pgdog code).                   *)

\* Transaction status after the backend executes message m in status tx.
PgTx(tx, m) ==
    CASE m = "Begin"                   -> IF tx = "E" THEN "E" ELSE "T"
      [] m \in {"Commit", "Rollback"}  -> "I"
      [] OTHER                         -> tx

\* Tags the backend answers m with; in an aborted transaction every
\* statement but COMMIT/ROLLBACK fails.
PgTags(tx, m) ==
    LET body == IF tx = "E" /\ m \in {"Begin", "Select", "Parse"} THEN "E"
                ELSE IF m = "Parse" THEN "1" ELSE "C"
    IN  CASE m = "Sync"                              -> <<"Z">>
          [] m = "Flush"                             -> <<>>
          [] m \in QueryMsgs \cup {"Rollback"}       -> <<body, "Z">>
          [] OTHER                                   -> <<body>>

PgReply(tag, tx, o) ==
    [code |-> tag, st |-> IF tag = "Z" THEN tx ELSE "-", owner |-> o]

\* The backend runs the messages ms sent for o, in order, starting in
\* status tx; result: final status and the replies, in order.
RECURSIVE PgRun(_, _, _)
PgRun(tx, ms, o) ==
    IF ms = <<>> THEN [tx |-> tx, out |-> <<>>]
    ELSE LET ntx  == PgTx(tx, Head(ms))
             tags == PgTags(tx, Head(ms))
             rest == PgRun(ntx, Tail(ms), o)
         IN  [tx  |-> rest.tx,
              out |-> [i \in 1..Len(tags) |-> PgReply(tags[i], ntx, o)]
                      \o rest.out]

\* The backend process dies or the network drops: the socket is dead and
\* whatever it had not delivered is lost with the transaction.
Crash(r) == [r EXCEPT !.broken = TRUE, !.out = <<>>, !.tx = "I",
                      !.txOwner = NoOwner]

\* A request is complete at a Query, a Sync or a Flush: the backend then
\* answers everything before it. Completed(s) is the prefix of the
\* messages s up to the last such point.
Completed(s) ==
    LET k == SelectLastInSeq(s, LAMBDA m : m \in QueryMsgs \cup {"Sync", "Flush"})
    IN  SubSeq(s, 1, k)

\* What a backend of its own answers o's messages s with, from idle.
Answers(o, s) == PgRun("I", Completed(s), o).out

-----------------------------------------------------------------------------
(* backend/server.rs                                                       *)

\* Server::connect: startup and authentication done, ReadyForQuery seen.
Connect == [state |-> "Idle", out |-> <<>>, tx |-> "I", txOwner |-> NoOwner,
            broken |-> FALSE]

\* A connection that does not exist (never opened, or dropped: Drop sends
\* Terminate and closes the socket).
Closed == [Connect EXCEPT !.state = "Disconnected"]

\* Server::in_sync, Server::in_transaction, Server::error, Server::done.
InSync(r)        == r.state \in {"IdleInTransaction", "TransactionError", "Idle"}
InTransaction(r) == r.state \in {"IdleInTransaction", "TransactionError"}
IsError(r)       == r.state = "Error"

\* Mutant: "done" taken to mean "in sync", also inside a transaction.
DoneInSync(r) == InSync(r)

Done(r) == r.state = "Idle"

\* The state a ReadyForQuery status byte moves Server::read to. Only the
\* backend writes this byte and it writes only I, T or E, so the
\* UnexpectedTransactionStatus branch cannot be reached.
StatusState(st) ==
    CASE st = "I" -> "Idle"
      [] st = "T" -> "IdleInTransaction"
      [] st = "E" -> "TransactionError"

\* Mutant: the messages are written to the stream's buffer and never
\* flushed to the socket.
SendUnflushed(r, ms, o) ==
    IF r.broken THEN [r EXCEPT !.state = "Error"]
    ELSE [r EXCEPT !.state = "Active"]

\* Server::send for owner o: state Active, write; a dead socket is Error.
Send(r, ms, o) ==
    IF r.broken THEN [r EXCEPT !.state = "Error"]
    ELSE LET run == PgRun(r.tx, ms, o)
         IN  [r EXCEPT !.state   = "Active",
                       !.out     = r.out \o run.out,
                       !.tx      = run.tx,
                       !.txOwner = IF run.tx = "I" THEN NoOwner
                                   ELSE IF r.tx = "I" THEN o ELSE r.txOwner]

\* Server::read of one message (caller checks r.out # <<>> or r.broken).
Read(r) ==
    IF r.broken THEN [r EXCEPT !.state = "Error"]
    ELSE LET m == Head(r.out)
         IN  [r EXCEPT !.out   = Tail(r.out),
                       !.state = IF m.code = "Z" THEN StatusState(m.st)
                                 ELSE r.state]

\* Server::execute(q) for owner o: refuse unless in sync, send, then read
\* until in sync again, that is up to and including the first
\* ReadyForQuery waiting in the socket, which need not be q's own.
Execute(r, q, o) ==
    IF ~InSync(r) THEN r
    ELSE LET w == Send(r, <<q>>, o)
             k == SelectInSeq(w.out, LAMBDA m : m.code = "Z")
         IN  IF IsError(w) THEN w
             ELSE [w EXCEPT !.out   = SubSeq(w.out, k + 1, Len(w.out)),
                            !.state = StatusState(w.out[k].st)]

\* Server::healthcheck(q) for owner o succeeds: Server::execute refuses a
\* connection out of sync (NotInSync) and fails on an I/O error (Error).
\* The last_healthcheck stamp is PoolTimers' concern.
HealthcheckOk(r, q, o) == InSync(r) /\ ~IsError(Execute(r, q, o))

\* Mutant: rollback without the final check that turns a connection still
\* waiting for answers into Error.
RollbackNoSyncCheck(r, o) ==
    IF InTransaction(r) THEN Execute(r, "Rollback", o) ELSE r

\* Server::rollback, run by the pool for owner o when a guard is returned.
Rollback(r, o) ==
    LET e == IF InTransaction(r) THEN Execute(r, "Rollback", o) ELSE r
    IN  IF InSync(e) THEN e ELSE [e EXCEPT !.state = "Error"]

=============================================================================
