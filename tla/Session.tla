------------------------------ MODULE Session ------------------------------
(***************************************************************************)
(* What pgdog promises each client (specification sections 1 and 8):      *)
(* talking to pgdog is talking to a PostgreSQL backend of one's own. The   *)
(* client sees, in order, exactly the replies a private backend would give *)
(* to the complete requests it wrote (up to its last Query, Sync or Flush) *)
(* and the session may end at any moment (Terminate, an I/O error, a       *)
(* checkout timeout). Pooling, multiplexing and the releases between       *)
(* transactions are invisible.                                             *)
(*                                                                         *)
(* The backend is the one of ServerConn (PgRun), run for this client from  *)
(* the idle status.                                                        *)
(***************************************************************************)
EXTENDS Naturals, Sequences, SequencesExt, ServerConn

CONSTANTS
    Clients,   \* client sessions
    Writable   \* the messages the applications write

VARIABLES
    sent,   \* sent[c]: every message c wrote
    recv,   \* recv[c]: every reply c received
    live    \* live[c]: c's session is running

avars == <<sent, recv, live>>

\* The replies a private backend gives c for everything c completed.
Ideal(c) == Answers(c, sent[c])

Init ==
    /\ sent = [c \in Clients |-> <<>>]
    /\ recv = [c \in Clients |-> <<>>]
    /\ live = [c \in Clients |-> TRUE]

\* The client writes a message; after Terminate ("X") it writes no more.
Write(c) ==
    /\ live[c] /\ "X" \notin ToSet(sent[c])
    /\ \E m \in Writable \cup {"X"} : sent' = [sent EXCEPT ![c] = Append(@, m)]
    /\ UNCHANGED <<recv, live>>

\* The next replies of c's private backend reach c, one or several at a
\* time (a socket delivers what was flushed to it together).
Reply(c) ==
    /\ live[c] /\ Len(recv[c]) < Len(Ideal(c))
    /\ \E k \in Len(recv[c]) + 1 .. Len(Ideal(c)) :
          recv' = [recv EXCEPT ![c] = SubSeq(Ideal(c), 1, k)]
    /\ UNCHANGED <<sent, live>>

\* The session ends.
End(c) ==
    /\ live[c]
    /\ live' = [live EXCEPT ![c] = FALSE]
    /\ UNCHANGED <<sent, recv>>

Next == \E c \in Clients : Write(c) \/ Reply(c) \/ End(c)

\* A reply that is due is delivered unless the session ends first.
Spec == Init /\ [][Next]_avars /\ \A c \in Clients : WF_avars(Reply(c))

=============================================================================
