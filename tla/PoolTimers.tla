----------------------------- MODULE PoolTimers -----------------------------
(***************************************************************************)
(* The timers of one connection pool: checkout, connect, idle and max-age  *)
(* deadlines, over a discrete clock. The durations come from the pool      *)
(* Config (backend/pool/config.rs); the pool that applies them             *)
(* (pool_impl.rs, monitor.rs) is not among the sources, and its steps      *)
(* follow specification 4.3:                                               *)
(*   checkout: the most recently returned idle connection, else a new one  *)
(*             below max (subject to the connect timeout), else wait in    *)
(*             FIFO order up to the checkout timeout;                       *)
(*   release : discard past max_age, else hand to the first waiter, else   *)
(*             put back on top of the idle list;                           *)
(*   monitor : evict idle connections past idle_timeout or max_age above   *)
(*             min, spawn connections for waiters or up to min, and      *)
(*             healthcheck idle connections whose healthcheck_age exceeds *)
(*             the interval; a failed check discards the connection and  *)
(*             bans the pool, and a banned pool refuses checkouts until   *)
(*             the ban expires or is lifted.                              *)
(* The backend may stop answering and come back (environment): connects   *)
(* to it do not complete and its healthchecks fail.                      *)
(* A timer fires when its deadline is reached: the clock does not move     *)
(* past a due timer.                                                       *)
(***************************************************************************)
EXTENDS Naturals, Sequences, SequencesExt, FiniteSets

CONSTANTS
    Callers,   \* tasks that check connections out (client sessions)
    Conns,     \* identities a server connection can have
    Cfg,       \* the pool Config record, durations in clock ticks
    HealthcheckInterval, \* healthcheck threshold on healthcheck_age
    BanTimeout, \* how long a ban lasts
    MaxTime,   \* bound: the clock stops here
    NoConn     \* no connection

ASSUME /\ NoConn \notin Conns
       /\ Cfg.min <= Cfg.max /\ Cfg.max >= 1
       /\ Cardinality(Conns) >= Cfg.max

VARIABLES
    now,       \* the clock
    pc,        \* pc[c]: "free", "connecting", "waiting", "holding"
    since,     \* since[c]: when c's current checkout began
    held,      \* held[c]: the connection c holds or is connecting
    idle,      \* idle connections, most recently returned first
    open,      \* connections that exist or are being connected
    born,      \* born[s]: when s was connected
    used,      \* used[s]: when s was last returned
    waiters,   \* callers waiting for a returned connection, in order
    spawn,     \* the monitor's connect in progress: [conn, at], or none
    checked,   \* checked[s]: last_healthcheck, <<t>> or <<>> (None)
    down,      \* the backend does not answer
    banned     \* the pool's ban: <<banned_at>>, or <<>>

vars == <<now, pc, since, held, idle, open, born, used, waiters, spawn,
          checked, down, banned>>

NoSpawn == [conn |-> NoConn, at |-> 0]

-----------------------------------------------------------------------------
(* backend/pool/config.rs                                                  *)

\* Config::connect_timeout: built from the checkout_timeout field.
ConnectTimeout(cfg)  == cfg.checkout_timeout

CheckoutTimeout(cfg) == cfg.checkout_timeout
IdleTimeout(cfg)     == cfg.idle_timeout
MaxAge(cfg)          == cfg.max_age

-----------------------------------------------------------------------------
(* backend/server.rs: the durations of a connection at the instant now.    *)

\* Server::age, Server::idle_for.
Age(s)     == now - born[s]
IdleFor(s) == now - used[s]

\* Duration::MAX: longer than anything the clock reaches.
DurationMax == MaxTime + 1

\* Mutant: a connection never checked reports a zero healthcheck age.
HealthcheckAgeZero(s) == IF checked[s] = <<>> THEN 0 ELSE now - checked[s][1]

\* Server::healthcheck_age: since last_healthcheck, or Duration::MAX when
\* the connection was never checked.
HealthcheckAge(s) == IF checked[s] = <<>> THEN DurationMax ELSE now - checked[s][1]

-----------------------------------------------------------------------------
Expired(s)     == Age(s) > MaxAge(Cfg)
ConnectDue(c)  == pc[c] = "connecting" /\ now >= since[c] + ConnectTimeout(Cfg)
WaitDue(c)     == pc[c] = "waiting" /\ now >= since[c] + CheckoutTimeout(Cfg)
SpawnDue       == spawn # NoSpawn /\ now >= spawn.at + ConnectTimeout(Cfg)
HealthDue(s)   == s \in ToSet(idle) /\ HealthcheckAge(s) > HealthcheckInterval
TimerDue       == \/ SpawnDue
                  \/ \E c \in Callers : ConnectDue(c) \/ WaitDue(c)
                  \/ \E s \in Conns : HealthDue(s)
Banned         == banned # <<>> /\ now < banned[1] + BanTimeout

\* Connection s is returned, the callers' states being p and h otherwise:
\* the first waiter gets it, or it goes on top of the idle list.
Hand(s, p, h) ==
    IF waiters = <<>>
    THEN /\ idle' = <<s>> \o idle
         /\ pc' = p /\ held' = h
         /\ UNCHANGED waiters
    ELSE LET w == Head(waiters) IN
         /\ pc' = [p EXCEPT ![w] = "holding"]
         /\ held' = [h EXCEPT ![w] = s]
         /\ waiters' = Tail(waiters)
         /\ UNCHANGED idle

Init ==
    /\ now = 0
    /\ pc = [c \in Callers |-> "free"]
    /\ since = [c \in Callers |-> 0]
    /\ held = [c \in Callers |-> NoConn]
    /\ idle = <<>> /\ open = {}
    /\ born = [s \in Conns |-> 0] /\ used = [s \in Conns |-> 0]
    /\ waiters = <<>> /\ spawn = NoSpawn
    /\ checked = [s \in Conns |-> <<>>] /\ down = FALSE /\ banned = <<>>

Tick ==
    /\ now < MaxTime /\ ~TimerDue
    /\ now' = now + 1
    /\ UNCHANGED <<pc, since, held, idle, open, born, used, waiters, spawn,
                   checked, down, banned>>

\* A banned pool fails the checkout with Banned: the caller stays free.
Checkout(c) ==
    /\ pc[c] = "free" /\ ~Banned
    /\ since' = [since EXCEPT ![c] = now]
    /\ \/ /\ idle # <<>>
          /\ pc' = [pc EXCEPT ![c] = "holding"]
          /\ held' = [held EXCEPT ![c] = Head(idle)]
          /\ idle' = Tail(idle)
          /\ UNCHANGED <<open, waiters>>
       \/ /\ idle = <<>> /\ Cardinality(open) < Cfg.max
          /\ \E s \in Conns \ open :
                /\ pc' = [pc EXCEPT ![c] = "connecting"]
                /\ held' = [held EXCEPT ![c] = s]
                /\ open' = open \cup {s}
          /\ UNCHANGED <<idle, waiters>>
       \/ /\ idle = <<>> /\ Cardinality(open) >= Cfg.max
          /\ pc' = [pc EXCEPT ![c] = "waiting"]
          /\ waiters' = Append(waiters, c)
          /\ UNCHANGED <<held, idle, open>>
    /\ UNCHANGED <<now, born, used, spawn, checked, down, banned>>

\* The caller's connect completes before its timer: a new Server, never
\* healthchecked.
ConnectOk(c) ==
    /\ pc[c] = "connecting" /\ ~ConnectDue(c) /\ ~down
    /\ pc' = [pc EXCEPT ![c] = "holding"]
    /\ born' = [born EXCEPT ![held[c]] = now]
    /\ checked' = [checked EXCEPT ![held[c]] = <<>>]
    /\ UNCHANGED <<now, since, held, idle, open, used, waiters, spawn, down, banned>>

\* The connect timer fires: ConnectTimeout to the caller.
ConnectExpire(c) ==
    /\ ConnectDue(c)
    /\ pc' = [pc EXCEPT ![c] = "free"]
    /\ open' = open \ {held[c]}
    /\ held' = [held EXCEPT ![c] = NoConn]
    /\ UNCHANGED <<now, since, idle, born, used, waiters, spawn, checked, down, banned>>

\* The checkout timer fires: CheckoutTimeout, the waiter leaves the queue.
WaitExpire(c) ==
    /\ WaitDue(c)
    /\ pc' = [pc EXCEPT ![c] = "free"]
    /\ waiters' = SelectSeq(waiters, LAMBDA w : w # c)
    /\ UNCHANGED <<now, since, held, idle, open, born, used, spawn, checked, down, banned>>

\* The guard is dropped: discard past max_age, else hand the connection on.
Release(c) ==
    /\ pc[c] = "holding"
    /\ LET s == held[c]
           p == [pc EXCEPT ![c] = "free"]
           h == [held EXCEPT ![c] = NoConn]
       IN  IF Expired(s)
           THEN /\ open' = open \ {s}
                /\ pc' = p /\ held' = h
                /\ UNCHANGED <<idle, waiters, used>>
           ELSE /\ used' = [used EXCEPT ![s] = now]
                /\ Hand(s, p, h)
                /\ UNCHANGED open
    /\ UNCHANGED <<now, since, born, spawn, checked, down, banned>>

\* Monitor: an idle connection past idle_timeout or max_age is closed while
\* the pool stays above min.
Evict(s) ==
    /\ s \in ToSet(idle)
    /\ IdleFor(s) > IdleTimeout(Cfg) \/ Expired(s)
    /\ Cardinality(open) > Cfg.min
    /\ idle' = SelectSeq(idle, LAMBDA x : x # s)
    /\ open' = open \ {s}
    /\ UNCHANGED <<now, pc, since, held, born, used, waiters, spawn, checked, down, banned>>

\* Monitor: connect a new connection for the waiters, or up to min.
Spawn ==
    /\ spawn = NoSpawn /\ Cardinality(open) < Cfg.max
    /\ waiters # <<>> \/ Cardinality(open) < Cfg.min
    /\ \E s \in Conns \ open :
          /\ spawn' = [conn |-> s, at |-> now]
          /\ open' = open \cup {s}
    /\ UNCHANGED <<now, pc, since, held, idle, born, used, waiters, checked, down, banned>>

SpawnOk ==
    /\ spawn # NoSpawn /\ ~SpawnDue /\ ~down
    /\ born' = [born EXCEPT ![spawn.conn] = now]
    /\ used' = [used EXCEPT ![spawn.conn] = now]
    /\ checked' = [checked EXCEPT ![spawn.conn] = <<>>]
    /\ Hand(spawn.conn, pc, held)
    /\ spawn' = NoSpawn
    /\ UNCHANGED <<now, since, open, down, banned>>

SpawnExpire ==
    /\ SpawnDue
    /\ open' = open \ {spawn.conn}
    /\ spawn' = NoSpawn
    /\ UNCHANGED <<now, pc, since, held, idle, born, used, waiters, checked, down, banned>>

\* Monitor: an idle connection due for a check runs Server::healthcheck;
\* success stamps last_healthcheck, failure discards it and bans the pool.
Healthcheck(s) ==
    /\ HealthDue(s)
    /\ IF down
       THEN /\ idle' = SelectSeq(idle, LAMBDA x : x # s)
            /\ open' = open \ {s}
            /\ banned' = <<now>>
            /\ UNCHANGED checked
       ELSE /\ checked' = [checked EXCEPT ![s] = <<now>>]
            /\ UNCHANGED <<idle, open, banned>>
    /\ UNCHANGED <<now, pc, since, held, born, used, waiters, spawn, down>>

\* The backend stops answering, or answers again (environment).
BackendDown ==
    /\ ~down /\ down' = TRUE
    /\ UNCHANGED <<now, pc, since, held, idle, open, born, used, waiters, spawn, checked, banned>>

BackendUp ==
    /\ down /\ down' = FALSE
    /\ UNCHANGED <<now, pc, since, held, idle, open, born, used, waiters, spawn, checked, banned>>

\* The admin surface lifts the ban.
Unban ==
    /\ banned # <<>> /\ banned' = <<>>
    /\ UNCHANGED <<now, pc, since, held, idle, open, born, used, waiters, spawn, checked, down>>

Next ==
    \/ Tick \/ Spawn \/ SpawnOk \/ SpawnExpire
    \/ BackendDown \/ BackendUp \/ Unban
    \/ \E s \in Conns : Evict(s) \/ Healthcheck(s)
    \/ \E c \in Callers :
          \/ Checkout(c) \/ ConnectOk(c) \/ ConnectExpire(c)
          \/ WaitExpire(c) \/ Release(c)

Spec == Init /\ [][Next]_vars

=============================================================================
