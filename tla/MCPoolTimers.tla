---------------------------- MODULE MCPoolTimers ----------------------------
(***************************************************************************)
(* Model-checking instance of PoolTimers: two callers and a pool of at   *)
(* most two connections and at least one, so that the monitor connects   *)
(* for min, a caller connects while that connect runs, the other caller  *)
(* waits, and idle connections are evicted above min. The Config's       *)
(* connect timeout is shorter than its checkout timeout, as a deployment  *)
(* that wants connects to fail fast sets it. One clock tick is one unit   *)
(* of the durations.                                                      *)
(***************************************************************************)
EXTENDS PoolTimers

CONSTANTS a, b, s1, s2

MCCallers == {a, b}
MCConns   == {s1, s2}

\* min, max, then checkout_timeout, idle_timeout, connect_timeout, max_age.
MCCfg == [min |-> 1, max |-> 2, checkout_timeout |-> 2, idle_timeout |-> 1,
          connect_timeout |-> 1, max_age |-> 3]

Symmetry == Permutations(MCCallers) \cup Permutations(MCConns)

-----------------------------------------------------------------------------
\* A connect, by a caller or by the monitor, is given up once
\* connect_timeout has passed (specification 4.3 step 3, and section 5: "connect
\* obeys connect_timeout"). About Config::connect_timeout.
ConnectBounded ==
    /\ \A c \in Callers :
          pc[c] = "connecting" => now - since[c] <= Cfg.connect_timeout
    /\ spawn # NoSpawn => now - spawn.at <= Cfg.connect_timeout

\* No idle connection goes unchecked for longer than the healthcheck
\* interval (plus the tick in which it falls due), counted from its last
\* healthcheck or from its return to the pool, whichever is later: a new
\* connection, never checked, is checked as soon as it is idle, because
\* Server::healthcheck_age reports Duration::MAX for last_healthcheck None.
LastSeen(s) == IF checked[s] # <<>> /\ checked[s][1] > used[s]
               THEN checked[s][1] ELSE used[s]
IdleHealthchecked ==
    \A s \in ToSet(idle) : now - LastSeen(s) <= HealthcheckInterval + 1

=============================================================================
