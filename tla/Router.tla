------------------------------- MODULE Router -------------------------------
(***************************************************************************)
(* frontend/router: the query router of a client session, which turns each *)
(* complete statement of the client's Buffer into a Command (a Route, a    *)
(* COPY, or a transaction command) and keeps the last one (router/mod.rs,  *)
(* parser/query.rs).                                                       *)
(*                                                                         *)
(* The SQL parser (pg_query), the comment parser and the WHERE-clause key  *)
(* extraction are collaborators outside this code: a statement is given   *)
(* by what they return, an abstract record                                 *)
(*   kind    : top-level statement, or "none" (the Buffer holds no query)  *)
(*             or "invalid" (comment, parse or empty-query error)          *)
(*   txkind  : kind of a TransactionStmt                                   *)
(*   tables  : ast.tables() is not empty                                   *)
(*   comment : shard named by a pgdog_shard comment, or NoShard            *)
(*   keys    : where_clause.keys() over every sharded table                *)
(*   bind    : the Buffer carries a Bind                                   *)
(*   sort    : the sort clause, as SortBy nodes                            *)
(*   plan    : CopyParser::new found a sharded table                       *)
(*                                                                         *)
(* The round-robin counter is process-wide and grows by one per read      *)
(* without tables; the route takes it modulo the shard count. Other        *)
(* clients move it too, so a router may find it at any value up to the     *)
(* bound MaxRoundRobin.                                                    *)
(***************************************************************************)
EXTENDS Naturals, Sequences, SequencesExt

CONSTANTS
    Clusters,    \* [shards, readOnly, writeOnly] records
    KeyValues,   \* sharding-key values a statement can carry
    ShardStr(_, _), \* sharding::shard_str(value, shards): a shard or NoShard
    NoShard,     \* Option::None for a shard
    AnyShard,    \* ShardSelector Any: the pool picks the shard
    AllShards,   \* ShardSelector All: fan out to every shard
    Statements,  \* the statements clients can send
    MaxRoundRobin \* bound on the round-robin counter

ASSUME {NoShard, AnyShard, AllShards} \cap Nat = {}

VARIABLES
    cluster,   \* the cluster of this router (fixed)
    command,   \* QueryParser.command
    rr,        \* round_robin counter (round_robin::next)
    input      \* the statement of the last Router::query call (history)

vars == <<cluster, command, rr, input>>

-----------------------------------------------------------------------------
(* Route constructors of parser/route.rs (not among the sources; values   *)
(* from specification section "Route").                                    *)

MkRoute(shard, affinity, orderBy) ==
    [shard |-> shard, affinity |-> affinity, orderBy |-> orderBy]

RouteRead(shard)  == MkRoute(IF shard = NoShard THEN AnyShard ELSE shard, "read", <<>>)
RouteWrite(shard) == MkRoute(IF shard = NoShard THEN AnyShard ELSE shard, "write", <<>>)
RouteSelect(shard, orderBy) ==
    MkRoute(IF shard = NoShard THEN AllShards ELSE shard, "read", orderBy)

\* Route::overwrite_shard.
OverwriteShard(r, shard) == [r EXCEPT !.shard = shard]

\* Command::Query(route) and the other Command variants.
QueryCmd(r) == [cmd |-> "query", route |-> r]
OtherCmd(c) == [cmd |-> c, route |-> RouteWrite(NoShard)]

-----------------------------------------------------------------------------
(* parser/query.rs                                                         *)

\* select_sort, one SortBy node: direction values are pg_query's SortByDir
\* (0 undefined, 1 default, 2 ASC, 3 DESC, 4 USING); a ColumnRef gives
\* the first of its name fields.
IsAsc(dir) == dir \in 0..2

SortEntry(c) ==
    IF c.node = "const"
    THEN [by |-> "index", index |-> c.ival, asc |-> IsAsc(c.dir)]
    ELSE [by |-> "name", name |-> Head(c.fields), asc |-> IsAsc(c.dir)]

\* A SortBy node select_sort keeps: an integer constant, or a ColumnRef
\* whose first field is a name; every other expression is skipped.
Sortable(c) == c.node = "const" \/ (c.node = "column" /\ c.fields # <<>>)

SelectSort(nodes) ==
    LET kept == SelectSeq(nodes, Sortable)
    IN  [i \in 1..Len(kept) |-> SortEntry(kept[i])]

\* The shard of one WHERE key: a constant, or a parameter of the Bind
\* decoded as text; None when it cannot be resolved.
KeyShard(k, bind, n) ==
    CASE k.kind = "const"                          -> ShardStr(k.value, n)
      [] k.kind = "param" /\ bind /\ k.text # "binary" -> ShardStr(k.text, n)
      [] OTHER                                     -> NoShard

\* Mutant: any resolved shard pins the route, also when the keys resolve
\* to several shards.
SelectAnyShard(stmt, n) ==
    LET shards == {KeyShard(k, stmt.bind, n) : k \in stmt.keys} \ {NoShard}
        shard  == IF shards # {} THEN CHOOSE s \in shards : TRUE ELSE NoShard
    IN  QueryCmd(RouteSelect(shard, SelectSort(stmt.sort)))

\* QueryParser::select: the set of shards of the keys; one shard pins the
\* route, none or several give AllShards.
Select(stmt, n) ==
    LET shards == {KeyShard(k, stmt.bind, n) : k \in stmt.keys} \ {NoShard}
        shard  == IF \E s \in shards : shards = {s}
                  THEN CHOOSE s \in shards : TRUE ELSE NoShard
    IN  QueryCmd(RouteSelect(shard, SelectSort(stmt.sort)))

\* QueryParser::copy: a COPY the CopyParser plans for this cluster, else a
\* write to all shards.
Copy(stmt) == IF stmt.plan THEN OtherCmd("copy") ELSE QueryCmd(RouteWrite(NoShard))

\* QueryParser::insert, update, delete: a write to all shards.
WriteStmt == QueryCmd(RouteWrite(NoShard))

\* The Command of a statement past the shortcuts, before the overrides.
Dispatch(stmt, n) ==
    CASE stmt.kind = "select"                          -> Select(stmt, n)
      [] stmt.kind = "copy"                            -> Copy(stmt)
      [] stmt.kind \in {"insert", "update", "delete"}   -> WriteStmt
      [] stmt.kind = "tx" /\ stmt.txkind = "commit"    -> OtherCmd("commit")
      [] stmt.kind = "tx" /\ stmt.txkind = "rollback"  -> OtherCmd("rollback")
      [] stmt.kind = "tx" /\ stmt.txkind \in {"begin", "start"}
                                                       -> OtherCmd("begin")
      [] OTHER                                         -> QueryCmd(RouteWrite(NoShard))

\* The comment shard, then the single-shard rule, stamped on a Query.
Overrides(c, stmt, n) ==
    LET c1 == IF c.cmd = "query" /\ stmt.comment # NoShard
              THEN [c EXCEPT !.route = OverwriteShard(@, stmt.comment)] ELSE c
    IN  IF c1.cmd = "query" /\ n = 1
        THEN [c1 EXCEPT !.route = OverwriteShard(@, 0)] ELSE c1

\* Whether a statement takes the round-robin path of SELECT without tables.
RoundRobin(stmt, cl) ==
    /\ ~(cl.shards = 1 /\ (cl.readOnly \/ cl.writeOnly))
    /\ stmt.kind = "select" /\ ~stmt.tables /\ stmt.comment = NoShard

\* QueryParser::query: the resulting Command.
Query(stmt, cl, counter) ==
    LET n == cl.shards
    IN  CASE n = 1 /\ cl.readOnly       -> QueryCmd(RouteRead(0))
          [] n = 1 /\ cl.writeOnly      -> QueryCmd(RouteWrite(0))
          [] RoundRobin(stmt, cl)       -> QueryCmd(RouteRead(counter % n))
          [] OTHER                      -> Overrides(Dispatch(stmt, n), stmt, n)

\* QueryParser::query fails: the comment does not parse, pg_query rejects
\* the statement, or it is empty; and QueryParser::parse fails when the
\* Buffer holds no query (Error::NotInSync).
Fails(stmt, cl) ==
    /\ stmt.kind \in {"invalid", "none"}
    /\ ~(stmt.kind = "invalid" /\ cl.shards = 1 /\ (cl.readOnly \/ cl.writeOnly))

-----------------------------------------------------------------------------
(* router/mod.rs                                                           *)

\* Router::new: QueryParser::default, Query(Route::default()).
Init ==
    /\ cluster \in Clusters
    /\ command = QueryCmd(MkRoute(AnyShard, "unknown", <<>>))
    /\ rr \in 0..MaxRoundRobin
    /\ input = "start"

\* Router::query(buffer, cluster): parse the Buffer's statement; on an
\* error the previous Command stays.
RouteQuery(stmt) ==
    /\ input' = stmt
    /\ IF Fails(stmt, cluster)
       THEN UNCHANGED <<command, rr>>
       ELSE /\ command' = Query(stmt, cluster, rr)
            /\ rr' = IF RoundRobin(stmt, cluster) THEN rr + 1 ELSE rr
    /\ UNCHANGED cluster

\* comment::shard(query, shards) only yields a shard below the count.
CommentInRange(stmt) == IF stmt.comment = NoShard THEN TRUE ELSE stmt.comment < cluster.shards

\* The counter stays below its bound.
RoundRobinBound(stmt) == RoundRobin(stmt, cluster) => rr < MaxRoundRobin

Next == \E stmt \in Statements :
            CommentInRange(stmt) /\ RoundRobinBound(stmt) /\ RouteQuery(stmt)

Spec == Init /\ [][Next]_vars

=============================================================================
