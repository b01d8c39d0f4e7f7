------------------------------ MODULE MCRouter ------------------------------
(***************************************************************************)
(* Model-checking instance of Router: clusters of one and two shards with  *)
(* every read_only/write_only setting, and statements of every kind the    *)
(* router dispatches on, with sharding keys that resolve to one shard, to  *)
(* another, or not at all, and ORDER BY clauses. The property compares     *)
(* each routing step with a reference routing written from specification  *)
(* 4.5.                                                                    *)
(***************************************************************************)
EXTENDS Router

MCClusters == [shards : {1, 2}, readOnly : BOOLEAN, writeOnly : BOOLEAN]

MCKeyValues == {"a", "b", "c"}

\* shard_str on the model's values: "a" and "b" hash to different shards
\* of a two-shard cluster, "c" does not resolve.
MCShardStr(v, n) == CASE v = "a" -> 0
                      [] v = "b" -> 1 % n
                      [] OTHER   -> NoShard

Key(kind, v) == [kind |-> kind, value |-> v, text |-> v]
MCKeys == {Key("const", "a"), Key("const", "b"), Key("param", "b"),
           Key("param", "binary")}

SortNode(node, dir, ival, fields) ==
    [node |-> node, dir |-> dir, ival |-> ival, fields |-> fields]

\* ORDER BY 2 DESC, id, lower(name): a position, a bare column, an
\* expression.
PlainSort == <<SortNode("const", 3, 2, <<>>), SortNode("column", 1, 0, <<"id">>),
               SortNode("expr", 2, 0, <<>>)>>
\* ORDER BY users.id: a qualified column.
QualifiedSort == <<SortNode("column", 2, 0, <<"users", "id">>)>>
\* ORDER BY id USING <: ascending through an operator.
UsingSort == <<SortNode("column", 4, 0, <<"id">>)>>

Stmt(kind, txkind, tables, comment, keys, bind, sort, plan) ==
    [kind |-> kind, txkind |-> txkind, tables |-> tables, comment |-> comment,
     keys |-> keys, bind |-> bind, sort |-> sort, plan |-> plan]

NonSelects ==
    {Stmt(k, "none", TRUE, c, {}, FALSE, <<>>, FALSE) :
        k \in {"insert", "update", "delete", "other", "none", "invalid"},
        c \in {NoShard, 1}}
    \cup {Stmt("copy", "none", TRUE, c, {}, FALSE, <<>>, p) :
            c \in {NoShard, 1}, p \in BOOLEAN}
    \cup {Stmt("tx", t, FALSE, NoShard, {}, FALSE, <<>>, FALSE) :
            t \in {"begin", "start", "commit", "rollback", "savepoint"}}

SelectsWith(sorts) ==
    {Stmt("select", "none", t, c, ks, b, s, FALSE) :
        t \in BOOLEAN, c \in {NoShard, 1}, ks \in SUBSET MCKeys,
        b \in BOOLEAN, s \in sorts}

MCStatements         == NonSelects \cup SelectsWith({<<>>, PlainSort})
MCStatementsOrderBy  == SelectsWith({QualifiedSort, UsingSort})

-----------------------------------------------------------------------------
(* Reference routing, from specification 4.5 (steps 1-6).                  *)

Shortcut(cl) == cl.shards = 1 /\ (cl.readOnly \/ cl.writeOnly)

\* ORDER BY as the specification reads it: a position, or the column's own
\* name (the last part of a qualified name); ascending unless DESC.
SpecOrderBy(nodes) ==
    LET kept == SelectSeq(nodes, LAMBDA c : c.node \in {"const", "column"})
    IN  [i \in 1..Len(kept) |->
           IF kept[i].node = "const"
           THEN [by |-> "index", index |-> kept[i].ival, asc |-> kept[i].dir # 3]
           ELSE [by |-> "name", name |-> Last(kept[i].fields),
                 asc |-> kept[i].dir # 3]]

\* Shards of the equality keys; keys that cannot be hashed (binary
\* parameters, no Bind, no shard) contribute nothing.
SpecKeyShards(stmt, n) ==
    LET hashed == {ShardStr(k.value, n) : k \in {k \in stmt.keys : k.kind = "const"}}
                  \cup {ShardStr(k.text, n) :
                          k \in {k \in stmt.keys : k.kind = "param" /\ stmt.bind
                                                   /\ k.text # "binary"}}
    IN  hashed \ {NoShard}

SpecShard(stmt, n) ==
    LET ss == SpecKeyShards(stmt, n)
    IN  IF Cardinality(ss) = 1 THEN CHOOSE s \in ss : TRUE ELSE AllShards

SpecCommand(stmt, cl, counter) ==
    LET n     == cl.shards
        base  ==
          CASE stmt.kind = "select" /\ ~stmt.tables /\ stmt.comment = NoShard
                 -> QueryCmd(MkRoute(counter % n, "read", <<>>))
            [] stmt.kind = "select"
                 -> QueryCmd(MkRoute(SpecShard(stmt, n), "read",
                                     SpecOrderBy(stmt.sort)))
            [] stmt.kind = "copy" /\ stmt.plan -> OtherCmd("copy")
            [] stmt.kind = "tx" /\ stmt.txkind \in {"begin", "start"}
                 -> OtherCmd("begin")
            [] stmt.kind = "tx" /\ stmt.txkind = "commit" -> OtherCmd("commit")
            [] stmt.kind = "tx" /\ stmt.txkind = "rollback" -> OtherCmd("rollback")
            [] OTHER -> QueryCmd(MkRoute(AnyShard, "write", <<>>))
        pinned == IF base.cmd = "query" /\ stmt.comment # NoShard
                  THEN [base EXCEPT !.route.shard = stmt.comment] ELSE base
    IN  CASE Shortcut(cl) -> QueryCmd(MkRoute(0, IF cl.readOnly THEN "read"
                                                 ELSE "write", <<>>))
          [] pinned.cmd = "query" /\ n = 1
               -> [pinned EXCEPT !.route.shard = 0]
          [] OTHER -> pinned

\* A round-robin read moves the counter on, so the next one takes the next
\* shard.
SpecCounter(stmt, cl, counter) ==
    IF ~Shortcut(cl) /\ stmt.kind = "select" /\ ~stmt.tables
       /\ stmt.comment = NoShard
    THEN counter + 1 ELSE counter

\* A statement the router cannot route: no complete query in the Buffer,
\* or (past the single-shard shortcut) one that does not parse.
SpecUnroutable(stmt, cl) ==
    stmt.kind = "none" \/ (stmt.kind = "invalid" /\ ~Shortcut(cl))

-----------------------------------------------------------------------------
\* Every Router::query call leaves the Command and the round-robin counter
\* that specification 4.5 prescribes for its statement: the single-shard
\* shortcut, the statement kind, the sharding keys (one shard pins, several
\* or none fan out), the ORDER BY columns and directions, the comment and
\* single-shard overrides, and the previous Command when the Buffer holds
\* nothing routable. About QueryParser::query, select and select_sort.
RouteAgreesWithSpec ==
    [][ IF SpecUnroutable(input', cluster)
        THEN command' = command /\ rr' = rr
        ELSE /\ command' = SpecCommand(input', cluster, rr)
             /\ rr' = SpecCounter(input', cluster, rr) ]_vars

=============================================================================
