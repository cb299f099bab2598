---------------------------- MODULE SchemaGraph ----------------------------
(***************************************************************************)
(* The foreign keys of a schema as a graph (compiler/schema/               *)
(* schema-config.ts), and what is computed from it: join paths, related    *)
(* tables, and the source of a written column.                             *)
(*                                                                         *)
(* A schema is a record: tables, a sequence of table names in the order of *)
(* the Map, and fks, the sequence of its foreign keys.                     *)
(***************************************************************************)
EXTENDS Integers, Sequences, FiniteSets, SequencesExt

Ends(fk) == {fk.fromTable, fk.toTable}

\* The table at the other end of a key of t.
Other(fk, t) == IF fk.fromTable = t THEN fk.toTable ELSE fk.fromTable

\* getRelatedTables, of schema-config.ts and of the pre-selector.
getRelatedTables(schema, t) ==
    {Other(schema.fks[i], t) : i \in {j \in DOMAIN schema.fks : t \in Ends(schema.fks[j])}}

\* The foreign keys at a table, both directions, in the order of the schema.  A
\* key from a table to itself is listed twice.
Adjacency(schema, t) ==
    FlattenSeq([i \in DOMAIN schema.fks |->
        LET fk == schema.fks[i]
        IN  (IF fk.fromTable = t THEN <<fk>> ELSE <<>>) \o (IF fk.toTable = t THEN <<fk>> ELSE <<>>)])

NoPath == [found |-> FALSE, path |-> <<>>]

\* One turn of the loop of findJoinPath.  Tables are marked when they leave the
\* queue, so the queue may hold a table twice.
BfsStep(schema, to, s) ==
    LET head == s.queue[1]
        seen == s.visited \cup {head.table}
        next == SelectSeq(Adjacency(schema, head.table), LAMBDA fk : Other(fk, head.table) \notin seen)
    IN  IF s.queue = <<>> \/ s.result.found THEN s
        ELSE IF head.table = to
        THEN [s EXCEPT !.result = [found |-> TRUE, path |-> head.path]]
        ELSE IF head.table \in s.visited THEN [s EXCEPT !.queue = Tail(@)]
        ELSE [s EXCEPT !.visited = seen,
                       !.queue = Tail(@) \o [i \in DOMAIN next |->
                            [table |-> Other(next[i], head.table), path |-> Append(head.path, next[i])]]]

\* findJoinPath; found = FALSE is NoJoinPathError.  Each key is queued at most
\* twice, which bounds the turns.
findJoinPath(schema, from, to) ==
    LET start == [queue |-> <<[table |-> from, path |-> <<>>]>>, visited |-> {}, result |-> NoPath]
        turns == 2 * Len(schema.fks) + 3
        run[n \in 0..turns] == IF n = 0 THEN start ELSE BfsStep(schema, to, run[n - 1])
    IN  IF from = to THEN [found |-> TRUE, path |-> <<>>] ELSE run[turns].result

\* The tables that a path goes through, apart from its two ends.
bridgeTables(path, a, b) == UNION {Ends(path[i]) : i \in DOMAIN path} \ {a, b}

\* resolveWriteColumnSource: the field of the upstream row that a column of a
\* written table takes its value from.
resolveWriteColumnSource(table, column, upstream, fks, row) ==
    LET from(fk) == /\ fk.fromTable = table /\ fk.fromColumn = column /\ fk.toColumn \in row
        exact(fk) == from(fk) /\ fk.toTable \in upstream
        reverse(fk) == /\ fk.toTable = table /\ fk.toColumn = column
                       /\ fk.fromTable \in upstream /\ fk.fromColumn \in row
        first(P(_)) == fks[CHOOSE i \in DOMAIN fks :
                            P(fks[i]) /\ \A j \in 1..(i - 1) : ~P(fks[j])]
        some(P(_)) == \E i \in DOMAIN fks : P(fks[i])
        either(fk) == exact(fk) \/ reverse(fk)
    IN  IF column \in row THEN column
        ELSE IF some(either)
        THEN IF exact(first(either)) THEN first(either).toColumn ELSE first(either).fromColumn
        ELSE IF some(from) THEN first(from).toColumn
        ELSE column

-----------------------------------------------------------------------------
(* Reference definitions.                                                  *)

\* The tables within n keys of t.
Within(schema, t, n) ==
    LET ball[k \in 0..n] ==
            IF k = 0 THEN {t}
            ELSE ball[k - 1] \cup UNION {getRelatedTables(schema, u) : u \in ball[k - 1]}
    IN  ball[n]

IsPath(path, a, b) ==
    \E stops \in [1..(Len(path) + 1) -> UNION {Ends(path[i]) : i \in DOMAIN path} \cup {a, b}] :
        /\ stops[1] = a /\ stops[Len(path) + 1] = b
        /\ \A i \in DOMAIN path : {stops[i], stops[i + 1]} = Ends(path[i])

\* A path exists exactly between connected tables, joins the two ends, and no
\* shorter one does.
JoinPathCorrect(schema, a, b) ==
    LET r == findJoinPath(schema, a, b)
    IN  /\ r.found <=> b \in Within(schema, a, Len(schema.fks))
        /\ r.found => /\ IsPath(r.path, a, b)
                      /\ r.path # <<>> => b \notin Within(schema, a, Len(r.path) - 1)
=============================================================================
