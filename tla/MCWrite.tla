------------------------------ MODULE MCWrite ------------------------------
(* Payloads and inputs for the write node.  The columns: a key, an enum    *)
(* column, a foreign key, an immutable column and the soft-delete mark.    *)
EXTENDS WriteNode

MCColumns == <<"id", "status", "owner", "created_at", "deleted_at">>
MCBlocked == {"created_at"}
MCEnumLower == [v \in {"OPEN"} |-> "open"]

Nothing == [c \in {} |-> Null]
Base == [mode |-> "insert", columns |-> <<>>, static |-> Nothing, staticWhere |-> Nothing,
         where |-> <<>>, conflict |-> <<>>, update |-> <<>>, aliases |-> Nothing,
         fields |-> Nothing, soft |-> FALSE]

Literals == {Nothing, [status |-> "OPEN"], [status |-> "b", created_at |-> SqlNow, owner |-> Ref]}

Inserts == [mode : {"insert"}, columns : {<<>>, <<"owner", "status">>}, static : Literals,
            staticWhere : {Nothing}, where : {<<>>}, conflict : {<<>>},
            update : {<<>>}, aliases : {[owner |-> "id"]}, fields : {Nothing}, soft : {FALSE}]
  \cup {[Base EXCEPT !.columns = <<"id">>, !.where = <<"id">>, !.static = [status |-> "a"]]}

\* An empty list, a list, a null and a value.
Conditions == [owner |-> <<>>, status |-> <<"a", "b">>, id |-> <<Null>>, deleted_at |-> <<"d">>]

Updates == [mode : {"update"}, columns : {<<>>, <<"id", "status">>},
            static : {[status |-> "OPEN", created_at |-> SqlNow]},
            staticWhere : {Nothing, Conditions},
            where : {<<>>, <<"id">>}, conflict : {<<>>}, update : {<<>>}, aliases : {Nothing},
            fields : {Nothing}, soft : {FALSE}]

Deletes == [mode : {"delete"}, columns : {<<>>}, static : {[owner |-> "7", created_at |-> SqlNow]},
            staticWhere : {Nothing, [owner |-> <<>>, status |-> <<"a">>]},
            where : {<<>>, <<"id">>}, conflict : {<<>>}, update : {<<>>}, aliases : {Nothing},
            fields : {Nothing}, soft : BOOLEAN]

\* Soft deletes whose UPDATE also has columns from the rows, a template, or a
\* condition on the mark itself.
SoftDeletes ==
    LET common == [Base EXCEPT !.mode = "delete", !.soft = TRUE, !.where = <<"id">>,
                               !.staticWhere = [status |-> <<"a">>]]
    IN  {[common EXCEPT !.columns = <<"status">>],
         [common EXCEPT !.fields = [status |-> [from |-> "status", lit |-> Null],
                                    id |-> [from |-> "id", lit |-> Null]]],
         [common EXCEPT !.where = <<>>, !.staticWhere = [deleted_at |-> <<Null>>]]}

Upserts == [mode : {"upsert"}, columns : {<<"id">>, <<"id", "status">>}, static : {[status |-> "OPEN"]},
            staticWhere : {Nothing}, where : {<<>>}, conflict : {<<"id">>},
            update : {<<>>}, aliases : {Nothing}, fields : {Nothing}, soft : {FALSE}]
  \cup {[Base EXCEPT !.mode = "upsert", !.columns = <<"id", "owner">>, !.conflict = <<"id">>,
                    !.update = <<"owner">>]}

Templates == [mode : {"insert_ignore", "update", "delete"}, columns : {<<"status">>},
              static : {Nothing}, staticWhere : {Nothing},
              where : {<<"id">>}, conflict : {<<"id">>}, update : {<<>>}, aliases : {Nothing},
              fields : {[id |-> [from |-> "id", lit |-> Null], status |-> [from |-> "", lit |-> SqlNow]]},
              soft : {FALSE}]

MCPayloads == [n \in Node |-> Inserts \cup Updates \cup Deletes \cup SoftDeletes \cup Upserts \cup Templates]

Symm == Permutations(Writer)

\* No rows, three rows that do not all have every field, and one row without
\* the where column.
MCRows == {<<>>, <<[id |-> "1", status |-> "a"], [id |-> "2"], [id |-> "3", status |-> "b"]>>}
=============================================================================
