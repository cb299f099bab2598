------------------------------ MODULE MCAccess ------------------------------
(* A chain of three tables: the middle one is the bridge between the others *)
(* and not granted at first, and one column is withheld, as the seed does   *)
(* for alice.                                                               *)
EXTENDS AccessControl

MCSchema == [tables |-> <<"orders", "items", "products">>,
             fks |-> <<[fromTable |-> "items", toTable |-> "orders"],
                       [fromTable |-> "items", toTable |-> "products"]>>]
MCColumn == {<<"orders", "total">>, <<"orders", "arr">>, <<"items", "qty">>}
MCUser == {"admin", "alice"}

MCSeedTable == [x \in MCUser \X {"orders", "items", "products"} |->
    IF x[1] = "admin" \/ x[2] = "products" THEN FullGrant
    ELSE IF x[2] = "orders" THEN [FullGrant EXCEPT !.write = FALSE] ELSE NoGrant]
MCSeedColumn == [x \in MCUser \X MCColumn |->
    IF x = <<"alice", <<"orders", "arr">> >> THEN [NoGrant EXCEPT !.row = TRUE] ELSE NoGrant]

MCAsked == {<<"items", "">>, <<"orders", "total">>, <<"orders", "arr">>}

MCIntents ==
    {[tables |-> {"orders"}, reads |-> {<<"orders", "arr">>}, into |-> "", writes |-> {}],
     [tables |-> {"items", "products"}, reads |-> {}, into |-> "", writes |-> {}],
     [tables |-> {"products"}, reads |-> {}, into |-> "orders", writes |-> {<<"orders", "total">>}]}

Node == 1..4
Keys == {[fromTable |-> p[1], toTable |-> p[2]] : p \in {q \in Node \X Node : q[1] # q[2] \/ q[1] = 2}}
Graphs == UNION {{[tables |-> <<1, 2, 3, 4>>, fks |-> f] : f \in [1..n -> Keys]} : n \in 0..3}

\* findJoinPath (schema-config.ts) on every schema of four tables and up to three keys:
\* a shortest path exactly between connected tables (JoinPathCorrect).  It depends on
\* no state, and is evaluated in the initial one.
JoinPathsShortest ==
    Init => \A g \in Graphs, b \in Node : JoinPathCorrect(g, 1, b)

Symm == Permutations(Process)

\* findJoinPath finds a shortest path wherever there is one, and planning uses
\* it so that selected tables are joined through granted ones.
JoinsCorrect == JoinsWithinGrants /\ JoinPathsShortest
=============================================================================
