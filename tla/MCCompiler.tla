----------------------------- MODULE MCCompiler -----------------------------
(* Every intent of up to three steps over the ids a, b and c.              *)
EXTENDS PipelineCompiler

Step(id, kind, dependsOn) ==
    [id |-> id, kind |-> kind, dependsOn |-> dependsOn, trueBranch |-> "none",
     falseBranch |-> "none", mergeStep |-> "none", loopBody |-> <<>>, loopMode |-> "forEach",
     mergeFrom |-> <<>>, parallelBranches |-> <<>>, explicit |-> FALSE]

MCIds == {"a", "b", "c"}
Dependencies == {<<>>} \cup {<<n>> : n \in MCIds}
Pairs == {<<"a", "b">>, <<"b", "c">>, <<"c", "b">>, <<"c", "a">>}

MCCandidates ==
    UNION {
        {Step(id, "query", d) : id \in MCIds, d \in Dependencies \cup {<<"gone">>, <<"a", "b">>}},
        {Step(id, "write", <<>>) : id \in MCIds},
        {[Step(id, "http", <<>>) EXCEPT !.explicit = TRUE] : id \in MCIds},
        {[Step(id, "conditional", d) EXCEPT !.trueBranch = p[1], !.falseBranch = p[2]] :
            id \in {"a", "b"}, d \in {<<>>, <<"b">>}, p \in Pairs \cup {<<"b", "b">>}},
        {[Step("a", "conditional", <<>>) EXCEPT !.trueBranch = "b", !.mergeStep = "gone"]},
        {[Step(id, "loop", d) EXCEPT !.loopBody = p] :
            id \in {"a", "b"}, d \in {<<>>, <<"a">>}, p \in {<<>>, <<"b">>, <<"c">>, <<"b", "c">>}},
        {[Step(id, "merge", <<>>) EXCEPT !.mergeFrom = p] :
            id \in {"b", "c"}, p \in {<<"a">>, <<"a", "b">>, <<"b", "c">>}},
        {[Step("a", "parallel", d) EXCEPT !.parallelBranches = p] :
            d \in {<<>>, <<"c">>}, p \in {<<>>, <<"b">>, <<"b", "c">>}}}

MCWords == [n \in MCIds |-> <<n>>]
=============================================================================
