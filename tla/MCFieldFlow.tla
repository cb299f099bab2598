---------------------------- MODULE MCFieldFlow ----------------------------
(***************************************************************************)
(* Two data sources, a handful of pipelines and the answers for their      *)
(* steps.                                                                  *)
(***************************************************************************)
EXTENDS FieldFlow

Col(name, type, nullable, default) ==
    [name |-> name, type |-> type, nullable |-> nullable, default |-> default,
     pk |-> FALSE, fk |-> <<>>, enum |-> <<>>]
Id == [Col("id", "SERIAL", TRUE, "none") EXCEPT !.pk = TRUE]

MCSources == <<
    [name |-> "default", tables |->
        [t \in {"accounts", "tickets"} |->
            IF t = "accounts"
            THEN {Id, Col("name", "TEXT", FALSE, "none"), Col("owner_user_id", "INT", TRUE, "none"),
                  Col("revenue", "NUMERIC", TRUE, "none"), Col("employees", "BIGINT", TRUE, "none"),
                  Col("active", "BOOLEAN", FALSE, "true"), Col("profile", "JSONB", TRUE, "sql")}
            ELSE {Id, Col("subject", "TEXT", FALSE, "none"),
                  [Col("account_id", "INT", TRUE, "none") EXCEPT !.fk = <<"accounts", "id">>],
                  [Col("workspace_id", "INT", FALSE, "none") EXCEPT !.fk = <<"workspaces", "id">>],
                  [Col("status", "TEXT", FALSE, "open") EXCEPT !.enum = <<"open", "shut">>]}]],
    [name |-> "pm", tables |->
        [t \in {"projects"} |->
            {Id, Col("title", "TEXT", FALSE, "none"), Col("crm_account_id", "INT", TRUE, "none"),
             Col("updated_at", "TIMESTAMPTZ", TRUE, "none")}]]>>

MCColumns == [t \in {"accounts", "tickets", "projects"} |->
    IF t = "projects" THEN ColumnNames(MCSources[2].tables, t) ELSE ColumnNames(MCSources[1].tables, t)]

MCCrossFKs == {[fromTable |-> "projects", fromColumn |-> "crm_account_id",
                toTable |-> "accounts", toColumn |-> "id"]}
MCSchemaFKs == <<[fromTable |-> "projects", fromColumn |-> "crm_account_id",
                  toTable |-> "accounts", toColumn |-> "id"]>>
MCInitial == [w \in {"open", "shut", "sealed", "status", "subject", "7"} |->
    CASE w = "open" -> "o" [] w = "7" -> "7" [] OTHER -> "s"]

Entry(kind, field, value) == [kind |-> kind, field |-> field, value |-> value]
Lit(value) == Entry("literal", "", value)
Template(field) == Entry("template", field, Null)
Path(field) == Entry("path", field, Null)

Write(table, operation, mode, keys, fields) ==
    [table |-> table, operation |-> operation, mode |-> mode, keys |-> keys, array |-> FALSE,
     fields |-> fields, strategy |-> ""]
Plain == Write("", "", "", FALSE, Nothing)
Merge(strategy) == [Plain EXCEPT !.strategy = strategy]
Step(kind, deps, config) == [kind |-> kind, deps |-> deps, config |-> config]

Ticket == Write("tickets", "insert", "insert", FALSE,
                [c \in {"subject", "status"} |->
                    IF c = "subject" THEN Path("name") ELSE Lit([Text("shut") EXCEPT !.up = TRUE])])
Short == Write("tickets", "insert", "", FALSE,
               [c \in {"subject", "account_id"} |-> IF c = "subject" THEN Template("subject") ELSE Lit(Num("7"))])
Linked == Write("projects", "insert", "", FALSE,
                [c \in {"crm_account_id", "title"} |->
                    IF c = "title" THEN Lit(Text("subject")) ELSE Path("id")])
Project == Write("projects", "insert", "", FALSE,
                 [c \in {"crm_account_id"} |-> Template("id")])
Account == [Write("accounts", "insert", "", FALSE, [c \in {"name"} |-> Template("name")]) EXCEPT !.array = TRUE]
Rename == Write("accounts", "update", "update", TRUE, [c \in {"name"} |-> Lit(Text("open"))])
Close == Write("tickets", "update", "update", TRUE,
               [c \in {"subject", "status"} |-> IF c = "subject" THEN Template("subject") ELSE Lit(Text("shut"))])

Q == Step("query", {}, Plain)
Configs == {Ticket, Short, Linked, Project, Account, Rename}
Chains == {<<Q, Step(k, {1}, Plain), Step("write", {2}, c)>> : k \in {"transform", "http", "llm"}, c \in Configs}
Merges == {<<Q, Q, Step("merge", {1, 2}, Merge(m)), Step("write", {3}, c)>> :
              m \in {"union", "first", "join"}, c \in {Short, Account}}

MCPipelines ==
    {<<Q, Step("write", {1}, c)>> : c \in Configs} \cup Chains \cup Merges \cup
    {<<Q, Step("write", {1}, Account), Step("write", {2}, Ticket)>>,
     <<Q, Step("write", {1}, Rename), Step("write", {2}, Project)>>,
     <<Q, Step("write", {1}, Close), Step("write", {1}, Short)>>,
     <<Q, Step("transform", {1}, Plain), Step("http", {2}, Plain), Step("write", {3}, Linked)>>,
     <<Q, Step("write", {1}, Short), Step("transform", {2}, Plain), Step("write", {3}, Project)>>,
     <<Q, Q, Step("write", {2}, Linked)>>,
     <<Q, Q, Step("write", {1, 2}, Project)>>,
     <<Q, Q, Step("transform", {1, 2}, Plain)>>,
     <<Step("transform", {2}, Plain), Q>>,
     <<Q, Step("query", {1}, Plain), Step("llm", {2}, Plain), Step("write", {3}, Linked)>>,
     <<Q, Step("llm", {1}, Plain), Step("transform", {2}, Plain), Step("llm", {3}, Plain), Step("write", {4}, Short)>>,
     <<Step("write", {2}, Ticket), Q>>,
     <<Step("write", {}, Ticket)>>}

Selects(table, fields) ==
    [tables |-> {table}, columns |-> {[field |-> f, table |-> table, alias |-> f] : f \in fields}]
MCQueryAnswers == {
    Selects("accounts", {"name"}),
    [Selects("accounts", {"id", "name"}) EXCEPT !.columns = @ \cup
        {[field |-> "id", table |-> "accounts", alias |-> "key"]}],
    Selects("tickets", {"subject"}),
    Selects("tickets", {}),
    Selects("tickets", {"name"})}

Op(kind, name, from, refs) == [kind |-> kind, name |-> name, from |-> from, refs |-> refs]
MCTransformAnswers == {
    <<>>,
    <<Op("addField", "title", "", {"name"}), Op("filterRows", "", "", {"subject"})>>,
    <<Op("renameField", "title", "name", {})>>,
    <<Op("removeField", "name", "", {}), Op("sort", "", "", {"id"})>>}

MCEndpoints == {
    [request |-> {"name"}, response |-> {"title"}, array |-> FALSE],
    [request |-> {}, response |-> {"http_response"}, array |-> TRUE]}

Answer(table, mode, columns, static) ==
    [parsed |-> TRUE, table |-> table, mode |-> mode, columns |-> columns, static |-> static]
MCWriteAnswers == {
    [Answer("", "", {}, Nothing) EXCEPT !.parsed = FALSE],
    Answer("tickets", "insert", {"subject"},
           [c \in {"status", "workspace_id", "account_id"} |->
                IF c = "status" THEN Text("sealed") ELSE IF c = "account_id" THEN Text("open") ELSE Num("7")]),
    Answer("projects", "", {"title", "crm_account_id"}, [c \in {"updated_at"} |-> Null]),
    Answer("accounts", "", {}, [c \in {"name", "owner_user_id"} |->
                IF c = "name" THEN Value("param", "open") ELSE Null]),
    \* words for columns that are no columns of texts, and values that fit
    Answer("accounts", "", {}, [c \in {"revenue", "employees", "active", "profile"} |->
                IF c = "active" THEN Value("bool", "true") ELSE Text("open")]),
    Answer("accounts", "", {"name"}, [c \in {"revenue", "employees", "active"} |->
                IF c = "revenue" THEN Num("7") ELSE Text("open")]),
    Answer("accounts", "", {"name"}, [c \in {"name", "revenue", "employees", "profile"} |->
                CASE c = "name" -> Value("select", "open") [] c = "revenue" -> Value("select", "open")
                  [] c = "profile" -> Value("object", "open") [] OTHER -> Text("open")])}
=============================================================================
