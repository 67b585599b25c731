------------------------------- MODULE ToolCalls -------------------------------
(***************************************************************************)
(* One call of a tool (internal/tools) from the arguments to the answer:   *)
(* the engine is looked up, the coordinator or a history sink is asked,    *)
(* and what comes back is normalized.  The metadata tools run statements,  *)
(* of which only the promise counts here (BoundedRead, which               *)
(* StatementClient implements): their rows are numbered, and row i is the  *)
(* i-th row of table.  get_cluster_info first reads /v1/info, the two      *)
(* query tools read the coordinator's memory, which goes on changing.      *)
(*                                                                         *)
(* Handlers, clients and registry keep nothing between calls, so one call  *)
(* is the whole system.                                                    *)
(***************************************************************************)
EXTENDS QueryList, QueryDetail, SqlNames

CONSTANTS Registry,      \* the engines in configuration order
          Scenarios,     \* calls, each with what the coordinator has for it
          MaxResultRows  \* the largest row cap

ASSUME RegistryAssumption ==
    \A i, j \in DOMAIN Registry : /\ Registry[i].history \in BOOLEAN
                                  /\ Registry[i].id # ""
                                  /\ Registry[i].id = Registry[j].id => i = j

Tools == {"list_engines", "list_catalogs", "list_schemas", "list_tables", "describe_table",
          "get_table_stats", "get_cluster_info", "run_query", "list_queries", "get_query"}

QueryTools == {"list_queries", "get_query"}
GetTools == QueryTools \cup {"get_cluster_info"}
NameTools == {"list_catalogs", "list_schemas", "list_tables"}
TableTools == {"describe_table", "get_table_stats"}
StatementTools == NameTools \cup TableTools \cup {"run_query"}

(* The inputs of all tools in one record.  Names, a query's id and a       *)
(* run_query text are sequences of characters; the text is blank, refused  *)
(* by ValidateReadOnly or to be run.                                       *)
IsCall(c) == /\ c.tool \in Tools
             /\ {c.catalog, c.schema, c.name, c.query, c.sql.text} \subseteq Seq(STRING)
             /\ c.sql.verdict \in {"blank", "write", "read"}
             /\ c.maxRows \in 1 .. MaxResultRows
             /\ c.raw \in BOOLEAN
             /\ c.filter \in QueryFilters

(* The columns that the handler of a metadata tool selects by name.        *)
ColumnsOf(tool) ==
    CASE tool = "describe_table"   -> {"Column", "Type"}
      [] tool = "get_cluster_info" -> {"node_id", "coordinator"}
      [] tool = "get_table_stats"  -> {"column_name", "data_size", "distinct_values_count",
                                       "row_count", "low_value"}
      [] OTHER                     -> {}

NameColumns == {"Column", "Type", "node_id"}

CellOf(t, row, name) == row[CHOOSE i \in DOMAIN t.cols : t.cols[i] = name]

IsSummaryOf(t, i) == CellOf(t, t.rows[i], "column_name") = NullCell

FigureColumns == {"data_size", "distinct_values_count", "row_count"}

IsDouble(cell) == cell = NullCell \/ cell = NotFinite \/ (cell.kind = "number" /\ Decoded(cell) = cell)

(* External: the rows an engine has for a tool's statement.  Statistics    *)
(* are doubles, and one row, without a column's name, is the table's.      *)
IsTableFor(tool, t) ==
    /\ t.cols \in Seq(STRING) /\ t.rows \in Seq(Seq(Cells))
    /\ \A i, j \in DOMAIN t.cols : t.cols[i] = t.cols[j] => i = j
    /\ \A i \in DOMAIN t.rows :
          LET Of(name) == CellOf(t, t.rows[i], name)
          IN  /\ tool \in NameTools => t.rows[i] # <<>> /\ t.rows[i][1].kind = "string"
              /\ \A name \in ColumnsOf(tool) : \E j \in DOMAIN t.cols : t.cols[j] = name
              /\ ColumnsOf(tool) # {} => DOMAIN t.rows[i] = DOMAIN t.cols
              /\ \A name \in ColumnsOf(tool) \cap NameColumns : Of(name).kind = "string"
              /\ tool = "get_table_stats" =>
                    /\ IsSummaryOf(t, i) \/ (Of("column_name").kind = "string" /\ Of("column_name").word # "")
                    /\ \A name \in FigureColumns : IsDouble(Of(name))
                    /\ Of("low_value") = NullCell \/ Of("low_value").kind = "string"
                    /\ \A j \in DOMAIN t.rows : IsSummaryOf(t, i) /\ IsSummaryOf(t, j) => i = j

ASSUME CapAssumption == MaxResultRows \in Nat

ASSUME ScenarioAssumption ==
    \A s \in Scenarios :
        /\ IsCall(s.call)
        /\ s.queries \in Seq(Queries)
        /\ s.doc # None => IsDocument(s.doc[1])
        /\ IsTableFor(s.call.tool, s.table)

VARIABLES call,      \* the tool and its arguments
          pc,        \* idle, getting, statement or answered
          asked,     \* the requests sent to coordinators
          reply,     \* what came back for the GET
          info,      \* what /v1/info said, if it was read
          queries,   \* external: the queries the coordinator remembers
          doc,       \* external: its document on the query asked for
          table,     \* external: what the statement of the call yields
          phase, cap, made, complete, result,  \* the statement (BoundedRead)
          answer     \* what the caller gets

engineVars == <<queries, doc, table>>
stmtVars == <<phase, cap, made, complete, result>>
vars == <<call, pc, asked, reply, info, engineVars, stmtVars, answer>>

Stmt == INSTANCE BoundedRead WITH answer <- result

NoReply == [kind |-> "none", body |-> <<>>]

NoAnswer == [status |-> "none", source |-> "", body |-> <<>>]

Init == /\ \E s \in Scenarios : /\ call = s.call
                                /\ queries = s.queries
                                /\ doc = s.doc
                                /\ table = s.table
        /\ pc = "idle"
        /\ asked = {}
        /\ reply = NoReply
        /\ info = None
        /\ Stmt!Init
        /\ answer = NoAnswer

-----------------------------------------------------------------------------
(* Arguments and engines. *)

EngineOf(id) == {i \in DOMAIN Registry : Registry[i].id = id}

(* The names a metadata tool takes. *)
NamesOf(c) == CASE c.tool \in TableTools     -> <<c.catalog, c.schema, c.name>>
                [] c.tool = "list_tables"    -> <<c.catalog, c.schema>>
                [] c.tool = "list_schemas"   -> <<c.catalog>>
                [] OTHER                     -> <<>>

Required(c) ==
    /\ \A i \in DOMAIN NamesOf(c) : NamesOf(c)[i] # <<>>
    /\ c.tool = "run_query" => c.sql.verdict = "read"
    /\ c.tool = "list_queries" => ValidFilter(c.filter)
    /\ c.tool = "get_query" => c.query # <<>>

Accepted == EngineOf(call.engine) # {} /\ Required(call)

FromHistory == \E i \in EngineOf(call.engine) : Registry[i].history /\ call.tool \in QueryTools

(* Mutants (here and below): plausible bugs that the properties must find. *)
FailSilently == /\ pc' = "answered"
                /\ UNCHANGED answer

Fail == /\ pc' = "answered"
        /\ answer' = [NoAnswer EXCEPT !.status = "error"]

Succeed(source, body) == /\ pc' = "answered"
                         /\ answer' = [status |-> "ok", source |-> source, body |-> body]

RefuseCall == /\ pc = "idle"
              /\ call.tool # "list_engines"
              /\ ~ Accepted
              /\ Fail
              /\ UNCHANGED <<call, asked, reply, info, engineVars, stmtVars>>

ListEngines == /\ pc = "idle"
               /\ call.tool = "list_engines"
               /\ Succeed("registry", Registry)
               /\ UNCHANGED <<call, asked, reply, info, engineVars, stmtVars>>

(* External: no sink exists yet; the interface answers or fails. *)
AskHistory == /\ pc = "idle"
              /\ Accepted
              /\ FromHistory
              /\ \/ Fail
                 \/ Succeed("history", <<>>)
              /\ UNCHANGED <<call, asked, reply, info, engineVars, stmtVars>>

-----------------------------------------------------------------------------
(* Requests.  The path is what comes after the endpoint.  The text is what *)
(* a metadata statement says of names, and all of a run_query statement,   *)
(* whose session's catalog and schema are the caller's.                    *)

Request(path, text, catalog, schema) ==
    {[engine |-> i, path |-> path, text |-> text, catalog |-> catalog, schema |-> schema] :
        i \in EngineOf(call.engine)}

Path == CASE call.tool = "get_cluster_info" -> <<"/v1/info">>
          [] call.tool = "list_queries"     -> <<"/v1/query">>
          [] call.tool = "get_query"        -> PathOf(call.query)
          [] OTHER                          -> <<"/v1/statement">>

(* getJSON and GetQueryRaw resolve the credential and make a request of    *)
(* the URL, which may not be one, before they send.                        *)
SendGet == /\ pc = "idle"
           /\ Accepted
           /\ call.tool \in GetTools
           /\ ~ FromHistory
           /\ \/ Fail /\ UNCHANGED asked
              \/ /\ pc' = "getting"
                 /\ asked' = asked \cup Request(Path, <<>>, <<>>, <<>>)
                 /\ UNCHANGED answer
           /\ UNCHANGED <<call, reply, info, engineVars, stmtVars>>

(* No answer in time, a transport error, a status that is not 2xx (as for  *)
(* a query the coordinator has forgotten) or a body that does not decode.  *)
GetFails == /\ pc = "getting"
            /\ reply.kind # "ok"
            /\ Fail
            /\ UNCHANGED <<call, asked, reply, info, engineVars, stmtVars>>

(* collect resolves the credential; BoundedRead lets a call that was not   *)
(* begun end with an error.                                                *)
BeginStatement == /\ pc = "idle"
                  /\ Accepted
                  /\ call.tool \in StatementTools
                  /\ pc' = "statement"
                  /\ UNCHANGED <<call, asked, reply, info, engineVars, stmtVars, answer>>

(* The version is what /v1/info is about here. *)
ReadInfo == /\ pc = "getting"
            /\ call.tool = "get_cluster_info"
            /\ reply.kind = "ok"
            /\ info' = Some(reply.body)
            /\ pc' = "statement"
            /\ UNCHANGED <<call, asked, reply, engineVars, stmtVars, answer>>

CapMetadata(c) == c.maxRows

(* runStatement is unbounded; a read has its cap (clamped, StatementClient)*)
RowCap(c) == IF c.tool = "run_query" THEN c.maxRows ELSE 0

StatementText(c) == IF c.tool = "run_query" THEN c.sql.text ELSE Qualified(NamesOf(c))

Session(c, value) == IF c.tool = "run_query" THEN value ELSE <<>>

Submit == /\ pc = "statement"
          /\ Stmt!Ask
          /\ cap' = RowCap(call)
          /\ asked' = asked \cup Request(<<"/v1/statement">>, StatementText(call),
                                         Session(call, call.catalog), Session(call, call.schema))
          /\ UNCHANGED <<call, pc, reply, info, engineVars, answer>>

StatementEnds == /\ pc = "statement"
                 /\ Stmt!AnswerAll \/ Stmt!AnswerTruncated \/ Stmt!AnswerError
                 /\ UNCHANGED <<call, pc, asked, reply, info, engineVars, answer>>

-----------------------------------------------------------------------------
(* Answers from rows. *)

RowsOf(numbers) ==
    [i \in DOMAIN numbers |->
        [j \in DOMAIN table.rows[numbers[i]] |-> Decoded(table.rows[numbers[i]][j])]]

(* The position of a column, 0 for none. *)
Col(name) == LET at == {i \in DOMAIN table.cols : table.cols[i] = name}
             IN  IF at = {} THEN 0 ELSE CHOOSE i \in at : \A j \in at : i <= j

FirstColumn(rows) == LET filled == Selected(rows, {i \in DOMAIN rows : rows[i] # <<>>})
                     IN  [i \in DOMAIN filled |-> CellAt(filled[i], 1)]

ColumnInfos(rows) ==
    [i \in DOMAIN rows |-> [name |-> CellAt(rows[i], Col("Column")),
                            type |-> CellAt(rows[i], Col("Type"))]]

NodeInfos(rows) ==
    [i \in DOMAIN rows |-> [nodeId |-> CellAt(rows[i], Col("node_id")),
                            coordinator |-> CellAt(rows[i], Col("coordinator")) = Word("true")]]

IsSummary(row) == CellAt(row, Col("column_name")) = Word("")

(* A summary row that gives a count sets it. *)
RowCount(rows, odd) ==
    LET Count(i) == ParseIntPtr(CellAt(rows[i], Col("row_count")), odd)
        counting == {i \in DOMAIN rows : IsSummary(rows[i]) /\ Count(i) # None}
    IN  IF counting = {} THEN None ELSE Count(CHOOSE i \in counting : \A j \in counting : j <= i)

(* distinct stands for the other doubles, low for the other bound. *)
ColumnStats(row, odd) ==
    [column   |-> CellAt(row, Col("column_name")),
     size     |-> ParseIntPtr(CellAt(row, Col("data_size")), odd),
     distinct |-> ParseFloatPtr(CellAt(row, Col("distinct_values_count"))),
     low      |-> CellAt(row, Col("low_value"))]

TableStats(rows, odd) ==
    LET named == Selected(rows, {i \in DOMAIN rows : ~ IsSummary(rows[i])})
    IN  [rowCount |-> RowCount(rows, odd),
         columns  |-> [i \in DOMAIN named |-> ColumnStats(named[i], odd)]]

(* External: JSON has no NaN and no infinity, so the SDK refuses such an   *)
(* answer.                                                                 *)
Encodable(stats) == \A i \in DOMAIN stats.columns : stats.columns[i].distinct # Some(NotFinite)

TruncatedIfFull(rows) == Len(rows) = cap

Truncated(rows) == result.kind = "truncated"

RunQueryOutput(rows) == [rows |-> rows, rowCount |-> Len(rows), truncated |-> Truncated(rows)]

Returned == pc = "statement" /\ phase = "answered"

AnswerRows ==
    /\ Returned
    /\ result.kind # "error"
    /\ LET rows == RowsOf(result.rows)
       IN  \/ call.tool \in NameTools /\ Succeed("live", FirstColumn(rows))
           \/ call.tool = "describe_table" /\ Succeed("live", ColumnInfos(rows))
           \/ call.tool = "run_query" /\ Succeed("live", RunQueryOutput(rows))
           \/ call.tool = "get_cluster_info"
                 /\ Succeed("live", [info |-> info, nodes |-> NodeInfos(rows)])
           \/ call.tool = "get_table_stats"
                 /\ \E odd \in OddInts :
                       LET stats == TableStats(rows, odd)
                       IN  IF Encodable(stats) THEN Succeed("live", stats) ELSE Fail
    /\ UNCHANGED <<call, asked, reply, info, engineVars, stmtVars>>

AnswerNodesOrFail == Fail

(* Nodes are best effort: what /v1/info said is returned without them.     *)
AnswerWithoutNodes == IF call.tool = "get_cluster_info"
                      THEN Succeed("live", [info |-> info, nodes |-> <<>>])
                      ELSE Fail

AnswerNoRowsRetry ==
    /\ Returned
    /\ result.kind = "error"
    /\ IF call.tool = "get_cluster_info"
       THEN /\ phase' = "idle" /\ cap' = 0 /\ made' = 0 /\ complete' = FALSE
            /\ result' = [kind |-> "none", rows |-> <<>>]
            /\ UNCHANGED <<pc, answer>>
       ELSE Fail /\ UNCHANGED stmtVars
    /\ UNCHANGED <<call, asked, reply, info, engineVars>>

AnswerNoRows == /\ Returned
                /\ result.kind = "error"
                /\ AnswerWithoutNodes
                /\ UNCHANGED <<call, asked, reply, info, engineVars, stmtVars>>

-----------------------------------------------------------------------------
(* Answers from the coordinator's memory. *)

AnswerListing == /\ pc = "getting"
                 /\ call.tool = "list_queries"
                 /\ reply.kind = "ok"
                 /\ LET records == [i \in DOMAIN reply.body |-> BasicInfo(reply.body[i])]
                    IN  Succeed("live", QueryListFromLive(records, BuildFilter(call.filter)))
                 /\ UNCHANGED <<call, asked, reply, info, engineVars, stmtVars>>

RawFetchedAgain(body) == IF call.raw THEN doc ELSE None

(* The body that was decoded is attached, when it was asked for. *)
RawFragment(body) == IF call.raw THEN Some(body) ELSE None

AnswerDetail == /\ pc = "getting"
                /\ call.tool = "get_query"
                /\ reply.kind = "ok"
                /\ Succeed("live", QueryDetailFromLive(reply.body, RawFragment(reply.body)))
                /\ UNCHANGED <<call, asked, reply, info, engineVars, stmtVars>>

-----------------------------------------------------------------------------
(* The coordinator (external). *)

Serve == /\ pc = "getting"
         /\ reply.kind = "none"
         /\ \/ call.tool = "get_cluster_info" /\ reply' = [kind |-> "ok", body |-> "version"]
            \/ call.tool = "list_queries" /\ reply' = [kind |-> "ok", body |-> queries]
            \/ /\ call.tool = "get_query"
               /\ doc # None
               /\ reply' = [kind |-> "ok", body |-> doc[1]]
            \/ reply' = [NoReply EXCEPT !.kind = "status"]
            \/ reply' = [NoReply EXCEPT !.kind = "garbage"]
         /\ UNCHANGED <<call, pc, asked, info, engineVars, stmtVars, answer>>

MakeRows == /\ pc = "statement"
            /\ \E n \in made .. Len(table.rows) : Stmt!MakeRows(n)
            /\ complete' => made' = Len(table.rows)
            /\ UNCHANGED <<call, pc, asked, reply, info, engineVars, answer>>

(* A query that ends loses its stages, one that is old is forgotten. *)
Finished(d) == [d EXCEPT !.state = "FINISHED", !.stages = {}, !.operators = <<>>]

Proceed == /\ pc = "getting"
           /\ \/ queries # <<>> /\ queries' = Tail(queries) /\ UNCHANGED doc
              \/ /\ doc # None
                 /\ doc' \in {None, Some(Finished(doc[1]))}
                 /\ UNCHANGED queries
           /\ UNCHANGED <<call, pc, asked, reply, info, table, stmtVars, answer>>

-----------------------------------------------------------------------------
Handler == \/ RefuseCall \/ ListEngines \/ AskHistory
           \/ SendGet \/ GetFails
           \/ BeginStatement \/ ReadInfo \/ Submit
           \/ AnswerRows \/ AnswerNoRows
           \/ AnswerListing \/ AnswerDetail

Coordinator == Serve \/ MakeRows \/ Proceed

Next == Handler \/ StatementEnds \/ Coordinator

Spec == Init /\ [][Next]_vars

(* A handler that can go on does; every GET ends by the client's request   *)
(* timeout; and a statement whose coordinator has finished it ends the     *)
(* call (StoppedStatementEndsCall of StatementClient).                     *)
Fairness == /\ WF_vars(Handler)
            /\ WF_vars(complete /\ StatementEnds)

FairSpec == Spec /\ Fairness

-----------------------------------------------------------------------------
(* Properties. *)

(* Every call that ended has an answer, and every request names an engine. *)
TypeOK == /\ pc \in {"idle", "getting", "statement", "answered"}
          /\ \A r \in asked : r.engine \in DOMAIN Registry
          /\ reply.kind \in {"none", "ok", "status", "garbage"}
          /\ info # None => call.tool = "get_cluster_info"
          /\ cap \in 0 .. MaxResultRows
          /\ made \in 0 .. Len(table.rows)
          /\ answer.status \in {"none", "ok", "error"}
          /\ pc = "answered" <=> answer.status # "none"

OK(tools) == answer.status = "ok" /\ call.tool \in tools

(* The engine a call names is the only one asked (engineOf), none is asked *)
(* for a refused call or one that history answers, an answer says which of *)
(* the two it is, and no statement of the server's own runs under a        *)
(* caller's catalog and schema (runStatement passes "").                   *)
OnlyTheEngineNamed ==
    /\ \A r \in asked : /\ Registry[r.engine].id = call.engine
                        /\ Required(call)
                        /\ r.catalog # <<>> \/ r.schema # <<>> => call.tool = "run_query"
    /\ answer.source = "live" => asked # {}
    /\ answer.source \in {"registry", "history"} => asked = {}

(* The engine reads in a statement exactly the names the caller gave,      *)
(* whatever characters are in them (quoteIdent, fqTable).                  *)
NamesAsGiven ==
    NamesOf(call) # <<>> => \A r \in asked : NamesRead(r.text) = NamesOf(call)

(* run_query sends the caller's statement as it was given, not the part    *)
(* that was validated, under the caller's catalog and schema               *)
(* (RunReadQuery, readquery.go:95-99).                                     *)
StatementAsGiven ==
    call.tool = "run_query" => \A r \in asked : /\ r.text = call.sql.text
                                               /\ r.catalog = call.catalog
                                               /\ r.schema = call.schema

(* get_query asks for the query that the caller named.  As the id goes     *)
(* into the URL unescaped (client.go:417), this is so of plain ids only.   *)
IdAsGiven ==
    call.tool = "get_query" => \A r \in asked : IdRead(r.path) = call.query

(* Every request goes to the engine the caller named and says what the     *)
(* caller said: the names of a metadata tool, all of run_query's input and *)
(* the id of get_query, one with characters that mean something in a URL   *)
(* excepted (engineOf, quoteIdent, fqTable, RunReadQuery, GetQueryRaw).    *)
RequestsAsMeant == /\ OnlyTheEngineNamed
                   /\ NamesAsGiven
                   /\ StatementAsGiven
                   /\ IsPlain(call.query) => IdAsGiven

Named(row, name) == CellOf(table, row, name)

(* A metadata answer is every row the engine has, in its order, and never  *)
(* an answer cut at a cap meant for reads (runStatement's maxRows of 0).   *)
ListsAreWhole ==
    /\ OK(NameTools) => answer.body = [i \in DOMAIN table.rows |-> table.rows[i][1]]
    /\ OK({"describe_table"}) =>
          answer.body = [i \in DOMAIN table.rows |->
                            [name |-> Named(table.rows[i], "Column"),
                             type |-> Named(table.rows[i], "Type")]]

ReadRows == answer.body.rows

(* What run_query returns is a prefix of the result, truncated says        *)
(* whether it is a proper one, and the cap is the caller's (runQuery).     *)
(* Integers that a float64 holds are the engine's own.                     *)
ReadAnswerExact ==
    OK({"run_query"}) =>
        /\ Len(ReadRows) = answer.body.rowCount
        /\ IF answer.body.truncated
           THEN Len(ReadRows) = call.maxRows /\ Len(table.rows) > call.maxRows
           ELSE Len(ReadRows) = Len(table.rows)
        /\ \A i \in DOMAIN ReadRows : \A j \in DOMAIN table.rows[i] :
              table.rows[i][j].number \in (0 - ExactInt) .. ExactInt =>
                  ReadRows[i][j] = table.rows[i][j]

(* Once /v1/info was read, the call cannot fail: it tells the version, and *)
(* every node or none (GetClusterInfo, client.go:372).                     *)
ClusterAnswersWithInfo ==
    call.tool = "get_cluster_info" /\ pc = "answered" =>
        IF info = None THEN answer.status = "error"
        ELSE /\ answer.status = "ok"
             /\ answer.body.info = info
             /\ Len(answer.body.nodes) \in {0, Len(table.rows)}
             /\ \A i \in DOMAIN answer.body.nodes :
                   answer.body.nodes[i].nodeId = Named(table.rows[i], "node_id")

Measured(cell) == cell.kind = "number" /\ cell.number \in (0 - MaxInt64 - 1) .. MaxInt64

(* A whole figure is absent where the engine has null and the engine's own *)
(* where an int64 holds it.  A double that is not finite or beyond int64   *)
(* is not caught: the figure is there, and is the processor's.             *)
FigureTrue(figure, cell) ==
    /\ cell = NullCell => figure = None
    /\ Measured(cell) => figure = Some(cell.number)
    /\ cell # NullCell /\ ~ Measured(cell) => figure \in {Some(n) : n \in OddInts}

(* A fraction or a count of distinct values is the engine's or absent. *)
FractionTrue(figure, cell) == figure = IF cell = NullCell THEN None ELSE Some(cell)

ColumnTrue(c, row) ==
    /\ c.column = Named(row, "column_name")
    /\ FigureTrue(c.size, Named(row, "data_size"))
    /\ FractionTrue(c.distinct, Named(row, "distinct_values_count"))
    /\ c.low = IF Named(row, "low_value") = NullCell THEN Word("") ELSE Named(row, "low_value")

OfColumns == {i \in DOMAIN table.rows : ~ IsSummaryOf(table, i)}

(* What no JSON number can say. *)
Unsayable(i) == Named(table.rows[i], "distinct_values_count") = NotFinite

(* A table's statistics have one record for each column, in order, with    *)
(* its own figures, null as absent and the others the engine's; the row    *)
(* count is the summary row's wherever that row is.  Sizes and counts that *)
(* no int64 holds are excepted: these are there with some value            *)
(* (GetTableStats, client.go:496).  A statement that succeeded goes        *)
(* unanswered only because of a fraction that no JSON number can say.      *)
StatsTrue ==
    call.tool = "get_table_stats" /\ answer.status # "none" /\ result.kind \in {"all", "truncated"} =>
        IF \E i \in OfColumns : Unsayable(i)
        THEN answer.status = "error"
        ELSE /\ answer.status = "ok"
             /\ \E at \in Orders(Len(answer.body.columns), OfColumns) :
                    \A i \in DOMAIN answer.body.columns :
                        ColumnTrue(answer.body.columns[i], table.rows[at[i]])
             /\ \A i \in DOMAIN table.rows \ OfColumns :
                    FigureTrue(answer.body.rowCount, Named(table.rows[i], "row_count"))

(* The listing is the selection a caller who knows the queries would make, *)
(* in the coordinator's order: bounds belong to the range, offsets count,  *)
(* and a record without a readable time is kept (querylist.go:61).         *)
ListingIsSelection ==
    OK({"list_queries"}) /\ answer.source = "live" =>
        LET wanted == {i \in DOMAIN reply.body : Wanted(reply.body[i], call.filter)}
        IN  \E at \in Orders(Len(answer.body), wanted) :
                \A i \in DOMAIN answer.body :
                    /\ answer.body[i].queryId = reply.body[at[i]].id
                    /\ answer.body[i].user = KnownUser(reply.body[at[i]])

Detailed == OK({"get_query"}) /\ answer.source = "live"

(* The raw fragment is the document that the detail beside it tells of,    *)
(* although the coordinator's has moved on, and is there only on request   *)
(* (getQuery, tools.go:408).                                               *)
RawIsTheDetail ==
    Detailed => IF call.raw
                THEN /\ answer.body.raw # None
                     /\ answer.body.raw[1].state = answer.body.summary.state
                     /\ Len(answer.body.raw[1].operators) = Len(answer.body.operators)
                     /\ Cardinality(answer.body.raw[1].stages) = Len(answer.body.stages)
                ELSE answer.body.raw = None

StageIds == [i \in DOMAIN answer.body.stages |-> answer.body.stages[i].stage]

(* Every stage is listed once, in document order (stagesFromLive).         *)
StagesInOrder == ListsInOrder(StageIds, reply.body.stages)

(* All nodes of a stage's plan in order, each with its parent's id.        *)
PlanRebuilds ==
    /\ \A i \in DOMAIN answer.body.plan :
          LET n == answer.body.plan[i]
          IN  n.parent = IF n.id = Root THEN None ELSE Some(Front(n.id))
    /\ \A p \in reply.body.stages :
          LET nodes == {i \in DOMAIN answer.body.plan : answer.body.plan[i].stage = p}
              plan  == reply.body.plan[p]
          IN  ListsInOrder([i \in nodes |-> answer.body.plan[i].id],
                           IF plan = None THEN {} ELSE plan[1])

(* A section is announced exactly when the answer has it: a plan that does *)
(* not decode is not (QueryDetailFromLive, planFromLive).                  *)
SectionsTell == ToSet(answer.body.sections) =
                    {"summary"} \cup {s \in {"stages", "plan", "operators"} :
                                        answer.body[s] # <<>>}

(* The flat lists of the detail have every stage once in document order    *)
(* (which of them is whose substage they do not tell), every plan node of  *)
(* every stage with its parent, so that each plan can be rebuilt, and the  *)
(* detail says which lists it has (stagesFromLive, flattenPlan,            *)
(* QueryDetailFromLive).                                                   *)
DetailListsDocument == Detailed => StagesInOrder /\ PlanRebuilds /\ SectionsTell

KnownAmount(figure) == IF Known(figure) THEN figure.amount ELSE 0

(* Amounts are the engine's up to the rounding of its texts, unknown ones  *)
(* are 0, an engine that names the peak otherwise has it told, and a       *)
(* failure is never lost (summaryFromLive, errorOf).                       *)
SummaryNearTruth ==
    Detailed =>
        LET summary == answer.body.summary
            d       == reply.body
            peak    == IF KnownAmount(d.peak) > 0 THEN d.peak ELSE d.peakUser
        IN  /\ Near(summary.cpu, [d.cpu EXCEPT !.amount = KnownAmount(d.cpu)], DurationUnits)
            /\ NearSize(summary.scanned, [d.scanned EXCEPT !.amount = KnownAmount(d.scanned)])
            /\ NearSize(summary.peak, [peak EXCEPT !.amount = KnownAmount(peak)])
            /\ summary.error = None <=> d.errorCode = None /\ d.failure = None
            /\ \A c \in {"errorCode", "failure"} :
                  summary.error = Some("") => d[c] \in {None, Some("")}

(* Whatever the coordinator does, a GET ends (http.Client's timeout), and  *)
(* so does a call whose statement the engine has finished.  A metadata     *)
(* statement that it never finishes has no deadline, that for the nodes    *)
(* (client.go:370) included: what /v1/info said then stays with the call.  *)
CallReturns == /\ pc = "getting" ~> pc # "getting"
               /\ complete ~> pc = "answered"

================================================================================
