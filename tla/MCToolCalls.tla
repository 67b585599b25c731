------------------------------ MODULE MCToolCalls ------------------------------
(***************************************************************************)
(* Every tool on a small registry, with what a coordinator could have for  *)
(* it.  Units grow by 3 (times) and 2 (sizes), a float64 holds integers up *)
(* to 4 and an int64 up to 7.                                              *)
(***************************************************************************)
EXTENDS ToolCalls

MCRegistry == <<[id |-> "e1", history |-> FALSE], [id |-> "e2", history |-> TRUE],
                [id |-> "e3", history |-> FALSE]>>

AnyState == State("", FALSE)
NoFilter == [state |-> AnyState, user |-> "", since |-> NoTime, until |-> NoTime]
NoTable == [cols |-> <<>>, rows |-> <<>>]

ASelect == [verdict |-> "read", text |-> <<"sp", "SELECT", ";">>]

Blank == [call    |-> [tool |-> "list_engines", engine |-> "e1", catalog |-> <<"c">>,
                       schema |-> <<"s">>, name |-> <<"t">>, sql |-> ASelect, maxRows |-> 1,
                       filter |-> NoFilter, query |-> <<"q">>, raw |-> FALSE],
          queries |-> <<>>, doc |-> None, table |-> NoTable]

CallOf(tool) == [Blank EXCEPT !.call.tool = tool]

(* Calls with one argument missing or another engine. *)
Refusals ==
    LET tools == GetTools \cup StatementTools \cup {"list_engines"}
    IN  UNION {{[CallOf(t) EXCEPT !.call.engine = e] : e \in {"", "e2", "e3", "e9"}} : t \in tools}
        \cup {[CallOf(t) EXCEPT !.call.catalog = <<>>] : t \in tools}
        \cup {[CallOf(t) EXCEPT !.call.schema = <<>>] : t \in tools}
        \cup {[CallOf(t) EXCEPT !.call.name = <<>>] : t \in tools}
        \cup {[CallOf(t) EXCEPT !.call.sql.verdict = "blank"] : t \in tools}
        \cup {[CallOf(t) EXCEPT !.call.query = <<>>] : t \in tools}
        \cup {[CallOf("run_query") EXCEPT !.call.sql.verdict = "write"]}

-----------------------------------------------------------------------------
TableOf(cols, rows) == [cols |-> cols, rows |-> rows]

Lists ==
    {[CallOf(t) EXCEPT !.table = TableOf(<<"Name">>, r)] :
        t \in NameTools,
        r \in {<<>>, <<<<Word("a")>>, <<Word("b")>>>>}}
    \cup {[CallOf("describe_table") EXCEPT
              !.table = TableOf(<<"Type", "Column">>,
                                <<<<Word("bigint"), Word("x")>>, <<Word("date"), Word("y")>>>>)]}

(* Names with the characters that quoting is about. *)
Names == UNION {[1 .. n -> {"t", Quote, Dot}] : n \in 1 .. 2}

Quotations ==
    {[CallOf("describe_table") EXCEPT !.call.catalog = c, !.call.name = n,
                                      !.table = TableOf(<<"Type", "Column">>, <<>>)] :
        c \in Names, n \in Names}
    \cup {[CallOf("list_tables") EXCEPT !.call.schema = n] : n \in Names}

Clusters ==
    {[CallOf("get_cluster_info") EXCEPT
         !.table = TableOf(<<"node_id", "coordinator">>,
                           <<<<Word("n1"), Word("true")>>, <<Word("n2"), Word("false")>>>>)]}

Values == {NullCell, Word("x"), Number(-5), Number(3), Number(5)}

Reads == {[CallOf("run_query") EXCEPT !.call.maxRows = m, !.table = TableOf(<<"v">>, r)] :
             m \in 1 .. 2,
             r \in UNION {[1 .. n -> {<<v>> : v \in Values}] : n \in 0 .. 2}
                     \cup {<<<<Word("x")>>, <<Number(3)>>, <<NullCell>>>>}}

(* Doubles: whole ones, and those that are no number or beyond int64. *)
StatsFigures == {NullCell, Number(2), Number(6), Number(8), NotFinite}

StatsRow(name, size, distinct, count) ==
    <<name, size, distinct, count, IF name = Word("a") THEN Word("low") ELSE NullCell>>

Summaries == {StatsRow(NullCell, NullCell, NullCell, f) : f \in StatsFigures}

StatsTables ==
    LET columns == {StatsRow(Word("a"), f, g, NullCell) : f \in StatsFigures, g \in StatsFigures}
        other   == StatsRow(Word("b"), Number(2), NullCell, NullCell)
    IN  {<<c, s>> : c \in columns, s \in Summaries}
        \cup {<<s, c, other>> : c \in columns, s \in Summaries}
        \cup {<<c>> : c \in columns}

Statistics ==
    {[CallOf("get_table_stats") EXCEPT
         !.table = TableOf(<<"column_name", "data_size", "distinct_values_count",
                             "row_count", "low_value">>, r)] : r \in StatsTables}

-----------------------------------------------------------------------------
(* Queries: one, and what can differ from it. *)

Running == State("running", TRUE)

AQuery == [id |-> "q1", state |-> Running, user |-> "u", userIn |-> "sessionUser",
           created |-> 2, timeForm |-> "zoned", offset |-> 0, elapsed |-> 4]

QueryPool ==
    {[AQuery EXCEPT !.created = c, !.timeForm = f] :
        c \in 1 .. 3, f \in {"zoned", "plain", "absent", "odd"}}
    \cup {[AQuery EXCEPT !.created = c, !.offset = o] : c \in 1 .. 3, o \in {-2, 2}}
    \cup {[AQuery EXCEPT !.userIn = i] : i \in {"session", "both", "nowhere"}}
    \cup {[AQuery EXCEPT !.user = "v"], [AQuery EXCEPT !.state = State("failed", TRUE)]}

Bounds == {NoTime, TimeText("plain", 2, 0), TimeText("zoned", 2, 0),
           TimeText("zoned", 3, 1), TimeText("zoned", 1, -1)}

Filters == {[NoFilter EXCEPT !.since = b, !.until = c] : b \in Bounds, c \in Bounds}
           \cup {[NoFilter EXCEPT !.user = "u"],
                 [NoFilter EXCEPT !.state = State("running", FALSE)]}

Listings == {[CallOf("list_queries") EXCEPT !.call.filter = f,
                                            !.queries = <<q, [AQuery EXCEPT !.id = "q2"]>>] :
                f \in Filters, q \in QueryPool}

-----------------------------------------------------------------------------
(* Documents: one figure unlike the rest, or other trees. *)

Trees == {{Root}, {Root, <<1, 1>>}, {Root, <<1, 1>>, <<1, 2>>}, {Root, <<1, 1>>, <<1, 1, 1>>},
          {Root, <<1, 1>>, <<1, 2>>, <<1, 1, 1>>}}

FiguresOf(amounts) == {[amount |-> a, form |-> f] : a \in amounts, f \in Forms}

AFigure == [amount |-> 7, form |-> "succinct"]

AnOperator(i) == [id |-> i, addInput |-> AFigure, getOutput |-> [AFigure EXCEPT !.amount = 100]]

ADoc(stages, plan) ==
    [id |-> "q", state |-> "RUNNING", stages |-> stages,
     stageCpu |-> [p \in stages |-> AFigure], plan |-> plan,
     operators |-> <<AnOperator(1), AnOperator(2)>>,
     cpu |-> AFigure, scanned |-> AFigure, peak |-> AFigure,
     peakUser |-> [AFigure EXCEPT !.amount = 5], errorCode |-> None, failure |-> None]

Plain == ADoc({Root}, [p \in {Root} |-> None])

Shapes == UNION {{ADoc(t, f) : f \in [t -> {None, Some({Root, <<1, 1>>, <<1, 2>>, <<1, 1, 1>>})}]} :
                    t \in Trees}

Docs ==
    Shapes
    \cup {ADoc({}, <<>>), [Plain EXCEPT !.operators = <<>>]}
    \cup {[Plain EXCEPT !.cpu = f] : f \in FiguresOf({0, 5, 500})}
    \cup {[Plain EXCEPT !.scanned = f] : f \in FiguresOf({0, 5, 31, 61})}
    \cup {[Plain EXCEPT !.peak = f, !.peakUser = g] :
             f \in FiguresOf({0, 31}), g \in FiguresOf({0, 5})}
    \cup {[Plain EXCEPT !.errorCode = c, !.failure = f] :
             c \in {None, Some(""), Some("USER_ERROR")}, f \in {None, Some("Exception")}}

(* Ids, also such as no coordinator makes. *)
QueryIds ==
    {[CallOf("get_query") EXCEPT !.call.query = q, !.doc = d] :
        q \in UNION {[1 .. n -> {"q", ".", "/", "%", "?", "#"}] : n \in 1 .. 2},
        d \in {None, Some(Plain)}}

Details == {[CallOf("get_query") EXCEPT !.call.raw = r, !.doc = Some(d)] :
               r \in BOOLEAN, d \in Docs}

-----------------------------------------------------------------------------
MCScenarios == Refusals \cup Lists \cup Quotations \cup QueryIds \cup Clusters \cup Reads
               \cup Statistics \cup Listings \cup Details

=============================================================================
