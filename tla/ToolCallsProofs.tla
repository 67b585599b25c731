--------------------------- MODULE ToolCallsProofs ---------------------------
(***************************************************************************)
(* One call of a tool, for every registry, scenario and size: where its    *)
(* requests go, and that its answer is what the engine has: the rows of a  *)
(* read, the whole lists and statistics of the metadata tools, the queries *)
(* that a listing means, and a detail that tells of one document.          *)
(***************************************************************************)
EXTENDS ToolCalls, OperatorProofs

Frame == IsCall(call) /\ IsTableFor(call.tool, table)

(* What the coordinator remembers, and what it has told of it. *)
Memory == /\ queries \in Seq(Queries)
          /\ doc # None => IsDocument(doc[1])
          /\ reply.kind = "ok" =>
                /\ call.tool = "list_queries" => reply.body \in Seq(Queries)
                /\ call.tool = "get_query" => IsDocument(reply.body)

(* How far the call is, and what it has asked so far. *)
Progress == /\ pc \in {"idle", "getting", "statement", "answered"}
            /\ pc = "idle" => asked = {}
            /\ asked # {} \/ pc \in {"getting", "statement"} => Accepted
            /\ pc = "getting" => asked # {} /\ call.tool \in GetTools
            /\ pc = "statement" => call.tool \in StatementTools \cup {"get_cluster_info"}
            /\ pc = "statement" /\ call.tool = "get_cluster_info" => info # None
            /\ pc \in {"idle", "getting"} => info = None /\ phase = "idle"
            /\ info # None => call.tool = "get_cluster_info" /\ asked # {}
            /\ reply.kind \in {"none", "ok", "status", "garbage"}

AskedRight == \A r \in asked :
                 /\ r.engine \in EngineOf(call.engine)
                 /\ r.catalog # <<>> \/ r.schema # <<>> => call.tool = "run_query"
                 /\ NamesOf(call) # <<>> => r.text = Qualified(NamesOf(call))
                 /\ call.tool = "run_query" => /\ r.text = call.sql.text
                                               /\ r.catalog = call.catalog
                                               /\ r.schema = call.schema
                 /\ call.tool = "get_query" => r.path = PathOf(call.query)

(* The promise of the statement (BoundedRead) for the table of the call. *)
Promise == /\ phase \in {"idle", "open", "answered"}
           /\ phase \in {"idle", "open"} <=> result.kind = "none"
           /\ result.kind \in {"none", "error", "all", "truncated"}
           /\ phase = "idle" => cap = 0 /\ made = 0 /\ complete = FALSE
           /\ phase = "open" \/ result.kind \in {"all", "truncated"} =>
                 cap = RowCap(call) /\ asked # {}
           /\ cap \in 0 .. MaxResultRows
           /\ made \in 0 .. Len(table.rows)
           /\ complete \in BOOLEAN
           /\ complete => made = Len(table.rows)
           /\ result.kind = "all" => /\ complete
                                     /\ cap > 0 => made <= cap
                                     /\ result.rows = Stmt!FirstRows(made)
           /\ result.kind = "truncated" => /\ cap > 0
                                           /\ made > cap
                                           /\ result.rows = Stmt!FirstRows(cap)

ReadBody == /\ result.kind \in {"all", "truncated"}
            /\ answer.body = RunQueryOutput(RowsOf(result.rows))

ClusterBody == /\ answer.status = "ok"
               /\ answer.body.info = info
               /\ \/ answer.body.nodes = <<>>
                  \/ /\ result.kind \in {"all", "truncated"}
                     /\ answer.body.nodes = NodeInfos(RowsOf(result.rows))

MetadataBody ==
    /\ result.kind \in {"all", "truncated"}
    /\ call.tool \in NameTools => answer.body = FirstColumn(RowsOf(result.rows))
    /\ call.tool = "describe_table" => answer.body = ColumnInfos(RowsOf(result.rows))
    /\ call.tool = "get_table_stats" =>
          \E odd \in OddInts : /\ answer.body = TableStats(RowsOf(result.rows), odd)
                               /\ Encodable(answer.body)

(* Rows that make no answer are statistics that no JSON can say. *)
Unanswerable ==
    result.kind \in {"all", "truncated"} =>
        /\ call.tool = "get_table_stats"
        /\ \E odd \in OddInts : ~ Encodable(TableStats(RowsOf(result.rows), odd))

Records(body) == [i \in DOMAIN body |-> BasicInfo(body[i])]

QueryBody ==
    /\ reply.kind = "ok"
    /\ call.tool = "list_queries" =>
          /\ ValidFilter(call.filter)
          /\ answer.body = QueryListFromLive(Records(reply.body), BuildFilter(call.filter))
    /\ call.tool = "get_query" =>
          answer.body = QueryDetailFromLive(reply.body, RawFragment(reply.body))

Bodies == /\ call.tool = "run_query" => ReadBody
          /\ call.tool \in NameTools \cup TableTools => MetadataBody
          /\ call.tool \in QueryTools /\ answer.source = "live" => QueryBody

Answered == /\ answer.status \in {"none", "ok", "error"}
            /\ pc = "answered" <=> answer.status # "none"
            /\ pc # "answered" => answer.source = ""
            /\ answer.source = "live" => asked # {}
            /\ answer.source \in {"registry", "history"} => asked = {}
            /\ answer.status = "ok" => Bodies
            /\ answer.status = "error" => Unanswerable
            /\ call.tool = "get_cluster_info" /\ pc = "answered" =>
                  IF info = None THEN answer.status = "error" ELSE ClusterBody

ToolInv == Frame /\ Memory /\ Progress /\ AskedRight /\ Promise /\ Answered

-----------------------------------------------------------------------------
(* A call begins with nothing asked, made or answered.                     *)
LEMMA ToolInit == Init => ToolInv
<1> SUFFICES ASSUME Init PROVE ToolInv
  OBVIOUS
<1>1. Frame
  BY ScenarioAssumption DEF Init, Frame
<1>2. Len(table.rows) \in Nat
  BY <1>1, LenProperties DEF Frame, IsTableFor
<1>3. Progress /\ AskedRight /\ Memory
  BY ScenarioAssumption DEF Init, Stmt!Init, Progress, AskedRight, Memory, NoReply
<1>4. Promise
  <2>1. /\ phase = "idle" /\ cap = 0 /\ made = 0 /\ complete = FALSE
        /\ result = [kind |-> "none", rows |-> <<>>]
    BY DEF Init, Stmt!Init
  <2>2. result.kind = "none"
    BY <2>1
  <2>3. 0 \in 0 .. MaxResultRows /\ 0 \in 0 .. Len(table.rows)
    BY <1>2, CapAssumption
  <2> QED
    BY <2>1, <2>2, <2>3 DEF Promise
<1>5. Answered
  BY DEF Init, NoAnswer, Answered, OK
<1> QED
  BY <1>1, <1>3, <1>4, <1>5 DEF ToolInv

(* A row number of the table, and rows that are the first n of it.         *)
LEMMA FirstOfTable ==
    ASSUME Frame, NEW n \in 0 .. Len(table.rows)
    PROVE  LET rows == RowsOf(Stmt!FirstRows(n))
           IN  /\ Len(rows) = n
               /\ DOMAIN rows = 1 .. n
               /\ rows \in Seq({rows[i] : i \in 1 .. n})
               /\ \A i \in 1 .. n : /\ i \in DOMAIN table.rows
                                    /\ rows[i] = [j \in DOMAIN table.rows[i] |->
                                                     Decoded(table.rows[i][j])]
<1> DEFINE rows == RowsOf(Stmt!FirstRows(n))
           row(i) == [j \in DOMAIN table.rows[i] |-> Decoded(table.rows[i][j])]
<1>1. DOMAIN table.rows = 1 .. Len(table.rows) /\ Len(table.rows) \in Nat
  BY LenProperties DEF Frame, IsTableFor
<1>2. rows = [i \in 1 .. n |-> row(i)]
  BY DEF RowsOf, Stmt!FirstRows
<1> HIDE DEF rows
<1>3. DOMAIN rows = 1 .. n /\ \A i \in 1 .. n : rows[i] = row(i)
  BY <1>2
<1>4. \A i \in 1 .. n : i \in DOMAIN table.rows
  BY <1>1
<1>5. Len(rows) = n
  <2>1. rows \in [1 .. n -> {row(i) : i \in 1 .. n}]
    BY <1>2
  <2>2. n \in Nat
    BY <1>1
  <2>3. rows \in Seq({row(i) : i \in 1 .. n})
    BY <2>1, <2>2, SeqDef
  <2>4. DOMAIN rows = 1 .. Len(rows) /\ Len(rows) \in Nat
    BY <2>3, LenProperties
  <2> QED
    BY <1>3, <2>2, <2>4
<1>6. rows \in Seq({rows[i] : i \in 1 .. n})
  <2>1. rows \in [1 .. n -> {rows[i] : i \in 1 .. n}]
    BY <1>2, <1>3
  <2> QED
    BY <1>1, <2>1, SeqDef
<1> QED
  BY <1>3, <1>4, <1>5, <1>6 DEF rows

-----------------------------------------------------------------------------
(* Steps that answer. *)

(* What is to show of a step that answers the call. *)
LEMMA EndInv ==
    ASSUME ToolInv, pc' = "answered",
           UNCHANGED <<call, asked, reply, info, engineVars, stmtVars>>,
           answer'.status \in {"ok", "error"},
           answer'.source = "live" => asked # {},
           answer'.source \in {"registry", "history"} => asked = {},
           answer'.status = "ok" => Bodies',
           answer'.status = "error" => Unanswerable',
           call.tool = "get_cluster_info" =>
              IF info = None THEN answer'.status = "error" ELSE ClusterBody'
    PROVE  ToolInv'
<1>1. Frame' /\ Memory'
  BY DEF ToolInv, Frame, Memory, engineVars
<1>2. Progress'
  BY DEF ToolInv, Progress, Accepted
<1>3. AskedRight' /\ Promise'
  BY DEF ToolInv, AskedRight, Promise, engineVars, stmtVars
<1>4. Answered'
  BY DEF Answered, OK
<1> QED
  BY <1>1, <1>2, <1>3, <1>4 DEF ToolInv

(* A failed call answers with an error of no source. *)
LEMMA FailInv ==
    ASSUME ToolInv, Fail, UNCHANGED <<call, asked, reply, info, engineVars, stmtVars>>,
           Unanswerable,
           call.tool = "get_cluster_info" => info = None
    PROVE  ToolInv'
<1>1. pc' = "answered" /\ answer'.status = "error" /\ answer'.source = ""
  BY DEF Fail, NoAnswer
<1>2. UNCHANGED <<result, table, call>>
  BY DEF stmtVars, engineVars
<1>3. ASSUME NEW odd \in OddInts
      PROVE  TableStats(RowsOf(result.rows), odd)' = TableStats(RowsOf(result.rows), odd)
  BY <1>2 DEF TableStats, RowCount, ColumnStats, IsSummary, Col, RowsOf
<1>4. Unanswerable'
  BY <1>2, <1>3 DEF Unanswerable
<1> QED
  BY <1>1, <1>4, EndInv

(* A call without rows is no such case. *)
LEMMA NoRowsNoAnswer ==
    ASSUME ToolInv, pc \in {"idle", "getting"} \/ result.kind = "error" PROVE Unanswerable
BY DEF ToolInv, Progress, Promise, Unanswerable

LEMMA SucceedSays ==
    ASSUME NEW source, NEW body, Succeed(source, body)
    PROVE  /\ pc' = "answered"
           /\ answer'.status = "ok" /\ answer'.source = source /\ answer'.body = body
BY DEF Succeed

(* The tools are told apart by their names. *)
LEMMA ToolKinds ==
    /\ "run_query" \notin GetTools \cup NameTools \cup TableTools \cup {"list_engines"}
    /\ "get_cluster_info" \notin QueryTools \cup StatementTools \cup {"list_engines"}
    /\ QueryTools \cap (NameTools \cup TableTools) = {}
    /\ "list_engines" \notin NameTools \cup TableTools \cup QueryTools
BY DEF GetTools, QueryTools, NameTools, TableTools, StatementTools

LEMMA RefuseInv == ASSUME ToolInv, RefuseCall \/ GetFails PROVE ToolInv'
<1>1. /\ Fail /\ info = None /\ pc \in {"idle", "getting"}
      /\ UNCHANGED <<call, asked, reply, info, engineVars, stmtVars>>
  BY DEF RefuseCall, GetFails, ToolInv, Progress
<1> QED
  BY <1>1, NoRowsNoAnswer, FailInv

LEMMA ListEnginesInv == ASSUME ToolInv, ListEngines PROVE ToolInv'
<1>1. /\ Succeed("registry", Registry) /\ call.tool = "list_engines" /\ asked = {}
      /\ UNCHANGED <<call, asked, reply, info, engineVars, stmtVars>>
  BY DEF ListEngines, ToolInv, Progress
<1>2. Bodies'
  BY <1>1, ToolKinds DEF Bodies
<1> QED
  BY <1>1, <1>2, SucceedSays, EndInv

LEMMA AskHistoryInv == ASSUME ToolInv, AskHistory PROVE ToolInv'
<1>1. /\ Fail \/ Succeed("history", <<>>)
      /\ call.tool \in QueryTools /\ asked = {} /\ pc = "idle"
      /\ UNCHANGED <<call, asked, reply, info, engineVars, stmtVars>>
  BY DEF AskHistory, FromHistory, ToolInv, Progress
<1>2. call.tool # "run_query" /\ call.tool # "get_cluster_info"
  BY <1>1 DEF QueryTools
<1>3. CASE Fail
  BY <1>1, <1>2, <1>3, NoRowsNoAnswer, FailInv
<1>4. CASE Succeed("history", <<>>)
  <2>1. pc' = "answered" /\ answer'.status = "ok" /\ answer'.source = "history"
    BY <1>4, SucceedSays
  <2>2. Bodies'
    BY <1>1, <1>2, <2>1, ToolKinds DEF Bodies
  <2> QED
    BY <1>1, <1>2, <2>1, <2>2, EndInv
<1> QED
  BY <1>1, <1>3, <1>4

(* The two query tools answer with what the coordinator told.              *)
LEMMA QueryToolInv == ASSUME ToolInv, AnswerListing \/ AnswerDetail PROVE ToolInv'
<1> DEFINE list == QueryListFromLive(Records(reply.body), BuildFilter(call.filter))
           detail == QueryDetailFromLive(reply.body, RawFragment(reply.body))
<1>1. /\ \/ call.tool = "list_queries" /\ Succeed("live", list)
         \/ call.tool = "get_query" /\ Succeed("live", detail)
      /\ reply.kind = "ok"
      /\ UNCHANGED <<call, asked, reply, info, engineVars, stmtVars>>
  BY DEF AnswerListing, AnswerDetail, Records
<1>2. asked # {} /\ Accepted
  BY DEF AnswerListing, AnswerDetail, ToolInv, Progress
<1>3. list' = list /\ detail' = detail
  BY <1>1 DEF Records, RawFragment
<1> HIDE DEF list, detail
<1>4. /\ pc' = "answered" /\ answer'.status = "ok" /\ answer'.source = "live"
      /\ call.tool = "list_queries" => answer'.body = list
      /\ call.tool = "get_query" => answer'.body = detail
  BY <1>1, SucceedSays
<1>5. call.tool = "list_queries" => ValidFilter(call.filter)
  BY <1>2 DEF Accepted, Required
<1>6. QueryBody'
  BY <1>1, <1>3, <1>4, <1>5 DEF QueryBody, list, detail
<1>7. call.tool \in QueryTools /\ call.tool # "run_query" /\ call.tool # "get_cluster_info"
  BY <1>1 DEF QueryTools
<1>8. Bodies'
  BY <1>1, <1>6, <1>7, ToolKinds DEF Bodies
<1> QED
  BY <1>1, <1>2, <1>4, <1>7, <1>8, EndInv

(* A statement that yields rows has asked the engine. *)
LEMMA AnswerRowsInv == ASSUME ToolInv, AnswerRows PROVE ToolInv'
<1> DEFINE rows == RowsOf(result.rows)
<1>1. /\ pc = "statement" /\ phase = "answered" /\ result.kind # "error"
      /\ UNCHANGED <<call, asked, reply, info, engineVars, stmtVars>>
  BY DEF AnswerRows, Returned
<1>2. result.kind \in {"all", "truncated"} /\ asked # {}
  BY <1>1 DEF ToolInv, Promise
<1>3. UNCHANGED <<result, table, info>>
  BY <1>1 DEF stmtVars, engineVars
<1>4. CASE call.tool = "run_query"
  <2>1. Succeed("live", RunQueryOutput(rows))
    BY <1>4 DEF AnswerRows, NameTools
  <2>2. ReadBody'
    <3>1. RunQueryOutput(rows)' = RunQueryOutput(rows)
      BY <1>3 DEF RunQueryOutput, Truncated, RowsOf
    <3> HIDE DEF rows
    <3>2. answer'.body = RunQueryOutput(rows)
      BY <2>1, SucceedSays
    <3> QED
      BY <1>2, <1>3, <3>1, <3>2 DEF ReadBody, rows
  <2>3. Bodies'
    BY <1>1, <1>4, <2>2, ToolKinds DEF Bodies, GetTools
  <2> QED
    BY <1>1, <1>2, <1>4, <2>1, <2>3, SucceedSays, EndInv
<1>5. CASE call.tool = "get_cluster_info"
  <2> DEFINE body == [info |-> info, nodes |-> NodeInfos(rows)]
  <2>1. Succeed("live", body)
    BY <1>5 DEF AnswerRows, NameTools
  <2>2. info # None
    BY <1>1, <1>5 DEF ToolInv, Progress
  <2>3. ClusterBody'
    <3>1. NodeInfos(rows)' = NodeInfos(rows)
      BY <1>3 DEF NodeInfos, Col, RowsOf
    <3>2. body.info = info /\ body.nodes = NodeInfos(rows)
      OBVIOUS
    <3> HIDE DEF rows, body
    <3>3. answer'.status = "ok" /\ answer'.body = body
      BY <2>1, SucceedSays
    <3> QED
      BY <1>2, <1>3, <3>1, <3>2, <3>3 DEF ClusterBody, rows
  <2>4. Bodies'
    BY <1>1, <1>5 DEF Bodies, NameTools, TableTools, QueryTools
  <2> HIDE DEF body
  <2> QED
    BY <1>1, <1>2, <1>5, <2>1, <2>2, <2>3, <2>4, SucceedSays, EndInv
<1>6. CASE call.tool \notin {"run_query", "get_cluster_info"}
  <2> DEFINE Meant(body) ==
          /\ call.tool \in NameTools => body = FirstColumn(rows)
          /\ call.tool = "describe_table" => body = ColumnInfos(rows)
          /\ call.tool = "get_table_stats" =>
                \E odd \in OddInts : body = TableStats(rows, odd) /\ Encodable(body)
  <2>1. (Fail /\ Unanswerable) \/ \E body : Succeed("live", body) /\ Meant(body)
    <3>1. CASE call.tool \in NameTools
      BY <1>6, <3>1 DEF AnswerRows, NameTools
    <3>2. CASE call.tool = "describe_table"
      BY <1>6, <3>2 DEF AnswerRows, NameTools
    <3>3. CASE call.tool = "get_table_stats"
      <4>1. PICK odd \in OddInts : IF Encodable(TableStats(rows, odd))
                                   THEN Succeed("live", TableStats(rows, odd)) ELSE Fail
        BY <3>3 DEF AnswerRows, NameTools
      <4>2. CASE Encodable(TableStats(rows, odd))
        BY <3>3, <4>1, <4>2 DEF NameTools
      <4>3. CASE ~ Encodable(TableStats(rows, odd))
        BY <3>3, <4>1, <4>3 DEF Unanswerable
      <4> QED
        BY <4>2, <4>3
    <3> QED
      BY <1>6, <3>1, <3>2, <3>3 DEF AnswerRows
  <2>2. CASE Fail /\ Unanswerable
    BY <1>1, <1>6, <2>2, FailInv
  <2>3. ASSUME NEW body, Succeed("live", body), Meant(body) PROVE ToolInv'
    <3>1. pc' = "answered" /\ answer'.status = "ok" /\ answer'.source = "live"
          /\ answer'.body = body
      BY <2>3, SucceedSays
    <3>2. FirstColumn(rows)' = FirstColumn(rows)
      BY <1>3 DEF FirstColumn, RowsOf
    <3>3. ColumnInfos(rows)' = ColumnInfos(rows)
      BY <1>3 DEF ColumnInfos, Col, RowsOf
    <3>4. ASSUME NEW odd \in OddInts PROVE TableStats(rows, odd)' = TableStats(rows, odd)
      BY <1>3 DEF TableStats, RowCount, ColumnStats, IsSummary, Col, RowsOf
    <3>5. MetadataBody'
      <4>1. /\ result'.kind \in {"all", "truncated"} /\ call' = call
            /\ answer'.body = body /\ Encodable(body)' = Encodable(body)
        BY <1>1, <1>2, <1>3, <3>1 DEF Encodable
      <4>2. RowsOf(result.rows)' = rows
        BY <1>3 DEF RowsOf
      <4>3. call.tool = "get_table_stats" =>
               \E odd \in OddInts : body = TableStats(rows, odd)' /\ Encodable(body)
        BY <2>3, <3>4
      <4> QED
        BY <1>3, <2>3, <3>2, <3>3, <4>1, <4>2, <4>3 DEF MetadataBody, Encodable
    <3>6. call.tool \notin QueryTools
      BY <1>1 DEF ToolInv, Progress, StatementTools, QueryTools, NameTools, TableTools
    <3>7. Bodies'
      BY <1>1, <1>6, <3>5, <3>6 DEF Bodies
    <3> QED
      BY <1>1, <1>2, <1>6, <3>1, <3>7, EndInv
  <2> QED
    BY <2>1, <2>2, <2>3
<1> QED
  BY <1>4, <1>5, <1>6

LEMMA AnswerNoRowsInv == ASSUME ToolInv, AnswerNoRows PROVE ToolInv'
<1>1. /\ pc = "statement" /\ result.kind = "error"
      /\ UNCHANGED <<call, asked, reply, info, engineVars, stmtVars>>
  BY DEF AnswerNoRows, Returned
<1>2. CASE call.tool = "get_cluster_info"
  <2> DEFINE body == [info |-> info, nodes |-> <<>>]
  <2>1. Succeed("live", body)
    BY <1>2 DEF AnswerNoRows, AnswerWithoutNodes
  <2>2. info # None /\ asked # {}
    BY <1>1, <1>2 DEF ToolInv, Progress
  <2>3. body.info = info /\ body.nodes = <<>>
    OBVIOUS
  <2> HIDE DEF body
  <2>4. ClusterBody'
    BY <1>1, <2>1, <2>3, SucceedSays DEF ClusterBody
  <2>5. Bodies'
    BY <1>1, <1>2 DEF Bodies, NameTools, TableTools, QueryTools
  <2> QED
    BY <1>1, <1>2, <2>1, <2>2, <2>4, <2>5, SucceedSays, EndInv
<1>3. CASE call.tool # "get_cluster_info"
  <2>1. Fail
    BY <1>3 DEF AnswerNoRows, AnswerWithoutNodes
  <2> QED
    BY <1>1, <1>3, <2>1, NoRowsNoAnswer, FailInv
<1> QED
  BY <1>2, <1>3

-----------------------------------------------------------------------------
(* Steps before the answer. *)

(* A request of an accepted call goes to the engine that the call names.   *)
LEMMA RequestGives ==
    ASSUME Accepted, NEW path, NEW text, NEW catalog, NEW schema
    PROVE  /\ Request(path, text, catalog, schema) # {}
           /\ \A r \in Request(path, text, catalog, schema) :
                 /\ r.engine \in EngineOf(call.engine) /\ r.path = path
                 /\ r.text = text /\ r.catalog = catalog /\ r.schema = schema
<1> DEFINE sent(i) == [engine |-> i, path |-> path, text |-> text, catalog |-> catalog,
                       schema |-> schema]
<1>1. \A i \in EngineOf(call.engine) :
         /\ sent(i).engine = i /\ sent(i).path = path
         /\ sent(i).text = text /\ sent(i).catalog = catalog /\ sent(i).schema = schema
  OBVIOUS
<1>2. Request(path, text, catalog, schema) = {sent(i) : i \in EngineOf(call.engine)}
  BY DEF Request
<1> HIDE DEF sent
<1>3. EngineOf(call.engine) # {}
  BY DEF Accepted
<1> QED
  BY <1>1, <1>2, <1>3

(* Such a step leaves the call and what the engine has for it alone.       *)
LEMMA SendGetInv == ASSUME ToolInv, SendGet PROVE ToolInv'
<1>1. /\ pc = "idle" /\ Accepted /\ call.tool \in GetTools /\ asked = {} /\ info = None
      /\ UNCHANGED <<call, reply, info, engineVars, stmtVars>>
  BY DEF SendGet, ToolInv, Progress
<1>2. CASE Fail /\ UNCHANGED asked
  BY <1>1, <1>2, NoRowsNoAnswer, FailInv
<1>3. CASE ~ (Fail /\ UNCHANGED asked)
  <2>1. /\ pc' = "getting" /\ UNCHANGED answer
        /\ asked' = asked \cup Request(Path, <<>>, <<>>, <<>>)
    BY <1>3 DEF SendGet
  <2>2. /\ Request(Path, <<>>, <<>>, <<>>) # {}
        /\ \A r \in Request(Path, <<>>, <<>>, <<>>) :
              /\ r.engine \in EngineOf(call.engine) /\ r.path = Path
              /\ r.catalog = <<>> /\ r.schema = <<>>
    BY <1>1, RequestGives
  <2>3. Frame' /\ Memory'
    BY <1>1 DEF ToolInv, Frame, Memory, engineVars
  <2>4. Progress'
    BY <1>1, <2>1, <2>2 DEF ToolInv, Progress, Accepted, stmtVars
  <2>5. AskedRight'
    <3>1. NamesOf(call) = <<>>
      BY <1>1 DEF NamesOf, GetTools, QueryTools, TableTools
    <3>2. NamesOf(call)' = NamesOf(call)
      BY <1>1 DEF NamesOf
    <3>3. call.tool # "run_query" /\ (call.tool = "get_query" => Path = PathOf(call.query))
      BY <1>1, ToolKinds DEF Path
    <3>4. PathOf(call.query)' = PathOf(call.query)
      BY <1>1 DEF PathOf
    <3> HIDE DEF Path, PathOf
    <3> QED
      BY <1>1, <2>1, <2>2, <3>1, <3>2, <3>3, <3>4 DEF ToolInv, AskedRight
  <2>6. Promise'
    BY <1>1, <2>1, <2>2 DEF ToolInv, Promise, engineVars, stmtVars
  <2>7. Answered'
    BY <1>1, <2>1 DEF ToolInv, Answered, OK
  <2> QED
    BY <2>3, <2>4, <2>5, <2>6, <2>7 DEF ToolInv
<1> QED
  BY <1>2, <1>3

LEMMA BeginInv == ASSUME ToolInv, BeginStatement \/ ReadInfo PROVE ToolInv'
<1>1. /\ pc \in {"idle", "getting"} /\ pc' = "statement" /\ Accepted
      /\ UNCHANGED <<call, asked, reply, engineVars, stmtVars, answer>>
  BY DEF BeginStatement, ReadInfo, ToolInv, Progress
<1>2. \/ call.tool \in StatementTools /\ info' = info /\ call.tool # "get_cluster_info"
      \/ call.tool = "get_cluster_info" /\ info' # None /\ asked # {}
  BY ToolKinds DEF BeginStatement, ReadInfo, Some, None, ToolInv, Progress
<1>3. Frame' /\ Memory'
  BY <1>1 DEF ToolInv, Frame, Memory, engineVars
<1>4. Progress'
  BY <1>1, <1>2 DEF ToolInv, Progress, Accepted, stmtVars
<1>5. AskedRight' /\ Promise'
  BY <1>1 DEF ToolInv, AskedRight, Promise, engineVars, stmtVars
<1>6. Answered'
  BY <1>1 DEF ToolInv, Answered, OK
<1> QED
  BY <1>3, <1>4, <1>5, <1>6 DEF ToolInv

LEMMA SubmitInv == ASSUME ToolInv, Submit PROVE ToolInv'
<1> DEFINE request == Request(<<"/v1/statement">>, StatementText(call),
                              Session(call, call.catalog), Session(call, call.schema))
<1>1. /\ pc = "statement" /\ Accepted /\ phase = "idle" /\ phase' = "open"
      /\ cap' = RowCap(call) /\ cap' \in 0 .. MaxResultRows
      /\ asked' = asked \cup request
      /\ UNCHANGED <<call, pc, reply, info, engineVars, answer, made, complete, result>>
  BY DEF Submit, Stmt!Ask, ToolInv, Progress
<1>2. /\ request # {}
      /\ \A r \in request : r.engine \in EngineOf(call.engine)
      /\ \A r \in request : r.catalog # <<>> \/ r.schema # <<>> => call.tool = "run_query"
      /\ \A r \in request : r.text = StatementText(call)
      /\ \A r \in request : call.tool = "run_query" => r.catalog = call.catalog /\ r.schema = call.schema
  BY <1>1, RequestGives DEF Session
<1> HIDE DEF request
<1>3. Frame' /\ Memory'
  BY <1>1 DEF ToolInv, Frame, Memory, engineVars
<1>4. Progress'
  BY <1>1, <1>2 DEF ToolInv, Progress, Accepted
<1>5. AskedRight'
  <2>1. NamesOf(call)' = NamesOf(call)
    BY <1>1 DEF NamesOf
  <2>2. /\ call.tool = "run_query" => StatementText(call) = call.sql.text /\ NamesOf(call) = <<>>
        /\ call.tool # "run_query" => StatementText(call) = Qualified(NamesOf(call))
    BY DEF StatementText, NamesOf, TableTools
  <2>3. call.tool # "get_query"
    BY <1>1 DEF ToolInv, Progress, StatementTools, NameTools, TableTools
  <2> QED
    BY <1>1, <1>2, <2>1, <2>2, <2>3 DEF ToolInv, AskedRight
<1>6. Promise'
  BY <1>1, <1>2 DEF ToolInv, Promise, engineVars
<1>7. Answered'
  BY <1>1, <1>2 DEF ToolInv, Answered, OK
<1> QED
  BY <1>3, <1>4, <1>5, <1>6, <1>7 DEF ToolInv

(* The statement's own steps: its end, and the engine's rows.              *)
LEMMA StatementInv ==
    ASSUME ToolInv, StatementEnds \/ MakeRows
    PROVE  ToolInv'
<1>1. /\ pc = "statement"
      /\ UNCHANGED <<call, pc, asked, reply, info, engineVars, answer>>
  BY DEF StatementEnds, MakeRows
<1>2. Frame' /\ Memory' /\ AskedRight' /\ Progress'
  BY <1>1 DEF ToolInv, Frame, Memory, engineVars, AskedRight, Progress, Accepted
<1>3. Answered'
  BY <1>1 DEF ToolInv, Answered, OK
<1>4. Promise'
  <2>0. Len(table.rows) \in Nat
    BY LenProperties DEF ToolInv, Frame, IsTableFor
  <2>1. CASE Stmt!AnswerAll
    <3>1. /\ phase = "open" /\ complete /\ (cap > 0 => made <= cap) /\ phase' = "answered"
          /\ result' = [kind |-> "all", rows |-> Stmt!FirstRows(made)]
          /\ UNCHANGED <<cap, made, complete>>
      BY <2>1 DEF Stmt!AnswerAll, Stmt!Answer
    <3>2. result'.kind = "all" /\ result'.rows = Stmt!FirstRows(made)
      BY <3>1
    <3>3. Stmt!FirstRows(made)' = Stmt!FirstRows(made)
      BY <3>1 DEF Stmt!FirstRows
    <3> QED
      BY <1>1, <3>1, <3>2, <3>3 DEF ToolInv, Promise, engineVars
  <2>2. CASE Stmt!AnswerTruncated
    <3>1. /\ phase = "open" /\ cap > 0 /\ made > cap /\ phase' = "answered"
          /\ result' = [kind |-> "truncated", rows |-> Stmt!FirstRows(cap)]
          /\ UNCHANGED <<cap, made, complete>>
      BY <2>2 DEF Stmt!AnswerTruncated, Stmt!Answer
    <3>2. result'.kind = "truncated" /\ result'.rows = Stmt!FirstRows(cap)
      BY <3>1
    <3>3. Stmt!FirstRows(cap)' = Stmt!FirstRows(cap)
      BY <3>1 DEF Stmt!FirstRows
    <3> QED
      BY <1>1, <3>1, <3>2, <3>3 DEF ToolInv, Promise, engineVars
  <2>3. CASE Stmt!AnswerError
    <3>1. /\ phase \in {"idle", "open"} /\ phase' = "answered"
          /\ result' = [kind |-> "error", rows |-> <<>>]
          /\ UNCHANGED <<cap, made, complete>>
      BY <2>3 DEF Stmt!AnswerError, Stmt!Answer
    <3>2. result'.kind = "error"
      BY <3>1
    <3> QED
      BY <1>1, <3>1, <3>2 DEF ToolInv, Promise, engineVars
  <2>4. CASE MakeRows
    <3>1. PICK n \in made .. Len(table.rows) : Stmt!MakeRows(n)
      BY <2>4 DEF MakeRows
    <3>2. /\ phase # "idle" /\ ~ complete /\ made' = n /\ complete' \in BOOLEAN
          /\ UNCHANGED <<phase, cap, result>>
          /\ complete' => made' = Len(table.rows)
      BY <2>4, <3>1 DEF MakeRows, Stmt!MakeRows
    <3>3. made' \in 0 .. Len(table.rows) /\ made <= made'
      BY <2>0, <3>1, <3>2 DEF ToolInv, Promise
    <3>4. result.kind # "all"
      BY <3>2 DEF ToolInv, Promise
    <3>5. result.kind = "truncated" => made' > cap
      BY <2>0, <3>3, CapAssumption DEF ToolInv, Promise
    <3>6. Stmt!FirstRows(cap)' = Stmt!FirstRows(cap)
      BY <3>2 DEF Stmt!FirstRows
    <3> QED
      BY <1>1, <3>2, <3>3, <3>4, <3>5, <3>6 DEF ToolInv, Promise, engineVars
  <2> QED
    BY <2>1, <2>2, <2>3, <2>4 DEF StatementEnds
<1> QED
  BY <1>2, <1>3, <1>4 DEF ToolInv

(* What the coordinator knows of a query that has ended is a document too. *)
LEMMA FinishedDocument == ASSUME NEW d, IsDocument(d) PROVE IsDocument(Finished(d))
<1> DEFINE f == Finished(d)
<1>1. /\ DOMAIN f = DOMAIN d
      /\ f.stages = {} /\ f.operators = <<>>
      /\ f.cpu = d.cpu /\ f.scanned = d.scanned /\ f.peak = d.peak /\ f.peakUser = d.peakUser
      /\ f.errorCode = d.errorCode /\ f.failure = d.failure
      /\ f.id = d.id /\ f.state = "FINISHED"
  BY DEF Finished, IsDocument
<1> HIDE DEF f
<1>2. IsTree({}) /\ <<>> \in Seq([id : Nat, addInput : Figures, getOutput : Figures])
  BY FS_EmptySet DEF IsTree
<1>3. IsDocument(f)
  BY <1>1, <1>2 DEF IsDocument
<1> QED
  BY <1>3 DEF f

(* The coordinator replies to the GET, and goes on. *)
LEMMA CoordinatorInv == ASSUME ToolInv, Serve \/ Proceed PROVE ToolInv'
<1>1. /\ pc = "getting"
      /\ UNCHANGED <<call, pc, asked, info, table, stmtVars, answer>>
      /\ reply'.kind \in {"none", "ok", "status", "garbage"}
  BY DEF Serve, Proceed, engineVars, NoReply, ToolInv, Progress
<1>2. Frame' /\ AskedRight' /\ Progress'
  BY <1>1 DEF ToolInv, Frame, AskedRight, Progress, Accepted, stmtVars
<1>3. Promise'
  BY <1>1 DEF ToolInv, Promise, stmtVars
<1>4. Answered'
  BY <1>1 DEF ToolInv, Answered, OK
<1>5. Memory'
  <2>1. CASE Serve
    <3>1. UNCHANGED <<queries, doc>>
      BY <2>1 DEF Serve, engineVars
    <3>2. reply'.kind = "ok" =>
             /\ call.tool = "list_queries" => reply'.body = queries
             /\ call.tool = "get_query" => doc # None /\ reply'.body = doc[1]
      BY <2>1 DEF Serve, NoReply
    <3> QED
      BY <1>1, <3>1, <3>2 DEF ToolInv, Memory
  <2>2. CASE Proceed
    <3>1. UNCHANGED reply
      BY <2>2 DEF Proceed
    <3>2. queries' \in Seq(Queries)
      <4>1. queries' = queries \/ (queries # <<>> /\ queries' = Tail(queries))
        BY <2>2 DEF Proceed
      <4> QED
        BY <4>1, HeadTailProperties DEF ToolInv, Memory
    <3>3. doc' # None => IsDocument(doc'[1])
      <4>1. \/ doc' = doc
            \/ doc' = None
            \/ doc # None /\ doc' = Some(Finished(doc[1]))
        BY <2>2 DEF Proceed
      <4>2. CASE doc # None /\ doc' = Some(Finished(doc[1]))
        <5>1. IsDocument(Finished(doc[1]))
          BY <4>2, FinishedDocument DEF ToolInv, Memory
        <5>2. doc'[1] = Finished(doc[1])
          BY <4>2 DEF Some
        <5> QED
          BY <5>1, <5>2
      <4> QED
        BY <4>1, <4>2 DEF ToolInv, Memory
    <3> QED
      BY <1>1, <3>1, <3>2, <3>3 DEF ToolInv, Memory
  <2> QED
    BY <2>1, <2>2
<1> QED
  BY <1>2, <1>3, <1>4, <1>5 DEF ToolInv

LEMMA StutterInv == ASSUME ToolInv, UNCHANGED vars PROVE ToolInv'
<1>1. UNCHANGED <<call, pc, asked, reply, info, queries, doc, table, phase, cap, made, complete,
                  result, answer>>
  BY DEF vars, engineVars, stmtVars
<1>2. Frame' /\ Memory' /\ Progress' /\ AskedRight' /\ Promise'
  BY <1>1 DEF ToolInv, Frame, Memory, Progress, Accepted, AskedRight, Promise
<1>3. ReadBody' = ReadBody
  BY <1>1 DEF ReadBody, RunQueryOutput, Truncated, RowsOf
<1>4. MetadataBody' = MetadataBody /\ Unanswerable' = Unanswerable
  BY <1>1 DEF MetadataBody, Unanswerable, Encodable, FirstColumn, ColumnInfos, TableStats, RowCount, ColumnStats, IsSummary,
              Col, RowsOf
<1>5. QueryBody' = QueryBody
  BY <1>1 DEF QueryBody, Records, RawFragment
<1>6. ClusterBody' = ClusterBody
  BY <1>1 DEF ClusterBody, NodeInfos, Col, RowsOf
<1>7. Answered'
  BY <1>1, <1>3, <1>4, <1>5, <1>6 DEF ToolInv, Answered, Bodies
<1> QED
  BY <1>2, <1>7 DEF ToolInv

-----------------------------------------------------------------------------
(* The inductive invariant of a call: what it asked, what the statement    *)
(* promised it, and what it answered.                                      *)
THEOREM ToolInvariant == Spec => []ToolInv
<1>1. ASSUME ToolInv, [Next]_vars PROVE ToolInv'
  BY <1>1, RefuseInv, ListEnginesInv, AskHistoryInv, SendGetInv, BeginInv, SubmitInv,
     StatementInv, AnswerRowsInv, AnswerNoRowsInv, QueryToolInv, CoordinatorInv, StutterInv
     DEF Next, Handler, Coordinator
<1> QED
  BY <1>1, ToolInit, PTL DEF Spec

LEMMA OnlyFromInv == ToolInv => OnlyTheEngineNamed
BY DEF ToolInv, Progress, AskedRight, Answered, OnlyTheEngineNamed, Accepted, EngineOf

(* One engine is asked, the one that was named (tools.go, engineOf).       *)
THEOREM OneEngineAsked == Spec => []OnlyTheEngineNamed
BY OnlyFromInv, ToolInvariant, PTL

(* The names of a call are texts over the characters, the quote and the    *)
(* dot among them.                                                         *)
LEMMA NamesAreTexts ==
    ASSUME Frame
    PROVE  NamesOf(call) \in Seq(Seq(STRING \cup {Quote, Dot}))
<1> DEFINE Text == Seq(STRING \cup {Quote, Dot})
<1>1. {call.catalog, call.schema, call.name} \subseteq Text
  <2>1. Seq(STRING) \subseteq Text
    BY SeqMonotonic
  <2> QED
    BY <2>1 DEF Frame, IsCall
<1> HIDE DEF Text
<1>2. /\ <<>> \in Seq(Text) /\ <<call.catalog>> \in Seq(Text)
      /\ <<call.catalog, call.schema>> \in Seq(Text)
      /\ <<call.catalog, call.schema, call.name>> \in Seq(Text)
  BY <1>1
<1>3. NamesOf(call) \in Seq(Text)
  BY <1>2 DEF NamesOf
<1> QED
  BY <1>3 DEF Text

(* What follows the path in a query's URL is the id as it was put in. *)
LEMMA PathHoldsId ==
    ASSUME NEW Chars, NEW id \in Seq(Chars), QueryPath \in Chars
    PROVE  Tail(PathOf(id)) = id
<1> DEFINE first == <<QueryPath>>
           path == first \o id
<1>1. first \in Seq(Chars) /\ Len(first) = 1
  OBVIOUS
<1> HIDE DEF first
<1>2. Len(id) \in Nat
  BY LenProperties
<1>3. /\ path \in Seq(Chars)
      /\ Len(path) = 1 + Len(id)
      /\ \A i \in 1 .. 1 + Len(id) : path[i] = IF i <= 1 THEN first[i] ELSE id[i - 1]
  <2> DEFINE m == Len(first)
             n == Len(id)
  <2>1. /\ path \in Seq(Chars)
        /\ Len(path) = m + n
        /\ \A i \in 1 .. m + n : path[i] = IF i <= m THEN first[i] ELSE id[i - m]
    BY <1>1, ConcatProperties
  <2>2. m = 1
    BY <1>1
  <2> HIDE DEF m, n, path
  <2>3. Len(path) = 1 + n /\ \A i \in 1 .. 1 + n : path[i] = IF i <= 1 THEN first[i] ELSE id[i - 1]
    BY <2>1, <2>2
  <2> QED
    BY <2>1, <2>3 DEF n
<1>4. PathOf(id) = path
  BY DEF PathOf, first
<1> HIDE DEF path
<1>5. ASSUME NEW i \in 1 .. Len(id) PROVE path[i + 1] = id[i]
  <2> DEFINE m == i + 1
  <2>1. m \in 1 .. 1 + Len(id) /\ ~ (m <= 1) /\ m - 1 = i
    BY <1>2
  <2> HIDE DEF m
  <2>2. path[m] = id[i]
    BY <1>3, <2>1
  <2> QED
    BY <2>2 DEF m
<1>6. path # <<>>
  BY <1>2, <1>3, EmptySeq
<1>7. /\ Tail(path) \in Seq(Chars) /\ Len(Tail(path)) = Len(id)
      /\ \A i \in 1 .. Len(Tail(path)) : Tail(path)[i] = path[i + 1]
  BY <1>2, <1>3, <1>6, HeadTailProperties
<1> QED
  BY <1>4, <1>5, <1>7, SeqEqual

(* No mark ends a plain id before its end. *)
LEMMA PlainIdIsWhole ==
    ASSUME NEW id, Len(id) \in Nat, \A i \in 1 .. Len(id) : id[i] \notin PathEnds
    PROVE  IdLength(id) = Len(id)
<1> DEFINE size == Len(id)
           Whole(n) == /\ \A i \in 1 .. n : id[i] \notin PathEnds
                       /\ n < size => id[n + 1] \in PathEnds
<1>1. size \in 0 .. size /\ Whole(size)
  OBVIOUS
<1>2. ASSUME NEW n \in 0 .. size, Whole(n) PROVE n = size
  <2> DEFINE m == n + 1
  <2> SUFFICES ASSUME n < size PROVE FALSE
    OBVIOUS
  <2>1. m \in 1 .. size
    OBVIOUS
  <2>2. id[m] \in PathEnds
    BY <1>2
  <2> HIDE DEF m, Whole
  <2> QED
    BY <2>1, <2>2
<1> HIDE DEF Whole
<1>3. (CHOOSE n \in 0 .. size : Whole(n)) = size
  BY <1>1, <1>2
<1> QED
  BY <1>3 DEF IdLength, Whole

(* A plain id is read from the query's URL as it was put in. *)
LEMMA PlainIdRead ==
    ASSUME NEW id \in Seq(STRING), IsPlain(id)
    PROVE  IdRead(PathOf(id)) = id
<1> DEFINE path == PathOf(id)
           tail == Tail(path)
           size == IdLength(tail)
           part == SubSeq(tail, 1, size)
<1>1. IdRead(path) = IF part \in Dots \/ \E i \in DOMAIN part : part[i] \in PathBreaks
                     THEN <<>> ELSE part
  BY DEF IdRead
<1>2. tail = id
  <2> DEFINE Chars == STRING \cup {QueryPath}
  <2>1. STRING \subseteq Chars /\ QueryPath \in Chars
    OBVIOUS
  <2> HIDE DEF Chars
  <2>2. id \in Seq(Chars)
    BY <2>1, SeqMonotonic
  <2> QED
    BY <2>1, <2>2, PathHoldsId
<1> HIDE DEF tail
<1>3. Len(tail) \in Nat /\ DOMAIN tail = 1 .. Len(tail)
  BY <1>2, LenProperties
<1>4. \A i \in 1 .. Len(tail) : tail[i] \notin PathEnds
  BY <1>2, <1>3 DEF IsPlain
<1>5. size = Len(tail)
  BY <1>3, <1>4, PlainIdIsWhole
<1> HIDE DEF size
<1>6. part = id
  <2>1. /\ SubSeq(id, 1, Len(id)) \in Seq(STRING) /\ Len(SubSeq(id, 1, Len(id))) = Len(id)
        /\ \A i \in 1 .. Len(id) : SubSeq(id, 1, Len(id))[i] = id[i]
    BY <1>2, <1>3, SubSeqProperties
  <2>2. SubSeq(id, 1, Len(id)) = id
    BY <2>1, SeqEqual
  <2> QED
    BY <1>2, <1>5, <2>2
<1>7. ~ (id \in Dots \/ \E i \in DOMAIN id : id[i] \in PathBreaks)
  BY DEF IsPlain
<1> HIDE DEF path, part
<1> QED
  BY <1>1, <1>6, <1>7 DEF path

LEMMA NamesFromInv == ToolInv => NamesAsGiven
<1> SUFFICES ASSUME ToolInv, NamesOf(call) # <<>>, NEW r \in asked
             PROVE  NamesRead(r.text) = NamesOf(call)
  BY DEF NamesAsGiven
<1>1. r.text = Qualified(NamesOf(call))
  BY DEF ToolInv, AskedRight
<1>2. NamesOf(call) \in Seq(Seq(STRING \cup {Quote, Dot}))
  BY NamesAreTexts DEF ToolInv
<1>3. NamesRead(Qualified(NamesOf(call))) = NamesOf(call)
  <2> DEFINE Chars == STRING \cup {Quote, Dot}
             names == NamesOf(call)
  <2>1. Quote \in Chars /\ Dot \in Chars /\ names \in Seq(Seq(Chars)) /\ names # <<>>
    BY <1>2
  <2> HIDE DEF Chars, names
  <2>2. NamesRead(Qualified(names)) = names
    BY <2>1, QuotedNamesRead
  <2> QED
    BY <2>2 DEF names
<1> QED
  BY <1>1, <1>3

LEMMA RequestsFromInv == ToolInv => RequestsAsMeant
<1> SUFFICES ASSUME ToolInv PROVE StatementAsGiven /\ (IsPlain(call.query) => IdAsGiven)
  BY OnlyFromInv, NamesFromInv DEF RequestsAsMeant
<1>1. StatementAsGiven
  BY DEF ToolInv, AskedRight, StatementAsGiven
<1>2. ASSUME IsPlain(call.query), call.tool = "get_query", NEW r \in asked
      PROVE  IdRead(r.path) = call.query
  <2>1. r.path = PathOf(call.query)
    BY <1>2 DEF ToolInv, AskedRight
  <2>2. call.query \in Seq(STRING)
    BY DEF ToolInv, Frame, IsCall
  <2> QED
    BY <1>2, <2>1, <2>2, PlainIdRead
<1> QED
  BY <1>1, <1>2 DEF IdAsGiven

(* Every request goes to the engine that was named.  It says the names     *)
(* that were given, whatever they are, run_query's statement, catalog and  *)
(* schema as they were given, and the id of get_query if it has no         *)
(* character that means something in a URL (engineOf, quoteIdent, fqTable, *)
(* RunReadQuery, GetQueryRaw).                                             *)
THEOREM RequestsMeant == Spec => []RequestsAsMeant
BY RequestsFromInv, ToolInvariant, PTL

LEMMA TypesFromInv == ToolInv => TypeOK
BY DEF ToolInv, Progress, AskedRight, Promise, Answered, TypeOK, EngineOf

(* Types of a call. *)
THEOREM ToolTypes == Spec => []TypeOK
BY TypesFromInv, ToolInvariant, PTL

-----------------------------------------------------------------------------
(* Rows and cells of the answers. *)

(* A statement of the server's own is answered from all its rows, each     *)
(* with its cells decoded (runStatement).                                  *)
LEMMA AllRows ==
    ASSUME ToolInv, result.kind \in {"all", "truncated"}, call.tool # "run_query"
    PROVE  LET rows == RowsOf(result.rows)
           IN  /\ Len(rows) = Len(table.rows)
               /\ DOMAIN rows = 1 .. Len(rows) /\ DOMAIN table.rows = 1 .. Len(rows)
               /\ rows \in Seq({rows[i] : i \in 1 .. Len(rows)})
               /\ \A i \in 1 .. Len(rows) :
                     rows[i] = [j \in DOMAIN table.rows[i] |-> Decoded(table.rows[i][j])]
<1>1. Frame /\ Len(table.rows) \in Nat /\ DOMAIN table.rows = 1 .. Len(table.rows)
  BY LenProperties DEF ToolInv, Frame, IsTableFor
<1>2. result.rows = Stmt!FirstRows(Len(table.rows))
  <2>1. cap = 0
    BY DEF ToolInv, Promise, RowCap
  <2> QED
    BY <2>1 DEF ToolInv, Promise
<1> DEFINE rows == RowsOf(Stmt!FirstRows(Len(table.rows)))
<1>3. /\ Len(rows) = Len(table.rows) /\ DOMAIN rows = 1 .. Len(table.rows)
      /\ rows \in Seq({rows[i] : i \in 1 .. Len(table.rows)})
      /\ \A i \in 1 .. Len(table.rows) :
            rows[i] = [j \in DOMAIN table.rows[i] |-> Decoded(table.rows[i][j])]
  <2>1. Len(table.rows) \in 0 .. Len(table.rows)
    BY <1>1
  <2> QED
    BY <1>1, <2>1, FirstOfTable
<1>4. RowsOf(result.rows) = rows
  BY <1>2
<1> HIDE DEF rows
<1> QED
  BY <1>1, <1>3, <1>4

(* A column is found by its name, and is there in every row (col, cellAt). *)
LEMMA ColumnFound ==
    ASSUME Frame, NEW i \in DOMAIN table.rows, NEW name \in ColumnsOf(call.tool)
    PROVE  /\ Col(name) \in DOMAIN table.rows[i]
           /\ \A row : Named(row, name) = row[Col(name)]
<1>1. /\ table.cols \in Seq(STRING)
      /\ \A j, k \in DOMAIN table.cols : table.cols[j] = table.cols[k] => j = k
      /\ DOMAIN table.rows[i] = DOMAIN table.cols
      /\ \E j \in DOMAIN table.cols : table.cols[j] = name
  BY DEF Frame, IsTableFor
<1>2. PICK j \in DOMAIN table.cols : table.cols[j] = name
  BY <1>1
<1>3. j \in Nat /\ j <= j
  BY <1>1, LenProperties
<1>4. \A k \in DOMAIN table.cols : table.cols[k] = name <=> k = j
  BY <1>1, <1>2
<1>5. Col(name) = j
  <2>1. {k \in DOMAIN table.cols : table.cols[k] = name} = {j}
    BY <1>4
  <2> QED
    BY <1>3, <2>1 DEF Col
<1>6. (CHOOSE k \in DOMAIN table.cols : table.cols[k] = name) = j
  BY <1>4
<1> QED
  BY <1>1, <1>5, <1>6 DEF Named, CellOf

(* What an answer has from a column is what cellAt makes of its cell.      *)
LEMMA CellInPlace ==
    ASSUME Frame, NEW i \in DOMAIN table.rows, NEW name \in ColumnsOf(call.tool), NEW row,
           row = [j \in DOMAIN table.rows[i] |-> Decoded(table.rows[i][j])]
    PROVE  CellAt(row, Col(name)) = CellString(Decoded(Named(table.rows[i], name)))
<1>1. Col(name) \in DOMAIN table.rows[i] /\ Named(table.rows[i], name) = table.rows[i][Col(name)]
  BY ColumnFound
<1> QED
  BY <1>1 DEF CellAt

(* A name is left as it is. *)
LEMMA TextStays == ASSUME NEW cell, cell.kind = "string" PROVE CellString(Decoded(cell)) = cell
BY DEF Decoded, CellString

LEMMA NameInPlace ==
    ASSUME Frame, NEW i \in DOMAIN table.rows, NEW name \in ColumnsOf(call.tool) \cap NameColumns,
           NEW row, row = [j \in DOMAIN table.rows[i] |-> Decoded(table.rows[i][j])]
    PROVE  CellAt(row, Col(name)) = Named(table.rows[i], name)
<1>1. Named(table.rows[i], name).kind = "string"
  BY DEF Frame, IsTableFor, Named
<1> QED
  BY <1>1, CellInPlace, TextStays

(* A number that a float64 holds is decoded as itself (client.go:448).     *)
LEMMA DecodedExact ==
    ASSUME WidthAssumption, NEW cell \in Cells, cell.number \in (0 - ExactInt) .. ExactInt
    PROVE  Decoded(cell) = cell
<1>1. CASE cell.kind = "number"
  <2>1. Float64(cell.number) = cell.number
    BY DEF Float64
  <2>2. cell.word = ""
    BY <1>1 DEF Cells
  <2>3. cell = [kind |-> "number", word |-> "", number |-> cell.number]
    BY <1>1, <2>2 DEF Cells
  <2> QED
    BY <1>1, <2>1, <2>3 DEF Decoded, Number, Cell
<1>2. CASE cell.kind # "number"
  BY <1>2 DEF Decoded
<1> QED
  BY <1>1, <1>2

LEMMA ReadFromInv == ToolInv => ReadAnswerExact
<1> SUFFICES ASSUME ToolInv, OK({"run_query"})
             PROVE  /\ Len(ReadRows) = answer.body.rowCount
                    /\ IF answer.body.truncated
                       THEN Len(ReadRows) = call.maxRows /\ Len(table.rows) > call.maxRows
                       ELSE Len(ReadRows) = Len(table.rows)
                    /\ \A i \in DOMAIN ReadRows : \A j \in DOMAIN table.rows[i] :
                          table.rows[i][j].number \in (0 - ExactInt) .. ExactInt =>
                              ReadRows[i][j] = table.rows[i][j]
  BY DEF ReadAnswerExact
<1> DEFINE rows == RowsOf(result.rows)
<1>1. /\ result.kind \in {"all", "truncated"} /\ call.tool = "run_query"
      /\ answer.body = RunQueryOutput(rows)
  BY DEF ToolInv, Answered, Bodies, ReadBody, OK
<1>2. /\ answer.body.rows = rows /\ answer.body.rowCount = Len(rows)
      /\ answer.body.truncated = (result.kind = "truncated")
  <2> HIDE DEF rows
  <2> QED
    BY <1>1 DEF RunQueryOutput, Truncated
<1>3. Frame /\ Len(table.rows) \in Nat
  BY LenProperties DEF ToolInv, Frame, IsTableFor
<1>4. call.maxRows \in Nat /\ cap = call.maxRows
  BY <1>1, CapAssumption DEF ToolInv, Promise, Frame, IsCall, RowCap
<1>5. PICK n \in 0 .. Len(table.rows) :
         /\ result.rows = Stmt!FirstRows(n)
         /\ IF result.kind = "truncated" THEN n = call.maxRows /\ Len(table.rows) > n
                                         ELSE n = Len(table.rows)
  <2>1. CASE result.kind = "truncated"
    <3>1. cap \in 0 .. Len(table.rows) /\ Len(table.rows) > cap
      BY <1>3, <1>4, <2>1 DEF ToolInv, Promise
    <3>2. result.rows = Stmt!FirstRows(cap)
      BY <2>1 DEF ToolInv, Promise
    <3> QED
      BY <1>4, <2>1, <3>1, <3>2
  <2>2. CASE result.kind = "all"
    <3>1. made = Len(table.rows) /\ result.rows = Stmt!FirstRows(made)
      BY <2>2 DEF ToolInv, Promise
    <3> QED
      BY <1>3, <2>2, <3>1
  <2> QED
    BY <1>1, <2>1, <2>2
<1>6. /\ Len(rows) = n /\ DOMAIN rows = 1 .. n
      /\ \A i \in 1 .. n : /\ i \in DOMAIN table.rows
                           /\ rows[i] = [j \in DOMAIN table.rows[i] |->
                                            Decoded(table.rows[i][j])]
  BY <1>3, <1>5, FirstOfTable
<1> HIDE DEF rows
<1>7. ASSUME NEW i \in 1 .. n, NEW j \in DOMAIN table.rows[i],
             table.rows[i][j].number \in (0 - ExactInt) .. ExactInt
      PROVE  rows[i][j] = table.rows[i][j]
  <2>1. rows[i][j] = Decoded(table.rows[i][j])
    BY <1>6
  <2>2. table.rows[i] \in Seq(Cells)
    <3>1. table.rows \in Seq(Seq(Cells))
      BY <1>3 DEF Frame, IsTableFor
    <3> QED
      BY <1>6, <3>1
  <2>3. table.rows[i][j] \in Cells
    BY <2>2
  <2> QED
    BY <1>7, <2>1, <2>3, DecodedExact, WidthAssumption
<1>8. ReadRows = rows
  BY <1>2 DEF ReadRows
<1>9. Len(ReadRows) = answer.body.rowCount
  BY <1>2, <1>8
<1>10. IF answer.body.truncated
       THEN Len(ReadRows) = call.maxRows /\ Len(table.rows) > call.maxRows
       ELSE Len(ReadRows) = Len(table.rows)
  <2>1. CASE result.kind = "truncated"
    BY <1>2, <1>5, <1>6, <1>8, <2>1
  <2>2. CASE result.kind # "truncated"
    BY <1>2, <1>5, <1>6, <1>8, <2>2
  <2> QED
    BY <2>1, <2>2
<1>11. \A i \in DOMAIN ReadRows : \A j \in DOMAIN table.rows[i] :
          table.rows[i][j].number \in (0 - ExactInt) .. ExactInt =>
              ReadRows[i][j] = table.rows[i][j]
  BY <1>6, <1>7, <1>8
<1> QED
  BY <1>9, <1>10, <1>11

(* A read answers with a prefix of the result, says whether it is a proper *)
(* one, and leaves the integers that a float64 holds as they are           *)
(* (runQuery, collect, decode).                                            *)
THEOREM ReadsAreExact == Spec => []ReadAnswerExact
BY ReadFromInv, ToolInvariant, PTL

(* Every node the answer names is one of the table's, in its place.        *)
LEMMA NodeInPlace ==
    ASSUME Frame, call.tool = "get_cluster_info", NEW i \in DOMAIN table.rows, NEW row,
           row = [j \in DOMAIN table.rows[i] |-> Decoded(table.rows[i][j])]
    PROVE  CellAt(row, Col("node_id")) = Named(table.rows[i], "node_id")
<1>1. "node_id" \in ColumnsOf(call.tool) \cap NameColumns
  BY DEF ColumnsOf, NameColumns
<1> QED
  BY <1>1, NameInPlace

LEMMA ClusterFromInv == ToolInv => ClusterAnswersWithInfo
<1> SUFFICES ASSUME ToolInv, call.tool = "get_cluster_info", pc = "answered", info # None
             PROVE  /\ answer.status = "ok"
                    /\ answer.body.info = info
                    /\ Len(answer.body.nodes) \in {0, Len(table.rows)}
                    /\ \A i \in DOMAIN answer.body.nodes :
                          answer.body.nodes[i].nodeId = Named(table.rows[i], "node_id")
  BY DEF ClusterAnswersWithInfo, ToolInv, Answered
<1> DEFINE rows == RowsOf(result.rows)
<1>1. ClusterBody
  BY DEF ToolInv, Answered
<1>2. CASE answer.body.nodes = <<>>
  BY <1>1, <1>2 DEF ClusterBody
<1>3. CASE answer.body.nodes # <<>>
  <2>1. result.kind \in {"all", "truncated"} /\ answer.body.nodes = NodeInfos(rows)
    BY <1>1, <1>3 DEF ClusterBody
  <2>2. Frame /\ Len(table.rows) \in Nat
    BY LenProperties DEF ToolInv, Frame, IsTableFor
  <2>3. /\ Len(rows) = Len(table.rows) /\ DOMAIN rows = 1 .. Len(table.rows)
        /\ \A i \in 1 .. Len(table.rows) :
              /\ i \in DOMAIN table.rows
              /\ rows[i] = [j \in DOMAIN table.rows[i] |-> Decoded(table.rows[i][j])]
    BY <2>1, AllRows
  <2> HIDE DEF rows
  <2>4. /\ DOMAIN NodeInfos(rows) = 1 .. Len(table.rows)
        /\ \A i \in 1 .. Len(table.rows) :
              NodeInfos(rows)[i].nodeId = CellAt(rows[i], Col("node_id"))
    BY <2>3 DEF NodeInfos
  <2>5. Len(NodeInfos(rows)) = Len(table.rows)
    BY <2>2, <2>3, <2>4
  <2>6. \A i \in 1 .. Len(table.rows) :
           NodeInfos(rows)[i].nodeId = Named(table.rows[i], "node_id")
    BY <2>2, <2>3, <2>4, NodeInPlace
  <2> QED
    BY <1>1, <2>1, <2>4, <2>5, <2>6 DEF ClusterBody
<1> QED
  BY <1>2, <1>3

(* Once /v1/info was read the call succeeds, with every node or none       *)
(* (GetClusterInfo, client.go:372).                                        *)
THEOREM ClusterAnswers == Spec => []ClusterAnswersWithInfo
BY ClusterFromInv, ToolInvariant, PTL

-----------------------------------------------------------------------------
(* Metadata. *)

(* The names are the first cells, all of them (firstColumn).               *)
LEMMA FirstCells ==
    ASSUME ToolInv, result.kind \in {"all", "truncated"}, call.tool \in NameTools
    PROVE  FirstColumn(RowsOf(result.rows)) = [i \in DOMAIN table.rows |-> table.rows[i][1]]
<1> DEFINE rows == RowsOf(result.rows)
           Row == {rows[i] : i \in 1 .. Len(rows)}
<1>1. /\ DOMAIN rows = 1 .. Len(rows) /\ DOMAIN table.rows = 1 .. Len(rows)
      /\ rows \in Seq(Row)
      /\ \A i \in 1 .. Len(rows) :
            rows[i] = [j \in DOMAIN table.rows[i] |-> Decoded(table.rows[i][j])]
  BY AllRows DEF NameTools
<1> HIDE DEF rows, Row
<1>2. ASSUME NEW i \in 1 .. Len(rows)
      PROVE  /\ 1 \in DOMAIN rows[i]
             /\ CellAt(rows[i], 1) = table.rows[i][1]
  <2>1. i \in DOMAIN table.rows /\ IsTableFor(call.tool, table)
    BY <1>1 DEF ToolInv, Frame
  <2>2. table.rows[i] # <<>> /\ table.rows[i][1].kind = "string"
    BY <2>1 DEF IsTableFor
  <2>3. table.rows[i] \in Seq(Cells)
    <3>1. table.rows \in Seq(Seq(Cells))
      BY <2>1 DEF IsTableFor
    <3> QED
      BY <2>1, <3>1
  <2>4. 1 \in DOMAIN table.rows[i]
    BY <2>2, <2>3, LenProperties, EmptySeq
  <2>5. 1 \in DOMAIN rows[i] /\ rows[i][1] = Decoded(table.rows[i][1])
    BY <1>1, <2>4
  <2> QED
    BY <2>2, <2>5, TextStays DEF CellAt
<1>3. {i \in DOMAIN rows : rows[i] # <<>>} = 1 .. Len(rows)
  <2>1. DOMAIN <<>> = {}
    OBVIOUS
  <2>2. \A i \in 1 .. Len(rows) : rows[i] # <<>>
    BY <1>2, <2>1
  <2> QED
    BY <1>1, <2>2
<1>4. FirstColumn(rows) = [i \in DOMAIN rows |-> CellAt(rows[i], 1)]
  BY <1>1, <1>3, SelectedAll DEF FirstColumn
<1>5. [i \in DOMAIN rows |-> CellAt(rows[i], 1)] = [i \in DOMAIN table.rows |-> table.rows[i][1]]
  BY <1>1, <1>2
<1> QED
  BY <1>4, <1>5 DEF rows

LEMMA WholeFromInv == ToolInv => ListsAreWhole
<1> SUFFICES ASSUME ToolInv PROVE ListsAreWhole
  OBVIOUS
<1>1. OK(NameTools) => answer.body = [i \in DOMAIN table.rows |-> table.rows[i][1]]
  BY FirstCells DEF ToolInv, Answered, Bodies, MetadataBody, OK
<1>2. ASSUME OK({"describe_table"})
      PROVE  answer.body = [i \in DOMAIN table.rows |->
                               [name |-> Named(table.rows[i], "Column"),
                                type |-> Named(table.rows[i], "Type")]]
  <2> DEFINE rows == RowsOf(result.rows)
  <2>1. /\ result.kind \in {"all", "truncated"} /\ call.tool = "describe_table"
        /\ answer.body = ColumnInfos(rows)
    BY <1>2 DEF ToolInv, Answered, Bodies, MetadataBody, OK, TableTools
  <2>2. /\ DOMAIN rows = 1 .. Len(rows) /\ DOMAIN table.rows = 1 .. Len(rows)
        /\ \A i \in 1 .. Len(rows) :
              rows[i] = [j \in DOMAIN table.rows[i] |-> Decoded(table.rows[i][j])]
    BY <2>1, AllRows
  <2> HIDE DEF rows
  <2>3. {"Column", "Type"} \subseteq ColumnsOf(call.tool) \cap NameColumns
    BY <2>1 DEF ColumnsOf, NameColumns
  <2>4. ASSUME NEW i \in DOMAIN table.rows, NEW name \in {"Column", "Type"}
        PROVE  CellAt(rows[i], Col(name)) = Named(table.rows[i], name)
    BY <2>2, <2>3, NameInPlace DEF ToolInv
  <2> QED
    BY <2>1, <2>2, <2>4 DEF ColumnInfos
<1> QED
  BY <1>1, <1>2 DEF ListsAreWhole

(* A metadata answer is every row the engine has, in its order             *)
(* (firstColumn, DescribeTable).                                           *)
THEOREM ListsWhole == Spec => []ListsAreWhole
BY WholeFromInv, ToolInvariant, PTL

-----------------------------------------------------------------------------
(* Statistics. *)

(* A number that decodes to itself is written as it is. *)
LEMMA NumberIsAsItIs ==
    ASSUME NEW cell, cell.kind = "number", Decoded(cell) = cell
    PROVE  cell # NullCell /\ CellString(Decoded(cell)) = cell
<1>1. NullCell.kind = "null"
  BY DEF NullCell, Cell
<1>2. cell # NullCell
  BY <1>1
<1>3. CellString(cell) = cell
  BY DEF CellString
<1> QED
  BY <1>2, <1>3

(* A whole figure is read as it is, null as no figure, and what no int64   *)
(* holds as what the processor makes of it (parseIntPtr).                  *)
LEMMA FigureIs ==
    ASSUME NEW cell, NEW odd \in OddInts, IsDouble(cell)
    PROVE  FigureTrue(ParseIntPtr(CellString(Decoded(cell)), odd), cell)
<1>1. CASE cell = NullCell
  <2>1. CellString(Decoded(cell)) = Word("")
    BY <1>1 DEF CellString, Decoded, NullCell, Cell
  <2>2. Word("").kind = "string" /\ Word("").word = "" /\ NotFinite.word = "NaN"
    BY DEF Word, NotFinite, Cell
  <2>3. ~ Readable(Word(""))
    BY <2>2 DEF Readable
  <2>4. ~ Measured(cell)
    BY <1>1 DEF Measured, NullCell, Cell
  <2> QED
    BY <1>1, <2>1, <2>3, <2>4 DEF ParseIntPtr, FigureTrue
<1>2. CASE cell = NotFinite
  <2>1. cell.kind = "string" /\ cell # NullCell
    BY <1>2 DEF NotFinite, NullCell, Cell
  <2>2. CellString(Decoded(cell)) = cell /\ ~ Measured(cell)
    BY <2>1 DEF CellString, Decoded, Measured
  <2>3. ParseIntPtr(cell, odd) = Some(odd)
    BY <1>2, <2>1 DEF ParseIntPtr, Readable
  <2> QED
    BY <2>1, <2>2, <2>3 DEF FigureTrue
<1>3. CASE cell.kind = "number" /\ Decoded(cell) = cell
  <2>1. cell # NullCell /\ CellString(Decoded(cell)) = cell
    BY <1>3, NumberIsAsItIs
  <2>2. ParseIntPtr(cell, odd) = IF Measured(cell) THEN Some(cell.number) ELSE Some(odd)
    BY <1>3 DEF ParseIntPtr, Readable, Measured
  <2> QED
    BY <2>1, <2>2 DEF FigureTrue
<1> QED
  BY <1>1, <1>2, <1>3 DEF IsDouble

(* A fraction is read as it is, and null as none (parseFloatPtr).          *)
LEMMA FractionIs ==
    ASSUME NEW cell, IsDouble(cell)
    PROVE  FractionTrue(ParseFloatPtr(CellString(Decoded(cell))), cell)
<1>1. CASE cell = NullCell
  <2>1. CellString(Decoded(cell)) = Word("")
    BY <1>1 DEF CellString, Decoded, NullCell, Cell
  <2>2. Word("").kind = "string" /\ Word("").word = "" /\ NotFinite.word = "NaN"
    BY DEF Word, NotFinite, Cell
  <2>3. ~ Readable(Word(""))
    BY <2>2 DEF Readable
  <2> QED
    BY <1>1, <2>1, <2>3 DEF ParseFloatPtr, FractionTrue
<1>2. CASE cell = NotFinite \/ (cell.kind = "number" /\ Decoded(cell) = cell)
  <2>1. cell # NullCell /\ CellString(Decoded(cell)) = cell
    <3>1. CASE cell = NotFinite
      <4>1. cell.kind = "string" /\ cell # NullCell
        BY <3>1 DEF NotFinite, NullCell, Cell
      <4> QED
        BY <4>1 DEF CellString, Decoded
    <3>2. CASE cell.kind = "number" /\ Decoded(cell) = cell
      BY <3>2, NumberIsAsItIs
    <3> QED
      BY <1>2, <3>1, <3>2
  <2>2. Readable(cell)
    BY <1>2 DEF Readable
  <2> QED
    BY <2>1, <2>2 DEF ParseFloatPtr, FractionTrue
<1> QED
  BY <1>1, <1>2 DEF IsDouble

(* Which rows are the table's is seen, and what the others are about.      *)
LEMMA SummaryIs ==
    ASSUME Frame, call.tool = "get_table_stats", NEW i \in DOMAIN table.rows, NEW row,
           row = [j \in DOMAIN table.rows[i] |-> Decoded(table.rows[i][j])]
    PROVE  /\ IsSummary(row) <=> IsSummaryOf(table, i)
           /\ \A odd \in OddInts :
                 /\ ~ IsSummaryOf(table, i) => ColumnTrue(ColumnStats(row, odd), table.rows[i])
                 /\ FigureTrue(ParseIntPtr(CellAt(row, Col("row_count")), odd),
                               Named(table.rows[i], "row_count"))
<1> DEFINE cell == Named(table.rows[i], "column_name")
           low == Named(table.rows[i], "low_value")
<1>1. FigureColumns \cup {"column_name", "low_value"} \subseteq ColumnsOf(call.tool)
  BY DEF ColumnsOf, FigureColumns
<1>2. /\ cell = NullCell \/ (cell.kind = "string" /\ cell.word # "")
      /\ IsSummaryOf(table, i) <=> cell = NullCell
      /\ \A name \in FigureColumns : IsDouble(Named(table.rows[i], name))
      /\ low = NullCell \/ low.kind = "string"
  BY DEF Frame, IsTableFor, IsSummaryOf, Named
<1>3. CellAt(row, Col("column_name")) = CellString(Decoded(cell))
  BY <1>1, CellInPlace
<1>4. CellAt(row, Col("low_value")) = IF low = NullCell THEN Word("") ELSE low
  <2>1. CellAt(row, Col("low_value")) = CellString(Decoded(low))
    BY <1>1, CellInPlace
  <2> HIDE DEF low
  <2>2. CASE low = NullCell
    BY <2>1, <2>2 DEF CellString, Decoded, NullCell, Cell
  <2>3. CASE low # NullCell
    BY <1>2, <2>1, <2>3, TextStays
  <2> QED
    BY <2>2, <2>3
<1>5. \A name \in FigureColumns : CellAt(row, Col(name)) = CellString(Decoded(Named(table.rows[i], name)))
  BY <1>1, CellInPlace
<1>6. ASSUME NEW odd \in OddInts, NEW name \in FigureColumns
      PROVE  /\ FigureTrue(ParseIntPtr(CellAt(row, Col(name)), odd), Named(table.rows[i], name))
             /\ FractionTrue(ParseFloatPtr(CellAt(row, Col(name))), Named(table.rows[i], name))
  BY <1>2, <1>5, FigureIs, FractionIs
<1> HIDE DEF cell, low
<1>7. IsSummary(row) <=> cell = NullCell
  <2>1. CASE cell = NullCell
    <3>1. CellString(Decoded(cell)) = Word("")
      BY <2>1 DEF CellString, Decoded, NullCell, Cell
    <3> QED
      BY <1>3, <2>1, <3>1 DEF IsSummary
  <2>2. CASE cell # NullCell
    <3>1. CellString(Decoded(cell)) = cell
      BY <1>2, <2>2, TextStays
    <3>2. Word("").word = ""
      BY DEF Word, Cell
    <3> QED
      BY <1>2, <1>3, <2>2, <3>1, <3>2 DEF IsSummary
  <2> QED
    BY <2>1, <2>2
<1>8. ASSUME NEW odd \in OddInts, ~ IsSummaryOf(table, i)
      PROVE  ColumnTrue(ColumnStats(row, odd), table.rows[i])
  <2>1. CellAt(row, Col("column_name")) = cell
    BY <1>2, <1>3, <1>8, TextStays
  <2>2. {"data_size", "distinct_values_count"} \subseteq FigureColumns
    BY DEF FigureColumns
  <2> QED
    BY <1>4, <1>6, <2>1, <2>2 DEF ColumnTrue, ColumnStats, cell, low
<1> QED
  BY <1>2, <1>6, <1>7, <1>8 DEF FigureColumns

(* The row count is that of the table's row, wherever that is.             *)
LEMMA RowCountIs ==
    ASSUME Frame, call.tool = "get_table_stats", NEW odd \in OddInts, NEW rows,
           DOMAIN rows = DOMAIN table.rows,
           \A j \in DOMAIN table.rows :
              rows[j] = [k \in DOMAIN table.rows[j] |-> Decoded(table.rows[j][k])],
           NEW i \in DOMAIN table.rows, IsSummaryOf(table, i)
    PROVE  RowCount(rows, odd) = ParseIntPtr(CellAt(rows[i], Col("row_count")), odd)
<1> DEFINE Count(j) == ParseIntPtr(CellAt(rows[j], Col("row_count")), odd)
           counting == {j \in DOMAIN rows : IsSummary(rows[j]) /\ Count(j) # None}
<1>1. \A j \in DOMAIN table.rows : IsSummary(rows[j]) <=> j = i
  <2>1. \A j \in DOMAIN table.rows : IsSummary(rows[j]) <=> IsSummaryOf(table, j)
    BY SummaryIs
  <2>2. \A j \in DOMAIN table.rows : IsSummaryOf(table, j) => j = i
    BY DEF Frame, IsTableFor
  <2> QED
    BY <2>1, <2>2
<1>2. i \in Nat
  <2>1. table.rows \in Seq(Seq(Cells))
    BY DEF Frame, IsTableFor
  <2> QED
    BY <2>1, LenProperties
<1>3. RowCount(rows, odd) = IF counting = {} THEN None
                            ELSE Count(CHOOSE j \in counting : \A k \in counting : k <= j)
  BY DEF RowCount
<1>4. CASE Count(i) = None
  <2>1. counting = {}
    BY <1>1, <1>4
  <2> QED
    BY <1>3, <1>4, <2>1
<1>5. CASE Count(i) # None
  <2>1. counting = {i}
    BY <1>1, <1>5
  <2>2. (CHOOSE j \in counting : \A k \in counting : k <= j) = i
    BY <1>2, <2>1
  <2> QED
    BY <1>3, <2>1, <2>2
<1> QED
  BY <1>4, <1>5

(* What the loop over the rows makes of them (GetTableStats).              *)
LEMMA StatsAre ==
    ASSUME ToolInv, call.tool = "get_table_stats", result.kind \in {"all", "truncated"},
           NEW odd \in OddInts, NEW stats, stats = TableStats(RowsOf(result.rows), odd)
    PROVE  /\ \E at \in Orders(Len(stats.columns), OfColumns) :
                 \A i \in DOMAIN stats.columns : ColumnTrue(stats.columns[i], table.rows[at[i]])
           /\ \A i \in DOMAIN table.rows \ OfColumns :
                 FigureTrue(stats.rowCount, Named(table.rows[i], "row_count"))
           /\ Encodable(stats) <=> ~ \E i \in OfColumns : Unsayable(i)
<1> DEFINE rows == RowsOf(result.rows)
           named == {i \in DOMAIN rows : ~ IsSummary(rows[i])}
           chosen == Selected(rows, named)
           columns == stats.columns
           count == stats.rowCount
<1>1. Frame
  BY DEF ToolInv
<1>2. /\ DOMAIN rows = 1 .. Len(rows) /\ DOMAIN table.rows = 1 .. Len(rows)
      /\ rows \in Seq({rows[i] : i \in 1 .. Len(rows)})
      /\ \A i \in 1 .. Len(rows) :
            rows[i] = [j \in DOMAIN table.rows[i] |-> Decoded(table.rows[i][j])]
  BY AllRows
<1>3. /\ count = RowCount(rows, odd)
      /\ columns = [i \in DOMAIN chosen |-> ColumnStats(chosen[i], odd)]
  BY DEF TableStats
<1> HIDE DEF rows
<1>4. named = OfColumns
  BY <1>1, <1>2, SummaryIs DEF OfColumns
<1>5. chosen \in Seq({rows[i] : i \in 1 .. Len(rows)}) /\ Keeps(chosen, rows, named)
  BY <1>2, SelectedKeeps
<1>6. PICK at \in Orders(Len(chosen), OfColumns) : \A i \in 1 .. Len(chosen) : chosen[i] = rows[at[i]]
  BY <1>4, <1>5 DEF Keeps
<1>7. Len(chosen) \in Nat /\ DOMAIN chosen = 1 .. Len(chosen)
  BY <1>5, LenProperties
<1> HIDE DEF chosen, named, columns, count
<1>8. /\ DOMAIN columns = 1 .. Len(chosen) /\ Len(columns) = Len(chosen)
      /\ \A i \in 1 .. Len(chosen) : columns[i] = ColumnStats(rows[at[i]], odd)
  <2>1. columns = [i \in 1 .. Len(chosen) |-> columns[i]]
    BY <1>3, <1>7
  <2> QED
    BY <1>3, <1>6, <1>7, <2>1, Listed
<1>9. ASSUME NEW i \in 1 .. Len(chosen)
      PROVE  at[i] \in OfColumns /\ ColumnTrue(columns[i], table.rows[at[i]])
  <2>1. at[i] \in OfColumns
    BY <1>6 DEF Orders
  <2>2. at[i] \in DOMAIN table.rows /\ ~ IsSummaryOf(table, at[i])
    BY <2>1 DEF OfColumns
  <2> DEFINE row == rows[at[i]]
  <2>3. row = [j \in DOMAIN table.rows[at[i]] |-> Decoded(table.rows[at[i]][j])]
    BY <1>2, <2>2
  <2> HIDE DEF row
  <2>4. ColumnTrue(ColumnStats(row, odd), table.rows[at[i]])
    BY <1>1, <2>2, <2>3, SummaryIs
  <2> QED
    BY <1>8, <2>1, <2>4 DEF row
<1>10. ASSUME NEW i \in DOMAIN table.rows \ OfColumns
       PROVE  FigureTrue(count, Named(table.rows[i], "row_count"))
  <2>1. i \in DOMAIN table.rows /\ IsSummaryOf(table, i)
    BY DEF OfColumns
  <2>2. count = ParseIntPtr(CellAt(rows[i], Col("row_count")), odd)
    BY <1>1, <1>2, <1>3, <2>1, RowCountIs
  <2> QED
    BY <1>1, <1>2, <2>1, <2>2, SummaryIs
<1>11. ASSUME NEW i \in 1 .. Len(chosen)
       PROVE  columns[i].distinct = Some(NotFinite) <=> Unsayable(at[i])
  <2>1. columns[i].distinct = IF Named(table.rows[at[i]], "distinct_values_count") = NullCell
                              THEN None ELSE Some(Named(table.rows[at[i]], "distinct_values_count"))
    BY <1>9 DEF ColumnTrue, FractionTrue
  <2>2. NotFinite # NullCell
    BY DEF NotFinite, NullCell, Cell
  <2>3. \A x, y : Some(x) # None /\ (Some(x) = Some(y) => x = y)
    BY DEF Some, None
  <2> QED
    BY <2>1, <2>2, <2>3 DEF Unsayable
<1>12. Encodable(stats) <=> ~ \E i \in OfColumns : Unsayable(i)
  <2>1. Encodable(stats) <=> ~ \E i \in 1 .. Len(chosen) : columns[i].distinct = Some(NotFinite)
    BY <1>8 DEF Encodable, columns
  <2>2. \A k \in OfColumns : \E i \in 1 .. Len(chosen) : at[i] = k
    BY <1>6 DEF Orders
  <2> QED
    BY <1>9, <1>11, <2>1, <2>2
<1> QED
  BY <1>6, <1>8, <1>9, <1>10, <1>12 DEF columns, count

LEMMA StatsFromInv == ToolInv => StatsTrue
<1> SUFFICES ASSUME ToolInv, call.tool = "get_table_stats", answer.status # "none",
                    result.kind \in {"all", "truncated"}
             PROVE  IF \E i \in OfColumns : Unsayable(i)
                    THEN answer.status = "error"
                    ELSE /\ answer.status = "ok"
                         /\ \E at \in Orders(Len(answer.body.columns), OfColumns) :
                                \A i \in DOMAIN answer.body.columns :
                                    ColumnTrue(answer.body.columns[i], table.rows[at[i]])
                         /\ \A i \in DOMAIN table.rows \ OfColumns :
                                FigureTrue(answer.body.rowCount, Named(table.rows[i], "row_count"))
  BY DEF StatsTrue
<1>1. CASE answer.status = "ok"
  <2>1. PICK odd \in OddInts : /\ answer.body = TableStats(RowsOf(result.rows), odd)
                               /\ Encodable(answer.body)
    BY <1>1 DEF ToolInv, Answered, Bodies, MetadataBody, TableTools
  <2> DEFINE stats == answer.body
  <2>2. stats = TableStats(RowsOf(result.rows), odd) /\ Encodable(stats)
    BY <2>1
  <2> HIDE DEF stats
  <2>3. /\ \E at \in Orders(Len(stats.columns), OfColumns) :
              \A i \in DOMAIN stats.columns : ColumnTrue(stats.columns[i], table.rows[at[i]])
        /\ \A i \in DOMAIN table.rows \ OfColumns :
              FigureTrue(stats.rowCount, Named(table.rows[i], "row_count"))
        /\ ~ \E i \in OfColumns : Unsayable(i)
    BY <2>2, StatsAre
  <2> QED
    BY <1>1, <2>3 DEF stats
<1>2. CASE answer.status = "error"
  <2>1. PICK odd \in OddInts : ~ Encodable(TableStats(RowsOf(result.rows), odd))
    BY <1>2 DEF ToolInv, Answered, Unanswerable
  <2> DEFINE stats == TableStats(RowsOf(result.rows), odd)
  <2>2. stats = TableStats(RowsOf(result.rows), odd) /\ ~ Encodable(stats)
    BY <2>1
  <2> HIDE DEF stats
  <2>3. \E i \in OfColumns : Unsayable(i)
    BY <2>2, StatsAre
  <2> QED
    BY <1>2, <2>3
<1> QED
  BY <1>1, <1>2 DEF ToolInv, Answered

(* Each column of a table has a record with its own figures, null as       *)
(* absent and the others the engine's, sizes and counts that no int64      *)
(* holds excepted; the row count is the table's; and only a fraction that  *)
(* no JSON number can say makes the answer fail (GetTableStats).           *)
THEOREM StatsAreTrue == Spec => []StatsTrue
BY StatsFromInv, ToolInvariant, PTL

-----------------------------------------------------------------------------
(* The list of queries. *)

LEMMA SomeValue == \A x : Some(x) # None /\ Some(x)[1] = x
BY DEF Some, None

(* The filter keeps the queries that the caller means (buildFilter,        *)
(* querylist.go:61).                                                       *)
LEMMA MatchesWanted ==
    ASSUME NEW q \in Queries, NEW in \in QueryFilters, ValidFilter(in)
    PROVE  /\ Matches(BuildFilter(in), BasicInfo(q)) <=> Wanted(q, in)
           /\ Item(BasicInfo(q)).queryId = q.id
           /\ Item(BasicInfo(q)).user = KnownUser(q)
<1> DEFINE b == BasicInfo(q)
           f == BuildFilter(in)
<1>1. /\ b.queryId = q.id /\ b.state = q.state
      /\ b.sessionUser = IF q.userIn \in {"sessionUser", "both"} THEN q.user ELSE ""
      /\ b.session = IF q.userIn \in {"session", "both"} THEN Some(q.user) ELSE None
      /\ b.createTime = WriteTime(q.created, q.timeForm, q.offset)
  BY DEF BasicInfo
<1>2. /\ f.state = in.state /\ f.user = in.user
      /\ f.since = ParseEngineTime(in.since) /\ f.until = ParseEngineTime(in.until)
  BY DEF BuildFilter
<1>3. /\ in.since.form \in {"absent", "zoned"} /\ in.until.form \in {"absent", "zoned"}
      /\ in.since.wall \in Int /\ in.since.offset \in Int
      /\ in.until.wall \in Int /\ in.until.offset \in Int
  BY DEF ValidFilter, BadBound, QueryFilters, TimeTexts
<1>4. /\ q.userIn \in {"sessionUser", "session", "both", "nowhere"}
      /\ q.timeForm \in {"zoned", "plain", "absent", "odd"}
      /\ q.created \in Int /\ q.offset \in Int
  BY DEF Queries, TimeForms
<1> HIDE DEF b, f
<1>5. User(b) = KnownUser(q)
  <2>1. CASE q.userIn \in {"sessionUser", "both"} /\ q.user # ""
    BY <1>1, <2>1 DEF User, KnownUser
  <2>2. CASE q.userIn \in {"sessionUser", "both"} /\ q.user = ""
    <3>1. b.sessionUser = "" /\ (b.session = None \/ b.session[1] = "") /\ KnownUser(q) = ""
      <4>1. q.user = "" /\ KnownUser(q) = ""
        BY <2>2 DEF KnownUser
      <4>2. b.sessionUser = ""
        BY <1>1, <4>1
      <4>3. b.session = Some(q.user) \/ b.session = None
        BY <1>1
      <4> QED
        BY <4>1, <4>2, <4>3, SomeValue
    <3> QED
      BY <3>1 DEF User
  <2>3. CASE q.userIn = "session"
    <3>1. b.sessionUser = "" /\ b.session # None /\ b.session[1] = q.user
      <4>1. b.session = Some(q.user)
        BY <1>1, <2>3
      <4>2. b.sessionUser = ""
        BY <1>1, <2>3
      <4> QED
        BY <4>1, <4>2, SomeValue
    <3> QED
      BY <2>3, <3>1 DEF User, KnownUser
  <2>4. CASE q.userIn = "nowhere"
    <3>1. b.sessionUser = "" /\ b.session = None
      BY <1>1, <2>4
    <3> QED
      BY <2>4, <3>1 DEF User, KnownUser
  <2> QED
    BY <1>4, <2>1, <2>2, <2>3, <2>4
<1>6. TimeMatches(f, b.createTime) <=> (q.timeForm \in {"zoned", "plain"} => InRange(q, in))
  <2>0. /\ b.createTime.form = q.timeForm
        /\ q.timeForm = "zoned" => b.createTime.wall - b.createTime.offset = q.created
        /\ q.timeForm = "plain" => b.createTime.wall = q.created
    <3> DEFINE t == b.createTime
    <3>1. t = TimeText(q.timeForm, IF q.timeForm = "zoned" THEN q.created + q.offset ELSE q.created,
                       IF q.timeForm = "zoned" THEN q.offset ELSE 0)
      BY <1>1 DEF WriteTime
    <3>2. /\ t.form = q.timeForm
          /\ t.wall = IF q.timeForm = "zoned" THEN q.created + q.offset ELSE q.created
          /\ t.offset = IF q.timeForm = "zoned" THEN q.offset ELSE 0
      BY <3>1 DEF TimeText
    <3> HIDE DEF t
    <3>3. /\ t.form = q.timeForm
          /\ q.timeForm = "zoned" => t.wall - t.offset = q.created
          /\ q.timeForm = "plain" => t.wall = q.created
      BY <1>4, <3>2
    <3> QED
      BY <3>3 DEF t
  <2>1. q.timeForm \in {"zoned", "plain"} => ParseEngineTime(b.createTime) = Some(q.created)
    BY <2>0 DEF ParseEngineTime
  <2>2. q.timeForm \notin {"zoned", "plain"} => ParseEngineTime(b.createTime) = None
    BY <2>0 DEF ParseEngineTime
  <2>3. /\ in.since.form = "zoned" => f.since = Some(Instant(in.since))
        /\ in.since.form # "zoned" => f.since = None
        /\ in.until.form = "zoned" => f.until = Some(Instant(in.until))
        /\ in.until.form # "zoned" => f.until = None
    BY <1>2, <1>3 DEF ParseEngineTime, Instant
  <2>4. Within(q.created, f) <=> InRange(q, in)
    BY <2>3, SomeValue DEF Within, InRange
  <2> QED
    BY <2>1, <2>2, <2>4, SomeValue DEF TimeMatches
<1>7. Matches(f, b) <=> Wanted(q, in)
  BY <1>1, <1>2, <1>5, <1>6 DEF Matches, Wanted, EqualFold
<1>8. Item(b).queryId = q.id /\ Item(b).user = KnownUser(q)
  BY <1>1, <1>5 DEF Item
<1> QED
  BY <1>7, <1>8 DEF b, f

LEMMA SelectionFromInv == ToolInv => ListingIsSelection
<1> DEFINE told == reply.body
           records == Records(told)
           kept == {i \in DOMAIN records : Matches(BuildFilter(call.filter), records[i])}
           wanted == {i \in DOMAIN told : Wanted(told[i], call.filter)}
           chosen == Selected(records, kept)
           answered == answer.body
<1> SUFFICES ASSUME ToolInv, OK({"list_queries"}), answer.source = "live"
             PROVE  \E at \in Orders(Len(answered), wanted) :
                        \A i \in DOMAIN answered :
                            /\ answered[i].queryId = told[at[i]].id
                            /\ answered[i].user = KnownUser(told[at[i]])
  BY DEF ListingIsSelection
<1>1. /\ ValidFilter(call.filter) /\ call.filter \in QueryFilters
      /\ told \in Seq(Queries)
      /\ answered = [i \in DOMAIN chosen |-> Item(chosen[i])]
  <2>1. call.tool = "list_queries" /\ QueryBody
    BY DEF ToolInv, Answered, Bodies, OK, QueryTools
  <2> QED
    BY <2>1 DEF QueryBody, ToolInv, Memory, Frame, IsCall, QueryListFromLive
<1>2. /\ Len(told) \in Nat /\ DOMAIN told = 1 .. Len(told)
      /\ \A i \in DOMAIN told : told[i] \in Queries
  BY <1>1, LenProperties, ElementOfSeq
<1>3. /\ DOMAIN records = 1 .. Len(told)
      /\ \A i \in 1 .. Len(told) : records[i] = BasicInfo(told[i])
      /\ records = [i \in 1 .. Len(told) |-> records[i]]
  BY <1>2 DEF Records
<1> HIDE DEF told, records
<1>4. kept = wanted
  BY <1>1, <1>2, <1>3, MatchesWanted
<1>5. kept \in SUBSET (1 .. Len(records)) /\ records \in Seq({records[i] : i \in 1 .. Len(told)})
  BY <1>2, <1>3, Listed
<1> HIDE DEF kept
<1>6. chosen \in Seq({records[i] : i \in 1 .. Len(told)}) /\ Keeps(chosen, records, kept)
  BY <1>5, SelectedKeeps
<1>7. PICK at \in Orders(Len(chosen), kept) : \A i \in 1 .. Len(chosen) : chosen[i] = records[at[i]]
  BY <1>6 DEF Keeps
<1>8. Len(chosen) \in Nat /\ DOMAIN chosen = 1 .. Len(chosen)
  BY <1>6, LenProperties
<1> HIDE DEF chosen, wanted, answered
<1>9. /\ DOMAIN answered = 1 .. Len(chosen) /\ Len(answered) = Len(chosen)
      /\ \A i \in 1 .. Len(chosen) : answered[i] = Item(records[at[i]])
  <2>1. answered = [i \in 1 .. Len(chosen) |-> answered[i]]
    BY <1>1, <1>8
  <2> QED
    BY <1>1, <1>7, <1>8, <2>1, Listed
<1>10. ASSUME NEW i \in 1 .. Len(chosen)
       PROVE  /\ answered[i].queryId = told[at[i]].id
              /\ answered[i].user = KnownUser(told[at[i]])
  <2>1. at[i] \in kept
    BY <1>7 DEF Orders
  <2>2. at[i] \in 1 .. Len(told)
    BY <1>3, <2>1 DEF kept
  <2>3. answered[i] = Item(BasicInfo(told[at[i]]))
    BY <1>3, <1>9, <2>2
  <2> QED
    BY <1>1, <1>2, <2>2, <2>3, MatchesWanted
<1> QED
  BY <1>4, <1>7, <1>9, <1>10

(* The listing is the caller's selection, in order (QueryListFromLive).    *)
THEOREM ListingSelects == Spec => []ListingIsSelection
BY SelectionFromInv, ToolInvariant, PTL

-----------------------------------------------------------------------------
(* The summary of a query. *)

(* What is read of a figure is near what is known of it.                   *)
LEMMA FigureNear ==
    ASSUME NEW units, IsUnits(units), NEW figure \in Figures
    PROVE  LET read == Quantity(Write(figure.amount, units, figure.form), units)
               amount == KnownAmount(figure)
               unit == Precision(amount, units)
           IN  /\ read \in Nat /\ amount \in Nat /\ unit \in Nat \ {0}
               /\ 2 * (read - 100 * amount) <= unit
               /\ 2 * (100 * amount - read) <= unit
               /\ amount = 0 => read = 0
               /\ amount > 0 => read >= 100
<1> DEFINE read == Quantity(Write(figure.amount, units, figure.form), units)
           amount == KnownAmount(figure)
           unit == Precision(amount, units)
<1>1. figure.amount \in Nat /\ figure.form \in Forms
  BY DEF Figures
<1>2. CASE figure.form = "succinct"
  BY <1>1, <1>2, ReadNear DEF KnownAmount, Known
<1>3. CASE figure.form # "succinct"
  <2>1. amount = 0 /\ read = 0
    BY <1>1, <1>3, UnknownReadsZero DEF KnownAmount, Known
  <2>2. Precision(0, units) \in Nat \ {0}
    <3>1. 0 \in Nat
      OBVIOUS
    <3> QED
      BY <3>1, ReadNear
  <2> HIDE DEF read, amount
  <2>3. unit \in Nat \ {0}
    BY <2>1, <2>2
  <2> QED
    BY <2>1, <2>3 DEF read, amount
<1> QED
  BY <1>2, <1>3

(* A duration, and a size that may lose a fraction of a byte, as reported. *)
LEMMA DurationNear ==
    ASSUME NEW figure \in Figures
    PROVE  Near(Millis(Duration(figure)), [figure EXCEPT !.amount = KnownAmount(figure)],
                DurationUnits)
<1> DEFINE read == Millis(Duration(figure))
           known == [figure EXCEPT !.amount = KnownAmount(figure)]
           unit == Precision(KnownAmount(figure), DurationUnits)
<1>1. known.amount = KnownAmount(figure)
  BY DEF Figures
<1>2. read = Quantity(Write(figure.amount, DurationUnits, figure.form), DurationUnits)
  BY DEF Millis, Duration
<1> HIDE DEF read, known
<1>3. /\ read \in Nat /\ KnownAmount(figure) \in Nat /\ unit \in Nat \ {0}
      /\ 2 * (read - 100 * KnownAmount(figure)) <= unit
      /\ 2 * (100 * KnownAmount(figure) - read) <= unit
  BY <1>2, UnitsAreUnits, FigureNear
<1> HIDE DEF unit
<1>4. Near(read, known, DurationUnits)
  BY <1>1, <1>3 DEF Near, unit
<1> QED
  BY <1>4 DEF read, known

LEMMA SizeNear ==
    ASSUME NEW figure \in Figures
    PROVE  /\ NearSize(BytesOf(Size(figure)), [figure EXCEPT !.amount = KnownAmount(figure)])
           /\ BytesOf(Size(figure)) > 0 <=> KnownAmount(figure) > 0
<1> DEFINE bytes == BytesOf(Size(figure))
           read == Quantity(Size(figure), SizeUnits)
           known == [figure EXCEPT !.amount = KnownAmount(figure)]
           amount == KnownAmount(figure)
           unit == Precision(amount, SizeUnits)
<1>1. known.amount = amount
  BY DEF Figures
<1>2. read = Quantity(Write(figure.amount, SizeUnits, figure.form), SizeUnits)
  BY DEF Size
<1>3. bytes = read \div 100
  BY DEF BytesOf
<1> HIDE DEF bytes, read, known
<1>4. /\ read \in Nat /\ amount \in Nat /\ unit \in Nat \ {0}
      /\ 2 * (read - 100 * amount) <= unit
      /\ 2 * (100 * amount - read) <= unit
      /\ amount = 0 => read = 0
      /\ amount > 0 => read >= 100
  BY <1>2, UnitsAreUnits, FigureNear
<1> HIDE DEF amount, unit
<1>5. bytes \in Nat /\ bytes * 100 <= read /\ read < bytes * 100 + 100
  BY <1>3, <1>4
<1>6. NearSize(bytes, known)
  BY <1>1, <1>4, <1>5 DEF NearSize, unit
<1>7. bytes > 0 <=> amount > 0
  BY <1>4, <1>5
<1> QED
  BY <1>6, <1>7 DEF bytes, known, amount

(* A failure is told by its code or its message, if it has either.         *)
LEMMA ErrorTold ==
    ASSUME NEW d, {d.errorCode, d.failure} \subseteq Seq(STRING),
           Len(d.errorCode) <= 1, Len(d.failure) <= 1
    PROVE  /\ ErrorOf(d) = None <=> d.errorCode = None /\ d.failure = None
           /\ \A c \in {"errorCode", "failure"} :
                 ErrorOf(d) = Some("") => d[c] \in {None, Some("")}
<1> DEFINE code == d.errorCode
           failure == d.failure
           named == IF code = None THEN "" ELSE code[1]
           told == IF named = "" /\ failure # None THEN failure[1] ELSE named
<1>1. \A s \in Seq(STRING) : Len(s) <= 1 => s = None \/ s = Some(s[1])
  <2> SUFFICES ASSUME NEW s \in Seq(STRING), Len(s) <= 1, s # None PROVE s = Some(s[1])
    OBVIOUS
  <2>1. \A n \in Nat \ {0} : n <= 1 => n = 1
    OBVIOUS
  <2>2. Len(s) = 1
    <3>1. Len(s) \in Nat \ {0}
      BY EmptySeq DEF None
    <3> QED
      BY <2>1, <3>1
  <2>3. <<s[1]>> \in Seq(STRING) /\ Len(<<s[1]>>) = 1 /\ <<s[1]>>[1] = s[1]
    <3>1. s[1] \in STRING
      BY <2>2, ElementOfSeq
    <3> QED
      BY <3>1
  <2>4. s = <<s[1]>>
    BY <2>2, <2>3, SeqEqual
  <2> QED
    BY <2>4 DEF Some
<1>2. (code = None \/ code = Some(code[1])) /\ (failure = None \/ failure = Some(failure[1]))
  BY <1>1
<1>3. ErrorOf(d) = IF code = None /\ failure = None THEN None ELSE Some(told)
  BY DEF ErrorOf
<1>4. told = "" => named = "" /\ (failure = None \/ failure[1] = "")
  OBVIOUS
<1>5. ErrorOf(d) = None <=> code = None /\ failure = None
  BY <1>3, SomeValue
<1>6. ASSUME ErrorOf(d) = Some("") PROVE code \in {None, Some("")} /\ failure \in {None, Some("")}
  <2>1. told = ""
    <3>1. ErrorOf(d) = Some(told)
      <4> HIDE DEF told
      <4> QED
        BY <1>3, <1>6, SomeValue
    <3> HIDE DEF told
    <3>2. Some(told)[1] = told /\ Some("")[1] = ""
      BY SomeValue
    <3> QED
      BY <1>6, <3>1, <3>2
  <2>2. code = None \/ code[1] = ""
    BY <1>4, <2>1
  <2> QED
    BY <1>2, <1>4, <2>1, <2>2
<1>7. d["errorCode"] = code /\ d["failure"] = failure
  OBVIOUS
<1> QED
  BY <1>5, <1>6, <1>7

(* A detail is what the normalizer makes of the document in the reply.     *)
LEMMA DetailIs ==
    ASSUME ToolInv, Detailed
    PROVE  /\ answer.body = QueryDetailFromLive(reply.body, RawFragment(reply.body))
           /\ IsDocument(reply.body)
<1>1. call.tool = "get_query" /\ QueryBody
  BY DEF ToolInv, Answered, Bodies, Detailed, OK, QueryTools
<1> QED
  BY <1>1 DEF QueryBody, ToolInv, Memory

LEMMA SummaryFromInv == ToolInv => SummaryNearTruth
<1> DEFINE summary == answer.body.summary
           d == reply.body
           peak == IF KnownAmount(d.peak) > 0 THEN d.peak ELSE d.peakUser
<1> SUFFICES ASSUME ToolInv, Detailed
             PROVE  /\ Near(summary.cpu, [d.cpu EXCEPT !.amount = KnownAmount(d.cpu)], DurationUnits)
                    /\ NearSize(summary.scanned, [d.scanned EXCEPT !.amount = KnownAmount(d.scanned)])
                    /\ NearSize(summary.peak, [peak EXCEPT !.amount = KnownAmount(peak)])
                    /\ summary.error = None <=> d.errorCode = None /\ d.failure = None
                    /\ \A c \in {"errorCode", "failure"} :
                          summary.error = Some("") => d[c] \in {None, Some("")}
  BY DEF SummaryNearTruth
<1>1. answer.body = QueryDetailFromLive(d, RawFragment(d)) /\ IsDocument(d)
  BY DetailIs
<1>2. summary = Summary(d)
  BY <1>1 DEF QueryDetailFromLive
<1> HIDE DEF summary, d
<1>3. /\ summary.cpu = Millis(Duration(d.cpu))
      /\ summary.scanned = BytesOf(Size(d.scanned))
      /\ summary.peak = PeakMemory(d)
      /\ summary.error = ErrorOf(d)
  BY <1>2 DEF Summary
<1>4. /\ {d.cpu, d.scanned, d.peak, d.peakUser} \subseteq Figures
      /\ {d.errorCode, d.failure} \subseteq Seq(STRING)
      /\ Len(d.errorCode) <= 1 /\ Len(d.failure) <= 1
  BY <1>1 DEF IsDocument
<1>5. summary.peak = BytesOf(Size(peak)) /\ peak \in Figures
  BY <1>3, <1>4, SizeNear DEF PeakMemory
<1> HIDE DEF peak
<1>6. Near(summary.cpu, [d.cpu EXCEPT !.amount = KnownAmount(d.cpu)], DurationUnits)
  BY <1>3, <1>4, DurationNear
<1>7. NearSize(summary.scanned, [d.scanned EXCEPT !.amount = KnownAmount(d.scanned)])
  BY <1>3, <1>4, SizeNear
<1>8. NearSize(summary.peak, [peak EXCEPT !.amount = KnownAmount(peak)])
  BY <1>5, SizeNear
<1> QED
  BY <1>3, <1>4, <1>6, <1>7, <1>8, ErrorTold

(* Amounts are the engine's up to rounding, and failures are told          *)
(* (summaryFromLive, errorOf).                                             *)
THEOREM SummaryIsNear == Spec => []SummaryNearTruth
BY SummaryFromInv, ToolInvariant, PTL

-----------------------------------------------------------------------------
(* The stages of a document, each once and in document order.              *)
LEMMA StagesListed ==
    ASSUME NEW d, IsDocument(d)
    PROVE  LET stages == StagesFromLive(d)
           IN  /\ ListsInOrder([i \in DOMAIN stages |-> stages[i].stage], d.stages)
               /\ Len(stages) = Cardinality(d.stages)
<1> DEFINE t == d.stages
           order == Walk(t)
           n == Len(order)
           stages == StagesFromLive(d)
           ids == [i \in DOMAIN stages |-> stages[i].stage]
<1>1. order \in Seq(t) /\ ListsInOrder(order, t) /\ IsTree(t)
  BY WalkLists DEF IsDocument
<1> HIDE DEF order
<1>2. n \in Nat /\ DOMAIN order = 1 .. n /\ \A i \in 1 .. n : order[i] \in t
  BY <1>1, LenProperties, ElementOfSeq
<1> HIDE DEF n
<1>3. stages = [i \in 1 .. n |-> [stage |-> order[i], cpu |-> Millis(Duration(d.stageCpu[order[i]]))]]
  BY <1>2 DEF StagesFromLive, order
<1> HIDE DEF stages
<1>4. DOMAIN stages = 1 .. n /\ \A i \in 1 .. n : stages[i].stage = order[i]
  BY <1>3
<1>5. Len(stages) = n
  <2>1. stages = [i \in 1 .. n |-> stages[i]]
    BY <1>3
  <2> QED
    BY <1>2, <2>1, Listed
<1>6. ids = order
  <2>1. ids = [i \in 1 .. n |-> ids[i]] /\ \A i \in 1 .. n : ids[i] = order[i]
    BY <1>4
  <2>2. order = [i \in 1 .. n |-> order[i]]
    BY <1>1, <1>2, SeqDef
  <2> HIDE DEF ids
  <2> QED
    BY <2>1, <2>2
<1>7. n = Cardinality(t)
  <2>1. /\ \A i, j \in 1 .. n : i < j <=> Before(order[i], order[j])
        /\ \A p \in t : \E i \in 1 .. n : order[i] = p
    BY <1>1, <1>2 DEF ListsInOrder
  <2>2. ASSUME NEW i \in 1 .. n, NEW j \in 1 .. n, order[i] = order[j] PROVE i = j
    <3>1. order[i] \in Nodes
      BY <1>1, <1>2, PlaceFacts
    <3>2. ~ Before(order[i], order[i])
      BY <3>1, BeforeOneWay
    <3>3. ~ i < j /\ ~ j < i
      BY <2>1, <2>2, <3>2
    <3> QED
      BY <1>2, <3>3
  <2>3. order \in Bijection(1 .. n, t)
    <3>1. order \in [1 .. n -> t]
      BY <1>1, <1>2, SeqDef
    <3> QED
      BY <2>1, <2>2, <3>1 DEF Bijection, Injection, IsInjective, Surjection
  <2>4. ExistsBijection(1 .. n, t)
    BY <2>3 DEF ExistsBijection
  <2>5. Cardinality(1 .. n) = n /\ IsFiniteSet(1 .. n)
    BY <1>2, FS_Interval
  <2> QED
    BY <1>1, <2>4, <2>5, FS_Bijection
<1> QED
  BY <1>1, <1>5, <1>6, <1>7 DEF stages

(* The raw fragment tells of the same query as the detail.                 *)
LEMMA RawFromInv == ToolInv => RawIsTheDetail
<1> DEFINE d == reply.body
<1> SUFFICES ASSUME ToolInv, Detailed
             PROVE  IF call.raw
                    THEN /\ answer.body.raw # None
                         /\ answer.body.raw[1].state = answer.body.summary.state
                         /\ Len(answer.body.raw[1].operators) = Len(answer.body.operators)
                         /\ Cardinality(answer.body.raw[1].stages) = Len(answer.body.stages)
                    ELSE answer.body.raw = None
  BY DEF RawIsTheDetail
<1>1. answer.body = QueryDetailFromLive(d, RawFragment(d)) /\ IsDocument(d)
  BY DetailIs
<1>2. /\ answer.body.raw = IF call.raw THEN Some(d) ELSE None
      /\ answer.body.summary.state = d.state
      /\ answer.body.operators = OperatorsFromLive(d)
      /\ answer.body.stages = StagesFromLive(d)
  BY <1>1 DEF QueryDetailFromLive, RawFragment, Summary
<1>3. Len(OperatorsFromLive(d)) = Len(d.operators)
  <2> DEFINE n == Len(d.operators)
             out == OperatorsFromLive(d)
  <2>1. n \in Nat /\ DOMAIN d.operators = 1 .. n
    BY <1>1, LenProperties DEF IsDocument
  <2> HIDE DEF n
  <2>2. out = [i \in 1 .. n |-> out[i]]
    BY <2>1 DEF OperatorsFromLive
  <2> HIDE DEF out
  <2>3. Len(out) = n
    BY <2>1, <2>2, Listed
  <2> QED
    BY <2>3 DEF n, out
<1>4. Len(StagesFromLive(d)) = Cardinality(d.stages)
  BY <1>1, StagesListed
<1> HIDE DEF d
<1> QED
  BY <1>2, <1>3, <1>4, SomeValue

(* What is asked for in the raw is what the detail beside it tells of      *)
(* (getQuery).                                                             *)
THEOREM RawIsDetail == Spec => []RawIsTheDetail
BY RawFromInv, ToolInvariant, PTL

LEMMA StagesFromInv == ASSUME ToolInv, Detailed PROVE StagesInOrder
<1>1. IsDocument(reply.body) /\ answer.body.stages = StagesFromLive(reply.body)
  BY DetailIs DEF QueryDetailFromLive
<1> QED
  BY <1>1, StagesListed DEF StagesInOrder, StageIds

LEMMA PlanFromInv == ASSUME ToolInv, Detailed PROVE PlanRebuilds
<1> DEFINE plan == answer.body.plan
           d == reply.body
           n == Len(plan)
<1>1. IsDocument(d) /\ plan = PlanFromLive(d)
  BY DetailIs DEF QueryDetailFromLive
<1>2. plan \in Seq(PlacedNodes) /\ \A p \in d.stages : Tells(plan, p, TreeOf(d.plan[p]))
  BY <1>1, PlansTell
<1> HIDE DEF plan, d
<1>3. n \in Nat /\ DOMAIN plan = 1 .. n /\ \A i \in 1 .. n : plan[i] \in PlacedNodes
  BY <1>2, LenProperties, ElementOfSeq
<1>4. \A i \in 1 .. n : plan[i].parent = IF plan[i].id = Root THEN None ELSE Some(Front(plan[i].id))
  BY <1>3 DEF PlacedNodes, UnderParent
<1>5. ASSUME NEW p \in d.stages
      PROVE  ListsInOrder([i \in {i \in 1 .. n : plan[i].stage = p} |-> plan[i].id], TreeOf(d.plan[p]))
  <2> DEFINE nodes == {i \in 1 .. n : plan[i].stage = p}
             ids == [i \in nodes |-> plan[i].id]
             X == TreeOf(d.plan[p])
  <2>1. /\ \A i, j \in 1 .. n : plan[i].stage = p /\ plan[j].stage = p =>
                                  (i < j <=> Before(plan[i].id, plan[j].id))
        /\ \A i \in 1 .. n : plan[i].stage = p => plan[i].id \in X
        /\ \A x \in X : \E i \in 1 .. n : plan[i].stage = p /\ plan[i].id = x
    BY <1>2 DEF Tells
  <2> HIDE DEF X
  <2>2. \A i, j \in nodes : i < j <=> Before(ids[i], ids[j])
    BY <2>1
  <2>3. {ids[i] : i \in nodes} = X
    BY <2>1
  <2>4. DOMAIN ids = nodes
    OBVIOUS
  <2> HIDE DEF nodes, ids
  <2>5. ListsInOrder(ids, X)
    BY <2>2, <2>3, <2>4 DEF ListsInOrder
  <2> QED
    BY <2>5 DEF ids, nodes, X
<1> QED
  BY <1>3, <1>4, <1>5 DEF PlanRebuilds, TreeOf, plan, d

LEMMA ElementsOfBoth ==
    ASSUME NEW S, NEW s \in Seq(S), NEW t \in Seq(S)
    PROVE  s \o t \in Seq(S) /\ ToSet(s \o t) = ToSet(s) \cup ToSet(t)
<1> DEFINE m == Len(s)
           n == Len(t)
           all == s \o t
<1>1. /\ m \in Nat /\ n \in Nat /\ DOMAIN s = 1 .. m /\ DOMAIN t = 1 .. n
      /\ all \in Seq(S) /\ DOMAIN all = 1 .. m + n
      /\ \A i \in 1 .. m + n : all[i] = IF i <= m THEN s[i] ELSE t[i - m]
  BY ConcatProperties, LenProperties
<1> HIDE DEF m, n, all
<1>2. \A i \in 1 .. m : i \in 1 .. m + n /\ all[i] = s[i]
  BY <1>1
<1>3. \A i \in 1 .. n : i + m \in 1 .. m + n /\ all[i + m] = t[i]
  BY <1>1
<1>4. ASSUME NEW i \in 1 .. m + n
      PROVE  (i \in 1 .. m /\ all[i] = s[i]) \/ (i - m \in 1 .. n /\ all[i] = t[i - m])
  BY <1>1
<1>5. ToSet(s) = {s[i] : i \in 1 .. m} /\ ToSet(t) = {t[i] : i \in 1 .. n}
      /\ ToSet(all) = {all[i] : i \in 1 .. m + n}
  BY <1>1 DEF ToSet
<1>6. ToSet(all) \subseteq ToSet(s) \cup ToSet(t)
  BY <1>4, <1>5
<1>7. ToSet(s) \subseteq ToSet(all)
  BY <1>2, <1>5
<1>8. ToSet(t) \subseteq ToSet(all)
  BY <1>3, <1>5
<1> QED
  BY <1>1, <1>6, <1>7, <1>8 DEF all

LEMMA SectionsFromInv == ASSUME ToolInv, Detailed PROVE SectionsTell
<1> DEFINE d == reply.body
           Names == {"summary", "stages", "plan", "operators"}
           Section(list, name) == IF list # <<>> THEN <<name>> ELSE <<>>
           a == Section(StagesFromLive(d), "stages")
           b == Section(PlanFromLive(d), "plan")
           c == Section(OperatorsFromLive(d), "operators")
<1>1. /\ answer.body.sections = Sections(d)
      /\ answer.body["stages"] = StagesFromLive(d)
      /\ answer.body["plan"] = PlanFromLive(d)
      /\ answer.body["operators"] = OperatorsFromLive(d)
  BY DetailIs DEF QueryDetailFromLive
<1>2. Sections(d) = <<"summary">> \o a \o b \o c
  BY DEF Sections
<1>3. \A x : ToSet(<<x>>) = {x} /\ ToSet(<<>>) = {}
  BY DEF ToSet
<1>4. ASSUME NEW list, NEW name \in Names
      PROVE  /\ Section(list, name) \in Seq(Names)
             /\ ToSet(Section(list, name)) = {s \in {name} : list # <<>>}
  <2>1. <<name>> \in Seq(Names) /\ <<>> \in Seq(Names)
    BY <1>4
  <2> HIDE DEF Names
  <2>2. CASE list # <<>>
    BY <1>3, <2>1, <2>2
  <2>3. CASE list = <<>>
    BY <1>3, <2>1, <2>3
  <2> QED
    BY <2>2, <2>3
<1> DEFINE A == {s \in {"stages"} : StagesFromLive(d) # <<>>}
           B == {s \in {"plan"} : PlanFromLive(d) # <<>>}
           C == {s \in {"operators"} : OperatorsFromLive(d) # <<>>}
           first == <<"summary">>
<1>5. /\ first \in Seq(Names) /\ ToSet(first) = {"summary"}
      /\ a \in Seq(Names) /\ ToSet(a) = A
      /\ b \in Seq(Names) /\ ToSet(b) = B
      /\ c \in Seq(Names) /\ ToSet(c) = C
  <2>1. first \in Seq(Names) /\ ToSet(first) = {"summary"}
    BY <1>3
  <2> HIDE DEF Section, first
  <2> QED
    BY <1>4, <2>1
<1> HIDE DEF a, b, c, first, Names, A, B, C
<1>6. ToSet(first \o a \o b \o c) = {"summary"} \cup A \cup B \cup C
  <2> DEFINE two == first \o a
             three == two \o b
  <2>1. two \in Seq(Names) /\ ToSet(two) = {"summary"} \cup A
    BY <1>5, ElementsOfBoth
  <2>2. three \in Seq(Names) /\ ToSet(three) = ToSet(two) \cup B
    <3> HIDE DEF two
    <3> QED
      BY <1>5, <2>1, ElementsOfBoth
  <2>3. ToSet(three \o c) = ToSet(three) \cup C
    <3> HIDE DEF three
    <3> QED
      BY <1>5, <2>2, ElementsOfBoth
  <2> QED
    BY <2>1, <2>2, <2>3
<1>7. A \cup B \cup C = {s \in {"stages", "plan", "operators"} : answer.body[s] # <<>>}
  BY <1>1 DEF A, B, C
<1> QED
  BY <1>1, <1>2, <1>6, <1>7 DEF SectionsTell, first

(* The flat lists of the detail have every stage once in document order    *)
(* and every plan node with its parent, so that each plan can be rebuilt,  *)
(* and the detail says which lists it has (stagesFromLive, flattenPlan,    *)
(* QueryDetailFromLive).                                                   *)
THEOREM DocumentIsListed == Spec => []DetailListsDocument
<1>1. ToolInv => DetailListsDocument
  BY StagesFromInv, PlanFromInv, SectionsFromInv DEF DetailListsDocument
<1> QED
  BY <1>1, ToolInvariant, PTL

================================================================================
