# presto-mcp in TLA+

presto-mcp serves read-only MCP tools over Presto and Trino engines. This
directory models the parts of it whose correctness depends on order, failure,
time or configuration, checks them with TLC on small instances and proves the
central properties with TLAPS for every value of the constants. `PROJECT.json`
is the index: components, runs, mutants, the source lines every definition
stands for, findings, hazards and theorems.

Run a check with `tlc -config <cfg> <module>` (the table in "Runs" pairs them),
a proof with `tlapm <module>Proofs.tla`.

## Inventory

| Part | State it keeps | Operations | Interacts with |
|---|---|---|---|
| statement client, `internal/presto/client.go`, `readquery.go` | none across calls; per call: gathered rows and columns, the open request, the resolved credential | `RunReadQuery`, `runStatement`, `collect`, `do`, `cancelStatement`; on top of them the metadata tools' methods, `getJSON`, `GetClusterInfo`, `GetTableStats`, `ListQueries`, `GetQueryRaw` | coordinator over HTTP, credential provider, the caller's context |
| read-only guard, `readquery.go` | none (pure) | `ValidateReadOnly` and its scanners | statement client |
| tool handlers, `internal/tools` | none | ten tools, `callerMiddleware`, `queryTimeout`, `buildFilter` | MCP SDK, registry, client, normalisation |
| configuration, `internal/config` | the configuration, immutable after load | `applyDefaults`, `Validate` | registry, server |
| credentials, `internal/credential` | static: the secret as it was at the start; passthrough: the fallback user | `NewStatic`, `NewBasic`, `Resolve`, `DefaultResolver` | environment, files, request context |
| registry, `internal/registry` | engines in order and by id, immutable after `New` | `New`, `Get`, `List` | client, credentials, history |
| dialect, `internal/presto/dialect.go` | none | `dialectFor`, `apply` | statement client |
| HTTP server, `internal/server`, `cmd/presto-mcp` | listener, serve goroutine, error channel, shutdown context | `runHTTP`, `serveHTTP`, `newHTTPHandler`, `tlsConfig` | net/http, signals |
| edge, `internal/server/edgeauth.go`, `http.go` | the public key | `originGuard`, `verifyRS256` | SDK's bearer wrapper, middleware |
| query info and normalisation, `queryinfo.go`, `parse.go`, `internal/normalize` | none (pure) | decoding, unit parsing, `QueryListFromLive`, `QueryDetailFromLive` | tool handlers |
| history, `internal/history` | none: an interface without an implementation | | registry, tool handlers |

What is hard here, and what makes each part correct:

- **Statement client.** The coordinator works on its own, drops a page when the
  next is asked for, may fail, may page for ever; requests and replies are lost,
  late or repeated; the context may end at any point. Correct means: an answer
  is the whole result or exactly its first `max_rows` rows and says which; a
  statement nobody waits for is freed when that is possible; a read returns.
- **Timeouts.** Three timers (query, request, DELETE) and an integer product.
  Correct means: the call ends by its limit, is not given up early, and gets the
  time it was promised.
- **HTTP server.** `select` between a signal and a failing accept loop while a
  second goroutine sends its result, then a drain against a grace period and
  streams that never end. Correct means: a clean exit cuts nothing, a signal
  always stops the process, no goroutine is left blocked.
- **Configuration to registry.** Defaults feed validation, validation feeds the
  factories, and each lists the modes and schemes again. Correct means: what is
  accepted can be built, no password goes over http, every engine is reachable.
- **Identity.** Callers share clients and providers, tokens expire and secrets
  rotate while statements run. Correct means: an engine hears the caller it
  serves, an unproven user name never reaches it, a statement keeps one identity.
- **Read-only guard.** Comments, quotes, options and separators at the edges of
  the text. Correct means: it reads a text as a lexer does. It does not
  everywhere: where the two part is a named exception.
- **Tool handlers.** One call chains a lookup, one or two requests and a
  normalisation; the second request of `get_cluster_info` may fail after the
  first has answered, `get_query` shows one document in two forms, names from the
  caller go into SQL text, and results pass through float64. Correct means: one
  engine is asked, in the caller's words; a metadata answer is whole, a read says
  where it was cut; what was read is not lost to what then fails. An id goes into
  a URL as it is, which is a named exception.
- **Query info and normalisation.** Unit strings and times that do not parse,
  partial data, trees flattened into lists. Correct means: absent stays absent,
  filters keep what they should, the list of a tree has each of its nodes once and
  in order, a plan's with their parents, an amount is the engine's up to the
  rounding of its text.

## Modules

| Module | Models | State and actions |
|---|---|---|
| `StatementClient` | one call of `collect` with `cancelStatement` against a coordinator | `pc`, `cap`, `req`, `rows`, `cols`, `outcome` are the locals of `collect`; `onWire` and `reply` the transport; `stmt` and `page` the coordinator. One action per way through the loop body: `FollowNext`, `Finish`, `TruncateAtCap`, `AbortUncancelled`, `RequestFails`; the two callers are `StartRead` and `StartMetadata` |
| `BoundedRead` | what a call promises, without the protocol | the rows made, and one answer: an error, everything, or the first `cap` rows |
| `CallDeadline` | the clock of a call | ticks; the timers as they count down (`left`, `wait`) and what was spent (`spent`, `quiet`); `QueryTimeout` with the wrapped product |
| `ServerLifecycle` | `serveHTTP` and the process | `server` is where `serveHTTP` is, `accepting` and `serveErr` the goroutine and its channel, `grace` the shutdown context, `request` every client's request |
| `ServingProcess` | one tool call inside that process | INSTANCEs of `ServerLifecycle` and `StatementClient`; the handler steps only while the process lives, and the answer to the request is written when it returns |
| `ReadOnlyGuard` | `ValidateReadOnly`, scanner by scanner | `text` grows by a symbol per step, the record `lexer` is how far a reference lexer understands it, and `astray` where the code has taken the text otherwise; the code's functions are operators on a text and an index, their loops a recursive function on the indices (`Loop`) |
| `Startup` | `Parse`, `registry.New`, `Run` | `cfg` goes through defaults and validation, `built` grows engine by engine, `secret` is what references resolve to |
| `CallerIdentity` | edge, middleware, providers, headers | extends `Startup`; per caller the admitted header, the resolved credential and the headers sent |
| `ToolCalls` | one call of any of the ten tools, from its arguments to its answer | `call` is the input, `asked` the requests sent, `reply` and `info` what came back for the GETs, `answer` what the caller gets; the statement's five variables are those of `BoundedRead`. `RefuseCall`, `ListEngines`, `AskHistory`, `SendGet`, `BeginStatement`, `ReadInfo`, `Submit` and an `Answer...` per kind of answer are the handlers; `Proceed` lets the coordinator's memory go on changing under them |
| `QueryList` | `buildFilter`, `QueryListFromLive` | operators: the filter, the coordinator's records, and `Wanted`, what a caller who knows the queries would select |
| `QueryDetail` | `QueryDetailFromLive` over a document | operators: the walks over stages, operators and plan as recursive functions of a place (and, in a plan, of the parent the walk is under), the summary, the sections; what a list of a tree has to satisfy |
| `Selection` | the loops that keep some elements of a list and append them to another | `Selected`, used by the listing and by the readers of node and statistics tables |
| `SqlNames` | `quoteIdent`, `fqTable`, the URL of `GetQueryRaw` | a name or an id is a sequence of characters; the engine's reader of quoted names takes one character after the other, the coordinator's reader of a path takes for the id what comes before a mark that ends the segment |
| `EngineText` | unit parsing, time parsing, cells of a statement | operators: what the engine writes and what the client reads, with the rounding of both |

`ToolCalls` extends the five modules below it, and takes a statement as what
`StatementClient` is shown to keep: the promise of `BoundedRead`. `QueryList` and
`QueryDetail` hold no state of their own, like the functions they model.

`MC...` modules give values to constants for TLC, `...Proofs` modules hold the
theorems about the module they are named after. Operators that the text calls mutants
(`ClampWithoutMax`, `TransmitDetached`, ...) are plausible bugs; no specification
uses them. Each property of each passing run has one in `PROJECT.json`, and
putting it in place of the definition it mutates makes the property fail.

### Abstractions

- Rows are numbered in the order in which the coordinator makes them. What is in
  them does not matter, whether one is lost or repeated does.
- A page's `nextUri` may be one of which the client can make no request: the
  reply is then of the kind `dead`, for which there is no GET and no DELETE.
- The `nextUri` is a token counted modulo `TokenSpan`: the client polls one page
  at a time, so only "this page" and "the next" are ever compared.
- `onWire` holds the method of a request that the coordinator may still get. A
  method stays there until the client sends another request, which stands for
  its delay and for the transport's retry of a GET; a request on an expired
  context is not put there at all.
- What the SQL text of a call says matters to `ReadOnlyGuard` only, a credential
  to `CallerIdentity` only: calls share nothing mutable, so these are separate.
  `ToolCalls` keeps the guard's verdict on the text, and that it is sent as given.
- `ReadOnlyGuard` treats a word as a symbol, and a doubled quote as two symbols.
  White space is a line feed, a carriage return or another, since these end
  comments differently. Two kinds of text are not built: two words that touch,
  which are one word, and `*/` outside a comment, which is two operators.
- `Startup` and `CallerIdentity` keep of an endpoint its scheme, of a reference
  what it resolves to, of a token whether it verifies, until when and for whom.
- In `ToolCalls` and the modules under it a text is a record of the parts that
  its reader tells apart: a quantity is a number and a unit, a time a wall clock
  and an offset. Quantities count in hundredths of a unit, as engines write two
  decimals. A cell is null, a word or an integer; booleans are words, and
  fractions of numbers in cells are left out. The engine writes a time without a
  zone in UTC.
- Trees are sets of paths. A stage's path stands for its opaque `StageID`, a
  plan node's for its id; the code passes a stage's on and never looks into it, and
  a `StageDetail` has no parent, so nothing is said of whose substage it is. Of the many figures of
  a kind that a document has (times, sizes, counts) one is kept, `describePlan`'s
  text is left out, and an error is told by its name.
- Of `/v1/info` the answer keeps the value as a whole. The statements that the
  server writes itself are known by the names in them.
- In `CallDeadline` a second is two ticks and a duration spans 128 of them, so
  that a product wraps for a small number of seconds.

### Fairness

- `StatementClient`: a reply that arrived is handled; a request without an answer
  ends (`http.Client{Timeout: 30s}`, client.go:52); the DELETE ends (its own 5
  seconds, readquery.go:279); the context of a read ends (tools.go:350), that of
  a metadata statement need not. Nothing is assumed of coordinator and transport.
- `ServerLifecycle`: goroutines that can run do run, and the shutdown context
  times out. Nothing is assumed of clients or requests; a stream may never end.
- `ToolCalls`: a handler that can go on does, a GET included, which
  `http.Client`'s timeout ends (client.go:52); a statement that the coordinator has
  finished ends the call, which is `StoppedStatementEndsCall` of `StatementClient`.
  Nothing is assumed of a coordinator that neither finishes nor fails a statement.
- `ServingProcess`: the two together, the call's part only while the process
  lives, and a handler that returned has its answer written.

## Runs

| Run | Module, cfg | Asks | Bounds |
|---|---|---|---|
| `statement` | `MCStatementClient`, `Statement` | exact answers, cap, columns, freed statements (a dead `nextUri` among the pages), no page dropped unread, refinement of `BoundedRead`; a read returns, a stopped statement ends any call | caps 1 to 3, pages of up to 2 rows, 5 rows, 3 tokens |
| `statement_mid_stream` | `MCStatementClient`, `StatementMidStream` | finding 1 | same |
| `deadline` | `MCCallDeadline`, `Deadline` | limits hold for all `timeout_seconds`, no early surrender, full time unless the product wraps | seconds below, in and beyond the range |
| `deadline_overflow` | `MCCallDeadline`, `DeadlineOverflow` | finding 2 | same |
| `lifecycle` | `ServerLifecycle`, `Lifecycle` | clean exits, cut requests; a signal stops the process; no stuck goroutine | two requests, one stream |
| `process` | `MCServingProcess`, `Process` | which statements an exit strands; a begun query is settled | cap 1, 2 rows, one call, no stream (10 times the states, and it only holds the drain open) |
| `guard` | `ReadOnlyGuard`, `Guard` | the guard agrees with the lexer, both ways, but where `astray` says; no second statement gets through | all texts of up to 6 symbols |
| `explain_options` | `ReadOnlyGuard`, `ExplainOptions` | finding 4 | texts of up to 8 of seven symbols |
| `startup` | `MCStartup`, `Startup` | accepted configurations build; registry whole; https for passwords | every engine under two modes, every server, pairs of engines |
| `identity` | `MCCallerIdentity`, `Identity` | who the engines hear | two callers, five headers, two ticks, three contents of a secret |
| `secret_rotation` | `MCCallerIdentity`, `SecretRotation` | finding 3 | one caller |
| `tools` | `MCToolCalls`, `Tools` | every request as the caller meant it; whole lists, exact reads, cluster answers, true statistics; the listing against `Wanted`; the raw fragment, the lists and the summary of a detail; a call with a GET or a finished statement returns | every tool; every refusal; names of up to two characters with quotes and dots, ids of up to two with the marks of a URL; tables of up to 3 rows, caps 1 and 2; 27 filters over 23 queries; documents with up to 4 stages and plans of 4 nodes; every figure in 5 forms |

Why these bounds are enough for the questions: with caps of 1 to 3 and pages of 0, 1
or 2 rows the cap falls inside a page, at its end and between pages; five rows
allow a page beyond every cap, three tokens tell the last page from the next and
from the one before. A `timeout_seconds` of the runs lies in each of the regions
of `QueryTimeout`, with the product wrapped to a negative, a small and a large
value. The proofs remove the bounds of what they state. Two
requests and a stream meet in every order in a drain; a third of a kind adds no
new order, as requests do not interact. Six symbols hold an option
group or a comment, a keyword and a separator with something behind it; the
shortest text that refutes the re-check of `EXPLAIN` has eight.

In `tools` the units grow by 3 for times and by 2 for sizes, a
float64 is exact up to 4 and an int64 reaches 7: amounts then meet every unit,
its rounding and both widths, in states few enough to list; the properties speak
of those constants and not of their values. A quote and a dot as neighbours, at
the start and at the end are the names that quoting is about. The four-node trees
have a node with a sibling and a child, which is where two orders of a walk
part; the queries of a listing lie before, on and behind each bound, with an
offset that moves them over it.

`StatementInv` and `DeadlineInv` contain the type invariants of their modules, so
those are not listed again.

Deadlock is not checked: a call that is done and a process that has exited stop.

## Findings

1. `statement_mid_stream`. The comment at client.go:154 promises that a
   mid-stream failure frees the server-side query. A 2xx page that does not
   decode (client.go:161), and a `nextUri` that makes no request (182), end the
   call without a DELETE.
2. `deadline_overflow`. README.md:121 gives `timeout_seconds` a maximum of 300.
   `time.Duration(sec) * time.Second` (tools.go:335) overflows for very large
   values, and the query gets the wrapped product instead of the maximum.
3. `secret_rotation`. The package comments and the README say that credentials
   are resolved at connection time. Static ones are resolved when the registry
   is built (credential.go:99, 119) and never again.
4. `explain_options`. The comment at readquery.go:72 and README.md:111 say that
   `EXPLAIN` has its inner statement re-checked. `skipParenGroup`
   (readquery.go:253) knows string literals only and counts the parentheses in
   comments and double-quoted identifiers, too, so the options may end for it
   elsewhere than for the engine, and what it re-checks is not what the engine
   reads.

Other observations; a property names each as an exception unless it says so here.

- An abandoned call may be stranded by a clean exit, since a drain waits for
  requests and not for handlers whose caller has gone (`StrandedOnlyByForce`).
- A verified token without a subject is sent with the engine's configured user
  (`UserIsProven`).
- Rows are decoded into `any`, so an integer beyond 2^53 reaches the caller of
  `run_query` as its nearest float64 (`ReadAnswerExact` says up to where a value is
  the engine's own).
- An id is put into the URL of `get_query` unescaped (client.go:417), so one with
  `?`, `#`, `/`, `%` or of dots is another id or another resource (`RequestsAsMeant`
  speaks of the ids without, `IsPlain`).
- The statement for the nodes in `get_cluster_info` has no deadline, so a
  coordinator that answers each poll and never finishes keeps what `/v1/info` said
  from the caller (`CallReturns` speaks of statements that are finished).
- A password reference that resolves to nothing is accepted, and the engine is sent
  no Authorization header although README.md:160 says that `basic` sends one
  (dialect.go:54); `Apply` does so, and no property speaks of it.
- A size or count that `SHOW STATS` gives as NaN, or beyond int64, becomes the
  integer that the processor makes of it, and is there; a fraction or a number of
  distinct values that is not finite makes the encoder refuse the whole answer
  (`StatsTrue` names both).
- A `nextUri` that makes no request has no DELETE (readquery.go:281): a read that is
  truncated on such a page is answered and leaves its statement running
  (`NoStrayStatement`).
- A line comment ends for the guard at a line feed only, for the engine at a
  carriage return, too. What stands between them is a comment to the one and a
  statement to the other (`NoWriteAccepted`, `NoReadRefused` and `OneStatement` except
  these texts).
- A quote or parenthesis in a comment or identifier among the options of `EXPLAIN`
  (finding 4) also has reads refused (`NoReadRefused` excepts these texts).

## Proofs

`StatementClientProofs`, for every cap, page size, row bound and token span that
satisfy the assumptions of `StatementClient`:

- `StatementInvariant` proves `Spec => []StatementInv`. `ResultExact` alone is not
  inductive: that the rows returned are all rows needs that the rows held are
  those before the page the client waits for. `InStep` says so: an open request
  is for the coordinator's page, with the rows before it held, or for the next
  one, with every row made held. `ReplyIsCurrent` ties a reply to the page,
  `OnePoll` what is on the wire to the open request, `EngineFacts` the page to the
  statement's state, and `OutcomeFacts` an outcome to the DELETE. A lemma per side
  (`ClientInv`, `EnvironmentInv`) has a step per action and under it one per
  conjunct; `GatheredExact` is the common fact that a handled page extends the
  rows held to all rows made, from lemmas about numbered sequences.
- `ResultIsExact`, `HeldRowsAreBounded`, `ColumnsAreKnown`, `NoStatementIsStray` and
  the action property `NothingIsDiscarded` follow from it.
- `ReadsAreCapped` is about the step that starts a read: its cap is between 1 and
  the maximum, whatever `max_rows` is. No invariant can say so, as a cap of 0 is
  what a metadata statement has.
- `StatementKeepsPromise` proves that the protocol implements `BoundedRead`: each
  client step is an ask, an answer or a stutter, each step of the coordinator
  makes rows or is a stutter.

`CallDeadlineProofs`, for every timeout, width of a duration and integer
`timeout_seconds`:

- `DeadlineInvariant` proves that what is left of the timers in force completes
  what was spent (`DeadlineInv`); `TimeoutBounds` is the arithmetic of
  `QueryTimeout` with its wrap.
- `CallWithinLimit`, `SilenceIsNoticed` and `SurrenderIsEarned` follow, and
  `FullTimeIsGiven` gives the condition under which finding 2 does not occur.

`ServerLifecycleProofs`, for any requests and streams: `LifecycleInvariant` adds to
the two properties what makes them inductive, that nothing is cut before the exit
(`BeforeExit`), and that the channel holds `ErrServerClosed` only once a drain has
begun (`Channel`): otherwise a `select` that takes it would be a clean exit with
requests open. `CleanExitIsClean` and `CutsAreEarned` follow.

`ServingProcessProofs` composes the two. `ClientPart`, `EnginePart`, `ServerPart` and
`RequestPart` show that each step of the process is one of the component that was
proved about, so `StatementInv` and `LifecycleInv` hold here too; `HandlerOfCall`
adds that a request is answered only when its handler has returned, and that an
exit leaves none open. `OnlyForceStrands` is their consequence.

`CallerIdentityProofs` first settles the start, for every set of documents of the decoder's type
(`RawConfigsAssumption`), every set of references and whatever they resolve to:
`StartupInvariant` says how far the configuration is defaulted and validated and
the registry built at each stage. `AcceptedBuilds` needs of it that the defaults
leave a bearer account its name (`HasAccount`), `PasswordsNeedTLS` that a password
comes from the basic scheme only (`BuiltInOrder`), `EnginesReachable` that the ids
are unique.

Then, for any callers, headers, lifetimes and secrets, on top of
`StartupInv`: `IdentityInvariant` ties what a call has sent to the credential it
resolved (`SentWith`), and that to its caller and its engine (`CredentialKnown`).
`OneIdentity`, `UserProven` and `EngineHears` follow.

`OperatorProofs` is about the pure functions under the tools, for inputs of every
size. Its theorem is `QuotedNamesRead`; the rest are lemmas that `ToolCallsProofs` and
`ReadOnlyGuardProofs` cite.
The library states induction over an operator parameter, which the provers
cannot take, so `SetInduction` states it about a set: a set that has 0 and the
successor of each of its numbers has every number. A property is then proved by
induction as membership of the set of the numbers that have it, and `Recursion`
gets from the same lemma the function that a loop or a walk computes.

- Selections (`SelectedKeeps`): `Selected` keeps the positions it is to keep, in
  order and once.
- Names (`QuotedNamesRead`): whatever characters are in them, the engine reads in
  the text of `quoteIdent` and `fqTable` these names and no others. The reader's
  state after a quoted name is an induction over its characters (`QuoteReads`).
- Amounts (`ReadNear`): what is read back is within the rounding of what was
  written, for all amounts and units (`UnknownReadsZero` for the forms the client
  does not know).
- Walks (`WalkInOrder`): a walk that goes from a place to the first child and to the
  next sibling lists what there is from this place on, once and in document order. The
  induction is over the number of nodes that are left: `FromNode` splits what is
  left from a node into the node, what is below it and what is beside it, each
  smaller than the whole (`FromShrinks`), and `JoinInOrder` puts their lists together. That
  a child comes only with its elder sibling and its parent (`IsTree`) is why nothing
  is left where a walk finds no node (`NothingFrom`). The same induction gives the
  walk itself (`WalkExists`), as a recursive definition says nothing before a function
  that satisfies it is known. `WalkLists` is about the stages; `FlatLists` adds that a
  node of a plan is under its parent, and `PlansTell` that the stages' plans keep apart
  in their common list.

`ToolCallsProofs`, for every registry, set of scenarios and width of numbers:
`ToolInvariant` says how far a call is and what it asked (`Progress`, `AskedRight`), that
the statement's result is the promised part of its table (`Promise`), that what the
coordinator told is queries and a document of it (`Memory`), and what an answer was
made of (`Bodies`). From it and the lemmas above follow

- `RequestsMeant` and `OneEngineAsked`: the requests are in the caller's words and go
  to one engine, for every name, statement and id, ids that are not `IsPlain`
  excepted; that a plain id is read from the path it is put into is `PlainIdRead`;
- `ReadsAreExact`, `ListsWhole` and `ClusterAnswers`: the rows of a read are the table's, the
  names and columns of a metadata answer are all of them, in order, and an answer
  of `/v1/info` is not lost to the node query;
- `StatsAreTrue`: a column has its own figures, and the table its row count,
  wherever the engine puts that row; null is absent and every other figure the
  engine's, but for a size or count that no int64 holds, which `FigureTrue` names;
- `ListingSelects`: `list_queries` answers with `Wanted`, for all filters and queries;
- `SummaryIsNear`, `RawIsDetail` and `DocumentIsListed`: the figures of a detail up to
  their rounding, its raw form, and its lists.

It assumes of a scenario what the engine owes to a statement
(`ScenarioAssumption`): rows of cells under the columns that the statement selects;
statistics in which every row names its column or is the one summary of the
table, in numbers that are float64s; a document and queries of the types that
the client decodes.

`ReadOnlyGuardProofs` shows that the guard and the lexer agree on a text of any
length that does not go astray, and that they agree on a second statement whatever
the options of `EXPLAIN` hold. `IsRead(text, h)` says that `h[i]` is the lexer once `i` symbols are read;
`LexerReadsText` is the invariant that `lexer` is the last of such an `h` while no
carriage return has ended a comment. The argument goes along the code, scanner by scanner:

- A loop that gets nearer to the end with each step ends where a step would leave
  it, and has what each of its steps keeps (`LoopUnfolds`, `LoopEnds`, `IndexLoop`).
- From a quote or a comment in code, a scanner gets to where the lexer is back in
  code, or to the end (`LineSkipped`, `BlockSkipped`, `QuoteSkipped`). A line comment
  stops at its line break instead, where the lexer is still in the comment: `Free`
  is what holds of every place where a scanner may stop. A doubled quote closes and
  opens a string for the lexer, which changes nothing once there was one (`Quoted`).
- `Trivia`, `Separator`, `Group` and `Options` say where the functions of those names
  stop and that the lexer's stage is then what the code takes it to be; in an option
  group the code's count of parentheses is the lexer's unless the text went astray
  there (`InGroup`). Where the separator is does not depend on the group, which is why
  `SecondStatementStops` needs no exception for it.
- A verdict once reached stays: after `query` or `bad`, after the separator, after
  what follows it (`Lasts`). So what the code finds at the leading keyword is the
  lexer's stage at the end (`CheckMeans`), and `Verdict` is the equivalence of which
  `NoWriteGetsThrough` and `EveryReadGetsThrough` are the two halves. What it excepts
  is refuted, not open: finding 4 and the carriage return above.

The constants' assumptions are in the modules that declare them; TLC evaluates
each in a run.

Only model-checked: all liveness (beyond the prover, like ENABLED).

## Not modelled

- Of the libraries (net/http, MCP SDK, YAML, JSON, RSA) only what the code relies
  on is modelled, as external actions; in particular the SDK's session pinning,
  its schemas and the decoding of a JWT are not.
- A history sink: `internal/history` is an interface without an implementation.
  `Startup` models that an engine which enables one is refused, `ToolCalls` that a
  sink, where there is one, is asked in the coordinator's place.
- Logging, the wording of errors and hints, and the source header carry no state.
- A call that ends by its context is an error in `ToolCalls`; when that happens is
  `CallDeadline`'s and `StatementClient`'s subject.

## Plan

Done: the statement protocol with its promise and its deadlines; the server's
life, alone and composed with a call; the guard; the way from configuration to
identity; all ten tools with what they read and normalise; and proofs of
every safety property of the runs. What is left, in this order:

1. The whole process: `ServingProcess` with `ToolCalls` in the handler's place, so
   that a drain meets a call between its two requests.
2. More than one figure of a kind in `QueryDetail`, where a mix-up of two sources
   could hide.
