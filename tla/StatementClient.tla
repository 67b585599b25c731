--------------------------- MODULE StatementClient ---------------------------
(***************************************************************************)
(* One statement of the presto client (internal/presto/client.go, collect) *)
(* against the coordinator it polls: POST /v1/statement, then GET of every *)
(* nextUri until a page carries none, the row cap is passed, a request     *)
(* fails or the context ends; a DELETE of the nextUri frees the statement. *)
(*                                                                         *)
(* The client is the code under internal/.  The coordinator, the transport *)
(* and the caller that ends the context are external: they are modelled    *)
(* from how collect, do and cancelStatement use them.  Every call of the   *)
(* client drives a statement of its own and shares nothing mutable with    *)
(* other calls, so one call is the whole system.                           *)
(*                                                                         *)
(* Rows are numbered in the order in which the coordinator makes them, so  *)
(* a lost, repeated or reordered row shows.                                *)
(***************************************************************************)
EXTENDS Integers, Sequences

CONSTANTS AskedRows,       \* values of max_rows a caller passes
          DefaultMaxRows,  \* cap of a read that asks for none
          MaxResultRows,   \* the largest cap
          PageSizes,       \* numbers of rows a page may carry
          RowBound,        \* bound: rows a statement may produce
          TokenSpan        \* bound: nextUri tokens are reused modulo this

ASSUME CapAssumption == /\ AskedRows \subseteq Int
                        /\ DefaultMaxRows \in Nat \ {0}
                        /\ MaxResultRows \in Nat
                        /\ DefaultMaxRows <= MaxResultRows

ASSUME CoordinatorAssumption == /\ PageSizes \subseteq Nat
                                /\ RowBound \in Nat
                                /\ TokenSpan \in Nat
                                /\ TokenSpan >= 2

VARIABLES pc,       \* where the call is: idle, sent, cancel or done
          cap,      \* the row cap, 0 for an unbounded metadata statement
          expired,  \* the call's context is done
          req,      \* the statement request the client waits for
          rows,     \* the rows gathered so far
          cols,     \* whether the columns are known
          outcome,  \* none, error, all or truncated
          onWire,   \* methods whose request the coordinator may still get
          reply,    \* what came back for req
          stmt,     \* external: the statement's state on the coordinator
          page      \* external: the last page the coordinator made

callVars == <<pc, cap, req, rows, cols, outcome>>
engineVars == <<stmt, page>>
vars == <<pc, cap, expired, req, rows, cols, outcome, onWire, reply, stmt, page>>

-----------------------------------------------------------------------------
(* Messages. *)

Tokens == 0 .. TokenSpan - 1

Next1(t) == (t + 1) % TokenSpan

Pages == [token : Tokens, first : 0 .. RowBound, len : Nat, cols : BOOLEAN, more : BOOLEAN]

NoPage == [token |-> 0, first |-> 0, len |-> 0, cols |-> FALSE, more |-> FALSE]

(* A "dead" page has a nextUri that makes no request. *)
Replies == [kind : {"none", "page", "dead", "error", "garbage", "status"}, body : Pages]

NoReply == [kind |-> "none", body |-> NoPage]

Fault(kind) == [kind |-> kind, body |-> NoPage]

(* The rows numbered first + 1 to first + n, in order. *)
Numbered(first, n) == [i \in 1 .. n |-> first + i]

(* The rows the coordinator has made, and those a page carries. *)
Made == page.first + page.len

PageRows(p) == Numbered(p.first, p.len)

TypeOK == /\ pc \in {"idle", "sent", "cancel", "done"}
          /\ cap \in Nat
          /\ expired \in BOOLEAN
          /\ req \in [method : {"POST", "GET"}, token : Tokens]
          /\ rows \in Seq(Nat)
          /\ cols \in BOOLEAN
          /\ outcome \in {"none", "error", "all", "truncated"}
          /\ onWire \subseteq {"POST", "GET", "DELETE"}
          /\ reply \in Replies
          /\ stmt \in {"none", "running", "finished", "failed", "canceled"}
          /\ page \in Pages

Init == /\ pc = "idle"
        /\ cap = 0
        /\ expired = FALSE
        /\ req = [method |-> "POST", token |-> 0]
        /\ rows = <<>>
        /\ cols = FALSE
        /\ outcome = "none"
        /\ onWire = {}
        /\ reply = NoReply
        /\ stmt = "none"
        /\ page = NoPage

-----------------------------------------------------------------------------
(* The client. *)

(* Mutants (here and below): plausible bugs that the properties must find. *)
ClampWithoutMax(n) == IF n <= 0 THEN DefaultMaxRows ELSE n

ClampMaxRows(n) == CASE n <= 0            -> DefaultMaxRows
                     [] n > MaxResultRows -> MaxResultRows
                     [] OTHER             -> n

TransmitDetached(method, token) ==
    /\ req' = [method |-> method, token |-> token]
    /\ onWire' = {method}
    /\ reply' = NoReply

(* A request made on a context that is done is never transmitted. *)
Transmit(method, token) ==
    /\ req' = [method |-> method, token |-> token]
    /\ onWire' = IF expired THEN {} ELSE {method}
    /\ reply' = NoReply

(* The handler or collect refuses before it sends: an unknown engine, an   *)
(* empty or not read-only statement, a credential that does not resolve.   *)
RejectCall == /\ pc = "idle"
              /\ pc' = "done"
              /\ outcome' = "error"
              /\ UNCHANGED <<cap, expired, req, rows, cols, onWire, reply, engineVars>>

StartRead(asked) == /\ pc = "idle"
                    /\ pc' = "sent"
                    /\ cap' = ClampMaxRows(asked)
                    /\ Transmit("POST", 0)
                    /\ UNCHANGED <<expired, rows, cols, outcome, engineVars>>

StartMetadata == /\ pc = "idle"
                 /\ pc' = "sent"
                 /\ cap' = 0
                 /\ Transmit("POST", 0)
                 /\ UNCHANGED <<expired, rows, cols, outcome, engineVars>>

CancelAttached == /\ pc' = "cancel"
                  /\ onWire' = IF expired THEN onWire ELSE onWire \cup {"DELETE"}

(* The DELETE runs on a context detached from the call's. *)
CancelStatement == /\ pc' = "cancel"
                   /\ onWire' = onWire \cup {"DELETE"}

ReturnNow == /\ pc' = "done"
             /\ UNCHANGED onWire

Received == /\ pc = "sent"
            /\ reply.kind \in {"page", "dead"}

GatheredFromPolls == IF req.method = "POST" THEN rows ELSE rows \o PageRows(reply.body)

Gathered == rows \o PageRows(reply.body)

AtCap(r) == cap > 0 /\ Len(r) >= cap

PastCap(r) == /\ cap > 0
              /\ Len(r) > cap

ColumnsOfFirstPage == IF req.method = "POST" THEN reply.body.cols ELSE cols

KnownColumns == cols \/ reply.body.cols

TruncateAtCap == /\ Received
                 /\ PastCap(Gathered)
                 /\ rows' = SubSeq(Gathered, 1, cap)
                 /\ cols' = KnownColumns
                 /\ outcome' = "truncated"
                 /\ IF reply.kind = "page" /\ reply.body.more THEN CancelStatement ELSE ReturnNow
                 /\ UNCHANGED <<cap, expired, req, reply, engineVars>>

Finish == /\ Received
          /\ ~ PastCap(Gathered)
          /\ ~ reply.body.more
          /\ rows' = Gathered
          /\ cols' = KnownColumns
          /\ outcome' = "all"
          /\ ReturnNow
          /\ UNCHANGED <<cap, expired, req, reply, engineVars>>

FollowNext == /\ Received
              /\ ~ PastCap(Gathered)
              /\ reply.kind = "page" /\ reply.body.more
              /\ rows' = Gathered
              /\ cols' = KnownColumns
              /\ Transmit("GET", Next1(reply.body.token))
              /\ UNCHANGED <<pc, cap, expired, outcome, engineVars>>

FailWithRows == /\ outcome' = "error"
                /\ UNCHANGED <<rows, cols, cap, expired, req, reply, engineVars>>

Fail == /\ outcome' = "error"
        /\ rows' = <<>>
        /\ cols' = FALSE
        /\ UNCHANGED <<cap, expired, req, reply, engineVars>>

(* The engine's own error, a body that does not decode or a nextUri that   *)
(* makes no request: the call fails and sends no DELETE.                   *)
AbortUncancelled == /\ pc = "sent"
                    /\ \/ reply.kind \in {"error", "garbage"}
                       \/ reply.kind = "dead" /\ ~ PastCap(Gathered)
                    /\ Fail
                    /\ ReturnNow

RetryPoll == /\ pc = "sent"
             /\ reply.kind \in {"none", "status"}
             /\ IF req.method = "GET"
                THEN /\ reply' = NoReply
                     /\ UNCHANGED <<callVars, expired, onWire, engineVars>>
                ELSE Fail /\ ReturnNow

(* No answer in time, the context done, a transport error or a status that *)
(* is not 2xx: only a GET has a URI to cancel.                             *)
RequestFails == /\ pc = "sent"
                /\ reply.kind \in {"none", "status"}
                /\ Fail
                /\ IF req.method = "GET" THEN CancelStatement ELSE ReturnNow

(* The DELETE is answered, fails or reaches its own timeout. *)
CancelReturns == /\ pc = "cancel"
                 /\ pc' = "done"
                 /\ UNCHANGED <<cap, expired, req, rows, cols, outcome, onWire, reply, engineVars>>

-----------------------------------------------------------------------------
(* The caller's context, the transport and the coordinator (external). *)

(* The query's deadline, or a caller that goes away. *)
Expire == /\ pc \in {"idle", "sent"}
          /\ ~ expired
          /\ expired' = TRUE
          /\ UNCHANGED <<callVars, onWire, reply, engineVars>>

(* One of the replies reaches the client, only while it waits for that     *)
(* request; any reply may be lost.                                         *)
Deliver(method, replies) ==
    reply' \in {reply} \cup
               IF /\ pc = "sent" /\ req.method = method /\ reply.kind = "none"
                  THEN replies ELSE {}

PageReplies(p) == {[kind |-> kind, body |-> p] : kind \in IF p.more THEN {"page", "dead"} ELSE {"page"}}

Produce(token, first) == {p \in [token : {token}, first : {first}, len : PageSizes,
                                 cols : BOOLEAN, more : BOOLEAN] :
                             /\ p.first + p.len <= RowBound
                             /\ p.len > 0 => p.cols}

Make(p) == /\ page' = p
           /\ stmt' = IF p.more THEN "running" ELSE "finished"

(* The POST arrives, possibly after the client has given up on it. *)
Accept == /\ "POST" \in onWire
          /\ stmt = "none"
          /\ \E p \in Produce(0, 0) : /\ Make(p)
                                      /\ Deliver("POST", PageReplies(p))
          /\ UNCHANGED <<callVars, expired, onWire>>

(* The statement fails at once: a parse error, a denied table. *)
FailOnSubmit == /\ "POST" \in onWire
                /\ stmt = "none"
                /\ stmt' = "failed"
                /\ Deliver("POST", {Fault("error")})
                /\ UNCHANGED <<callVars, expired, onWire, page>>

(* A GET of the next token acknowledges the last page, which is dropped. *)
ServeNext == /\ "GET" \in onWire
             /\ stmt = "running"
             /\ req.token = Next1(page.token)
             /\ \E p \in Produce(req.token, Made) : /\ Make(p)
                                                    /\ Deliver("GET", PageReplies(p))
             /\ UNCHANGED <<callVars, expired, onWire>>

(* The transport repeats a GET whose answer was lost. *)
ServeAgain == /\ "GET" \in onWire
              /\ stmt \in {"running", "finished"}
              /\ req.token = page.token
              /\ Deliver("GET", PageReplies(page))
              /\ UNCHANGED <<callVars, expired, onWire, engineVars>>

ServeError == /\ "GET" \in onWire
              /\ stmt \in {"failed", "canceled"}
              /\ Deliver("GET", {Fault("error")})
              /\ UNCHANGED <<callVars, expired, onWire, engineVars>>

(* The statement fails while it runs, or the coordinator abandons it. *)
Stop == /\ stmt = "running"
        /\ stmt' = "failed"
        /\ UNCHANGED <<callVars, expired, onWire, reply, page>>

Delete == /\ "DELETE" \in onWire
          /\ stmt = "running"
          /\ stmt' = "canceled"
          /\ UNCHANGED <<callVars, expired, onWire, reply, page>>

(* A proxy, an overloaded or restarting coordinator: an answer that is not *)
(* a 2xx, or a 2xx the client cannot use.                                  *)
Gateway == /\ req.method \in onWire
           /\ Deliver(req.method, {Fault("status"), Fault("garbage")})
           /\ UNCHANGED <<callVars, expired, onWire, engineVars>>

-----------------------------------------------------------------------------
Handle == TruncateAtCap \/ Finish \/ FollowNext \/ AbortUncancelled

Client == \/ RejectCall
          \/ \E asked \in AskedRows : StartRead(asked)
          \/ StartMetadata
          \/ Handle
          \/ RequestFails
          \/ CancelReturns

Engine == \/ Accept \/ FailOnSubmit
          \/ ServeNext \/ ServeAgain \/ ServeError
          \/ Stop \/ Delete
          \/ Gateway

Environment == Expire \/ Engine

Next == Client \/ Environment

Spec == Init /\ [][Next]_vars

(* What the code and its runtime guarantee: a reply that arrived is        *)
(* handled, http.Client's timeout ends a request that gets none and the 5  *)
(* second timeout ends the DELETE; a read's context has a deadline.  The   *)
(* coordinator and the transport owe nothing.                              *)
Fairness == /\ WF_vars(Handle)
            /\ WF_vars(RequestFails)
            /\ WF_vars(CancelReturns)
            /\ WF_vars(cap > 0 /\ Expire)

FairSpec == Spec /\ Fairness

-----------------------------------------------------------------------------
(* Properties. *)

(* A successful answer is exact (collect, client.go:145-187): untruncated  *)
(* it is every row of a finished statement, once and in order; truncated   *)
(* it is the first cap rows of a result that really is larger.             *)
ResultExact ==
    /\ outcome = "all" => /\ stmt = "finished"
                          /\ rows = Numbered(0, Made)
                          /\ cap > 0 => Made <= cap
    /\ outcome = "truncated" => /\ cap > 0
                                /\ Made > cap
                                /\ rows = Numbered(0, cap)

(* A call that is over leaves its statement running only if a DELETE was   *)
(* sent, the POST itself failed (no URI was ever learned), a 2xx reply     *)
(* could not be used, or the nextUri makes no request, so there is no URI  *)
(* to cancel (client.go:151-186, readquery.go:281-284).                    *)
NoStrayStatement ==
    pc = "done" /\ stmt = "running" =>
        \/ "DELETE" \in onWire
        \/ outcome = "error" /\ (req.method = "POST" \/ reply.kind = "garbage")
        \/ reply.kind = "dead"

(* A read never holds or returns more rows than its cap, which is never    *)
(* more than MaxResultRows (readquery.go:113-122, client.go:171).          *)
HeldRowsBounded == cap > 0 => /\ cap <= MaxResultRows
                              /\ Len(rows) <= cap

(* A successful answer that has rows names its columns, whichever page     *)
(* brought them (client.go:167-169).                                       *)
ColumnsKnown == outcome \in {"all", "truncated"} /\ rows # <<>> => cols

(* The coordinator drops a page when the next token is asked for, so while *)
(* the call goes on that happens only once every row made so far is held   *)
(* (client.go:170, 182).                                                   *)
NothingDiscarded ==
    [][page'.token # page.token /\ pc = "sent" => rows = Numbered(0, Made)]_vars

(* The inductive invariant behind ResultExact, NoStrayStatement and the    *)
(* refinement: what the client holds is always what the page it waits for  *)
(* follows, and what it waits for is the coordinator's page or the next.   *)
BeforeSend == pc = "idle" => /\ onWire = {} /\ outcome = "none" /\ rows = <<>>
                             /\ stmt = "none" /\ reply = NoReply
                             /\ req = [method |-> "POST", token |-> 0]

OnePoll == /\ "POST" \in onWire => req.method = "POST"
           /\ "GET" \in onWire => req.method = "GET"
           /\ req.method = "POST" =>
                 req.token = 0 /\ page.token = 0 /\ page.first = 0
           /\ stmt = "none" => page = NoPage /\ req.method = "POST"

InStep == pc = "sent" =>
    \/ req.token = page.token /\ rows = Numbered(0, page.first)
    \/ /\ req.method = "GET" /\ req.token = Next1(page.token)
       /\ page.more /\ rows = Numbered(0, Made)

ReplyIsCurrent == pc = "sent" /\ reply.kind \in {"page", "dead"} =>
    /\ reply.kind = "dead" => page.more
    /\ reply.body = page /\ req.token = page.token
    /\ rows = Numbered(0, page.first)
    /\ stmt # "none" /\ (page.more \/ stmt = "finished")

EngineFacts == /\ stmt = "running" => page.more
               /\ stmt = "finished" => ~ page.more
               /\ Made <= RowBound
               /\ page.len > 0 => page.cols
               /\ reply.kind = "error" => stmt \in {"failed", "canceled"}

OutcomeFacts ==
    /\ outcome = "none" <=> pc \in {"idle", "sent"}
    /\ rows # <<>> => cols
    /\ outcome = "error" => rows = <<>>
    /\ pc = "cancel" => "DELETE" \in onWire
    /\ outcome = "truncated" => "DELETE" \in onWire \/ stmt = "finished" \/ reply.kind = "dead"
    /\ outcome = "error" => \/ "DELETE" \in onWire
                            \/ req.method = "POST"
                            \/ reply.kind \in {"garbage", "dead", "error"}

StatementInv == /\ TypeOK /\ BeforeSend /\ OnePoll /\ InStep /\ ReplyIsCurrent
                /\ EngineFacts /\ OutcomeFacts /\ HeldRowsBounded /\ ResultExact

(* The comment at client.go:154: "Mid-stream failure (e.g. a timeout):     *)
(* free the server-side query."                                            *)
MidStreamFailureFrees ==
    pc = "done" /\ outcome = "error" /\ req.method = "GET" /\ stmt = "running"
        => "DELETE" \in onWire

(* A run_query call that has sent its statement returns, whatever the      *)
(* coordinator does, also one that pages forever without a row             *)
(* (tools.go:350, readquery.go:279).                                       *)
ReadQueryReturns == (pc # "idle" /\ cap > 0) ~> (pc = "done")

(* Once the statement has stopped on the coordinator every call, bounded   *)
(* or not, returns (client.go:150-187).                                    *)
StoppedStatementEndsCall ==
    (stmt \in {"finished", "failed", "canceled"}) ~> (pc = "done")

(* The promise to the caller, and the mapping under which this protocol    *)
(* keeps it: the answer is fixed when the outcome is.                      *)
Promise == INSTANCE BoundedRead
    WITH phase <- IF pc = "idle" THEN "idle"
                  ELSE IF outcome = "none" THEN "open" ELSE "answered",
         cap <- cap,
         made <- Made,
         complete <- stmt = "finished",
         answer <- [kind |-> outcome,
                    rows |-> IF outcome = "none" THEN <<>> ELSE rows]

KeepsPromise == Promise!Spec

=============================================================================
