------------------------ MODULE ServingProcessProofs ------------------------
(***************************************************************************)
(* What is proved of the statement client and of the server holds of the   *)
(* process that both are parts of, and what their composition adds: a      *)
(* process strands a statement by force only.  Every step of the process   *)
(* is one of a part, or leaves that part as it is.                         *)
(***************************************************************************)
EXTENDS ServingProcess, TLAPS

S == INSTANCE StatementClientProofs
L == INSTANCE ServerLifecycleProofs

(* The handler runs while its request is open, and an answer is written    *)
(* when it has returned (newHTTPHandler, runQuery).                        *)
HandlerOfCall == /\ request[Call] \in {"away", "accepted"} => pc = "idle"
                 /\ request[Call] = "answered" => pc = "done"
                 /\ server = "exited" => request[Call] \notin {"accepted", "active"}

ProcessInv == S!StatementInv /\ L!LifecycleInv /\ HandlerOfCall

-----------------------------------------------------------------------------
(* The parts of the composition are those of the two proofs.               *)

(* The client: collect, its callers and cancelStatement. *)
LEMMA ClientPart == Statement!Client => S!Client
BY DEF Statement!Client, Statement!RejectCall, Statement!StartRead, Statement!StartMetadata,
       Statement!Handle, Statement!TruncateAtCap, Statement!Finish, Statement!FollowNext,
       Statement!AbortUncancelled, Statement!RequestFails, Statement!CancelReturns,
       Statement!ClampMaxRows, Statement!Transmit, Statement!CancelStatement, Statement!Received,
       Statement!ReturnNow, Statement!Gathered, Statement!PastCap, Statement!KnownColumns,
       Statement!Fail, Statement!Next1, Statement!NoReply, Statement!NoPage, Statement!PageRows,
       Statement!Numbered, Statement!engineVars,
       S!Client, S!RejectCall, S!StartRead, S!StartMetadata,
       S!Handle, S!TruncateAtCap, S!Finish, S!FollowNext,
       S!AbortUncancelled, S!RequestFails, S!CancelReturns,
       S!ClampMaxRows, S!Transmit, S!CancelStatement, S!Received,
       S!ReturnNow, S!Gathered, S!PastCap, S!KnownColumns,
       S!Fail, S!Next1, S!NoReply, S!NoPage, S!PageRows,
       S!Numbered, S!engineVars

(* The coordinator and the transport (external). *)
LEMMA EnginePart == Statement!Engine => S!Engine
BY DEF Statement!Engine, Statement!Accept, Statement!FailOnSubmit, Statement!ServeNext,
       Statement!ServeAgain, Statement!ServeError, Statement!Stop, Statement!Delete,
       Statement!Gateway, Statement!Produce, Statement!Make, Statement!Deliver,
       Statement!PageReplies, Statement!Fault, Statement!NoPage, Statement!Next1, Statement!Made,
       Statement!callVars, Statement!engineVars,
       S!Engine, S!Accept, S!FailOnSubmit, S!ServeNext,
       S!ServeAgain, S!ServeError, S!Stop, S!Delete,
       S!Gateway, S!Produce, S!Make, S!Deliver,
       S!PageReplies, S!Fault, S!NoPage, S!Next1, S!Made,
       S!callVars, S!engineVars

(* The context of the call. *)
LEMMA ExpirePart == Statement!Expire => S!Expire
BY DEF Statement!Expire, Statement!callVars, Statement!engineVars,
       S!Expire, S!callVars, S!engineVars

(* serveHTTP, its serve goroutine and the world around the process. *)
LEMMA ServerPart ==
    /\ Server!Main => L!Main
    /\ Server!Serve => L!Serve
    /\ Server!Signal \/ Server!AcceptBreaks \/ Server!GraceEnds =>
           L!Signal \/ L!AcceptBreaks \/ L!GraceEnds
BY DEF Server!Main, Server!StartFails, Server!StartServing, Server!TakeSignal,
       Server!TakeServeErr, Server!Drained, Server!DrainTimesOut, Server!Exit, Server!Open,
       Server!Serve, Server!ServeReturns, Server!SendServeErr,
       Server!Signal, Server!AcceptBreaks, Server!GraceEnds,
       L!Main, L!StartFails, L!StartServing, L!TakeSignal,
       L!TakeServeErr, L!Drained, L!DrainTimesOut, L!Exit, L!Open,
       L!Serve, L!ServeReturns, L!SendServeErr,
       L!Signal, L!AcceptBreaks, L!GraceEnds

(* The requests of the clients. *)
LEMMA RequestPart ==
    ASSUME NEW r \in Requests
    PROVE  /\ Server!Connect(r) => L!Connect(r)
           /\ Server!Begin(r) => L!Begin(r)
           /\ Server!Answer(r) => L!Answer(r)
           /\ Server!Leave(r) => L!Leave(r)
BY DEF Server!Connect, Server!Begin, Server!Answer, Server!Leave, Server!Step, Server!serverVars,
       L!Connect, L!Begin, L!Answer, L!Leave, L!Step, L!serverVars

-----------------------------------------------------------------------------
(* What the proofs of the parts say of a step. *)

(* A step of the call, of its context or of the coordinator.               *)
LEMMA StatementStep ==
    ASSUME S!StatementInv,
           Statement!Client \/ Statement!Expire \/ Statement!Engine \/ UNCHANGED callVars
    PROVE  S!StatementInv'
<1>1. CASE Statement!Client
  BY <1>1, ClientPart, StatementAssumption, S!ClientInv DEF S!ClientInv
<1>2. CASE Statement!Expire \/ Statement!Engine
  BY <1>2, ExpirePart, EnginePart, StatementAssumption, S!EnvironmentInv
     DEF S!EnvironmentInv, S!Environment
<1>3. CASE UNCHANGED callVars
  BY <1>3, StatementAssumption, S!StutterInv DEF S!StutterInv, S!vars, callVars
<1> QED
  BY <1>1, <1>2, <1>3

(* A step of the server or of one of its requests.                         *)
LEMMA LifecycleStep ==
    ASSUME L!LifecycleInv,
           \/ Server!Main \/ Server!Serve
           \/ Server!Signal \/ Server!AcceptBreaks \/ Server!GraceEnds
           \/ \E r \in Requests : \/ Server!Connect(r) \/ Server!Begin(r)
                                  \/ Server!Answer(r) \/ Server!Leave(r)
           \/ UNCHANGED serverVars
    PROVE  L!LifecycleInv'
<1>1. CASE Server!Main \/ Server!Serve \/ Server!Signal \/ Server!AcceptBreaks \/ Server!GraceEnds
  <2>1. \/ L!StartFails \/ L!TakeServeErr \/ L!Drained \/ L!DrainTimesOut
        \/ L!StartServing \/ L!TakeSignal \/ L!Serve \/ L!Signal \/ L!AcceptBreaks \/ L!GraceEnds
    BY <1>1, ServerPart DEF L!Main
  <2> QED
    BY <2>1, CallAssumption, L!ExitInv, L!RunningInv DEF L!ExitInv, L!RunningInv
<1>2. CASE \E r \in Requests : \/ Server!Connect(r) \/ Server!Begin(r)
                               \/ Server!Answer(r) \/ Server!Leave(r)
  BY <1>2, CallAssumption, RequestPart, L!ClientInv DEF L!ClientInv
<1>3. CASE UNCHANGED serverVars
  BY <1>3, CallAssumption, L!RunningInv DEF L!RunningInv, L!vars, L!serverVars, serverVars
<1> QED
  BY <1>1, <1>2, <1>3

(* Nobody is served before the server starts. *)
LEMMA ProcessInit == Init => ProcessInv
<1> SUFFICES ASSUME Init PROVE ProcessInv
  OBVIOUS
<1>1. S!StatementInv
  <2>1. S!Init
    BY DEF Init, Statement!Init, S!Init, Statement!NoReply, Statement!NoPage, S!NoReply, S!NoPage
  <2> QED
    BY <2>1, StatementAssumption, S!InitInv DEF S!InitInv
<1>2. L!LifecycleInv
  <2>1. L!Init
    BY DEF Init, Server!Init, L!Init
  <2> QED
    BY <2>1, CallAssumption, L!LifecycleInit DEF L!LifecycleInit
<1>3. HandlerOfCall
  BY CallAssumption DEF Init, Server!Init, Statement!Init, HandlerOfCall
<1> QED
  BY <1>1, <1>2, <1>3 DEF ProcessInv

(* The call's side: the handler returns while its request is open.         *)
LEMMA CallInv ==
    ASSUME ProcessInv, HandlerStep \/ ContextEnds \/ EngineStep
    PROVE  ProcessInv'
<1>1. UNCHANGED serverVars /\ (Statement!Client \/ Statement!Expire \/ Statement!Engine)
  BY DEF HandlerStep, ContextEnds, EngineStep
<1>2. S!StatementInv' /\ L!LifecycleInv'
  BY <1>1, StatementStep, LifecycleStep DEF ProcessInv
<1>3. HandlerOfCall'
  <2>1. UNCHANGED pc \/ request[Call] \in {"active", "left"}
    BY DEF HandlerStep, Handling, ContextEnds, EngineStep, Statement!Expire, Statement!callVars,
           Statement!Engine, Statement!Accept, Statement!FailOnSubmit, Statement!ServeNext,
           Statement!ServeAgain, Statement!ServeError, Statement!Stop, Statement!Delete,
           Statement!Gateway
  <2> QED
    BY <1>1, <2>1 DEF ProcessInv, HandlerOfCall, serverVars
<1> QED
  BY <1>2, <1>3 DEF ProcessInv

(* The requests: only the call's own, once its handler has returned, is    *)
(* answered with its answer.                                               *)
LEMMA RequestInv == ASSUME ProcessInv, AnswerCall \/ Arrive PROVE ProcessInv'
<1>1. /\ UNCHANGED callVars
      /\ \E r \in Requests : \/ Server!Connect(r) \/ Server!Begin(r)
                             \/ Server!Answer(r) \/ Server!Leave(r)
  BY CallAssumption DEF AnswerCall, Arrive
<1>2. S!StatementInv' /\ L!LifecycleInv'
  BY <1>1, StatementStep, LifecycleStep DEF ProcessInv
<1>3. Call \in Requests /\ DOMAIN request = Requests /\ server # "exited" /\ UNCHANGED server
  BY CallAssumption, <1>1 DEF ProcessInv, L!LifecycleInv, L!TypeOK, Server!Connect, Server!Begin,
     Server!Answer, Server!Leave, Server!Step, Server!serverVars
<1>4. HandlerOfCall'
  <2>1. CASE AnswerCall
    BY <1>1, <1>3, <2>1 DEF AnswerCall, Server!Answer, Server!Step, HandlerOfCall, callVars
  <2>2. CASE Arrive
    <3>1. PICK r \in Requests : Server!Connect(r) \/ Server!Begin(r) \/ Server!Leave(r)
      BY <2>2 DEF Arrive
    <3>2. \/ UNCHANGED <<request[Call], pc>>
          \/ /\ request[Call] \in {"away", "accepted"} /\ UNCHANGED pc
             /\ request'[Call] \in {"accepted", "active", "left"}
          \/ request'[Call] = "left"
      BY <1>1, <1>3, <3>1 DEF Server!Connect, Server!Begin, Server!Leave, Server!Step, callVars
    <3> QED
      BY <1>3, <3>2 DEF ProcessInv, HandlerOfCall
  <2> QED
    BY <2>1, <2>2
<1> QED
  BY <1>2, <1>4 DEF ProcessInv

(* The server: an exit leaves no request open.                             *)
LEMMA ServerInv == ASSUME ProcessInv, ServerStep PROVE ProcessInv'
<1>1. /\ UNCHANGED callVars
      /\ \/ Server!Main \/ Server!Serve
         \/ Server!Signal \/ Server!AcceptBreaks \/ Server!GraceEnds
  BY DEF ServerStep
<1>2. S!StatementInv' /\ L!LifecycleInv'
  BY <1>1, StatementStep, LifecycleStep DEF ProcessInv
<1>3. UNCHANGED pc
  BY <1>1 DEF callVars
<1>4. Call \in Requests
  BY CallAssumption
<1>5. CASE UNCHANGED request /\ (server' = "exited" => server = "exited")
  BY <1>2, <1>3, <1>5 DEF ProcessInv, HandlerOfCall
<1>6. CASE \E result \in {"clean", "error"} : Server!Exit(result)
  <2>1. request' = [r \in Requests |-> IF r \in Server!Open THEN "cut" ELSE request[r]]
    BY <1>6 DEF Server!Exit
  <2>2. request'[Call] = IF request[Call] \in {"accepted", "active"} THEN "cut" ELSE request[Call]
    BY <1>4, <2>1 DEF Server!Open
  <2> QED
    BY <1>2, <1>3, <2>2 DEF ProcessInv, HandlerOfCall
<1>7. \/ UNCHANGED request /\ (server' = "exited" => server = "exited")
      \/ \E result \in {"clean", "error"} : Server!Exit(result)
  BY <1>1 DEF Server!Main, Server!StartFails, Server!StartServing, Server!TakeSignal,
     Server!TakeServeErr, Server!Drained, Server!DrainTimesOut, Server!Serve,
     Server!ServeReturns, Server!SendServeErr, Server!Signal, Server!AcceptBreaks, Server!GraceEnds
<1> QED
  BY <1>5, <1>6, <1>7

(* The invariant of the composition: those of the parts, and the handler   *)
(* between them (http.go:82-92, tools.go:341-374).                         *)
THEOREM ProcessInvariant == Spec => []ProcessInv
<1>1. ASSUME ProcessInv, UNCHANGED vars PROVE ProcessInv'
  <2>1. UNCHANGED serverVars /\ UNCHANGED callVars
    BY <1>1 DEF vars
  <2>2. S!StatementInv' /\ L!LifecycleInv'
    BY <1>1, <2>1, StatementStep, LifecycleStep DEF ProcessInv
  <2> QED
    BY <1>1, <2>1, <2>2 DEF ProcessInv, HandlerOfCall, serverVars, callVars
<1>2. ASSUME ProcessInv, [Next]_vars PROVE ProcessInv'
  BY <1>1, <1>2, CallInv, RequestInv, ServerInv DEF Next
<1> QED
  BY <1>2, ProcessInit, PTL DEF Spec

(* A call that returned has freed its statement where it could, and one    *)
(* that was cut off means a process that ended with an error.              *)
LEMMA StrandedFromInv == ProcessInv => StrandedOnlyByForce
<1> SUFFICES ASSUME ProcessInv, server = "exited", stmt = "running", "DELETE" \notin onWire,
                    exit # "error", request[Call] # "left", reply.kind # "dead"
             PROVE  outcome = "error" /\ (req.method = "POST" \/ reply.kind = "garbage")
  BY DEF StrandedOnlyByForce
<1>1. request[Call] # "cut"
  BY CallAssumption DEF ProcessInv, L!LifecycleInv, L!CutHadGrace
<1>2. request[Call] \in {"away", "answered"}
  BY <1>1, CallAssumption DEF ProcessInv, HandlerOfCall, L!LifecycleInv, L!TypeOK
<1>3. pc # "idle"
  BY DEF ProcessInv, S!StatementInv, S!BeforeSend
<1>4. pc = "done"
  BY <1>2, <1>3 DEF ProcessInv, HandlerOfCall
<1>5. S!NoStrayStatement
  BY StatementAssumption, S!StrayFromInv DEF S!StrayFromInv, ProcessInv
<1> QED
  BY <1>4, <1>5 DEF S!NoStrayStatement

(* A process that is gone has left a statement running only by force, by a *)
(* caller that went first, or where no DELETE was possible (http.go:82-92, *)
(* client.go:151).                                                         *)
THEOREM OnlyForceStrands == Spec => []StrandedOnlyByForce
BY StrandedFromInv, ProcessInvariant, PTL

=============================================================================
