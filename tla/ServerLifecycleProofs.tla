------------------------ MODULE ServerLifecycleProofs ------------------------
(***************************************************************************)
(* What the shutdown of the server promises its requests, for any number   *)
(* of requests and streams.                                                *)
(***************************************************************************)
EXTENDS ServerLifecycle, TLAPS

Cut == {r \in Requests : request[r] = "cut"}

(* A process that has not ended has cut nothing, and one that has not      *)
(* started has nothing to cut.                                             *)
BeforeExit == /\ exit = "none" <=> server # "exited"
              /\ server # "exited" => Cut = {}
              /\ server = "start" => /\ Open = {}
                                     /\ accepting = "idle"
                                     /\ listener = "open"

(* The listener is closed by the drain only, so what Serve returns before  *)
(* the drain is a failure.                                                 *)
Channel == /\ listener = "closed" => server \in {"draining", "exited"}
           /\ accepting = "sending" => listener # "open"
           /\ serveErr = "closed" => server \in {"draining", "exited"}
           /\ serveErr = "failed" => listener = "broken"
           /\ server = "draining" => signalled

LifecycleInv == TypeOK /\ BeforeExit /\ Channel /\ CleanExitCutsNothing /\ CutHadGrace

-----------------------------------------------------------------------------
(* The server starts with no request. *)
LEMMA LifecycleInit == Init => LifecycleInv
BY DEF Init, LifecycleInv, TypeOK, BeforeExit, Channel, CleanExitCutsNothing, CutHadGrace,
       Cut, Open

(* An exit turns open requests, and no others, into cut ones. *)
LEMMA ExitCuts ==
    ASSUME TypeOK, Cut = {}, NEW result \in {"clean", "error"}, Exit(result)
    PROVE  /\ request' \in [Requests -> {"away", "accepted", "active", "answered", "left", "cut"}]
           /\ Cut' = Open
BY DEF TypeOK, Cut, Open, Exit

(* The ways to exit: the drain ended, its grace period ended, or the       *)
(* accept loop failed.                                                     *)
LEMMA ExitInv ==
    ASSUME LifecycleInv, StartFails \/ TakeServeErr \/ Drained \/ DrainTimesOut
    PROVE  LifecycleInv'
<1> USE DEF LifecycleInv
<1>1. CASE StartFails
  <2>1. Cut' = Open /\ Open = {} /\ TypeOK'
    BY <1>1, ExitCuts DEF StartFails, BeforeExit, Exit, TypeOK
  <2> QED
    BY <1>1, <2>1 DEF StartFails, Exit, BeforeExit, Channel, CleanExitCutsNothing, CutHadGrace, Cut
<1>2. CASE TakeServeErr
  <2>1. serveErr = "failed" /\ listener = "broken"
    BY <1>2 DEF TakeServeErr, Channel, TypeOK
  <2>2. Exit("error") /\ TypeOK'
    BY <1>2, <2>1, ExitCuts DEF TakeServeErr, BeforeExit, Exit, TypeOK
  <2> QED
    BY <1>2, <2>1, <2>2 DEF TakeServeErr, Exit, BeforeExit, Channel, CleanExitCutsNothing, CutHadGrace
<1>3. CASE Drained
  <2>1. Cut' = {} /\ TypeOK'
    BY <1>3, ExitCuts DEF Drained, BeforeExit, Exit, TypeOK
  <2> QED
    BY <1>3, <2>1 DEF Drained, Exit, BeforeExit, Channel, CleanExitCutsNothing, CutHadGrace, Cut
<1>4. CASE DrainTimesOut
  <2>1. TypeOK'
    BY <1>4, ExitCuts DEF DrainTimesOut, BeforeExit, Exit, TypeOK
  <2> QED
    BY <1>4, <2>1 DEF DrainTimesOut, Exit, BeforeExit, Channel, CleanExitCutsNothing, CutHadGrace
<1> QED
  BY <1>1, <1>2, <1>3, <1>4

(* Before the exit no request is cut by any other step, and after it none  *)
(* changes.                                                                *)
LEMMA RunningInv ==
    ASSUME LifecycleInv,
           \/ StartServing \/ TakeSignal \/ Serve \/ Signal \/ AcceptBreaks \/ GraceEnds
           \/ UNCHANGED vars
    PROVE  LifecycleInv'
<1> USE DEF LifecycleInv
<1>1. request' = request /\ exit' = exit
  BY DEF StartServing, TakeSignal, Serve, ServeReturns, SendServeErr, Signal, AcceptBreaks,
         GraceEnds, vars, serverVars
<1>2. Open' = Open /\ Cut' = Cut
  BY <1>1 DEF Open, Cut
<1>3. TypeOK' /\ BeforeExit'
  BY <1>1, <1>2 DEF TypeOK, BeforeExit, StartServing, TakeSignal, Serve, ServeReturns, SendServeErr,
                    Signal, AcceptBreaks, GraceEnds, vars, serverVars
<1>4. Channel'
  BY DEF TypeOK, BeforeExit, Channel, StartServing, TakeSignal, Serve, ServeReturns, SendServeErr,
         Signal, AcceptBreaks, GraceEnds, vars, serverVars
<1>5. CleanExitCutsNothing'
  BY <1>1 DEF CleanExitCutsNothing
<1>6. CutHadGrace'
  <2>1. CASE Cut = {}
    BY <1>1, <2>1 DEF CutHadGrace, Cut
  <2>2. CASE server = "exited"
    BY <1>1, <2>2 DEF CutHadGrace, StartServing, TakeSignal, Serve, ServeReturns, SendServeErr,
                      Signal, AcceptBreaks, GraceEnds, vars, serverVars
  <2> QED
    BY <2>1, <2>2 DEF BeforeExit
<1> QED
  BY <1>3, <1>4, <1>5, <1>6

(* A client's step leads from an open or unsent request to one not cut.    *)
LEMMA ClientInv ==
    ASSUME LifecycleInv, NEW r \in Requests, Connect(r) \/ Begin(r) \/ Answer(r) \/ Leave(r)
    PROVE  LifecycleInv'
<1> USE DEF LifecycleInv
<1>1. /\ UNCHANGED serverVars
      /\ server # "exited" /\ server # "start"
      /\ \E s \in {"accepted", "active", "answered", "left"} : request' = [request EXCEPT ![r] = s]
  BY DEF Connect, Begin, Answer, Leave, Step, BeforeExit, Open
<1>2. TypeOK'
  BY <1>1 DEF TypeOK, serverVars
<1>3. Cut' = {}
  BY <1>1 DEF Cut, BeforeExit, TypeOK
<1> QED
  BY <1>1, <1>2, <1>3 DEF serverVars, BeforeExit, Channel, CleanExitCutsNothing, CutHadGrace, Cut

(* The inductive invariant of the server's life (serveHTTP): an exit is    *)
(* told apart by what was open when it happened.                           *)
THEOREM LifecycleInvariant == Spec => []LifecycleInv
<1>1. ASSUME LifecycleInv, [Next]_vars PROVE LifecycleInv'
  BY <1>1, ExitInv, RunningInv, ClientInv DEF Next, Main, World
<1> QED
  BY <1>1, LifecycleInit, PTL DEF Spec

(* Types, for any number of requests. *)
THEOREM LifecycleTypes == Spec => []TypeOK
<1>1. LifecycleInv => TypeOK
  BY DEF LifecycleInv
<1> QED
  BY <1>1, LifecycleInvariant, PTL

(* A process that ends without an error has cut no request, although Serve *)
(* returns as soon as the drain begins (http.go:82-92).                    *)
THEOREM CleanExitIsClean == Spec => []CleanExitCutsNothing
<1>1. LifecycleInv => CleanExitCutsNothing
  BY DEF LifecycleInv
<1> QED
  BY <1>1, LifecycleInvariant, PTL

(* A request is cut only after the grace period or when the accept loop    *)
(* failed (http.go:83-91).                                                 *)
THEOREM CutsAreEarned == Spec => []CutHadGrace
<1>1. LifecycleInv => CutHadGrace
  BY DEF LifecycleInv
<1> QED
  BY <1>1, LifecycleInvariant, PTL

=============================================================================
