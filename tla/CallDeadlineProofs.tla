-------------------------- MODULE CallDeadlineProofs --------------------------
(***************************************************************************)
(* Theorems about CallDeadline, for every value of its timeouts.           *)
(***************************************************************************)
EXTENDS CallDeadline, TLAPS

(* A product within half the span does not wrap. *)
LEMMA WrapInRange ==
    ASSUME NEW x \in Nat, x < Half
    PROVE  Wrap(x) = x
<1>1. Half \in Nat /\ Half > 0
  BY TimeoutAssumption
<1>2. x + Half \in Nat /\ 2 * Half \in Nat /\ 2 * Half > 0 /\ x + Half < 2 * Half
  BY <1>1
<1>3. \A m, k \in Nat : m > 0 /\ k < m => k % m = k
  OBVIOUS
<1>4. (x + Half) % (2 * Half) = x + Half
  BY <1>2, <1>3
<1> QED
  BY <1>1, <1>4 DEF Wrap

(* A duration is an integer. *)
LEMMA WrapType ==
    ASSUME NEW x \in Int
    PROVE  Wrap(x) \in Int
BY TimeoutAssumption DEF Wrap

(* The timeout that is used never exceeds the one that is meant, and is    *)
(* that one unless the product wraps (queryTimeout).                       *)
LEMMA TimeoutBounds ==
    ASSUME NEW sec \in Int
    PROVE  /\ QueryTimeout(sec) \in Int /\ Meant(sec) \in Nat
           /\ QueryTimeout(sec) <= Meant(sec)
           /\ Meant(sec) <= MaxTimeout
           /\ InRange(sec) => QueryTimeout(sec) = Meant(sec)
           /\ Remaining(QueryTimeout(sec)) \in 0 .. MaxTimeout
           /\ Remaining(QueryTimeout(sec)) <= Meant(sec)
           /\ InRange(sec) => Remaining(QueryTimeout(sec)) = Meant(sec)
<1> DEFINE x == sec * Second
<1>1. /\ Second \in Nat /\ Second > 0 /\ Half \in Nat /\ MaxTimeout \in Nat /\ DefaultTimeout \in Nat
      /\ DefaultTimeout <= MaxTimeout /\ MaxTimeout < Half
  BY TimeoutAssumption
<1>2. x \in Int /\ (sec > 0 => x > 0)
  BY <1>1
<1> HIDE DEF x
<1>3. Wrap(x) \in Int
  BY <1>2, WrapType
<1>4. /\ QueryTimeout(sec) = IF sec <= 0 THEN DefaultTimeout
                             ELSE IF Wrap(x) < MaxTimeout THEN Wrap(x) ELSE MaxTimeout
      /\ Meant(sec) = IF sec <= 0 THEN DefaultTimeout
                      ELSE IF x < MaxTimeout THEN x ELSE MaxTimeout
      /\ InRange(sec) <=> x < Half
  BY DEF QueryTimeout, Meant, InRange, x
<1>5. x > 0 /\ x < Half => Wrap(x) = x
  BY <1>1, <1>2, WrapInRange
<1>6. QueryTimeout(sec) \in Int /\ Meant(sec) \in Nat /\ Meant(sec) <= MaxTimeout
  BY <1>1, <1>2, <1>3, <1>4
<1>7. QueryTimeout(sec) <= Meant(sec)
  BY <1>1, <1>2, <1>3, <1>4, <1>5
<1>8. InRange(sec) => QueryTimeout(sec) = Meant(sec)
  <2>1. CASE sec <= 0
    BY <1>4, <2>1
  <2>2. CASE ~ (sec <= 0)
    BY <1>1, <1>2, <1>4, <1>5, <2>2
  <2> QED
    BY <2>1, <2>2
<1> QED
  BY <1>1, <1>6, <1>7, <1>8 DEF Remaining

(* Every reachable state satisfies the invariant of the timers. *)
THEOREM DeadlineInvariant == Spec => []DeadlineInv
<1>1. Init => DeadlineInv
  <2>1. SUFFICES ASSUME Init PROVE DeadlineInv
    OBVIOUS
  <2>2. MaxTimeout \in Nat /\ SpentBound \in Nat
    BY TimeoutAssumption
  <2>3. TypeOK
    <3>1. bounded \in BOOLEAN
      BY <2>1, Zenon DEF Init
    <3> QED
      BY <2>1, <2>2, <3>1 DEF Init, TypeOK
  <2> QED
    BY <2>1, <2>3 DEF Init, DeadlineInv
<1>2. DeadlineInv /\ [Next]_vars => DeadlineInv'
  <2> SUFFICES ASSUME DeadlineInv, [Next]_vars PROVE DeadlineInv'
    OBVIOUS
  <2> USE TimeoutAssumption DEF DeadlineInv, TypeOK
  <2>0. asked \in Int /\ Meant(asked) \in Nat /\ Meant(asked) <= MaxTimeout
    BY TimeoutBounds
  <2>1. ASSUME NEW sec \in AskedSeconds, StartQuery(sec) PROVE DeadlineInv'
    BY <2>1, TimeoutBounds DEF StartQuery, Send
  <2>2. CASE StartMetadata
    BY <2>2, <2>0 DEF StartMetadata, Send
  <2>3. CASE Follow
    BY <2>3, <2>0 DEF Follow, Send
  <2>4. CASE Answered
    BY <2>4, <2>0 DEF Answered, Return, Cancel
  <2>5. CASE RequestFails
    BY <2>5, <2>0 DEF RequestFails, FailWith, Return, Cancel
  <2>6. CASE RequestTimesOut
    BY <2>6, <2>0 DEF RequestTimesOut, FailWith, Return, Cancel, Due, Expired
  <2>7. CASE CancelReturns
    BY <2>7, <2>0 DEF CancelReturns, Return
  <2>8. CASE Tick
    BY <2>8, <2>0 DEF Tick, Due, Expired, Remaining, Upto
  <2>9. CASE UNCHANGED vars
    BY <2>9 DEF vars
  <2> QED
    BY <2>1, <2>2, <2>3, <2>4, <2>5, <2>6, <2>7, <2>8, <2>9 DEF Next
<1> QED
  BY <1>1, <1>2, PTL DEF Spec

(* The deadline holds for every timeout_seconds, also one whose product    *)
(* wraps (queryTimeout, cancelStatement).                                  *)
THEOREM CallWithinLimit == Spec => []WithinLimit
<1>1. DeadlineInv => WithinLimit
  <2> SUFFICES ASSUME DeadlineInv, bounded PROVE spent <= Meant(asked) + CancelTimeout
    BY DEF WithinLimit
  <2>1. /\ Meant(asked) \in Nat /\ CancelTimeout \in Nat
        /\ left \in Nat /\ wait \in Nat /\ spent \in Nat
    BY TimeoutBounds, TimeoutAssumption DEF DeadlineInv, TypeOK
  <2> QED
    BY <2>1 DEF DeadlineInv, TypeOK
<1> QED
  BY <1>1, DeadlineInvariant, PTL

(* Every call, also one without a deadline, gives up on a coordinator that *)
(* falls silent (http.Client.Timeout, cancelStatement).                    *)
THEOREM SilenceIsNoticed == Spec => []SilenceNoticed
<1>1. DeadlineInv => SilenceNoticed
  BY TimeoutAssumption DEF DeadlineInv, TypeOK, SilenceNoticed
<1> QED
  BY <1>1, DeadlineInvariant, PTL

(* A call that gives up for silence waited one whole request timeout (do). *)
THEOREM SurrenderIsEarned == Spec => []NoEarlySurrender
<1>1. DeadlineInv => NoEarlySurrender
  BY DEF DeadlineInv, NoEarlySurrender
<1> QED
  BY <1>1, DeadlineInvariant, PTL

(* A query that fails on its deadline had all the time it was promised,    *)
(* unless its product wrapped (queryTimeout).                              *)
THEOREM FullTimeIsGiven == Spec => []FullTimeUnwrapped
<1>1. DeadlineInv => FullTimeUnwrapped
  BY DEF DeadlineInv, FullTimeUnwrapped
<1> QED
  BY <1>1, DeadlineInvariant, PTL

=============================================================================
