------------------------ MODULE StatementClientProofs ------------------------
(***************************************************************************)
(* Theorems about StatementClient, for every value of its constants.       *)
(***************************************************************************)
EXTENDS StatementClient, SequenceTheorems, TLAPS

-----------------------------------------------------------------------------
(* Lemmas about runs of row numbers and about caps. *)

(* Rows numbered from first are a sequence of naturals of length n. *)
LEMMA NumberedSeq ==
    ASSUME NEW a \in Nat, NEW n \in Nat
    PROVE  /\ Numbered(a, n) \in Seq(Nat)
           /\ Len(Numbered(a, n)) = n
           /\ \A i \in 1 .. n : Numbered(a, n)[i] = a + i
           /\ Numbered(a, n) = <<>> <=> n = 0
<1>1. Numbered(a, n) \in [1 .. n -> Nat]
  BY DEF Numbered
<1>2. Numbered(a, n) \in Seq(Nat)
  BY <1>1, SeqDef
<1>3. DOMAIN Numbered(a, n) = 1 .. n /\ DOMAIN Numbered(a, n) = 1 .. Len(Numbered(a, n))
  BY <1>1, <1>2, LenProperties
<1>4. Len(Numbered(a, n)) = n
  BY <1>2, <1>3, LenProperties
<1>5. Numbered(a, n) = <<>> <=> n = 0
  BY <1>2, <1>4, EmptySeq
<1> QED
  BY <1>1, <1>2, <1>4, <1>5 DEF Numbered

(* A page appended to the rows before it gives the rows up to its end. *)
LEMMA NumberedConcat ==
    ASSUME NEW n \in Nat, NEW m \in Nat
    PROVE  Numbered(0, n) \o Numbered(n, m) = Numbered(0, n + m)
<1> DEFINE s == Numbered(0, n)
           t == Numbered(n, m)
           u == Numbered(0, n + m)
<1>1. s \in Seq(Nat) /\ t \in Seq(Nat) /\ u \in Seq(Nat)
  BY NumberedSeq, n + m \in Nat
<1>2. Len(s) = n /\ Len(t) = m /\ Len(u) = n + m
  BY NumberedSeq, n + m \in Nat
<1>3. s \o t \in Seq(Nat) /\ Len(s \o t) = Len(u)
  BY <1>1, <1>2, ConcatProperties
<1>4. ASSUME NEW i \in 1 .. n + m PROVE (s \o t)[i] = u[i]
  <2>1. (s \o t)[i] = IF i <= n THEN s[i] ELSE t[i - n]
    <3> HIDE DEF s, t
    <3>1. \A j \in 1 .. Len(s) + Len(t) : (s \o t)[j] = IF j <= Len(s) THEN s[j] ELSE t[j - Len(s)]
      BY <1>1, ConcatProperties
    <3> QED
      BY <1>2, <3>1
  <2>2. CASE i <= n
    BY <2>1, <2>2 DEF Numbered
  <2>3. CASE ~ (i <= n)
    BY <2>1, <2>3 DEF Numbered
  <2> QED
    BY <2>2, <2>3
<1> HIDE DEF s, t, u
<1>5. s \o t = u
  BY <1>1, <1>2, <1>3, <1>4, SeqEqual
<1> QED
  BY <1>5 DEF s, t, u

(* The first m of the rows numbered from one are the rows up to m. *)
LEMMA NumberedPrefix ==
    ASSUME NEW n \in Nat, NEW m \in Nat, m <= n
    PROVE  SubSeq(Numbered(0, n), 1, m) = Numbered(0, m)
<1> DEFINE s == Numbered(0, n)
           t == SubSeq(s, 1, m)
<1>1. s \in Seq(Nat) /\ Len(s) = n
  BY NumberedSeq
<1>2. /\ t \in Seq(Nat) /\ Len(t) = m
      /\ \A i \in 1 .. m : t[i] = s[i]
  BY <1>1, SubSeqProperties
<1>3. \A i \in 1 .. m : t[i] = Numbered(0, m)[i]
  BY <1>2 DEF Numbered
<1>4. Numbered(0, m) \in Seq(Nat) /\ Len(Numbered(0, m)) = m
  BY NumberedSeq
<1> HIDE DEF s, t
<1>5. t = Numbered(0, m)
  BY <1>2, <1>3, <1>4, SeqEqual
<1> QED
  BY <1>5 DEF s, t

(* A clamped cap is positive and at most MaxResultRows. *)
LEMMA ClampBounds ==
    ASSUME NEW n \in Int
    PROVE  ClampMaxRows(n) \in Nat /\ ClampMaxRows(n) > 0 /\ ClampMaxRows(n) <= MaxResultRows
BY CapAssumption DEF ClampMaxRows

(* Consecutive tokens differ. *)
LEMMA NextDiffers ==
    ASSUME NEW t \in Tokens
    PROVE  Next1(t) \in Tokens /\ Next1(t) # t
BY CoordinatorAssumption DEF Tokens, Next1

-----------------------------------------------------------------------------
(* The inductive invariant, one lemma for the client's actions and one for *)
(* those of the environment.                                               *)

(* An idle client and a coordinator without a statement are in step. *)
LEMMA InitInv == Init => StatementInv
<1> SUFFICES ASSUME Init PROVE StatementInv
  OBVIOUS
<1>1. 0 \in Tokens /\ NoPage \in Pages /\ NoReply \in Replies
  BY CoordinatorAssumption DEF Tokens, NoPage, Pages, NoReply, Replies
<1>2. TypeOK
  BY <1>1, EmptySeq DEF Init, TypeOK
<1>3. InStep /\ ReplyIsCurrent /\ HeldRowsBounded /\ ResultExact
  BY DEF Init, InStep, ReplyIsCurrent, HeldRowsBounded, ResultExact
<1>4. BeforeSend /\ OnePoll /\ OutcomeFacts
  BY DEF Init, BeforeSend, OnePoll, OutcomeFacts, NoPage
<1>5. EngineFacts
  BY CoordinatorAssumption DEF Init, EngineFacts, Made, NoPage, NoReply
<1> QED
  BY <1>2, <1>3, <1>4, <1>5 DEF StatementInv

(* What the client holds after a page arrived: every row made so far. *)
LEMMA GatheredExact ==
    ASSUME StatementInv, Received
    PROVE  /\ reply.body = page
           /\ page.more \/ stmt = "finished"
           /\ Made \in Nat
           /\ Gathered = Numbered(0, Made)
           /\ Gathered \in Seq(Nat)
           /\ Len(Gathered) = Made
           /\ KnownColumns \in BOOLEAN
           /\ Gathered # <<>> => KnownColumns
<1>1. /\ page.first \in Nat /\ page.len \in Nat /\ page.cols \in BOOLEAN /\ cols \in BOOLEAN
      /\ Made = page.first + page.len /\ Made \in Nat
  BY CoordinatorAssumption DEF StatementInv, TypeOK, Pages, Made
<1>2. /\ reply.body = page
      /\ rows = Numbered(0, page.first)
      /\ page.more \/ stmt = "finished"
  BY DEF StatementInv, ReplyIsCurrent, Received
<1>3. Gathered = Numbered(0, Made)
  <2>1. Gathered = Numbered(0, page.first) \o Numbered(page.first, page.len)
    BY <1>2 DEF Gathered, PageRows
  <2>2. Numbered(0, page.first) \o Numbered(page.first, page.len)
            = Numbered(0, page.first + page.len)
    BY <1>1, NumberedConcat
  <2> QED
    BY <1>1, <2>1, <2>2
<1>4. Gathered \in Seq(Nat) /\ Len(Gathered) = Made /\ (Gathered = <<>> <=> Made = 0)
  <2>1. /\ Numbered(0, Made) \in Seq(Nat) /\ Len(Numbered(0, Made)) = Made
        /\ Numbered(0, Made) = <<>> <=> Made = 0
    <3>1. Made \in Nat /\ 0 \in Nat
      BY <1>1
    <3> HIDE DEF Made
    <3> QED
      BY <3>1, NumberedSeq
  <2> QED
    BY <1>3, <2>1
<1>5. KnownColumns = (cols \/ page.cols)
  BY <1>2 DEF KnownColumns
<1>6. ASSUME Gathered # <<>> PROVE KnownColumns
  <2>1. page.first # 0 \/ page.len > 0
    BY <1>1, <1>4, <1>6
  <2>2. CASE page.first # 0
    <3>1. rows # <<>>
      BY <1>1, <1>2, <2>2, NumberedSeq
    <3>2. cols
      BY <3>1 DEF StatementInv, OutcomeFacts
    <3> QED
      BY <1>5, <3>2
  <2>3. CASE page.len > 0
    BY <1>5, <2>3 DEF StatementInv, EngineFacts
  <2> QED
    BY <2>1, <2>2, <2>3
<1>7. KnownColumns \in BOOLEAN
  BY <1>1, <1>5
<1> QED
  BY <1>1, <1>2, <1>3, <1>4, <1>6, <1>7

(* The steps of collect and cancelStatement preserve the invariant. *)
LEMMA ClientInv == StatementInv /\ Client => StatementInv'
<1> SUFFICES ASSUME StatementInv, Client PROVE StatementInv'
  OBVIOUS
<1>1. CASE RejectCall
  <2>1. TypeOK'
    BY <1>1 DEF StatementInv, TypeOK, RejectCall, engineVars
  <2>2. BeforeSend'
    BY <1>1 DEF StatementInv, BeforeSend, RejectCall, engineVars, NoReply, NoPage
  <2>3. OnePoll'
    BY <1>1 DEF StatementInv, OnePoll, RejectCall, engineVars
  <2>4. InStep'
    BY <1>1 DEF StatementInv, InStep, RejectCall, engineVars, Made
  <2>5. ReplyIsCurrent'
    BY <1>1 DEF StatementInv, ReplyIsCurrent, RejectCall, engineVars
  <2>6. EngineFacts'
    BY <1>1 DEF StatementInv, EngineFacts, RejectCall, engineVars, Made
  <2>7. OutcomeFacts'
    BY <1>1 DEF StatementInv, OutcomeFacts, RejectCall, engineVars, BeforeSend
  <2>8. HeldRowsBounded'
    BY <1>1 DEF StatementInv, HeldRowsBounded, RejectCall, engineVars
  <2>9. ResultExact'
    BY <1>1 DEF StatementInv, ResultExact, RejectCall, engineVars, Made
  <2> QED
    BY <2>1, <2>2, <2>3, <2>4, <2>5, <2>6, <2>7, <2>8, <2>9 DEF StatementInv
<1>2. CASE CancelReturns
  <2>1. TypeOK'
    BY <1>2 DEF StatementInv, TypeOK, CancelReturns, engineVars
  <2>2. BeforeSend'
    BY <1>2 DEF StatementInv, BeforeSend, CancelReturns, engineVars, NoReply, NoPage
  <2>3. OnePoll'
    BY <1>2 DEF StatementInv, OnePoll, CancelReturns, engineVars
  <2>4. InStep'
    BY <1>2 DEF StatementInv, InStep, CancelReturns, engineVars, Made
  <2>5. ReplyIsCurrent'
    BY <1>2 DEF StatementInv, ReplyIsCurrent, CancelReturns, engineVars
  <2>6. EngineFacts'
    BY <1>2 DEF StatementInv, EngineFacts, CancelReturns, engineVars, Made
  <2>7. OutcomeFacts'
    BY <1>2 DEF StatementInv, OutcomeFacts, CancelReturns, engineVars, TypeOK
  <2>8. HeldRowsBounded'
    BY <1>2 DEF StatementInv, HeldRowsBounded, CancelReturns, engineVars
  <2>9. ResultExact'
    BY <1>2 DEF StatementInv, ResultExact, CancelReturns, engineVars, Made
  <2> QED
    BY <2>1, <2>2, <2>3, <2>4, <2>5, <2>6, <2>7, <2>8, <2>9 DEF StatementInv
<1>3. CASE AbortUncancelled
  <2>1. TypeOK'
    BY <1>3, EmptySeq DEF StatementInv, TypeOK, AbortUncancelled, Fail, ReturnNow, engineVars
  <2>2. BeforeSend'
    BY <1>3
    DEF StatementInv, BeforeSend, AbortUncancelled, Fail, ReturnNow, engineVars, NoReply,
        NoPage
  <2>3. OnePoll'
    BY <1>3 DEF StatementInv, OnePoll, AbortUncancelled, Fail, ReturnNow, engineVars
  <2>4. InStep'
    BY <1>3 DEF StatementInv, InStep, AbortUncancelled, Fail, ReturnNow, engineVars, Made
  <2>5. ReplyIsCurrent'
    BY <1>3 DEF StatementInv, ReplyIsCurrent, AbortUncancelled, Fail, ReturnNow, engineVars
  <2>6. EngineFacts'
    BY <1>3 DEF StatementInv, EngineFacts, AbortUncancelled, Fail, ReturnNow, engineVars, Made
  <2>7. OutcomeFacts'
    BY <1>3
    DEF StatementInv, OutcomeFacts, AbortUncancelled, Fail, ReturnNow, engineVars, TypeOK,
        OnePoll
  <2>8. HeldRowsBounded'
    BY <1>3, EmptySeq
    DEF StatementInv, HeldRowsBounded, AbortUncancelled, Fail, ReturnNow, engineVars, TypeOK
  <2>9. ResultExact'
    BY <1>3 DEF StatementInv, ResultExact, AbortUncancelled, Fail, ReturnNow, engineVars, Made
  <2> QED
    BY <2>1, <2>2, <2>3, <2>4, <2>5, <2>6, <2>7, <2>8, <2>9 DEF StatementInv
<1>4. CASE RequestFails
  <2>1. TypeOK'
    BY <1>4, EmptySeq
    DEF StatementInv, TypeOK, RequestFails, Fail, ReturnNow, CancelStatement, engineVars
  <2>2. BeforeSend'
    BY <1>4
    DEF StatementInv, BeforeSend, RequestFails, Fail, ReturnNow, CancelStatement, engineVars,
        NoReply, NoPage
  <2>3. OnePoll'
    BY <1>4
    DEF StatementInv, OnePoll, RequestFails, Fail, ReturnNow, CancelStatement, engineVars
  <2>4. InStep'
    BY <1>4
    DEF StatementInv, InStep, RequestFails, Fail, ReturnNow, CancelStatement, engineVars,
        Made
  <2>5. ReplyIsCurrent'
    BY <1>4 DEF StatementInv, ReplyIsCurrent, RequestFails, Fail, ReturnNow, CancelStatement,
        engineVars
  <2>6. EngineFacts'
    BY <1>4 DEF StatementInv, EngineFacts, RequestFails, Fail, ReturnNow, CancelStatement,
        engineVars, Made
  <2>7. OutcomeFacts'
    BY <1>4 DEF StatementInv, OutcomeFacts, RequestFails, Fail, ReturnNow, CancelStatement,
        engineVars, TypeOK, OnePoll
  <2>8. HeldRowsBounded'
    BY <1>4, EmptySeq
    DEF StatementInv, HeldRowsBounded, RequestFails, Fail, ReturnNow, CancelStatement,
        engineVars, TypeOK
  <2>9. ResultExact'
    BY <1>4 DEF StatementInv, ResultExact, RequestFails, Fail, ReturnNow, CancelStatement,
        engineVars, Made
  <2> QED
    BY <2>1, <2>2, <2>3, <2>4, <2>5, <2>6, <2>7, <2>8, <2>9 DEF StatementInv
<1>5. CASE StartMetadata
  <2>1. TypeOK'
    BY <1>5, CoordinatorAssumption
    DEF StatementInv, TypeOK, StartMetadata, Transmit, NoReply, NoPage, engineVars, Tokens,
        Replies, Pages
  <2>2. BeforeSend'
    BY <1>5 DEF StatementInv, BeforeSend, StartMetadata, Transmit, NoReply, NoPage, engineVars
  <2>3. OnePoll'
    BY <1>5 DEF StatementInv, OnePoll, StartMetadata, Transmit, NoReply, NoPage, engineVars,
        BeforeSend
  <2>4. InStep'
    BY <1>5, NumberedSeq
    DEF StatementInv, InStep, StartMetadata, Transmit, NoReply, NoPage, engineVars, Made,
        BeforeSend, OnePoll, TypeOK, Pages
  <2>5. ReplyIsCurrent'
    BY <1>5
    DEF StatementInv, ReplyIsCurrent, StartMetadata, Transmit, NoReply, NoPage, engineVars,
        BeforeSend
  <2>6. EngineFacts'
    BY <1>5
    DEF StatementInv, EngineFacts, StartMetadata, Transmit, NoReply, NoPage, engineVars,
        Made, BeforeSend
  <2>7. OutcomeFacts'
    BY <1>5
    DEF StatementInv, OutcomeFacts, StartMetadata, Transmit, NoReply, NoPage, engineVars,
        BeforeSend
  <2>8. HeldRowsBounded'
    BY <1>5, EmptySeq
    DEF StatementInv, HeldRowsBounded, StartMetadata, Transmit, NoReply, NoPage, engineVars,
        BeforeSend
  <2>9. ResultExact'
    BY <1>5
    DEF StatementInv, ResultExact, StartMetadata, Transmit, NoReply, NoPage, engineVars,
        Made, BeforeSend
  <2> QED
    BY <2>1, <2>2, <2>3, <2>4, <2>5, <2>6, <2>7, <2>8, <2>9 DEF StatementInv
<1>6. CASE Finish
  <2>1. /\ rows' \in Seq(Nat) /\ rows' = Numbered(0, Made') /\ stmt' = "finished"
        /\ cap > 0 => Len(rows') <= cap /\ Made' <= cap
        /\ rows' # <<>> => cols'
        /\ cols' \in BOOLEAN
    <3>1. Made' = Made /\ cap \in Nat
      BY <1>6 DEF Finish, Made, engineVars, StatementInv, TypeOK
    <3> QED
      BY <1>6, <3>1, GatheredExact DEF Finish, Received, PastCap, engineVars
  <2>2. TypeOK'
    BY <1>6, <2>1 DEF StatementInv, TypeOK, Finish, Received, ReturnNow, engineVars
  <2>3. BeforeSend'
    BY <1>6
    DEF StatementInv, BeforeSend, Finish, Received, ReturnNow, engineVars, NoReply, NoPage
  <2>4. OnePoll'
    BY <1>6 DEF StatementInv, OnePoll, Finish, Received, ReturnNow, engineVars
  <2>5. InStep'
    BY <1>6 DEF StatementInv, InStep, Finish, Received, ReturnNow, engineVars, Made
  <2>6. ReplyIsCurrent'
    BY <1>6 DEF StatementInv, ReplyIsCurrent, Finish, Received, ReturnNow, engineVars
  <2>7. EngineFacts'
    BY <1>6 DEF StatementInv, EngineFacts, Finish, Received, ReturnNow, engineVars, Made
  <2>8. OutcomeFacts'
    BY <1>6, <2>1
    DEF StatementInv, OutcomeFacts, Finish, Received, ReturnNow, engineVars, TypeOK
  <2>9. HeldRowsBounded'
    BY <1>6, <2>1 DEF StatementInv, HeldRowsBounded, Finish, Received, ReturnNow, engineVars
  <2>10. ResultExact'
    BY <1>6, <2>1 DEF StatementInv, ResultExact, Finish, engineVars
  <2> QED
    BY <2>2, <2>3, <2>4, <2>5, <2>6, <2>7, <2>8, <2>9, <2>10 DEF StatementInv
<1>7. CASE FollowNext
  <2>1. /\ rows' \in Seq(Nat) /\ rows' = Numbered(0, Made')
        /\ cap > 0 => Len(rows') <= cap
        /\ rows' # <<>> => cols'
        /\ cols' \in BOOLEAN
        /\ req' = [method |-> "GET", token |-> Next1(page'.token)]
        /\ Next1(page.token) \in Tokens /\ page'.more
        /\ NoReply \in Replies
    <3>1. Made' = Made /\ cap \in Nat /\ page.token \in Tokens
      BY <1>7 DEF FollowNext, Made, engineVars, StatementInv, TypeOK, Pages
    <3>2. NoReply \in Replies
      BY CoordinatorAssumption DEF NoReply, NoPage, Replies, Pages, Tokens
    <3>3. Next1(page.token) \in Tokens
      BY <3>1, NextDiffers
    <3> QED
      BY <1>7, <3>1, <3>2, <3>3, GatheredExact
      DEF FollowNext, Received, PastCap, Transmit, engineVars
  <2>2. TypeOK'
    BY <1>7, <2>1
    DEF StatementInv, TypeOK, FollowNext, Received, Transmit, NoReply, engineVars, Replies
  <2>3. BeforeSend'
    BY <1>7
    DEF StatementInv, BeforeSend, FollowNext, Received, Transmit, NoReply, engineVars, NoPage
  <2>4. OnePoll'
    BY <1>7 DEF StatementInv, OnePoll, FollowNext, Received, Transmit, NoReply, engineVars,
        ReplyIsCurrent
  <2>5. InStep'
    BY <1>7, <2>1 DEF StatementInv, InStep, FollowNext, Transmit, engineVars
  <2>6. ReplyIsCurrent'
    BY <1>7
    DEF StatementInv, ReplyIsCurrent, FollowNext, Received, Transmit, NoReply, engineVars
  <2>7. EngineFacts'
    BY <1>7, <2>1
    DEF StatementInv, EngineFacts, FollowNext, Received, Transmit, NoReply, engineVars, Made
  <2>8. OutcomeFacts'
    BY <1>7, <2>1
    DEF StatementInv, OutcomeFacts, FollowNext, Received, Transmit, NoReply, engineVars,
        TypeOK
  <2>9. HeldRowsBounded'
    BY <1>7, <2>1
    DEF StatementInv, HeldRowsBounded, FollowNext, Received, Transmit, NoReply, engineVars
  <2>10. ResultExact'
    BY <1>7, <2>1
    DEF StatementInv, ResultExact, FollowNext, Received, Transmit, NoReply, engineVars, Made,
        OutcomeFacts
  <2> QED
    BY <2>2, <2>3, <2>4, <2>5, <2>6, <2>7, <2>8, <2>9, <2>10 DEF StatementInv
<1>8. CASE TruncateAtCap
  <2>1. /\ rows' \in Seq(Nat) /\ rows' = Numbered(0, cap) /\ Len(rows') = cap
        /\ cap > 0 /\ Made' > cap /\ rows' # <<>>
        /\ cols' = TRUE
        /\ reply.body = page
        /\ ~ page.more => stmt = "finished"
    <3>1. Made' = Made /\ cap \in Nat
      BY <1>8 DEF TruncateAtCap, Made, engineVars, StatementInv, TypeOK
    <3>2. cap > 0 /\ Made > cap /\ Gathered = Numbered(0, Made) /\ Gathered # <<>> /\ Made \in Nat
      BY <1>8, <3>1, GatheredExact, EmptySeq DEF TruncateAtCap, PastCap
    <3>3. rows' = Numbered(0, cap)
      <4>1. SubSeq(Numbered(0, Made), 1, cap) = Numbered(0, cap)
        BY <3>1, <3>2, NumberedPrefix
      <4> QED
        BY <1>8, <3>2, <4>1 DEF TruncateAtCap
    <3>4. rows' \in Seq(Nat) /\ Len(rows') = cap /\ rows' # <<>>
      BY <3>1, <3>2, <3>3, NumberedSeq
    <3>5. KnownColumns = TRUE
      BY <1>8, <3>2, GatheredExact DEF TruncateAtCap
    <3> QED
      BY <1>8, <3>1, <3>2, <3>3, <3>4, <3>5, GatheredExact DEF TruncateAtCap
  <2>2. TypeOK'
    BY <1>8, <2>1
    DEF StatementInv, TypeOK, TruncateAtCap, Received, ReturnNow, CancelStatement, engineVars
  <2>3. BeforeSend'
    BY <1>8 DEF StatementInv, BeforeSend, TruncateAtCap, Received, ReturnNow, CancelStatement,
        engineVars, NoReply, NoPage
  <2>4. OnePoll'
    BY <1>8 DEF StatementInv, OnePoll, TruncateAtCap, Received, ReturnNow, CancelStatement,
        engineVars
  <2>5. InStep'
    BY <1>8 DEF StatementInv, InStep, TruncateAtCap, Received, ReturnNow, CancelStatement,
        engineVars, Made
  <2>6. ReplyIsCurrent'
    BY <1>8
    DEF StatementInv, ReplyIsCurrent, TruncateAtCap, Received, ReturnNow, CancelStatement,
        engineVars
  <2>7. EngineFacts'
    BY <1>8
    DEF StatementInv, EngineFacts, TruncateAtCap, Received, ReturnNow, CancelStatement,
        engineVars, Made
  <2>8. OutcomeFacts'
    BY <1>8, <2>1
    DEF StatementInv, OutcomeFacts, TruncateAtCap, Received, ReturnNow, CancelStatement,
        engineVars, TypeOK
  <2>9. HeldRowsBounded'
    BY <1>8, <2>1
    DEF StatementInv, HeldRowsBounded, TruncateAtCap, Received, ReturnNow, CancelStatement,
        engineVars
  <2>10. ResultExact'
    BY <1>8, <2>1 DEF StatementInv, ResultExact, TruncateAtCap, engineVars
  <2> QED
    BY <2>2, <2>3, <2>4, <2>5, <2>6, <2>7, <2>8, <2>9, <2>10 DEF StatementInv
<1>9. ASSUME NEW n \in AskedRows, StartRead(n) PROVE StatementInv'
  <2>1. TypeOK'
    BY <1>9, CapAssumption, CoordinatorAssumption, ClampBounds
    DEF StatementInv, TypeOK, StartRead, Transmit, NoReply, NoPage, engineVars, Tokens,
        Replies, Pages
  <2>2. BeforeSend'
    BY <1>9 DEF StatementInv, BeforeSend, StartRead, Transmit, NoReply, NoPage, engineVars
  <2>3. OnePoll'
    BY <1>9
    DEF StatementInv, OnePoll, StartRead, Transmit, NoReply, NoPage, engineVars, BeforeSend
  <2>4. InStep'
    BY <1>9, NumberedSeq
    DEF StatementInv, InStep, StartRead, Transmit, NoReply, NoPage, engineVars, Made,
        BeforeSend, OnePoll, TypeOK, Pages
  <2>5. ReplyIsCurrent'
    BY <1>9
    DEF StatementInv, ReplyIsCurrent, StartRead, Transmit, NoReply, NoPage, engineVars,
        BeforeSend
  <2>6. EngineFacts'
    BY <1>9
    DEF StatementInv, EngineFacts, StartRead, Transmit, NoReply, NoPage, engineVars, Made,
        BeforeSend
  <2>7. OutcomeFacts'
    BY <1>9 DEF StatementInv, OutcomeFacts, StartRead, Transmit, NoReply, NoPage, engineVars,
        BeforeSend
  <2>8. HeldRowsBounded'
    BY <1>9, CapAssumption, ClampBounds, EmptySeq
    DEF StatementInv, HeldRowsBounded, StartRead, Transmit, NoReply, NoPage, engineVars,
        BeforeSend
  <2>9. ResultExact'
    BY <1>9
    DEF StatementInv, ResultExact, StartRead, Transmit, NoReply, NoPage, engineVars, Made,
        BeforeSend
  <2> QED
    BY <2>1, <2>2, <2>3, <2>4, <2>5, <2>6, <2>7, <2>8, <2>9 DEF StatementInv
<1> QED
  BY <1>1, <1>2, <1>3, <1>4, <1>5, <1>6, <1>7, <1>8, <1>9 DEF Client, Handle

(* A delivery either leaves the reply alone or answers the open request. *)
LEMMA Delivered ==
    ASSUME NEW m, NEW rs, Deliver(m, rs)
    PROVE  \/ reply' = reply
           \/ /\ pc = "sent" /\ req.method = m /\ reply.kind = "none"
              /\ reply' \in rs
BY DEF Deliver

(* A page is delivered as it is, dead only if it has a nextUri. *)
LEMMA PageReply ==
    ASSUME NEW p \in Pages, NEW r \in PageReplies(p)
    PROVE  /\ r \in Replies /\ r.kind \in {"page", "dead"} /\ r.body = p
           /\ r.kind = "dead" => p.more
<1>1. PICK kind \in {"page", "dead"} : /\ r = [kind |-> kind, body |-> p]
                                       /\ kind = "dead" => p.more
  BY DEF PageReplies
<1> QED
  BY <1>1 DEF Replies

(* What the coordinator puts on a page. *)
LEMMA ProducedPage ==
    ASSUME NEW t \in Tokens, NEW f \in 0 .. RowBound, NEW p \in Produce(t, f)
    PROVE  /\ p \in Pages /\ p.token = t /\ p.first = f
           /\ p.first + p.len <= RowBound
           /\ p.len > 0 => p.cols
<1>1. /\ p \in [token : {t}, first : {f}, len : PageSizes, cols : BOOLEAN, more : BOOLEAN]
      /\ p.first + p.len <= RowBound
      /\ p.len > 0 => p.cols
  BY DEF Produce
<1>2. p \in Pages /\ p.token = t /\ p.first = f
  BY <1>1, CoordinatorAssumption DEF Pages
<1> QED
  BY <1>1, <1>2

(* A fault is a reply without a page. *)
LEMMA FaultReply ==
    ASSUME NEW k \in {"error", "garbage", "status"}
    PROVE  Fault(k) \in Replies /\ Fault(k).kind = k
BY CoordinatorAssumption DEF Fault, NoPage, Replies, Pages, Tokens

(* So do the deadline, and what the coordinator does to a request that is  *)
(* open or abandoned.                                                      *)
LEMMA EnvironmentInv == StatementInv /\ Environment => StatementInv'
<1> SUFFICES ASSUME StatementInv, Environment PROVE StatementInv'
  OBVIOUS
<1>1. CASE Expire
  <2>1. TypeOK'
    BY <1>1 DEF StatementInv, TypeOK, Expire, callVars, engineVars
  <2>2. BeforeSend'
    BY <1>1 DEF StatementInv, BeforeSend, Expire, callVars, engineVars, NoReply, NoPage
  <2>3. OnePoll'
    BY <1>1 DEF StatementInv, OnePoll, Expire, callVars, engineVars
  <2>4. InStep'
    BY <1>1 DEF StatementInv, InStep, Expire, callVars, engineVars, Made
  <2>5. ReplyIsCurrent'
    BY <1>1 DEF StatementInv, ReplyIsCurrent, Expire, callVars, engineVars
  <2>6. EngineFacts'
    BY <1>1 DEF StatementInv, EngineFacts, Expire, callVars, engineVars, Made
  <2>7. OutcomeFacts'
    BY <1>1 DEF StatementInv, OutcomeFacts, Expire, callVars, engineVars, TypeOK
  <2>8. HeldRowsBounded'
    BY <1>1 DEF StatementInv, HeldRowsBounded, Expire, callVars, engineVars
  <2>9. ResultExact'
    BY <1>1 DEF StatementInv, ResultExact, Expire, callVars, engineVars, Made
  <2> QED
    BY <2>1, <2>2, <2>3, <2>4, <2>5, <2>6, <2>7, <2>8, <2>9 DEF StatementInv
<1>2. CASE Stop
  <2>1. TypeOK'
    BY <1>2 DEF StatementInv, TypeOK, Stop, callVars, engineVars
  <2>2. BeforeSend'
    BY <1>2 DEF StatementInv, BeforeSend, Stop, callVars, engineVars, NoReply, NoPage
  <2>3. OnePoll'
    BY <1>2 DEF StatementInv, OnePoll, Stop, callVars, engineVars
  <2>4. InStep'
    BY <1>2 DEF StatementInv, InStep, Stop, callVars, engineVars, Made
  <2>5. ReplyIsCurrent'
    BY <1>2 DEF StatementInv, ReplyIsCurrent, Stop, callVars, engineVars
  <2>6. EngineFacts'
    BY <1>2 DEF StatementInv, EngineFacts, Stop, callVars, engineVars, Made, TypeOK
  <2>7. OutcomeFacts'
    BY <1>2 DEF StatementInv, OutcomeFacts, Stop, callVars, engineVars, TypeOK
  <2>8. HeldRowsBounded'
    BY <1>2 DEF StatementInv, HeldRowsBounded, Stop, callVars, engineVars
  <2>9. ResultExact'
    BY <1>2 DEF StatementInv, ResultExact, Stop, callVars, engineVars, Made
  <2> QED
    BY <2>1, <2>2, <2>3, <2>4, <2>5, <2>6, <2>7, <2>8, <2>9 DEF StatementInv
<1>3. CASE Delete
  <2>1. TypeOK'
    BY <1>3 DEF StatementInv, TypeOK, Delete, callVars, engineVars
  <2>2. BeforeSend'
    BY <1>3 DEF StatementInv, BeforeSend, Delete, callVars, engineVars, NoReply, NoPage
  <2>3. OnePoll'
    BY <1>3 DEF StatementInv, OnePoll, Delete, callVars, engineVars
  <2>4. InStep'
    BY <1>3 DEF StatementInv, InStep, Delete, callVars, engineVars, Made
  <2>5. ReplyIsCurrent'
    BY <1>3 DEF StatementInv, ReplyIsCurrent, Delete, callVars, engineVars
  <2>6. EngineFacts'
    BY <1>3 DEF StatementInv, EngineFacts, Delete, callVars, engineVars, Made, TypeOK
  <2>7. OutcomeFacts'
    BY <1>3 DEF StatementInv, OutcomeFacts, Delete, callVars, engineVars, TypeOK
  <2>8. HeldRowsBounded'
    BY <1>3 DEF StatementInv, HeldRowsBounded, Delete, callVars, engineVars
  <2>9. ResultExact'
    BY <1>3 DEF StatementInv, ResultExact, Delete, callVars, engineVars, Made
  <2> QED
    BY <2>1, <2>2, <2>3, <2>4, <2>5, <2>6, <2>7, <2>8, <2>9 DEF StatementInv
<1>4. CASE ServeAgain
  <2>1. \/ reply' = reply
        \/ /\ pc = "sent" /\ reply' \in Replies
           /\ reply'.kind \in {"page", "dead"} /\ reply'.body = page
           /\ reply'.kind = "dead" => page.more
           /\ req.token = page.token /\ rows = Numbered(0, page.first)
           /\ stmt # "none" /\ (page.more \/ stmt = "finished")
    <3>1. page \in Pages /\ page.token \in Tokens
      BY DEF StatementInv, TypeOK, Pages
    <3>2. /\ req.token = page.token /\ stmt # "none"
          /\ page.more \/ stmt = "finished"
          /\ pc = "sent" => rows = Numbered(0, page.first)
      BY <1>4, <3>1, NextDiffers DEF ServeAgain, StatementInv, InStep, EngineFacts
    <3> QED
      BY <1>4, <3>1, <3>2, Delivered, PageReply DEF ServeAgain
  <2>2. TypeOK'
    BY <1>4, <2>1 DEF StatementInv, TypeOK, ServeAgain, callVars, engineVars, Replies
  <2>3. BeforeSend'
    BY <1>4, <2>1
    DEF StatementInv, BeforeSend, ServeAgain, callVars, engineVars, NoReply, NoPage
  <2>4. OnePoll'
    BY <1>4 DEF StatementInv, OnePoll, ServeAgain, callVars, engineVars
  <2>5. InStep'
    BY <1>4 DEF StatementInv, InStep, ServeAgain, callVars, engineVars, Made
  <2>6. ReplyIsCurrent'
    BY <1>4, <2>1 DEF StatementInv, ReplyIsCurrent, ServeAgain, callVars, engineVars
  <2>7. EngineFacts'
    BY <1>4, <2>1 DEF StatementInv, EngineFacts, ServeAgain, callVars, engineVars, Made
  <2>8. OutcomeFacts'
    BY <1>4, <2>1 DEF StatementInv, OutcomeFacts, ServeAgain, callVars, engineVars, TypeOK
  <2>9. HeldRowsBounded'
    BY <1>4 DEF StatementInv, HeldRowsBounded, ServeAgain, callVars, engineVars
  <2>10. ResultExact'
    BY <1>4 DEF StatementInv, ResultExact, ServeAgain, callVars, engineVars, Made
  <2> QED
    BY <2>2, <2>3, <2>4, <2>5, <2>6, <2>7, <2>8, <2>9, <2>10 DEF StatementInv
<1>5. CASE ServeError
  <2>1. \/ reply' = reply
        \/ pc = "sent" /\ reply' \in Replies /\ reply'.kind = "error"
    BY <1>5, Delivered, FaultReply DEF ServeError
  <2>2. TypeOK'
    BY <1>5, <2>1 DEF StatementInv, TypeOK, ServeError, callVars, engineVars, Replies
  <2>3. BeforeSend'
    BY <1>5, <2>1
    DEF StatementInv, BeforeSend, ServeError, callVars, engineVars, NoReply, NoPage
  <2>4. OnePoll'
    BY <1>5 DEF StatementInv, OnePoll, ServeError, callVars, engineVars
  <2>5. InStep'
    BY <1>5 DEF StatementInv, InStep, ServeError, callVars, engineVars, Made
  <2>6. ReplyIsCurrent'
    BY <1>5, <2>1 DEF StatementInv, ReplyIsCurrent, ServeError, callVars, engineVars
  <2>7. EngineFacts'
    BY <1>5, <2>1 DEF StatementInv, EngineFacts, ServeError, callVars, engineVars, Made
  <2>8. OutcomeFacts'
    BY <1>5, <2>1 DEF StatementInv, OutcomeFacts, ServeError, callVars, engineVars, TypeOK
  <2>9. HeldRowsBounded'
    BY <1>5 DEF StatementInv, HeldRowsBounded, ServeError, callVars, engineVars
  <2>10. ResultExact'
    BY <1>5 DEF StatementInv, ResultExact, ServeError, callVars, engineVars, Made
  <2> QED
    BY <2>2, <2>3, <2>4, <2>5, <2>6, <2>7, <2>8, <2>9, <2>10 DEF StatementInv
<1>6. CASE FailOnSubmit
  <2>1. \/ reply' = reply
        \/ pc = "sent" /\ reply' \in Replies /\ reply'.kind = "error"
    BY <1>6, Delivered, FaultReply DEF FailOnSubmit
  <2>2. TypeOK'
    BY <1>6, <2>1 DEF StatementInv, TypeOK, FailOnSubmit, callVars, engineVars, Replies
  <2>3. BeforeSend'
    BY <1>6, <2>1
    DEF StatementInv, BeforeSend, FailOnSubmit, callVars, engineVars, NoReply, NoPage
  <2>4. OnePoll'
    BY <1>6 DEF StatementInv, OnePoll, FailOnSubmit, callVars, engineVars
  <2>5. InStep'
    BY <1>6 DEF StatementInv, InStep, FailOnSubmit, callVars, engineVars, Made
  <2>6. ReplyIsCurrent'
    BY <1>6, <2>1 DEF StatementInv, ReplyIsCurrent, FailOnSubmit, callVars, engineVars
  <2>7. EngineFacts'
    BY <1>6, <2>1 DEF StatementInv, EngineFacts, FailOnSubmit, callVars, engineVars, Made
  <2>8. OutcomeFacts'
    BY <1>6, <2>1 DEF StatementInv, OutcomeFacts, FailOnSubmit, callVars, engineVars, TypeOK
  <2>9. HeldRowsBounded'
    BY <1>6 DEF StatementInv, HeldRowsBounded, FailOnSubmit, callVars, engineVars
  <2>10. ResultExact'
    BY <1>6 DEF StatementInv, ResultExact, FailOnSubmit, callVars, engineVars, Made
  <2> QED
    BY <2>2, <2>3, <2>4, <2>5, <2>6, <2>7, <2>8, <2>9, <2>10 DEF StatementInv
<1>7. CASE Gateway
  <2>1. \/ reply' = reply
        \/ pc = "sent" /\ reply' \in Replies /\ reply'.kind \in {"status", "garbage"}
    BY <1>7, Delivered, FaultReply DEF Gateway
  <2>2. TypeOK'
    BY <1>7, <2>1 DEF StatementInv, TypeOK, Gateway, callVars, engineVars, Replies
  <2>3. BeforeSend'
    BY <1>7, <2>1 DEF StatementInv, BeforeSend, Gateway, callVars, engineVars, NoReply, NoPage
  <2>4. OnePoll'
    BY <1>7 DEF StatementInv, OnePoll, Gateway, callVars, engineVars
  <2>5. InStep'
    BY <1>7 DEF StatementInv, InStep, Gateway, callVars, engineVars, Made
  <2>6. ReplyIsCurrent'
    BY <1>7, <2>1 DEF StatementInv, ReplyIsCurrent, Gateway, callVars, engineVars
  <2>7. EngineFacts'
    BY <1>7, <2>1 DEF StatementInv, EngineFacts, Gateway, callVars, engineVars, Made
  <2>8. OutcomeFacts'
    BY <1>7, <2>1 DEF StatementInv, OutcomeFacts, Gateway, callVars, engineVars, TypeOK
  <2>9. HeldRowsBounded'
    BY <1>7 DEF StatementInv, HeldRowsBounded, Gateway, callVars, engineVars
  <2>10. ResultExact'
    BY <1>7 DEF StatementInv, ResultExact, Gateway, callVars, engineVars, Made
  <2> QED
    BY <2>2, <2>3, <2>4, <2>5, <2>6, <2>7, <2>8, <2>9, <2>10 DEF StatementInv
<1>8. CASE Accept
  <2>1. /\ page' \in Pages /\ page'.token = 0 /\ page'.first = 0
        /\ page'.first + page'.len <= RowBound
        /\ page'.len > 0 => page'.cols
        /\ stmt' = IF page'.more THEN "running" ELSE "finished"
        /\ \/ reply' = reply
           \/ /\ pc = "sent" /\ req.method = "POST" /\ reply' \in Replies
              /\ reply'.kind \in {"page", "dead"} /\ reply'.body = page'
              /\ reply'.kind = "dead" => page'.more
    <3>1. PICK p \in Produce(0, 0) : Make(p) /\ Deliver("POST", PageReplies(p))
      BY <1>8 DEF Accept
    <3>2. 0 \in Tokens /\ 0 \in 0 .. RowBound
      BY CoordinatorAssumption DEF Tokens
    <3>3. /\ p \in Pages /\ p.token = 0 /\ p.first = 0 /\ p.first + p.len <= RowBound
          /\ p.len > 0 => p.cols
      BY <3>1, <3>2, ProducedPage
    <3>4. \/ reply' = reply
          \/ /\ pc = "sent" /\ req.method = "POST" /\ reply' \in PageReplies(p)
      BY <3>1, Delivered
    <3> QED
      BY <3>1, <3>3, <3>4, PageReply DEF Make
  <2>2. TypeOK'
    BY <1>8, <2>1 DEF StatementInv, TypeOK, Accept, callVars
  <2>3. BeforeSend'
    BY <1>8, <2>1 DEF StatementInv, BeforeSend, Accept, callVars
  <2>4. OnePoll'
    BY <1>8, <2>1 DEF StatementInv, OnePoll, Accept, callVars
  <2>5. InStep'
    BY <1>8, <2>1 DEF StatementInv, InStep, Accept, callVars, TypeOK, Pages, OnePoll, NoPage
  <2>6. ReplyIsCurrent'
    BY <1>8, <2>1 DEF StatementInv, ReplyIsCurrent, Accept, callVars, InStep, OnePoll
  <2>7. EngineFacts'
    BY <1>8, <2>1 DEF StatementInv, EngineFacts, Accept, callVars, Made
  <2>8. OutcomeFacts'
    BY <1>8, <2>1 DEF StatementInv, OutcomeFacts, Accept, callVars, TypeOK
  <2>9. HeldRowsBounded'
    BY <1>8 DEF StatementInv, HeldRowsBounded, Accept, callVars
  <2>10. ResultExact'
    BY <1>8, <2>1 DEF StatementInv, ResultExact, Accept, callVars, Made, OnePoll, NoPage, TypeOK
  <2> QED
    BY <2>2, <2>3, <2>4, <2>5, <2>6, <2>7, <2>8, <2>9, <2>10 DEF StatementInv
<1>9. CASE ServeNext
  <2>1. /\ page' \in Pages /\ page'.token = req.token /\ page'.first = Made
        /\ page'.first + page'.len <= RowBound
        /\ page'.len > 0 => page'.cols
        /\ stmt' = IF page'.more THEN "running" ELSE "finished"
        /\ \/ reply' = reply /\ (pc = "sent" => reply.kind \notin {"page", "dead"})
           \/ /\ pc = "sent" /\ req.method = "GET" /\ reply' \in Replies
              /\ reply'.kind \in {"page", "dead"} /\ reply'.body = page'
              /\ reply'.kind = "dead" => page'.more
        /\ Made \in Nat /\ Made' \in Nat /\ Made' >= Made
        /\ pc = "sent" => rows = Numbered(0, Made)
        /\ req.method = "GET"
    <3>1. PICK p \in Produce(req.token, Made) : Make(p) /\ Deliver("GET", PageReplies(p))
      BY <1>9 DEF ServeNext
    <3>2. /\ req.token \in Tokens /\ page.token \in Tokens /\ Made \in 0 .. RowBound
          /\ page.first \in Nat /\ page.len \in Nat
      BY DEF StatementInv, TypeOK, Pages, Made, EngineFacts
    <3>3. req.token = Next1(page.token) /\ req.token # page.token /\ req.method = "GET"
      BY <1>9, <3>2, NextDiffers DEF ServeNext, StatementInv, OnePoll
    <3>4. pc = "sent" => rows = Numbered(0, Made) /\ reply.kind \notin {"page", "dead"}
      BY <3>3 DEF StatementInv, InStep, ReplyIsCurrent
    <3>5. /\ page' \in Pages /\ page' = p /\ p.token = req.token /\ p.first = Made
          /\ p.first + p.len <= RowBound
          /\ p.len > 0 => p.cols
      BY <3>1, <3>2, ProducedPage DEF Make
    <3>6. Made' \in Nat /\ Made' >= Made
      <4>1. page'.first = Made /\ page'.len \in Nat
        BY <3>5 DEF Pages
      <4>2. Made' = Made + page'.len
        BY <4>1 DEF Made
      <4> QED
        BY <3>2, <4>1, <4>2
    <3>7. \/ reply' = reply
          \/ /\ pc = "sent" /\ req.method = "GET" /\ reply' \in Replies
             /\ reply'.kind \in {"page", "dead"} /\ reply'.body = page'
             /\ reply'.kind = "dead" => page'.more
      BY <3>1, <3>5, Delivered, PageReply
    <3> QED
      BY <3>1, <3>2, <3>3, <3>4, <3>5, <3>6, <3>7 DEF Make
  <2>2. TypeOK'
    BY <1>9, <2>1 DEF StatementInv, TypeOK, ServeNext, callVars
  <2>3. BeforeSend'
    BY <1>9, <2>1 DEF StatementInv, BeforeSend, ServeNext, callVars
  <2>4. OnePoll'
    BY <1>9, <2>1 DEF StatementInv, OnePoll, ServeNext, callVars
  <2>5. InStep'
    BY <1>9, <2>1 DEF StatementInv, InStep, ServeNext, callVars
  <2>6. ReplyIsCurrent'
    BY <1>9, <2>1 DEF StatementInv, ReplyIsCurrent, ServeNext, callVars
  <2>7. EngineFacts'
    BY <1>9, <2>1 DEF StatementInv, EngineFacts, ServeNext, callVars, Made
  <2>8. OutcomeFacts'
    BY <1>9, <2>1 DEF StatementInv, OutcomeFacts, ServeNext, callVars, TypeOK
  <2>9. HeldRowsBounded'
    BY <1>9 DEF StatementInv, HeldRowsBounded, ServeNext, callVars
  <2>10. ResultExact'
    BY <1>9, <2>1 DEF StatementInv, ResultExact, ServeNext, callVars, TypeOK
  <2> QED
    BY <2>2, <2>3, <2>4, <2>5, <2>6, <2>7, <2>8, <2>9, <2>10 DEF StatementInv
<1> QED
  BY <1>1, <1>2, <1>3, <1>4, <1>5, <1>6, <1>7, <1>8, <1>9 DEF Environment, Engine

-----------------------------------------------------------------------------
(* Theorems of the specification. *)

(* The invariant looks at every variable, so a stutter preserves it. *)
LEMMA StutterInv == StatementInv /\ UNCHANGED vars => StatementInv'
BY DEF StatementInv, TypeOK, BeforeSend, OnePoll, InStep, ReplyIsCurrent, EngineFacts,
   OutcomeFacts, HeldRowsBounded, ResultExact, Made, PastCap, vars

(* Every reachable state satisfies the inductive invariant: what collect   *)
(* holds, what it waits for and what the coordinator keeps stay in step.   *)
THEOREM StatementInvariant == Spec => []StatementInv
<1>1. Init => StatementInv
  BY InitInv
<1>2. StatementInv /\ [Next]_vars => StatementInv'
  BY ClientInv, EnvironmentInv, StutterInv DEF Next
<1> QED
  BY <1>1, <1>2, PTL DEF Spec

(* A returned result is the whole result or its first cap rows, for every  *)
(* cap, page size and interleaving (collect).                              *)
THEOREM ResultIsExact == Spec => []ResultExact
<1>1. StatementInv => ResultExact
  BY DEF StatementInv
<1> QED
  BY <1>1, StatementInvariant, PTL

(* The cap bounds what a read holds (collect, clampMaxRows). *)
THEOREM HeldRowsAreBounded == Spec => []HeldRowsBounded
<1>1. StatementInv => HeldRowsBounded
  BY DEF StatementInv
<1> QED
  BY <1>1, StatementInvariant, PTL

(* Rows come with columns (collect). *)
THEOREM ColumnsAreKnown == Spec => []ColumnsKnown
<1>1. StatementInv => ColumnsKnown
  BY DEF StatementInv, OutcomeFacts, ColumnsKnown
<1> QED
  BY <1>1, StatementInvariant, PTL

LEMMA StrayFromInv == StatementInv => NoStrayStatement
<1>1. SUFFICES ASSUME StatementInv, pc = "done", stmt = "running", ~ ("DELETE" \in onWire),
                      reply.kind # "dead"
               PROVE  outcome = "error" /\ (req.method = "POST" \/ reply.kind = "garbage")
  BY DEF NoStrayStatement
<1>2. outcome \in {"error", "all", "truncated"}
  BY <1>1 DEF StatementInv, OutcomeFacts, TypeOK
<1>3. outcome # "all" /\ outcome # "truncated"
  BY <1>1 DEF StatementInv, ResultExact, OutcomeFacts
<1>4. reply.kind # "error"
  BY <1>1 DEF StatementInv, EngineFacts
<1> QED
  BY <1>1, <1>2, <1>3, <1>4 DEF StatementInv, OutcomeFacts

(* A statement is left running without a DELETE only by a failed POST, a   *)
(* 2xx reply that cannot be used or a nextUri that makes no request        *)
(* (collect, cancelStatement).                                             *)
THEOREM NoStatementIsStray == Spec => []NoStrayStatement
BY StrayFromInv, StatementInvariant, PTL

(* While the call goes on the coordinator moves to the next page only when *)
(* the client holds every row made before it (collect).                    *)
THEOREM NothingIsDiscarded == Spec => NothingDiscarded
<1>1. ASSUME StatementInv, [Next]_vars, page'.token # page.token, pc = "sent"
      PROVE  rows = Numbered(0, Made)
  <2>1. page' # page
    BY <1>1
  <2>2. Accept \/ ServeNext
    BY <1>1, <2>1
    DEF Next, Client, Environment, Engine, Handle, RejectCall, StartRead, StartMetadata,
       TruncateAtCap, Finish, FollowNext, AbortUncancelled, RequestFails, CancelReturns, Fail,
       Expire, FailOnSubmit, ServeAgain, ServeError, Stop, Delete, Gateway, callVars,
       engineVars, vars
  <2>3. CASE Accept
    <3>1. PICK p \in Produce(0, 0) : page' = p
      BY <2>3 DEF Accept, Make
    <3>2. page'.token = 0
      BY <3>1 DEF Produce
    <3>3. page.token = 0
      BY <1>1, <2>3 DEF Accept, StatementInv, OnePoll, NoPage
    <3> QED
      BY <1>1, <3>2, <3>3
  <2>4. CASE ServeNext
    <3>1. page.token \in Tokens
      BY <1>1 DEF StatementInv, TypeOK, Pages
    <3>2. req.token # page.token
      BY <2>4, <3>1, NextDiffers DEF ServeNext
    <3> QED
      BY <1>1, <3>2 DEF StatementInv, InStep
  <2> QED
    BY <2>2, <2>3, <2>4
<1>2. StatementInv /\ [Next]_vars
        => [page'.token # page.token /\ pc = "sent" => rows = Numbered(0, Made)]_vars
  BY <1>1
<1> QED
  BY <1>2, StatementInvariant, PTL DEF Spec, NothingDiscarded

(* The initial state keeps the promise. *)
LEMMA PromiseInit == Init => Promise!Init
BY DEF Init, Promise!Init, Made, NoPage

(* The client's steps are an Ask, an answer or a stutter of BoundedRead. *)
LEMMA PromiseClient == StatementInv /\ Client => [Promise!Next]_(Promise!vars)
<1> SUFFICES ASSUME StatementInv, Client PROVE [Promise!Next]_(Promise!vars)
  OBVIOUS
<1> USE DEF Promise!Next, Promise!vars
<1>1. CASE RejectCall
  BY <1>1 DEF RejectCall, engineVars, Made, StatementInv, BeforeSend,
     Promise!AnswerError, Promise!Answer
<1>2. CASE StartMetadata
  BY <1>2, CapAssumption
  DEF StartMetadata, Transmit, engineVars, Made, StatementInv, BeforeSend,
     TypeOK, Promise!Ask
<1>3. ASSUME NEW n \in AskedRows, StartRead(n) PROVE Promise!Ask
  BY <1>3, CapAssumption, ClampBounds DEF StartRead, Transmit, engineVars, Made, StatementInv,
     BeforeSend, TypeOK, Promise!Ask
<1>4. CASE TruncateAtCap
  <2>1. /\ Made' = Made /\ (stmt' = "finished") = (stmt = "finished") /\ pc = "sent" /\ cap' = cap
        /\ outcome = "none" /\ outcome' = "truncated" /\ pc' # "idle"
    BY <1>4
    DEF TruncateAtCap, Received, CancelStatement, ReturnNow, engineVars, Made, StatementInv,
        OutcomeFacts
  <2>2. ResultExact'
    BY <1>4, ClientInv DEF Client, Handle, StatementInv
  <2>3. cap > 0 /\ Made > cap /\ rows' = Numbered(0, cap)
    BY <2>1, <2>2 DEF ResultExact
  <2>4. Numbered(0, cap) = Promise!FirstRows(cap)
    BY DEF Numbered, Promise!FirstRows, StatementInv, TypeOK
  <2>5. Promise!AnswerTruncated
    BY <2>1, <2>3, <2>4 DEF Promise!AnswerTruncated, Promise!Answer
  <2> QED
    BY <2>5
<1>5. CASE Finish
  <2>1. /\ Made' = Made /\ (stmt' = "finished") = (stmt = "finished") /\ pc = "sent" /\ cap' = cap
        /\ outcome = "none" /\ outcome' = "all" /\ pc' # "idle" /\ stmt' = stmt
    BY <1>5 DEF Finish, Received, ReturnNow, engineVars, Made, StatementInv, OutcomeFacts
  <2>2. ResultExact'
    BY <1>5, ClientInv DEF Client, Handle, StatementInv
  <2>3. stmt = "finished" /\ rows' = Numbered(0, Made) /\ (cap > 0 => Made <= cap)
    BY <2>1, <2>2 DEF ResultExact
  <2>4. Numbered(0, Made) = Promise!FirstRows(Made)
    <3>1. Made \in Nat
      BY <1>5, GatheredExact DEF Finish
    <3> QED
      BY <3>1 DEF Numbered, Promise!FirstRows
  <2>5. Promise!AnswerAll
    BY <2>1, <2>3, <2>4 DEF Promise!AnswerAll, Promise!Answer
  <2> QED
    BY <2>5
<1>6. CASE FollowNext
  BY <1>6 DEF FollowNext, Received, engineVars, Made, StatementInv, OutcomeFacts
<1>7. CASE AbortUncancelled
  <2>1. Promise!AnswerError
    BY <1>7 DEF AbortUncancelled, Fail, ReturnNow, engineVars, Made, StatementInv, OutcomeFacts,
       Promise!AnswerError, Promise!Answer
  <2> QED
    BY <2>1
<1>8. CASE RequestFails
  <2>1. Promise!AnswerError
    BY <1>8 DEF RequestFails, Fail, ReturnNow, CancelStatement, engineVars, Made, StatementInv,
       OutcomeFacts, Promise!AnswerError, Promise!Answer
  <2> QED
    BY <2>1
<1>9. CASE CancelReturns
  BY <1>9 DEF CancelReturns, engineVars, Made
<1> QED
  BY <1>1, <1>2, <1>3, <1>4, <1>5, <1>6, <1>7, <1>8, <1>9 DEF Client, Handle

(* The environment's steps make rows, complete the result or stutter. *)
LEMMA PromiseEnvironment == StatementInv /\ Environment => [Promise!Next]_(Promise!vars)
<1> SUFFICES ASSUME StatementInv, Environment PROVE [Promise!Next]_(Promise!vars)
  OBVIOUS
<1> USE DEF Promise!Next, Promise!vars
<1>1. CASE Expire \/ ServeAgain \/ ServeError \/ Gateway
  BY <1>1 DEF Expire, ServeAgain, ServeError, Gateway, callVars, engineVars, Made
<1>2. CASE FailOnSubmit
  BY <1>2 DEF FailOnSubmit, callVars, Made
<1>3. CASE Stop \/ Delete
  BY <1>3 DEF Stop, Delete, callVars, Made
<1>4. CASE Accept \/ ServeNext
  <2>1. /\ pc # "idle" /\ stmt # "finished"
        /\ UNCHANGED callVars
        /\ Made \in Nat
    BY <1>4, CoordinatorAssumption
    DEF Accept, ServeNext, StatementInv, BeforeSend, TypeOK, Pages, Made
  <2>2. Made' \in Nat /\ Made' >= Made
    <3>1. StatementInv'
      BY EnvironmentInv
    <3>2. page'.first \in Nat /\ page'.len \in Nat
      BY <3>1, CoordinatorAssumption DEF StatementInv, TypeOK, Pages
    <3>3. page'.first >= Made
      <4>1. CASE Accept
        BY <4>1, <3>2 DEF Accept, StatementInv, OnePoll, NoPage, Made
      <4>2. CASE ServeNext
        BY <4>2, <2>1 DEF ServeNext, Produce, Make
      <4> QED
        BY <1>4, <4>1, <4>2
    <3> QED
      BY <2>1, <3>2, <3>3 DEF Made
  <2>3. Promise!Make
    BY <2>1, <2>2 DEF callVars, Promise!Make, Promise!MakeRows
  <2> QED
    BY <2>3
<1> QED
  BY <1>1, <1>2, <1>3, <1>4 DEF Environment, Engine

(* Whatever max_rows a caller passes, zero and negative ones included, a   *)
(* read has a positive cap of at most MaxResultRows: it is never taken for *)
(* an unbounded metadata statement (clampMaxRows).                         *)
THEOREM ReadsAreCapped ==
    ASSUME NEW n \in Int, StartRead(n)
    PROVE  cap' \in 1 .. MaxResultRows
BY CapAssumption, ClampBounds DEF StartRead

(* The polling protocol implements BoundedRead: one answer, which is an    *)
(* error, the whole result or its first cap rows (RunReadQuery).           *)
THEOREM StatementKeepsPromise == Spec => KeepsPromise
<1>1. Init => Promise!Init
  BY PromiseInit
<1>2. StatementInv /\ [Next]_vars => [Promise!Next]_(Promise!vars)
  <2>1. CASE UNCHANGED vars
    BY <2>1 DEF vars, Made, Promise!vars
  <2> QED
    BY <2>1, PromiseClient, PromiseEnvironment DEF Next
<1> QED
  BY <1>1, <1>2, StatementInvariant, PTL DEF Spec, KeepsPromise, Promise!Spec

=============================================================================
