----------------------------- MODULE OperatorProofs -----------------------------
(***************************************************************************)
(* What the pure functions under the tools compute, for lists, names and   *)
(* amounts of every size: a filter keeps what it is to keep, in order; the *)
(* engine reads in the text that quoteIdent and fqTable make of names      *)
(* those names and no others; a figure is read as what was measured, up to *)
(* the rounding of its text; the walks over the trees of a document list   *)
(* every node once, in document order and under its parent.                *)
(***************************************************************************)
EXTENDS SqlNames, QueryList, QueryDetail, SequenceTheorems, FiniteSetTheorems, WellFoundedInduction,
        TLAPS

(* A set with 0 and the successor of each of its numbers has every number: *)
(* induction, stated about a set so that it can be applied to any formula. *)
LEMMA SetInduction ==
    ASSUME NEW S, 0 \in S, \A n \in Nat : n \in S => n + 1 \in S
    PROVE  \A n \in Nat : n \in S
<1> DEFINE Less == OpToRel(<, Nat)
           Missing == Nat \ S
<1> SUFFICES ASSUME Missing # {} PROVE FALSE
  OBVIOUS
<1>1. IsWellFoundedOn(Less, Nat)
  BY NatLessThanWellFounded
<1>2. PICK x \in Missing : \A y \in Missing : ~ (<<y, x>> \in Less)
  <2>1. Missing \subseteq Nat
    OBVIOUS
  <2> HIDE DEF Less, Missing
  <2> QED
    BY <1>1, <2>1, WFMin
<1>3. \A y \in Nat : <<y, x>> \in Less <=> y < x
  BY DEF OpToRel
<1> HIDE DEF Less
<1>4. x \in Nat /\ x \notin S
  BY <1>2
<1>5. x # 0 /\ x - 1 \in Nat
  BY <1>4
<1>6. x - 1 \in S
  <2>1. <<x - 1, x>> \in Less
    BY <1>3, <1>4, <1>5
  <2> QED
    BY <1>2, <1>5, <2>1
<1>7. (x - 1) + 1 \in S
  BY <1>5, <1>6
<1> QED
  BY <1>4, <1>5, <1>7

(* From e, n steps are taken one after the other. *)
Steps(g, n, e, step) == /\ g[0] = e
                        /\ \A i \in 1 .. n : g[i] = step[<<g[i - 1], i>>]

(* Such a function exists, whatever the steps. *)
LEMMA Recursion ==
    ASSUME NEW S, NEW n \in Nat, NEW e \in S, NEW step,
           \A x \in S, i \in 1 .. n : step[<<x, i>>] \in S
    PROVE  \E g \in [0 .. n -> S] : Steps(g, n, e, step)
<1> USE DEF Steps
<1> DEFINE Reached == {k \in Nat : k <= n => \E g \in [0 .. k -> S] : Steps(g, k, e, step)}
<1>1. 0 \in Reached
  <2>1. [i \in 0 .. 0 |-> e] \in [0 .. 0 -> S] /\ Steps([i \in 0 .. 0 |-> e], 0, e, step)
    OBVIOUS
  <2> QED
    BY <2>1
<1>2. ASSUME NEW k \in Nat, k \in Reached PROVE k + 1 \in Reached
  <2> SUFFICES ASSUME k + 1 <= n PROVE \E g \in [0 .. k + 1 -> S] : Steps(g, k + 1, e, step)
    OBVIOUS
  <2>1. PICK g \in [0 .. k -> S] : Steps(g, k, e, step)
    BY <1>2
  <2> DEFINE h == [i \in 0 .. k + 1 |-> IF i <= k THEN g[i] ELSE step[<<g[k], k + 1>>]]
  <2>2. step[<<g[k], k + 1>>] \in S
    BY g[k] \in S, k + 1 \in 1 .. n
  <2>3. h \in [0 .. k + 1 -> S]
    BY <2>2
  <2>4. h[0] = e
    BY <2>1
  <2>5. ASSUME NEW i \in 1 .. k + 1 PROVE h[i] = step[<<h[i - 1], i>>]
    <3>1. CASE i <= k
      BY <2>1, <3>1
    <3>2. CASE i = k + 1
      <4>1. h[i] = step[<<g[k], k + 1>>] /\ h[i - 1] = g[k]
        BY <3>2
      <4> QED
        BY <3>2, <4>1
    <3> QED
      BY <3>1, <3>2
  <2> QED
    BY <2>3, <2>4, <2>5
<1>3. n \in Reached
  <2> HIDE DEF Reached
  <2> QED
    BY <1>1, <1>2, SetInduction
<1> QED
  BY <1>3

(* A function on 1 .. n is a sequence of n elements. *)
LEMMA Listed ==
    ASSUME NEW n \in Nat, NEW f, f = [i \in 1 .. n |-> f[i]]
    PROVE  Len(f) = n /\ f \in Seq({f[i] : i \in 1 .. n})
<1>1. f \in [1 .. n -> {f[i] : i \in 1 .. n}]
  OBVIOUS
<1>2. f \in Seq({f[i] : i \in 1 .. n})
  BY <1>1, SeqDef
<1>3. DOMAIN f = 1 .. Len(f) /\ Len(f) \in Nat /\ DOMAIN f = 1 .. n
  BY <1>1, <1>2, LenProperties
<1> QED
  BY <1>2, <1>3

-----------------------------------------------------------------------------
(* Selections. *)

(* A sequence of what is at the positions that are kept, in order. *)
Keeps(out, s, kept) == \E at \in Orders(Len(out), kept) :
                           \A i \in 1 .. Len(out) : out[i] = s[at[i]]

(* What is at one position more goes to the end. *)
LEMMA KeepsOneMore ==
    ASSUME NEW S, NEW s \in Seq(S), NEW n \in Nat, n + 1 \in 1 .. Len(s),
           NEW out \in Seq(S), NEW kept \in SUBSET (1 .. n), Keeps(out, s, kept)
    PROVE  Keeps(Append(out, s[n + 1]), s, kept \cup {n + 1})
<1> DEFINE k == Len(out)
           more == Append(out, s[n + 1])
           all == kept \cup {n + 1}
<1>1. k \in Nat /\ Len(more) = k + 1
      /\ more[k + 1] = s[n + 1] /\ \A i \in 1 .. k : more[i] = out[i]
  BY AppendProperties, LenProperties, ElementOfSeq
<1>2. PICK at \in Orders(k, kept) : \A i \in 1 .. k : out[i] = s[at[i]]
  BY DEF Keeps
<1>3. /\ at \in [1 .. k -> kept]
      /\ \A x \in kept : \E i \in 1 .. k : at[i] = x
      /\ \A i, j \in 1 .. k : i < j => at[i] < at[j]
  BY <1>2 DEF Orders
<1> HIDE DEF k, more
<1> DEFINE to == [i \in 1 .. k + 1 |-> IF i <= k THEN at[i] ELSE n + 1]
<1>4. /\ \A i \in 1 .. k : to[i] = at[i] /\ i \in 1 .. k + 1
      /\ to[k + 1] = n + 1 /\ k + 1 \in 1 .. k + 1
      /\ \A i \in 1 .. k + 1 : i \in 1 .. k \/ i = k + 1
  BY <1>1
<1>5. to \in [1 .. k + 1 -> all]
  BY <1>1, <1>3
<1> HIDE DEF to
<1>6. \A x \in all : \E i \in 1 .. k + 1 : to[i] = x
  BY <1>3, <1>4
<1>7. ASSUME NEW i \in 1 .. k + 1, NEW j \in 1 .. k + 1, i < j PROVE to[i] < to[j]
  <2>1. i \in 1 .. k
    BY <1>1, <1>7
  <2>2. at[i] \in 1 .. n
    BY <1>3, <2>1
  <2>3. CASE j \in 1 .. k
    BY <1>3, <1>4, <1>7, <2>1, <2>3
  <2>4. CASE j = k + 1
    BY <1>4, <2>1, <2>2, <2>4
  <2> QED
    BY <1>4, <2>3, <2>4
<1>8. \A i \in 1 .. k + 1 : more[i] = s[to[i]]
  BY <1>1, <1>2, <1>4
<1>9. to \in Orders(Len(more), all)
  BY <1>1, <1>5, <1>6, <1>7 DEF Orders
<1> QED
  BY <1>1, <1>8, <1>9 DEF Keeps, more

(* The loop keeps what it is to keep. *)
LEMMA SelectedKeeps ==
    ASSUME NEW S, NEW s \in Seq(S), NEW kept \in SUBSET (1 .. Len(s))
    PROVE  Selected(s, kept) \in Seq(S) /\ Keeps(Selected(s, kept), s, kept)
<1> DEFINE n == Len(s)
           Out == Seq(S)
           empty == <<>>
           Grown(out, i) == IF i \in kept THEN Append(out, s[i]) ELSE out
           Step(g) == [i \in 0 .. n |-> IF i = 0 THEN empty
                                        ELSE IF i \in kept THEN Append(g[i - 1], s[i])
                                        ELSE g[i - 1]]
           out == CHOOSE g : g = Step(g)
<1>1. n \in Nat /\ \A i \in 1 .. n : s[i] \in S
  BY LenProperties, ElementOfSeq
<1>2. empty \in Out
  OBVIOUS
<1>3. \A x \in Out, i \in 1 .. n : Grown(x, i) \in Out
  BY <1>1, AppendProperties
<1>4. Selected(s, kept) = out[n]
  BY DEF Selected
<1> HIDE DEF n, Out, empty, out
<1>5. /\ out[0] = empty
      /\ \A i \in 1 .. n : out[i] = Grown(out[i - 1], i)
  <2> DEFINE step == [p \in Out \X (1 .. n) |-> Grown(p[1], p[2])]
  <2>1. \A x \in Out, i \in 1 .. n : step[<<x, i>>] = Grown(x, i)
    OBVIOUS
  <2>2. \A x \in Out, i \in 1 .. n : step[<<x, i>>] \in Out
    BY <1>3, <2>1
  <2> HIDE DEF step, Grown
  <2>3. PICK g \in [0 .. n -> Out] : Steps(g, n, empty, step)
    BY <1>1, <1>2, <2>2, Recursion
  <2>4. g[0] = empty /\ \A i \in 1 .. n : g[i] = step[<<g[i - 1], i>>]
    BY <2>3 DEF Steps
  <2>5. ASSUME NEW i \in 1 .. n PROVE g[i] = Grown(g[i - 1], i)
    <3>1. i - 1 \in 0 .. n
      BY <1>1
    <3>2. g[i - 1] \in Out
      BY <3>1
    <3> QED
      BY <2>1, <2>4, <3>2
  <2>6. g = Step(g)
    <3> DEFINE h == Step(g)
    <3>1. h = [i \in 0 .. n |-> h[i]]
      OBVIOUS
    <3>2. ASSUME NEW i \in 0 .. n PROVE h[i] = g[i]
      <4>1. CASE i = 0
        BY <2>4, <4>1
      <4>2. CASE i # 0
        <5>1. i \in 1 .. n
          BY <1>1, <4>2
        <5>2. h[i] = Grown(g[i - 1], i)
          BY <4>2 DEF Grown
        <5> QED
          BY <2>5, <5>1, <5>2
      <4> QED
        BY <4>1, <4>2
    <3> HIDE DEF h
    <3>3. g = h
      BY <3>1, <3>2
    <3> QED
      BY <3>3 DEF h
  <2>7. out = Step(out)
    <3> HIDE DEF Step
    <3> QED
      BY <2>6 DEF out
  <2>8. ASSUME NEW i \in 0 .. n
        PROVE  out[i] = IF i = 0 THEN empty ELSE Grown(out[i - 1], i)
    <3>1. Step(out)[i] = IF i = 0 THEN empty ELSE Grown(out[i - 1], i)
      BY DEF Grown
    <3> HIDE DEF Step, Grown
    <3> QED
      BY <2>7, <3>1
  <2>9. 0 \in 0 .. n /\ \A i \in 1 .. n : i \in 0 .. n /\ i # 0
    BY <1>1
  <2> HIDE DEF Grown
  <2> QED
    BY <2>8, <2>9
<1> HIDE DEF Step
<1> DEFINE upTo(i) == kept \cap (1 .. i)
           Right(i) == out[i] \in Out /\ Keeps(out[i], s, upTo(i))
           Good == {i \in Nat : i <= n => Right(i)}
<1>6. n \in Good
  <2>1. Right(0)
    <3>1. upTo(0) = {} /\ Len(empty) = 0
      BY DEF empty
    <3>2. [i \in 1 .. 0 |-> i] \in Orders(0, {})
      BY DEF Orders
    <3>3. Keeps(empty, s, {})
      BY <3>1, <3>2 DEF Keeps
    <3> QED
      BY <1>2, <1>5, <3>1, <3>3
  <2>2. ASSUME NEW i \in Nat, i + 1 <= n, Right(i) PROVE Right(i + 1)
    <3> DEFINE j == i + 1
    <3>1. j \in 1 .. n /\ j - 1 = i
      BY <1>1, <2>2
    <3>2. out[j] = Grown(out[i], j)
      BY <1>5, <3>1
    <3>3. CASE j \in kept
      <4>1. upTo(j) = upTo(i) \cup {j}
        BY <3>3
      <4>2. out[j] = Append(out[i], s[j])
        BY <3>2, <3>3
      <4>3. upTo(i) \in SUBSET (1 .. i)
        OBVIOUS
      <4> HIDE DEF upTo
      <4>4. Keeps(Append(out[i], s[i + 1]), s, upTo(i) \cup {i + 1})
        BY <2>2, <3>1, <4>3, KeepsOneMore DEF n, Out
      <4> QED
        BY <1>3, <2>2, <3>1, <3>2, <4>1, <4>2, <4>4
    <3>4. CASE j \notin kept
      <4>1. upTo(j) = upTo(i)
        BY <3>4
      <4>2. out[j] = out[i]
        BY <3>2, <3>4
      <4> QED
        BY <2>2, <4>1, <4>2
    <3> QED
      BY <3>3, <3>4
  <2>3. 0 \in Good /\ \A i \in Nat : i \in Good => i + 1 \in Good
    <3> HIDE DEF Right
    <3> QED
      BY <1>1, <2>1, <2>2
  <2> HIDE DEF Good
  <2> QED
    BY <1>1, <2>3, SetInduction
<1>7. upTo(n) = kept
  BY DEF n
<1> HIDE DEF upTo
<1> QED
  BY <1>1, <1>4, <1>6, <1>7 DEF Out

(* Who keeps every position keeps it in its place. *)
LEMMA OrderOfAll ==
    ASSUME NEW n \in Nat, NEW k \in Nat, NEW at \in Orders(k, 1 .. n)
    PROVE  k = n /\ \A i \in 1 .. k : at[i] = i
<1>1. /\ \A i \in 1 .. k : at[i] \in 1 .. n
      /\ \A x \in 1 .. n : \E i \in 1 .. k : at[i] = x
      /\ \A i, j \in 1 .. k : i < j => at[i] < at[j]
  BY DEF Orders
<1> DEFINE Same(i) == i <= k => \A j \in 1 .. i : at[j] = j
           Good == {i \in Nat : Same(i)}
<1>2. k \in Good
  <2>1. Same(0)
    OBVIOUS
  <2>2. ASSUME NEW i \in Nat, Same(i) PROVE Same(i + 1)
    <3> SUFFICES ASSUME i + 1 <= k PROVE \A j \in 1 .. i + 1 : at[j] = j
      OBVIOUS
    <3> DEFINE l == i + 1
    <3>1. l \in 1 .. k /\ \A j \in 1 .. i : at[j] = j /\ j \in 1 .. k
      BY <2>2
    <3>2. at[l] >= l /\ at[l] \in 1 .. n
      <4>1. CASE i = 0
        BY <1>1, <3>1, <4>1
      <4>2. CASE i > 0
        <5>1. i \in 1 .. k /\ i < l /\ at[i] = i
          BY <3>1, <4>2
        <5>2. at[i] < at[l] /\ at[l] \in 1 .. n
          BY <1>1, <3>1, <5>1
        <5> QED
          BY <5>1, <5>2
      <4> QED
        BY <4>1, <4>2
    <3>3. PICK j \in 1 .. k : at[j] = l
      <4>1. l \in 1 .. n
        BY <3>2
      <4> QED
        BY <1>1, <4>1
    <3>4. ~ (j <= i)
      BY <3>1, <3>3
    <3>5. ~ (j > l)
      <4>1. j > l => at[l] < at[j]
        BY <1>1, <3>1
      <4> QED
        BY <3>2, <3>3, <4>1
    <3>6. j = l
      BY <3>4, <3>5
    <3>7. at[l] = l
      BY <3>3, <3>6
    <3> HIDE DEF l
    <3>8. \A m \in 1 .. i + 1 : m \in 1 .. i \/ m = l
      BY DEF l
    <3> QED
      BY <3>1, <3>7, <3>8
  <2>3. 0 \in Good /\ \A i \in Nat : i \in Good => i + 1 \in Good
    <3> HIDE DEF Same
    <3> QED
      BY <2>1, <2>2
  <2> HIDE DEF Good
  <2> QED
    BY <2>3, SetInduction
<1>3. \A i \in 1 .. k : at[i] = i
  BY <1>2
<1>4. n <= k
  <2>1. n > 0 => \E i \in 1 .. k : at[i] = n
    BY <1>1
  <2> QED
    BY <1>3, <2>1
<1>5. k <= n
  <2>1. k > 0 => k \in 1 .. k /\ at[k] \in 1 .. n
    BY <1>1
  <2> QED
    BY <1>3, <2>1
<1> QED
  BY <1>3, <1>4, <1>5

LEMMA SelectedAll ==
    ASSUME NEW S, NEW s \in Seq(S)
    PROVE  Selected(s, 1 .. Len(s)) = s
<1> DEFINE out == Selected(s, 1 .. Len(s))
<1>1. out \in Seq(S) /\ Keeps(out, s, 1 .. Len(s))
  BY SelectedKeeps
<1>2. PICK at \in Orders(Len(out), 1 .. Len(s)) : \A i \in 1 .. Len(out) : out[i] = s[at[i]]
  BY <1>1 DEF Keeps
<1>3. Len(out) \in Nat /\ Len(s) \in Nat
  BY <1>1, LenProperties
<1> HIDE DEF out
<1>4. Len(out) = Len(s) /\ \A i \in 1 .. Len(out) : at[i] = i
  BY <1>2, <1>3, OrderOfAll
<1>5. \A i \in 1 .. Len(out) : out[i] = s[i]
  BY <1>2, <1>4
<1>6. out = s
  BY <1>1, <1>4, <1>5, SeqEqual
<1> QED
  BY <1>6 DEF out

-----------------------------------------------------------------------------
(* Readings. *)

(* From the reading r the engine comes to the reading q over a text. *)
Reads(r, text, q) ==
    \E f : /\ f = [i \in 0 .. Len(text) |-> f[i]]
           /\ f[0] = r
           /\ \A i \in 1 .. Len(text) : f[i] = ReadChar(f[i - 1], text[i])
           /\ f[Len(text)] = q

(* Nothing is read in an empty text, and one step is taken for one character. *)
LEMMA ReadsNothing == ASSUME NEW r PROVE Reads(r, <<>>, r)
<1> DEFINE f == [i \in 0 .. 0 |-> r]
<1>1. Len(<<>>) = 0
  OBVIOUS
<1>2. f = [i \in 0 .. 0 |-> f[i]] /\ f[0] = r
  OBVIOUS
<1>3. \A i \in 1 .. 0 : FALSE
  OBVIOUS
<1> HIDE DEF f
<1> QED
  BY <1>1, <1>2, <1>3 DEF Reads

LEMMA ReadsOne == ASSUME NEW r, NEW char PROVE Reads(r, <<char>>, ReadChar(r, char))
<1> DEFINE q == ReadChar(r, char)
           f == [i \in 0 .. 1 |-> IF i = 0 THEN r ELSE q]
<1> HIDE DEF q
<1>1. Len(<<char>>) = 1 /\ <<char>>[1] = char
  OBVIOUS
<1>2. f = [i \in 0 .. 1 |-> f[i]] /\ f[0] = r /\ f[1] = q
  OBVIOUS
<1>3. \A i \in 1 .. 1 : f[i] = ReadChar(f[i - 1], <<char>>[i])
  BY <1>1, <1>2 DEF q
<1> HIDE DEF f
<1>4. Reads(r, <<char>>, q)
  BY <1>1, <1>2, <1>3 DEF Reads
<1> QED
  BY <1>4 DEF q

(* One text is read after another. *)
LEMMA ReadsBoth ==
    ASSUME NEW Chars, NEW s \in Seq(Chars), NEW t \in Seq(Chars), NEW r, NEW m, NEW q,
           Reads(r, s, m), Reads(m, t, q)
    PROVE  Reads(r, s \o t, q)
<1>1. PICK f : /\ f = [i \in 0 .. Len(s) |-> f[i]] /\ f[0] = r
               /\ \A i \in 1 .. Len(s) : f[i] = ReadChar(f[i - 1], s[i])
               /\ f[Len(s)] = m
  BY DEF Reads
<1>2. PICK g : /\ g = [i \in 0 .. Len(t) |-> g[i]] /\ g[0] = m
               /\ \A i \in 1 .. Len(t) : g[i] = ReadChar(g[i - 1], t[i])
               /\ g[Len(t)] = q
  BY DEF Reads
<1>3. /\ Len(s) \in Nat /\ Len(t) \in Nat
      /\ Len(s \o t) = Len(s) + Len(t)
      /\ \A i \in 1 .. Len(s) + Len(t) :
            (s \o t)[i] = IF i <= Len(s) THEN s[i] ELSE t[i - Len(s)]
  BY ConcatProperties, LenProperties
<1> DEFINE h == [i \in 0 .. Len(s) + Len(t) |-> IF i <= Len(s) THEN f[i] ELSE g[i - Len(s)]]
<1>4. \A i \in 0 .. Len(s) + Len(t) : h[i] = IF i <= Len(s) THEN f[i] ELSE g[i - Len(s)]
  OBVIOUS
<1>5. h = [i \in 0 .. Len(s \o t) |-> h[i]]
  BY <1>3
<1> HIDE DEF h
<1>6. h[0] = r /\ h[Len(s \o t)] = q
  <2>1. h[0] = r
    BY <1>1, <1>3, <1>4
  <2>2. CASE Len(t) = 0
    BY <1>1, <1>2, <1>3, <1>4, <2>2
  <2>3. CASE Len(t) > 0
    BY <1>2, <1>3, <1>4, <2>3
  <2> QED
    BY <1>3, <2>1, <2>2, <2>3
<1>7. ASSUME NEW i \in 1 .. Len(s \o t) PROVE h[i] = ReadChar(h[i - 1], (s \o t)[i])
  <2>1. CASE i <= Len(s)
    <3>1. h[i] = f[i] /\ h[i - 1] = f[i - 1] /\ (s \o t)[i] = s[i]
      BY <1>3, <1>4, <2>1
    <3>2. f[i] = ReadChar(f[i - 1], s[i])
      <4>1. i \in 1 .. Len(s)
        BY <1>3, <2>1
      <4> QED
        BY <1>1, <4>1
    <3> QED
      BY <3>1, <3>2
  <2>2. CASE i = Len(s) + 1
    <3>1. h[i] = g[1] /\ (s \o t)[i] = t[1]
      BY <1>3, <1>4, <2>2
    <3>2. h[i - 1] = f[Len(s)]
      BY <1>3, <1>4, <2>2
    <3>3. g[1] = ReadChar(g[0], t[1])
      BY <1>2, <1>3, <2>2
    <3> QED
      BY <1>1, <1>2, <3>1, <3>2, <3>3
  <2>3. CASE i > Len(s) + 1
    <3> DEFINE j == i - Len(s)
    <3>1. j \in 1 .. Len(t) /\ h[i] = g[j] /\ h[i - 1] = g[j - 1] /\ (s \o t)[i] = t[j]
      BY <1>3, <1>4, <2>3
    <3> HIDE DEF j
    <3> QED
      BY <1>2, <3>1
  <2> QED
    BY <1>3, <2>1, <2>2, <2>3
<1> QED
  BY <1>5, <1>6, <1>7 DEF Reads

(* What the engine makes of a text is where its reading comes to. *)
LEMMA ReadsDecides ==
    ASSUME NEW Chars, NEW text \in Seq(Chars), NEW q, Reads(NothingRead, text, q)
    PROVE  NamesRead(text) = IF q.state = "ended" THEN Append(q.names, q.name) ELSE <<>>
<1> DEFINE n == Len(text)
           Step(g) == [i \in 0 .. n |-> IF i = 0 THEN NothingRead ELSE ReadChar(g[i - 1], text[i])]
           after == CHOOSE g : g = Step(g)
           end == after[n]
<1>1. n \in Nat
  BY LenProperties
<1>2. PICK f : /\ f = [i \in 0 .. n |-> f[i]] /\ f[0] = NothingRead
               /\ \A i \in 1 .. n : f[i] = ReadChar(f[i - 1], text[i])
               /\ f[n] = q
  BY DEF Reads
<1>3. f = Step(f)
  <2> DEFINE h == Step(f)
  <2>1. h = [i \in 0 .. n |-> h[i]] /\ \A i \in 0 .. n : f[i] = h[i]
    BY <1>1, <1>2
  <2> HIDE DEF h
  <2>2. f = h
    BY <1>2, <2>1
  <2> QED
    BY <2>2 DEF h
<1>4. after = Step(after)
  <2> HIDE DEF Step
  <2> QED
    BY <1>3
<1>5. NamesRead(text) = IF end.state = "ended" THEN Append(end.names, end.name) ELSE <<>>
  BY DEF NamesRead
<1> HIDE DEF after
<1>6. after[0] = NothingRead /\ \A i \in 1 .. n : after[i] = ReadChar(after[i - 1], text[i])
  BY <1>1, <1>4
<1> DEFINE Same == {i \in Nat : i <= n => after[i] = f[i]}
<1>7. n \in Same
  <2>1. 0 \in Same
    BY <1>2, <1>6
  <2>2. ASSUME NEW i \in Nat, i \in Same PROVE i + 1 \in Same
    <3>1. i + 1 <= n => after[i + 1] = ReadChar(after[i], text[i + 1])
      BY <1>1, <1>6
    <3>2. i + 1 <= n => f[i + 1] = ReadChar(f[i], text[i + 1])
      BY <1>1, <1>2
    <3> QED
      BY <1>1, <2>2, <3>1, <3>2
  <2> HIDE DEF Same
  <2> QED
    BY <1>1, <2>1, <2>2, SetInduction
<1>8. end = q
  BY <1>1, <1>2, <1>7
<1> QED
  BY <1>5, <1>8

-----------------------------------------------------------------------------
(* Quoted names. *)

(* The steps of the reader that a qualified name takes. *)
LEMMA ReadCharSays ==
    ASSUME NEW name, NEW names
    PROVE  /\ ReadChar(Reading("between", name, names), Quote) = Reading("inside", <<>>, names)
           /\ ReadChar(Reading("inside", name, names), Quote) = Reading("ended", name, names)
           /\ \A c : c # Quote => ReadChar(Reading("inside", name, names), c)
                                      = Reading("inside", Append(name, c), names)
           /\ ReadChar(Reading("ended", name, names), Quote)
                  = Reading("inside", Append(name, Quote), names)
           /\ ReadChar(Reading("ended", name, names), Dot)
                  = Reading("between", <<>>, Append(names, name))
<1>0. Dot # Quote
  BY DEF Dot, Quote
<1>1. \A c : c # Quote => ReadChar(Reading("inside", name, names), c)
                              = Reading("inside", Append(name, c), names)
  BY DEF ReadChar, Reading
<1>2. /\ ReadChar(Reading("between", name, names), Quote) = Reading("inside", <<>>, names)
      /\ ReadChar(Reading("inside", name, names), Quote) = Reading("ended", name, names)
  BY DEF ReadChar, Reading
<1>3. ReadChar(Reading("ended", name, names), Quote)
          = Reading("inside", Append(name, Quote), names)
  BY <1>0 DEF ReadChar, Reading
<1>4. ReadChar(Reading("ended", name, names), Dot)
          = Reading("between", <<>>, Append(names, name))
  BY <1>0 DEF ReadChar, Reading
<1> QED
  BY <1>1, <1>2, <1>3, <1>4

(* Inside an identifier an escaped character is read as the character.     *)
LEMMA EscapeReads ==
    ASSUME NEW Chars, Quote \in Chars, NEW char \in Chars, NEW name, NEW read
    PROVE  /\ Escape(char) \in Seq(Chars)
           /\ Reads(Reading("inside", name, read), Escape(char),
                    Reading("inside", Append(name, char), read))
<1> DEFINE r == Reading("inside", name, read)
           q == Reading("inside", Append(name, char), read)
<1>1. CASE char # Quote
  <2>1. ReadChar(r, char) = q
    BY <1>1, ReadCharSays
  <2>2. Escape(char) = <<char>>
    BY <1>1 DEF Escape
  <2> QED
    BY <2>1, <2>2, ReadsOne
<1>2. CASE char = Quote
  <2> DEFINE m == Reading("ended", name, read)
  <2>1. ReadChar(r, Quote) = m
    BY ReadCharSays
  <2>2. ReadChar(m, Quote) = q
    BY <1>2, ReadCharSays
  <2>3. Escape(char) = <<Quote>> \o <<Quote>> /\ <<Quote>> \in Seq(Chars)
    BY <1>2 DEF Escape
  <2>4. Reads(r, <<Quote>>, m) /\ Reads(m, <<Quote>>, q)
    BY <2>1, <2>2, ReadsOne
  <2> HIDE DEF r, m, q
  <2>5. Reads(r, <<Quote>> \o <<Quote>>, q)
    BY <2>3, <2>4, ReadsBoth
  <2>6. Escape(char) \in Seq(Chars)
    BY <2>3, ConcatProperties
  <2> QED
    BY <2>3, <2>5, <2>6 DEF r, q
<1> QED
  BY <1>1, <1>2

(* A quoted name is read as the name (quoteIdent). *)
LEMMA QuoteReads ==
    ASSUME NEW Chars, Quote \in Chars, NEW name \in Seq(Chars), NEW read
    PROVE  /\ QuoteIdent(name) \in Seq(Chars)
           /\ Reads(Reading("between", <<>>, read), QuoteIdent(name),
                    Reading("ended", name, read))
<1> DEFINE n == Len(name)
           r == Reading("between", <<>>, read)
           first == <<Quote>>
           Step(g) == [i \in 0 .. n |-> IF i = 0 THEN first ELSE g[i - 1] \o Escape(name[i])]
           text == CHOOSE g : g = Step(g)
           inside(i) == Reading("inside", SubSeq(name, 1, i), read)
<1>1. n \in Nat /\ first \in Seq(Chars) /\ \A i \in 1 .. n : name[i] \in Chars
  BY LenProperties, ElementOfSeq
<1>2. text = Step(text)
  <2> DEFINE Text == Seq(Chars)
             step == [p \in Text \X (1 .. n) |-> p[1] \o Escape(name[p[2]])]
  <2>1. \A s \in Text, i \in 1 .. n : s \o Escape(name[i]) \in Text
    BY <1>1, EscapeReads, ConcatProperties
  <2>2. \A s \in Text, i \in 1 .. n : step[<<s, i>>] = s \o Escape(name[i])
    OBVIOUS
  <2>3. n \in Nat /\ first \in Text
    BY <1>1
  <2> HIDE DEF step, Text, first, n
  <2>4. PICK g \in [0 .. n -> Text] : Steps(g, n, first, step)
    BY <2>1, <2>2, <2>3, Recursion
  <2>5. g[0] = first /\ \A i \in 1 .. n : g[i] = step[<<g[i - 1], i>>]
    BY <2>4 DEF Steps
  <2>6. ASSUME NEW i \in 1 .. n PROVE g[i] = g[i - 1] \o Escape(name[i])
    <3>1. i - 1 \in 0 .. n
      BY <2>3
    <3>2. g[i - 1] \in Text
      BY <3>1
    <3> QED
      BY <2>2, <2>5, <3>2
  <2>7. g = Step(g)
    <3> DEFINE h == Step(g)
    <3>1. h = [i \in 0 .. n |-> h[i]]
      OBVIOUS
    <3>2. ASSUME NEW i \in 0 .. n PROVE h[i] = g[i]
      <4>1. CASE i = 0
        BY <2>5, <4>1
      <4>2. CASE i # 0
        <5>1. i \in 1 .. n
          BY <2>3, <4>2
        <5>2. h[i] = g[i - 1] \o Escape(name[i])
          BY <4>2
        <5> QED
          BY <2>6, <5>1, <5>2
      <4> QED
        BY <4>1, <4>2
    <3> HIDE DEF h
    <3>3. g = h
      BY <3>1, <3>2
    <3> QED
      BY <3>3 DEF h
  <2> HIDE DEF Step
  <2> QED
    BY <2>7
<1>3. QuoteIdent(name) = text[n] \o first
  BY DEF QuoteIdent
<1> HIDE DEF text, first
<1>4. text[0] = first /\ \A i \in 1 .. n : text[i] = text[i - 1] \o Escape(name[i])
  <2>1. \A i \in 0 .. n :
           text[i] = IF i = 0 THEN first ELSE text[i - 1] \o Escape(name[i])
    <3>1. \A i \in 0 .. n : Step(text)[i] = IF i = 0 THEN first
                                           ELSE text[i - 1] \o Escape(name[i])
      OBVIOUS
    <3> HIDE DEF Step
    <3> QED
      BY <1>2, <3>1
  <2>2. text[0] = first
    <3>1. 0 \in 0 .. n
      BY <1>1
    <3> QED
      BY <2>1, <3>1
  <2>3. ASSUME NEW i \in 1 .. n PROVE text[i] = text[i - 1] \o Escape(name[i])
    <3>1. i \in 0 .. n /\ i # 0
      BY <1>1
    <3> QED
      BY <2>1, <3>1
  <2> QED
    BY <2>2, <2>3
<1> HIDE DEF Step
<1> DEFINE Good == {i \in Nat : i <= n => /\ text[i] \in Seq(Chars)
                                         /\ Reads(r, text[i], inside(i))}
<1>5. n \in Good
  <2>1. 0 \in Good
    <3>1. SubSeq(name, 1, 0) = <<>>
      BY <1>1, SubSeqEmpty
    <3>2. ReadChar(r, Quote) = inside(0)
      BY <3>1, ReadCharSays
    <3> HIDE DEF r, inside
    <3>3. Reads(r, first, inside(0))
      BY <3>2, ReadsOne DEF first
    <3> QED
      BY <1>1, <1>4, <3>3
  <2>2. ASSUME NEW i \in Nat, i \in Good PROVE i + 1 \in Good
    <3> SUFFICES ASSUME i + 1 <= n
                 PROVE  text[i + 1] \in Seq(Chars) /\ Reads(r, text[i + 1], inside(i + 1))
      OBVIOUS
    <3>1. text[i + 1] = text[i] \o Escape(name[i + 1]) /\ name[i + 1] \in Chars
      <4>1. i + 1 \in 1 .. n /\ (i + 1) - 1 = i
        BY <1>1
      <4>2. text[i + 1] = text[(i + 1) - 1] \o Escape(name[i + 1])
        BY <1>4, <4>1
      <4> QED
        BY <1>1, <4>1, <4>2
    <3>2. text[i] \in Seq(Chars) /\ Reads(r, text[i], inside(i))
      BY <1>1, <2>2
    <3>3. Append(SubSeq(name, 1, i), name[i + 1]) = SubSeq(name, 1, i + 1)
      BY <1>1, SubSeqRecursiveSecond
    <3>4. /\ Escape(name[i + 1]) \in Seq(Chars)
          /\ Reads(inside(i), Escape(name[i + 1]), inside(i + 1))
      BY <3>1, <3>3, EscapeReads
    <3> HIDE DEF r, inside
    <3> QED
      BY <3>1, <3>2, <3>4, ReadsBoth, ConcatProperties
  <2> HIDE DEF Good
  <2> QED
    BY <1>1, <2>1, <2>2, SetInduction
<1>6. ReadChar(inside(n), Quote) = Reading("ended", name, read)
  <2>1. SubSeq(name, 1, n) = name
    BY SubSeqFull
  <2>2. inside(n) = Reading("inside", name, read)
    BY <2>1
  <2> HIDE DEF inside, n
  <2> QED
    BY <2>2, ReadCharSays
<1>7. text[n] \in Seq(Chars) /\ Reads(r, text[n], inside(n))
  BY <1>1, <1>5
<1> HIDE DEF r, inside
<1>8. Reads(inside(n), first, Reading("ended", name, read))
  BY <1>6, ReadsOne DEF first
<1>9. /\ text[n] \o first \in Seq(Chars)
      /\ Reads(r, text[n] \o first, Reading("ended", name, read))
  BY <1>1, <1>7, <1>8, ReadsBoth, ConcatProperties
<1> QED
  BY <1>3, <1>9 DEF r

-----------------------------------------------------------------------------
(* Qualified names. *)

(* A part is read as its name, after the names before it. *)
LEMMA PartReads ==
    ASSUME NEW Chars, Quote \in Chars, Dot \in Chars,
           NEW names \in Seq(Seq(Chars)), NEW i \in 1 .. Len(names)
    PROVE  LET read == SubSeq(names, 1, i - 1)
               before == IF i = 1 THEN NothingRead
                         ELSE Reading("ended", names[i - 1], SubSeq(names, 1, i - 2))
           IN  /\ Part(names, i) \in Seq(Chars)
               /\ Reads(before, Part(names, i), Reading("ended", names[i], read))
<1> DEFINE read == SubSeq(names, 1, i - 1)
           quoted == QuoteIdent(names[i])
           between == Reading("between", <<>>, read)
           after == Reading("ended", names[i], read)
<1>1. Len(names) \in Nat /\ names[i] \in Seq(Chars)
  BY LenProperties, ElementOfSeq
<1>2. quoted \in Seq(Chars) /\ Reads(between, quoted, after)
  BY <1>1, QuoteReads
<1>3. CASE i = 1
  <2>1. read = <<>>
    BY <1>3, SubSeqEmpty
  <2>2. between = NothingRead
    BY <2>1 DEF NothingRead
  <2>3. Part(names, i) = quoted
    BY <1>3 DEF Part
  <2> HIDE DEF between, quoted, after
  <2>4. Part(names, i) \in Seq(Chars) /\ Reads(NothingRead, Part(names, i), after)
    BY <1>2, <2>2, <2>3
  <2> QED
    BY <1>3, <2>4 DEF after
<1>4. CASE i # 1
  <2> DEFINE last == names[i - 1]
             before == Reading("ended", last, SubSeq(names, 1, i - 2))
  <2>1. i - 1 \in 1 .. Len(names) /\ (i - 1) - 1 = i - 2
    BY <1>1, <1>4
  <2>2. Append(SubSeq(names, 1, i - 2), last) = read
    <3>1. 1 \in 1 .. Len(names) /\ i - 1 \in 1 .. Len(names)
      BY <1>1, <2>1
    <3>2. SubSeq(names, 1, i - 1) = SubSeq(names, 1, (i - 1) - 1) \o <<names[i - 1]>>
      BY <3>1, SubSeqRecursiveSecond
    <3>3. SubSeq(names, 1, i - 2) \in Seq(Seq(Chars)) /\ last \in Seq(Chars)
      <4>1. \A j \in 1 .. i - 2 : names[j] \in Seq(Chars)
        BY <1>1, ElementOfSeq
      <4>2. last \in Seq(Chars)
        BY <2>1, ElementOfSeq
      <4>3. 1 \in Int /\ i - 2 \in Int
        BY <1>1
      <4> HIDE DEF last
      <4> QED
        BY <4>1, <4>2, <4>3, SubSeqProperties
    <3>4. Append(SubSeq(names, 1, i - 2), last) = SubSeq(names, 1, i - 2) \o <<last>>
      BY <3>3, AppendIsConcat
    <3> QED
      BY <2>1, <3>2, <3>4
  <2>3. ReadChar(before, Dot) = between
    <3> DEFINE w == SubSeq(names, 1, i - 2)
    <3>1. ReadChar(Reading("ended", last, w), Dot) = Reading("between", <<>>, Append(w, last))
      <4> HIDE DEF last, w
      <4> QED
        BY ReadCharSays
    <3> QED
      BY <2>2, <3>1
  <2>4. <<Dot>> \in Seq(Chars)
    OBVIOUS
  <2>5. Part(names, i) = <<Dot>> \o quoted
    BY <1>4 DEF Part
  <2> HIDE DEF before, between, quoted, after
  <2>6. Reads(before, <<Dot>>, between)
    BY <2>3, ReadsOne
  <2>7. Part(names, i) \in Seq(Chars) /\ Reads(before, Part(names, i), after)
    BY <1>2, <2>4, <2>5, <2>6, ReadsBoth, ConcatProperties
  <2> QED
    BY <1>4, <2>7 DEF before, after
<1> QED
  BY <1>3, <1>4

(* The names in the text of a qualified name are the names it was made of, *)
(* whatever characters they have (quoteIdent, fqTable).                    *)
THEOREM QuotedNamesRead ==
    ASSUME NEW Chars, Quote \in Chars, Dot \in Chars,
           NEW names \in Seq(Seq(Chars)), names # <<>>
    PROVE  NamesRead(Qualified(names)) = names
<1> DEFINE n == Len(names)
           empty == <<>>
           Step(g) == [i \in 0 .. n |->
                          IF i = 0 THEN empty ELSE g[i - 1] \o Part(names, i)]
           text == CHOOSE g : g = Step(g)
           at(i) == IF i = 0 THEN NothingRead
                    ELSE Reading("ended", names[i], SubSeq(names, 1, i - 1))
           Text == Seq(Chars)
<1>1. n \in Nat /\ n > 0 /\ \A i \in 1 .. n : names[i] \in Text
  BY LenProperties, ElementOfSeq, EmptySeq
<1>2. \A i \in 1 .. n : Part(names, i) \in Text
  BY PartReads
<1>3. Qualified(names) = text[n]
  BY DEF Qualified
<1> HIDE DEF n, Text, empty, text
<1>4. /\ text[0] = empty
      /\ \A i \in 1 .. n : text[i] = text[i - 1] \o Part(names, i)
  <2> DEFINE step == [p \in Text \X (1 .. n) |-> p[1] \o Part(names, p[2])]
  <2>1. empty \in Text /\ \A t \in Text, i \in 1 .. n : t \o Part(names, i) \in Text
    BY <1>2, ConcatProperties DEF Text, empty
  <2>2. \A t \in Text, i \in 1 .. n : step[<<t, i>>] = t \o Part(names, i)
    OBVIOUS
  <2> HIDE DEF step
  <2>3. PICK g \in [0 .. n -> Text] : Steps(g, n, empty, step)
    BY <1>1, <2>1, <2>2, Recursion
  <2>4. g[0] = empty /\ \A i \in 1 .. n : g[i] = step[<<g[i - 1], i>>]
    BY <2>3 DEF Steps
  <2>5. ASSUME NEW i \in 1 .. n PROVE g[i] = g[i - 1] \o Part(names, i)
    <3>1. i - 1 \in 0 .. n
      BY <1>1
    <3>2. g[i - 1] \in Text
      BY <3>1
    <3> QED
      BY <2>2, <2>4, <3>2
  <2>6. g = Step(g)
    <3> DEFINE h == Step(g)
    <3>1. h = [i \in 0 .. n |-> h[i]]
      OBVIOUS
    <3>2. ASSUME NEW i \in 0 .. n PROVE h[i] = g[i]
      <4>1. CASE i = 0
        BY <2>4, <4>1
      <4>2. CASE i # 0
        <5>1. i \in 1 .. n
          BY <1>1, <4>2
        <5>2. h[i] = g[i - 1] \o Part(names, i)
          BY <4>2
        <5> QED
          BY <2>5, <5>1, <5>2
      <4> QED
        BY <4>1, <4>2
    <3> HIDE DEF h
    <3>3. g = h
      BY <3>1, <3>2
    <3> QED
      BY <3>3 DEF h
  <2>7. text = Step(text)
    <3> HIDE DEF Step
    <3> QED
      BY <2>6 DEF text
  <2>8. ASSUME NEW i \in 0 .. n
        PROVE  text[i] = IF i = 0 THEN empty ELSE text[i - 1] \o Part(names, i)
    <3>1. Step(text)[i] = IF i = 0 THEN empty ELSE text[i - 1] \o Part(names, i)
      OBVIOUS
    <3> HIDE DEF Step
    <3> QED
      BY <2>7, <3>1
  <2>9. 0 \in 0 .. n /\ \A i \in 1 .. n : i \in 0 .. n /\ i # 0
    BY <1>1
  <2> QED
    BY <2>8, <2>9
<1> HIDE DEF Step
<1> DEFINE Right(i) == text[i] \in Text /\ Reads(NothingRead, text[i], at(i))
           Good == {i \in Nat : i <= n => Right(i)}
<1>5. n \in Good
  <2>1. Right(0)
    <3>1. Reads(NothingRead, empty, NothingRead)
      BY ReadsNothing DEF empty
    <3>2. empty \in Text
      BY EmptySeq DEF empty, Text
    <3> QED
      BY <1>4, <3>1, <3>2
  <2>2. ASSUME NEW i \in Nat, i + 1 <= n, Right(i) PROVE Right(i + 1)
    <3> DEFINE j == i + 1
    <3>1. j \in 1 .. n /\ j - 1 = i /\ j - 2 = i - 1 /\ (j = 1 <=> i = 0)
      BY <1>1, <2>2
    <3> HIDE DEF j
    <3>2. text[j] = text[i] \o Part(names, j)
      BY <1>4, <3>1
    <3>3. Reads(at(i), Part(names, j), at(j))
      <4> DEFINE before == IF j = 1 THEN NothingRead
                           ELSE Reading("ended", names[j - 1], SubSeq(names, 1, j - 2))
      <4>1. Reads(before, Part(names, j), Reading("ended", names[j], SubSeq(names, 1, j - 1)))
        BY <3>1, PartReads DEF n
      <4>2. before = at(i)
        BY <3>1
      <4>3. at(j) = Reading("ended", names[j], SubSeq(names, 1, j - 1))
        BY <3>1
      <4> HIDE DEF before, at
      <4> QED
        BY <4>1, <4>2, <4>3
    <3> HIDE DEF at
    <3>4. Right(j)
      BY <1>2, <2>2, <3>1, <3>2, <3>3, ReadsBoth, ConcatProperties DEF Text
    <3> QED
      BY <3>4 DEF j
  <2> HIDE DEF Right
  <2>3. 0 \in Good
    BY <2>1
  <2>4. ASSUME NEW i \in Nat, i \in Good PROVE i + 1 \in Good
    <3>1. i + 1 <= n => i <= n
      BY <1>1
    <3> QED
      BY <2>2, <2>4, <3>1
  <2> HIDE DEF Good
  <2> QED
    BY <1>1, <2>3, <2>4, SetInduction
<1>6. Right(n)
  <2> HIDE DEF Right
  <2> QED
    BY <1>1, <1>5
<1>7. text[n] \in Seq(Chars) /\ Reads(NothingRead, text[n], at(n))
  BY <1>6 DEF Text
<1>8. at(n).state = "ended" /\ Append(at(n).names, at(n).name) = names
  <2>1. at(n).state = "ended" /\ at(n).name = names[n] /\ at(n).names = SubSeq(names, 1, n - 1)
    BY <1>1 DEF Reading
  <2>2. SubSeq(names, 1, n) = SubSeq(names, 1, n - 1) \o <<names[n]>>
    BY <1>1, SubSeqRecursiveSecond DEF n
  <2>3. SubSeq(names, 1, n) = names
    BY SubSeqFull DEF n
  <2>4. SubSeq(names, 1, n - 1) \in Seq(Seq(Chars)) /\ names[n] \in Seq(Chars)
    <3>1. 1 \in Int /\ n - 1 \in Int /\ \A j \in 1 .. n - 1 : names[j] \in Seq(Chars)
      BY <1>1 DEF Text
    <3>2. names[n] \in Seq(Chars)
      BY <1>1 DEF Text
    <3> QED
      BY <3>1, <3>2, SubSeqProperties
  <2> QED
    BY <2>1, <2>2, <2>3, <2>4, AppendIsConcat
<1> HIDE DEF at
<1> QED
  BY <1>3, <1>7, <1>8, ReadsDecides

-----------------------------------------------------------------------------
(* Amounts. *)

(* A set of numbers with a bound has a largest. *)
LEMMA Largest ==
    ASSUME NEW S, S \subseteq Nat, S # {}, NEW b \in Nat, \A x \in S : x <= b
    PROVE  \E x \in S : \A y \in S : y <= x
<1> DEFINE Below(k) == (\A x \in S : x <= k) => \E x \in S : \A y \in S : y <= x
           Good == {k \in Nat : Below(k)}
<1>1. Below(0)
  <2>1. ASSUME \A x \in S : x <= 0 PROVE \A x, y \in S : y <= x
    BY <2>1
  <2> QED
    BY <2>1
<1>2. ASSUME NEW k \in Nat, Below(k) PROVE Below(k + 1)
  <2> SUFFICES ASSUME \A x \in S : x <= k + 1 PROVE \E x \in S : \A y \in S : y <= x
    OBVIOUS
  <2>1. CASE k + 1 \in S
    BY <2>1
  <2>2. CASE k + 1 \notin S
    <3>1. ASSUME NEW x \in S PROVE x <= k
      BY <2>2
    <3> QED
      BY <1>2, <3>1
  <2> QED
    BY <2>1, <2>2
<1>3. b \in Good
  <2>1. 0 \in Good /\ \A k \in Nat : k \in Good => k + 1 \in Good
    <3> HIDE DEF Below
    <3> QED
      BY <1>1, <1>2
  <2> HIDE DEF Good
  <2> QED
    BY <2>1, SetInduction
<1> QED
  BY <1>3

LEMMA Division ==
    ASSUME NEW x \in Nat, NEW u \in Nat \ {0}
    PROVE  /\ x \div u \in Nat
           /\ (x \div u) * u <= x
           /\ x < (x \div u) * u + u
OBVIOUS

(* A table of units has one, and none that the client does not know.       *)
IsUnits(units) == /\ \A u \in DOMAIN units : units[u] \in Nat \ {0}
                  /\ \E u \in DOMAIN units : units[u] = 1
                  /\ {"", "EB"} \cap DOMAIN units = {}

LEMMA Products == \A m, n \in Nat \ {0} : m * n \in Nat \ {0}
OBVIOUS

LEMMA UnitsAreUnits == IsUnits(DurationUnits) /\ IsUnits(SizeUnits)
<1>1. {1, Kilo, Kibi, Minute, Day} \subseteq Nat \ {0}
  BY UnitAssumption
<1>2. IsUnits(DurationUnits)
  <2> DEFINE second == Kilo * Kilo * Kilo
             hour == Minute * Minute * second
             day == Day * hour
             milli == Kilo * Kilo
             minute == Minute * second
  <2>1. {milli, second, minute, hour, day} \subseteq Nat \ {0}
    <3>1. milli \in Nat \ {0} /\ Minute * Minute \in Nat \ {0}
      BY <1>1, Products
    <3>2. second \in Nat \ {0}
      BY <1>1, <3>1, Products
    <3> HIDE DEF second
    <3>3. minute \in Nat \ {0} /\ hour \in Nat \ {0}
      BY <1>1, <3>1, <3>2, Products
    <3> HIDE DEF hour
    <3>4. day \in Nat \ {0}
      BY <1>1, <3>3, Products
    <3> QED
      BY <3>1, <3>2, <3>3, <3>4
  <2>2. DurationUnits = [ns |-> 1, us |-> Kilo, ms |-> milli, s |-> second,
                         m |-> minute, h |-> hour, d |-> day]
    BY DEF DurationUnits
  <2> HIDE DEF second, hour, day, milli, minute
  <2> QED
    BY <1>1, <2>1, <2>2 DEF IsUnits
<1>3. IsUnits(SizeUnits)
  <2> DEFINE mega == Kibi * Kibi
             tera == mega * mega
             giga == Kibi * mega
             peta == Kibi * tera
  <2>1. {mega, giga, tera, peta} \subseteq Nat \ {0}
    <3>1. mega \in Nat \ {0}
      BY <1>1, Products
    <3> HIDE DEF mega
    <3>2. giga \in Nat \ {0} /\ tera \in Nat \ {0}
      BY <1>1, <3>1, Products
    <3> HIDE DEF tera
    <3>3. peta \in Nat \ {0}
      BY <1>1, <3>2, Products
    <3> QED
      BY <3>1, <3>2, <3>3
  <2>2. SizeUnits = [B |-> 1, kB |-> Kibi, MB |-> mega, GB |-> giga, TB |-> tera, PB |-> peta]
    BY DEF SizeUnits
  <2> HIDE DEF mega, tera, giga, peta
  <2> QED
    BY <1>1, <2>1, <2>2 DEF IsUnits
<1> QED
  BY <1>2, <1>3

(* An amount is written in a unit that is not above it, unless that is the *)
(* smallest, and rounded to the nearest number of it.                      *)
LEMMA Written ==
    ASSUME NEW units, IsUnits(units), NEW amount \in Nat
    PROVE  LET text == Write(amount, units, "succinct")
               unit == Precision(amount, units)
           IN  /\ unit \in Nat \ {0}
               /\ unit <= amount \/ unit = 1
               /\ Quantity(text, units) = ((100 * amount + unit \div 2) \div unit) * unit
<1> DEFINE fitting == {u \in DOMAIN units : units[u] <= amount \/ units[u] = 1}
           values == {units[u] : u \in fitting}
           best == CHOOSE u \in fitting : \A v \in fitting : units[v] <= units[u]
           unit == Precision(amount, units)
<1>1. \A u \in DOMAIN units : units[u] \in Nat \ {0}
  BY DEF IsUnits
<1>2. values \subseteq Nat /\ values # {} /\ \A x \in values : x <= amount + 1
  <2>1. PICK u \in DOMAIN units : units[u] = 1
    BY DEF IsUnits
  <2>2. ASSUME NEW v \in fitting PROVE units[v] \in Nat /\ units[v] <= amount + 1
    BY <1>1, <2>2
  <2>3. u \in fitting
    BY <2>1
  <2> HIDE DEF fitting
  <2> QED
    BY <2>2, <2>3
<1>3. \E x \in values : \A y \in values : y <= x
  <2>1. amount + 1 \in Nat
    OBVIOUS
  <2> HIDE DEF values
  <2>2. values \subseteq Nat /\ values # {} /\ \A x \in values : x <= amount + 1
    BY <1>2
  <2> DEFINE bound == amount + 1
  <2>3. bound \in Nat /\ \A x \in values : x <= bound
    BY <2>1, <2>2
  <2> HIDE DEF bound
  <2> QED
    BY <2>2, <2>3, Largest
<1>4. best \in fitting /\ \A v \in fitting : units[v] <= units[best]
  <2>1. \E u \in fitting : \A v \in fitting : units[v] <= units[u]
    BY <1>3
  <2> HIDE DEF fitting
  <2> QED
    BY <2>1
<1>5. Precision(amount, units) = units[best]
  <2> DEFINE below == {units[u] : u \in {v \in DOMAIN units : units[v] <= amount}} \cup {1}
  <2>1. below = values
    BY DEF IsUnits
  <2>2. Precision(amount, units) = CHOOSE f \in below : \A g \in below : g <= f
    BY DEF Precision
  <2>3. units[best] \in values /\ \A y \in values : y <= units[best]
    BY <1>4
  <2>4. \A f \in values : (\A g \in values : g <= f) => f = units[best]
    BY <1>2, <2>3
  <2> HIDE DEF below, values, best
  <2> QED
    BY <2>1, <2>2, <2>3, <2>4
<1>6. Quantity(Write(amount, units, "succinct"), units)
          = ((100 * amount + units[best] \div 2) \div units[best]) * units[best]
  <2> DEFINE number == (100 * amount + units[best] \div 2) \div units[best]
  <2>1. Write(amount, units, "succinct") = [number |-> Some(number), unit |-> best]
    BY DEF Write
  <2>2. best \in DOMAIN units
    BY <1>4
  <2> HIDE DEF number, best
  <2>3. Some(number) # None /\ Some(number)[1] = number
    BY DEF Some, None
  <2> QED
    BY <2>1, <2>2, <2>3 DEF Quantity, number
<1>7. best \in DOMAIN units /\ (units[best] <= amount \/ units[best] = 1)
  BY <1>4
<1> HIDE DEF best
<1> QED
  BY <1>1, <1>5, <1>6, <1>7

(* What is read is what was measured, up to half a unit in the last of the *)
(* two decimals; and an amount is not read as nothing.                     *)
LEMMA ReadNear ==
    ASSUME NEW units, IsUnits(units), NEW amount \in Nat
    PROVE  LET read == Quantity(Write(amount, units, "succinct"), units)
               unit == Precision(amount, units)
           IN  /\ read \in Nat /\ unit \in Nat \ {0}
               /\ 2 * (read - 100 * amount) <= unit
               /\ 2 * (100 * amount - read) <= unit
               /\ amount = 0 => read = 0
               /\ amount > 0 => read >= 100
<1> DEFINE read == Quantity(Write(amount, units, "succinct"), units)
           unit == Precision(amount, units)
           half == unit \div 2
           number == (100 * amount + half) \div unit
<1>1. /\ unit \in Nat \ {0}
      /\ unit <= amount \/ unit = 1
      /\ read = number * unit
  BY Written
<1> HIDE DEF read, unit
<1>2. half \in Nat /\ 2 * half <= unit /\ unit <= 2 * half + 1
  BY <1>1
<1> HIDE DEF half
<1>3. number * unit <= 100 * amount + half /\ 100 * amount + half < number * unit + unit
      /\ number \in Nat
  <2> DEFINE x == 100 * amount + half
  <2>1. x \in Nat
    BY <1>2
  <2>2. number = x \div unit
    OBVIOUS
  <2>3. x = 100 * amount + half
    OBVIOUS
  <2> HIDE DEF x, number
  <2>4. /\ x \div unit \in Nat
        /\ (x \div unit) * unit <= x
        /\ x < (x \div unit) * unit + unit
    BY <1>1, <2>1, Division
  <2> QED
    BY <2>2, <2>3, <2>4
<1> HIDE DEF number
<1>4. read \in Nat /\ read <= 100 * amount + half /\ 100 * amount + half < read + unit
  BY <1>1, <1>3
<1>5. 2 * (read - 100 * amount) <= unit /\ 2 * (100 * amount - read) <= unit
  BY <1>1, <1>2, <1>4
<1>6. amount = 0 => read = 0
  <2>1. amount = 0 => unit = 1
    BY <1>1
  <2> QED
    BY <1>2, <1>4, <2>1
<1>7. amount > 0 => read >= 100
  <2>1. CASE unit = 1
    BY <1>2, <1>4, <2>1
  <2>2. CASE unit # 1
    <3>1. 2 <= unit /\ unit <= amount
      BY <1>1, <2>2
    <3>2. unit \in Nat /\ read \in Nat
      BY <1>1, <1>4
    <3>3. 2 * (100 * amount - read) <= unit
      BY <1>5
    <3> QED
      BY <3>1, <3>2, <3>3
  <2> QED
    BY <2>1, <2>2
<1> QED
  BY <1>1, <1>4, <1>5, <1>6, <1>7 DEF read, unit

(* A figure that is not in the engine's usual form is read as nothing.     *)
LEMMA UnknownReadsZero ==
    ASSUME NEW units, IsUnits(units), NEW amount, NEW form \in Forms \ {"succinct"}
    PROVE  Quantity(Write(amount, units, form), units) = 0
<1> DEFINE text == Write(amount, units, form)
<1>1. text.unit \in {"", "EB"} \/ text.number = None
  <2>1. CASE form = "foreign"
    BY <2>1 DEF Write
  <2>2. CASE form = "bare"
    BY <2>2 DEF Write
  <2>3. CASE form = "odd"
    BY <2>3 DEF Write
  <2>4. CASE form = "absent"
    BY <2>4 DEF Write, AbsentText
  <2> QED
    BY <2>1, <2>2, <2>3, <2>4 DEF Forms
<1> HIDE DEF text
<1>2. Quantity(text, units) = 0
  BY <1>1 DEF Quantity, IsUnits
<1> QED
  BY <1>2 DEF text

-----------------------------------------------------------------------------
(* A set of numbers has a smallest. *)
LEMMA Smallest ==
    ASSUME NEW S, S \subseteq Nat, S # {}
    PROVE  \E x \in S : \A y \in S : x <= y
<1> SUFFICES ASSUME \A x \in S : \E y \in S : y < x PROVE FALSE
  OBVIOUS
<1> DEFINE Above == {n \in Nat : \A x \in S : n <= x}
<1>1. 0 \in Above
  OBVIOUS
<1>2. ASSUME NEW n \in Nat, n \in Above PROVE n + 1 \in Above
  <2>1. n \notin S
    BY <1>2
  <2> QED
    BY <1>2, <2>1
<1>3. PICK x \in S : TRUE
  OBVIOUS
<1>4. x + 1 \in Above
  <2> HIDE DEF Above
  <2>1. \A n \in Nat : n \in Above
    BY <1>1, <1>2, SetInduction
  <2> QED
    BY <1>3, <2>1
<1> QED
  BY <1>3, <1>4

-----------------------------------------------------------------------------
(* Paths. *)

Nodes == Paths \ {<<>>}

(* The paths that a walk of t from p on comes to.                          *)
From(t, p) == {q \in t : /\ Len(p) <= Len(q)
                         /\ \A i \in 1 .. Len(p) - 1 : q[i] = p[i]
                         /\ p[Len(p)] <= q[Len(p)]}

LEMMA PathFacts ==
    ASSUME NEW p \in Nodes
    PROVE  /\ Len(p) \in Nat \ {0} /\ DOMAIN p = 1 .. Len(p)
           /\ \A i \in 1 .. Len(p) : p[i] \in Nat \ {0}
<1>1. p \in Seq(Nat \ {0}) /\ p # <<>>
  BY DEF Nodes, Paths
<1> QED
  BY <1>1, LenProperties, EmptySeq, ElementOfSeq

LEMMA SamePath ==
    ASSUME NEW p \in Nodes, NEW q \in Nodes, Len(p) = Len(q), \A i \in 1 .. Len(p) : p[i] = q[i]
    PROVE  p = q
<1>1. p \in Seq(Nat \ {0}) /\ q \in Seq(Nat \ {0})
  BY DEF Nodes, Paths
<1> QED
  BY <1>1, SeqEqual

LEMMA FrontFacts ==
    ASSUME NEW p \in Nodes
    PROVE  /\ Front(p) \in Paths /\ Len(Front(p)) = Len(p) - 1
           /\ \A i \in 1 .. Len(p) - 1 : Front(p)[i] = p[i]
           /\ Last(p) = p[Len(p)]
           /\ \A m \in Nat \ {0} :
                 /\ Append(Front(p), m) \in Nodes /\ Len(Append(Front(p), m)) = Len(p)
                 /\ \A i \in 1 .. Len(p) - 1 : Append(Front(p), m)[i] = p[i]
                 /\ Append(Front(p), m)[Len(p)] = m
<1> DEFINE k == Len(p)
           f == Front(p)
<1>1. k \in Nat \ {0} /\ \A i \in 1 .. k : p[i] \in Nat \ {0}
  BY PathFacts
<1>2. f \in Seq(Nat \ {0}) /\ Len(f) = k - 1 /\ \A i \in 1 .. k - 1 : f[i] = p[i]
  <2>1. f = SubSeq(p, 1, k - 1)
    BY DEF Front
  <2>2. 1 \in Int /\ k - 1 \in Int /\ \A i \in 1 .. k - 1 : p[i] \in Nat \ {0}
    BY <1>1
  <2> HIDE DEF f, k
  <2>3. SubSeq(p, 1, k - 1) \in Seq(Nat \ {0})
    BY <2>2, SubSeqProperties
  <2>4. Len(SubSeq(p, 1, k - 1)) = IF 1 <= k - 1 THEN k - 1 - 1 + 1 ELSE 0
    BY <2>2, SubSeqProperties
  <2>5. \A i \in 1 .. k - 1 - 1 + 1 : SubSeq(p, 1, k - 1)[i] = p[1 + i - 1]
    BY <2>2, SubSeqProperties
  <2> QED
    BY <1>1, <2>1, <2>3, <2>4, <2>5
<1> HIDE DEF k, f
<1>3. ASSUME NEW m \in Nat \ {0}
      PROVE  LET a == Append(f, m)
             IN  /\ a \in Nodes /\ Len(a) = k
                 /\ \A i \in 1 .. k - 1 : a[i] = p[i]
                 /\ a[k] = m
  <2> DEFINE a == Append(f, m)
  <2>1. a \in Seq(Nat \ {0}) \ {<<>>} /\ Len(a) = Len(f) + 1
        /\ (\A i \in 1 .. Len(f) : a[i] = f[i]) /\ a[Len(f) + 1] = m
    BY <1>2, AppendProperties
  <2>2. a \in Nodes
    BY <2>1 DEF Nodes, Paths
  <2>3. k = Len(f) + 1 /\ Len(f) = k - 1
    BY <1>1, <1>2
  <2> HIDE DEF a
  <2>4. Len(a) = k /\ (\A i \in 1 .. k - 1 : a[i] = p[i]) /\ a[k] = m
    BY <1>2, <2>1, <2>3
  <2> QED
    BY <2>2, <2>4 DEF a
<1> QED
  BY <1>2, <1>3 DEF f, k, Last, Paths

LEMMA ChildFacts ==
    ASSUME NEW p \in Nodes
    PROVE  /\ FirstChild(p) \in Nodes /\ Len(FirstChild(p)) = Len(p) + 1
           /\ \A i \in 1 .. Len(p) : FirstChild(p)[i] = p[i]
           /\ FirstChild(p)[Len(p) + 1] = 1
           /\ NextSibling(p) \in Nodes /\ Len(NextSibling(p)) = Len(p)
           /\ \A i \in 1 .. Len(p) - 1 : NextSibling(p)[i] = p[i]
           /\ NextSibling(p)[Len(p)] = p[Len(p)] + 1
<1>1. p \in Seq(Nat \ {0}) /\ 1 \in Nat \ {0}
  BY DEF Nodes, Paths
<1>2. /\ FirstChild(p) \in Nodes /\ Len(FirstChild(p)) = Len(p) + 1
      /\ \A i \in 1 .. Len(p) : FirstChild(p)[i] = p[i]
      /\ FirstChild(p)[Len(p) + 1] = 1
  BY <1>1, AppendProperties DEF FirstChild, Nodes, Paths
<1> DEFINE m == Last(p) + 1
<1>3. m \in Nat \ {0} /\ m = p[Len(p)] + 1
  <2>1. Len(p) \in 1 .. Len(p)
    BY PathFacts
  <2>2. p[Len(p)] \in Nat \ {0} /\ Last(p) = p[Len(p)]
    BY <2>1, PathFacts DEF Last
  <2> QED
    BY <2>2
<1>4. NextSibling(p) = Append(Front(p), m)
  BY DEF NextSibling
<1> HIDE DEF m
<1>5. LET a == Append(Front(p), m)
      IN  /\ a \in Nodes /\ Len(a) = Len(p)
          /\ \A i \in 1 .. Len(p) - 1 : a[i] = p[i]
          /\ a[Len(p)] = m
  BY <1>3, FrontFacts
<1> QED
  BY <1>2, <1>3, <1>4, <1>5

-----------------------------------------------------------------------------
(* What a walk comes to. *)

(* Where there is no node, none comes after it.                            *)
LEMMA NothingFrom ==
    ASSUME NEW t, IsTree(t), NEW p \in Nodes, p \notin t
    PROVE  From(t, p) = {}
<1> DEFINE k == Len(p)
           there == From(t, p)
           Held(q) == \/ q = Root
                      \/ /\ Len(q) > 1
                         /\ Front(q) \in t
                         /\ Last(q) > 1 => Append(Front(q), Last(q) - 1) \in t
<1> SUFFICES ASSUME there # {} PROVE FALSE
  OBVIOUS
<1>1. k \in Nat \ {0} /\ \A i \in 1 .. k : p[i] \in Nat \ {0}
  BY PathFacts
<1>2. ASSUME NEW q \in there
      PROVE  /\ q \in t /\ q \in Nodes /\ Len(q) \in Nat /\ k <= Len(q)
             /\ \A i \in 1 .. Len(q) : q[i] \in Nat \ {0}
             /\ \A i \in 1 .. k - 1 : q[i] = p[i]
             /\ p[k] <= q[k]
             /\ Held(q)
  <2>1. q \in t /\ k <= Len(q) /\ (\A i \in 1 .. k - 1 : q[i] = p[i]) /\ p[k] <= q[k]
    BY DEF From
  <2>2. q \in Paths /\ Held(q)
    BY <2>1 DEF IsTree
  <2>3. q # <<>>
    BY <1>1, <2>1
  <2>4. q \in Nodes
    BY <2>2, <2>3 DEF Nodes
  <2> QED
    BY <2>1, <2>2, <2>4, PathFacts
<1> HIDE DEF k
<1>3. PICK q \in there : \A r \in there : Len(q) <= Len(r)
  <2> DEFINE lengths == {Len(q) : q \in there}
  <2>1. lengths \subseteq Nat /\ lengths # {}
    BY <1>2
  <2>2. \E x \in lengths : \A y \in lengths : x <= y
    <3> HIDE DEF lengths
    <3> QED
      BY <2>1, Smallest
  <2> QED
    BY <2>2
<1>4. Len(q) = k
  <2> SUFFICES ASSUME Len(q) > k PROVE FALSE
    BY <1>1, <1>2
  <2>1. Len(Root) = 1
    BY DEF Root
  <2>2. Front(q) \in t
    BY <1>1, <1>2, <2>1
  <2>3. Len(Front(q)) = Len(q) - 1 /\ \A i \in 1 .. Len(q) - 1 : Front(q)[i] = q[i]
    BY <1>2, FrontFacts
  <2>4. Front(q) \in there
    <3>1. k <= Len(Front(q))
      BY <1>1, <1>2, <2>3
    <3>2. \A i \in 1 .. k : Front(q)[i] = q[i]
      BY <1>1, <1>2, <2>3
    <3>3. (\A i \in 1 .. k - 1 : Front(q)[i] = p[i]) /\ p[k] <= Front(q)[k]
      BY <1>1, <1>2, <3>2
    <3> QED
      BY <2>2, <3>1, <3>3 DEF From, k
  <2> QED
    BY <1>2, <1>3, <2>3, <2>4
<1> DEFINE ends == {r[k] : r \in {r \in there : Len(r) = k}}
<1>5. ends \subseteq Nat /\ ends # {}
  BY <1>1, <1>2, <1>4
<1>6. \E x \in ends : \A y \in ends : x <= y
  <2> HIDE DEF ends
  <2> QED
    BY <1>5, Smallest
<1>7. PICK r \in there : Len(r) = k /\ \A s \in there : Len(s) = k => r[k] <= s[k]
  BY <1>6
<1>8. r[k] \in Nat \ {0} /\ p[k] \in Nat \ {0} /\ p[k] <= r[k] /\ r \in Nodes
  BY <1>1, <1>2, <1>7
<1>9. CASE r[k] = p[k]
  <2>1. \A i \in 1 .. k : r[i] = p[i]
    BY <1>1, <1>2, <1>9
  <2>2. r = p
    BY <1>7, <1>8, <2>1, SamePath DEF k
  <2> QED
    BY <1>2, <2>2
<1>10. CASE r[k] > p[k]
  <2> DEFINE m == r[k] - 1
             s == Append(Front(r), m)
  <2>1. m \in Nat \ {0} /\ p[k] <= m /\ m < r[k]
    BY <1>8, <1>10
  <2>2. Root[1] = 1 /\ Len(Root) = 1
    BY DEF Root
  <2>3. r # Root
    <3>1. r = Root => k = 1 /\ r[k] = 1
      BY <1>7, <2>2
    <3> QED
      BY <1>8, <1>10, <3>1
  <2>4. Last(r) = r[k]
    BY <1>7 DEF Last
  <2>5. s \in t
    BY <1>2, <1>8, <1>10, <2>3, <2>4
  <2>6. Len(s) = k /\ (\A i \in 1 .. k - 1 : s[i] = r[i]) /\ s[k] = m
    <3> HIDE DEF m
    <3> QED
      BY <1>7, <1>8, <2>1, FrontFacts
  <2> HIDE DEF s, m
  <2>7. k <= Len(s) /\ (\A i \in 1 .. k - 1 : s[i] = p[i]) /\ p[k] <= s[k]
    BY <1>1, <1>2, <2>1, <2>6
  <2>8. s \in there
    BY <2>5, <2>7 DEF From, k
  <2>9. r[k] <= m
    BY <1>7, <2>6, <2>8
  <2> QED
    BY <1>8, <2>1, <2>9
<1> QED
  BY <1>8, <1>9, <1>10

(* Two paths are in document order one way at most.                        *)
LEMMA BeforeOneWay ==
    ASSUME NEW p \in Nodes, NEW q \in Nodes, Before(p, q)
    PROVE  ~ Before(q, p)
<1> DEFINE Shorter(a, b) == Len(a) < Len(b) /\ \A i \in 1 .. Len(a) : a[i] = b[i]
           Parts(a, b, i) == /\ i \in 1 .. Len(a) /\ i \in 1 .. Len(b)
                             /\ a[i] < b[i] /\ \A j \in 1 .. i - 1 : a[j] = b[j]
<1>1. /\ Len(p) \in Nat /\ DOMAIN p = 1 .. Len(p) /\ \A i \in 1 .. Len(p) : p[i] \in Nat
      /\ Len(q) \in Nat /\ DOMAIN q = 1 .. Len(q) /\ \A i \in 1 .. Len(q) : q[i] \in Nat
  BY PathFacts
<1>0. ASSUME NEW a \in Nodes, NEW b \in Nodes, Before(a, b)
      PROVE  Shorter(a, b) \/ \E i \in Nat : Parts(a, b, i)
  <2>1. DOMAIN a = 1 .. Len(a) /\ DOMAIN b = 1 .. Len(b) /\ Len(a) \in Nat
    BY PathFacts
  <2>2. CASE Len(a) < Len(b) /\ \A i \in DOMAIN a : a[i] = b[i]
    BY <2>1, <2>2
  <2>3. ASSUME NEW i \in DOMAIN a \cap DOMAIN b, a[i] < b[i], \A j \in 1 .. i - 1 : a[j] = b[j]
        PROVE  i \in Nat /\ Parts(a, b, i)
    BY <2>1, <2>3
  <2> QED
    BY <1>0, <2>2, <2>3 DEF Before
<1>2. Shorter(p, q) \/ \E i \in Nat : Parts(p, q, i)
  BY <1>0
<1> SUFFICES ASSUME Before(q, p) PROVE FALSE
  OBVIOUS
<1>3. Shorter(q, p) \/ \E i \in Nat : Parts(q, p, i)
  BY <1>0
<1>4. CASE Shorter(p, q)
  BY <1>1, <1>3, <1>4
<1>5. CASE Shorter(q, p)
  BY <1>1, <1>2, <1>5
<1>6. ASSUME NEW i \in Nat, NEW j \in Nat, Parts(p, q, i), Parts(q, p, j) PROVE FALSE
  <2>1. p[i] < q[i] /\ q[j] < p[j] /\ i \in 1 .. Len(p) /\ j \in 1 .. Len(q)
        /\ i \in 1 .. Len(q) /\ j \in 1 .. Len(p)
    BY <1>6
  <2>2. CASE i = j
    BY <1>1, <2>1, <2>2
  <2>3. CASE i < j
    <3>1. i \in 1 .. j - 1
      BY <2>1, <2>3
    <3> QED
      BY <1>1, <1>6, <2>1, <3>1
  <2>4. CASE j < i
    <3>1. j \in 1 .. i - 1
      BY <2>1, <2>4
    <3> QED
      BY <1>1, <1>6, <2>1, <3>1
  <2> QED
    BY <2>2, <2>3, <2>4
<1> HIDE DEF Shorter, Parts
<1> QED
  BY <1>2, <1>3, <1>4, <1>5, <1>6

(* From a node, a walk comes to it, to what is below it and to what is     *)
(* beside it, in this order.                                               *)
LEMMA FromNode ==
    ASSUME NEW t, IsTree(t), NEW p \in t
    PROVE  LET below == From(t, FirstChild(p))
               beside == From(t, NextSibling(p))
           IN  /\ p \in Nodes
               /\ From(t, p) = {p} \cup below \cup beside
               /\ p \notin below /\ p \notin beside
               /\ \A q \in below : Before(p, q) /\ \A r \in beside : Before(q, r)
               /\ \A r \in beside : Before(p, r)
<1> DEFINE c == FirstChild(p)
           n == NextSibling(p)
           k == Len(p)
<1>1. p \in Nodes
  <2>1. Len(<<>>) = 0 /\ Root # <<>>
    BY DEF Root
  <2> QED
    BY <2>1 DEF IsTree, Nodes
<1>2. k \in Nat \ {0} /\ DOMAIN p = 1 .. k /\ \A i \in 1 .. k : p[i] \in Nat \ {0}
  BY <1>1, PathFacts
<1>3. /\ Len(c) = k + 1 /\ (\A i \in 1 .. k : c[i] = p[i]) /\ c[k + 1] = 1
      /\ Len(n) = k /\ (\A i \in 1 .. k - 1 : n[i] = p[i]) /\ n[k] = p[k] + 1
  BY <1>1, ChildFacts
<1>4. ASSUME NEW q \in t
      PROVE  /\ q \in Nodes /\ Len(q) \in Nat \ {0} /\ DOMAIN q = 1 .. Len(q)
             /\ \A i \in 1 .. Len(q) : q[i] \in Nat \ {0}
  <2>1. Len(<<>>) = 0 /\ Root # <<>>
    BY DEF Root
  <2>2. q \in Nodes
    BY <2>1 DEF IsTree, Nodes
  <2> QED
    BY <2>2, PathFacts
<1> DEFINE Same(q) == k <= Len(q) /\ \A i \in 1 .. k - 1 : q[i] = p[i]
<1>5. \A q \in t : /\ q \in From(t, p) <=> Same(q) /\ p[k] <= q[k]
                   /\ q \in From(t, n) <=> Same(q) /\ p[k] < q[k]
                   /\ q \in From(t, c) <=> Same(q) /\ p[k] = q[k] /\ k < Len(q)
  <2> HIDE DEF c, n, k
  <2> SUFFICES ASSUME NEW q \in t
               PROVE  /\ q \in From(t, p) <=> Same(q) /\ p[k] <= q[k]
                      /\ q \in From(t, n) <=> Same(q) /\ p[k] < q[k]
                      /\ q \in From(t, c) <=> Same(q) /\ p[k] = q[k] /\ k < Len(q)
    OBVIOUS
  <2>1. q \in From(t, p) <=> Same(q) /\ p[k] <= q[k]
    BY DEF From, k
  <2>2. q \in From(t, n) <=> Same(q) /\ p[k] < q[k]
    <3>1. q \in From(t, n) <=> Same(q) /\ n[k] <= q[k]
      BY <1>3 DEF From
    <3>2. k <= Len(q) => q[k] \in Nat
      BY <1>2, <1>4
    <3>3. p[k] \in Nat
      BY <1>2
    <3> QED
      BY <1>2, <1>3, <3>1, <3>2, <3>3
  <2>3. q \in From(t, c) <=> Same(q) /\ p[k] = q[k] /\ k < Len(q)
    <3>1. q \in From(t, c) <=> k + 1 <= Len(q) /\ (\A i \in 1 .. k : q[i] = p[i]) /\ 1 <= q[k + 1]
      BY <1>2, <1>3 DEF From
    <3>2. k + 1 <= Len(q) => 1 <= q[k + 1]
      BY <1>2, <1>4
    <3>3. k + 1 <= Len(q) <=> k <= Len(q) /\ k < Len(q)
      BY <1>2, <1>4
    <3>4. (\A i \in 1 .. k : q[i] = p[i]) <=> (\A i \in 1 .. k - 1 : q[i] = p[i]) /\ p[k] = q[k]
      BY <1>2
    <3> QED
      BY <3>1, <3>2, <3>3, <3>4
  <2> QED
    BY <2>1, <2>2, <2>3
<1> HIDE DEF c, n, k
<1>6. ASSUME NEW q \in From(t, p) PROVE q = p \/ q \in From(t, c) \/ q \in From(t, n)
  <2>1. q \in t
    BY DEF From
  <2>2. Same(q) /\ p[k] <= q[k] /\ q[k] \in Nat /\ p[k] \in Nat
    BY <1>2, <1>4, <1>5, <2>1
  <2>3. CASE p[k] = q[k] /\ Len(q) = k
    <3>1. \A i \in 1 .. k : q[i] = p[i]
      BY <1>2, <2>2, <2>3
    <3> QED
      BY <1>1, <1>4, <2>1, <2>3, <3>1, SamePath DEF k
  <2>4. CASE p[k] = q[k] /\ Len(q) # k
    BY <1>2, <1>4, <1>5, <2>1, <2>2, <2>4
  <2>5. CASE p[k] < q[k]
    BY <1>5, <2>1, <2>2, <2>5
  <2> QED
    BY <2>2, <2>3, <2>4, <2>5
<1>7. From(t, c) \subseteq From(t, p) /\ From(t, n) \subseteq From(t, p) /\ p \in From(t, p)
  <2>1. Same(p) /\ p[k] <= p[k]
    BY <1>2 DEF k
  <2>2. \A q \in t : k <= Len(q) => q[k] \in Nat /\ p[k] \in Nat
    BY <1>2, <1>4
  <2>3. From(t, c) \subseteq t /\ From(t, n) \subseteq t
    BY DEF From
  <2> QED
    BY <1>5, <2>1, <2>2, <2>3
<1>8. p \notin From(t, c) /\ p \notin From(t, n)
  BY <1>2, <1>5 DEF k
<1>9. ASSUME NEW q \in From(t, c) PROVE Before(p, q)
  <2>1. q \in t
    BY DEF From
  <2>2. Same(q) /\ p[k] = q[k] /\ k < Len(q)
    BY <1>5, <2>1
  <2>3. \A i \in DOMAIN p : p[i] = q[i]
    BY <1>2, <2>2
  <2> QED
    BY <2>2, <2>3 DEF Before, k
<1>10. ASSUME NEW q \in t, Same(q), p[k] = q[k], NEW r \in From(t, n) PROVE Before(q, r)
  <2>1. r \in t
    BY DEF From
  <2>2. Same(r) /\ p[k] < r[k]
    BY <1>5, <2>1
  <2>3. k \in DOMAIN q \cap DOMAIN r /\ q[k] < r[k] /\ \A j \in 1 .. k - 1 : q[j] = r[j]
    BY <1>2, <1>4, <1>10, <2>1, <2>2
  <2> QED
    BY <2>3 DEF Before
<1>11. Same(p) /\ p[k] = p[k]
  BY <1>2 DEF k
<1>12. \A q \in From(t, c) : q \in t /\ Same(q) /\ p[k] = q[k]
  BY <1>5 DEF From
<1> HIDE DEF Same
<1> QED
  BY <1>1, <1>6, <1>7, <1>8, <1>9, <1>10, <1>11, <1>12 DEF c, n

(* What is left of a walk gets smaller. *)
LEMMA FromShrinks ==
    ASSUME NEW t, IsTree(t)
    PROVE  /\ \A p : Cardinality(From(t, p)) \in Nat /\ Cardinality(From(t, p)) <= Cardinality(t)
           /\ Cardinality(t) \in Nat
           /\ \A p \in t : /\ Cardinality(From(t, FirstChild(p))) < Cardinality(From(t, p))
                           /\ Cardinality(From(t, NextSibling(p))) < Cardinality(From(t, p))
<1>1. IsFiniteSet(t) /\ Cardinality(t) \in Nat
  BY FS_CardinalityType DEF IsTree
<1>2. ASSUME NEW p PROVE /\ IsFiniteSet(From(t, p)) /\ Cardinality(From(t, p)) \in Nat
                         /\ Cardinality(From(t, p)) <= Cardinality(t)
  <2>1. From(t, p) \in SUBSET t
    BY DEF From
  <2> QED
    BY <1>1, <2>1, FS_Subset, FS_CardinalityType
<1>3. ASSUME NEW S, NEW T, IsFiniteSet(S), IsFiniteSet(T), T \subseteq S, T # S
      PROVE  Cardinality(T) < Cardinality(S)
  <2>1. Cardinality(T) <= Cardinality(S) /\ Cardinality(T) # Cardinality(S)
    BY <1>3, FS_Subset
  <2>2. Cardinality(T) \in Nat /\ Cardinality(S) \in Nat
    BY <1>3, FS_CardinalityType
  <2> QED
    BY <2>1, <2>2
<1>4. ASSUME NEW p \in t
      PROVE  /\ Cardinality(From(t, FirstChild(p))) < Cardinality(From(t, p))
             /\ Cardinality(From(t, NextSibling(p))) < Cardinality(From(t, p))
  <2> DEFINE below == From(t, FirstChild(p))
             beside == From(t, NextSibling(p))
             all == From(t, p)
  <2>1. all = {p} \cup below \cup beside /\ p \notin below /\ p \notin beside
    BY FromNode
  <2>2. IsFiniteSet(all) /\ IsFiniteSet(below) /\ IsFiniteSet(beside)
    BY <1>2
  <2> HIDE DEF all, below, beside
  <2>3. below \subseteq all /\ below # all /\ beside \subseteq all /\ beside # all
    BY <2>1
  <2>4. Cardinality(below) < Cardinality(all) /\ Cardinality(beside) < Cardinality(all)
    BY <1>3, <2>2, <2>3
  <2> QED
    BY <2>4 DEF all, below, beside
<1> QED
  BY <1>1, <1>2, <1>4

-----------------------------------------------------------------------------
(* Visits. *)

(* At d a walk has the item there, then what is below and what is beside.  *)
Visit(g, D, inside, item, below, beside) ==
    \A d \in D : g[d] = IF d \in inside THEN <<item[d]>> \o g[below[d]] \o g[beside[d]] ELSE <<>>

(* There is such a function, as the walk gets smaller. *)
LEMMA Visits ==
    ASSUME NEW D, NEW E, NEW inside \in SUBSET D, NEW item \in [inside -> E],
           NEW below \in [inside -> D], NEW beside \in [inside -> D],
           NEW size \in [D -> Nat], NEW bound \in Nat, \A d \in D : size[d] <= bound,
           \A d \in inside : size[below[d]] < size[d] /\ size[beside[d]] < size[d]
    PROVE  \E g \in [D -> Seq(E)] : Visit(g, D, inside, item, below, beside)
<1> DEFINE Rest(g, d) == IF d \in inside THEN <<item[d]>> \o g[below[d]] \o g[beside[d]] ELSE <<>>
           UpTo(k) == \E g \in [D -> Seq(E)] : \A d \in D : size[d] < k => g[d] = Rest(g, d)
           Good == {k \in Nat : UpTo(k)}
<1>1. \A g \in [D -> Seq(E)] : \A d \in D : Rest(g, d) \in Seq(E)
  <2> SUFFICES ASSUME NEW g \in [D -> Seq(E)], NEW d \in D PROVE Rest(g, d) \in Seq(E)
    OBVIOUS
  <2>1. CASE d \in inside
    <3>1. <<item[d]>> \in Seq(E) /\ g[below[d]] \in Seq(E) /\ g[beside[d]] \in Seq(E)
      <4>1. item[d] \in E /\ below[d] \in D /\ beside[d] \in D
        BY <2>1
      <4> QED
        BY <4>1
    <3>2. <<item[d]>> \o g[below[d]] \in Seq(E)
      BY <3>1, ConcatProperties
    <3>3. <<item[d]>> \o g[below[d]] \o g[beside[d]] \in Seq(E)
      BY <3>1, <3>2, ConcatProperties
    <3> QED
      BY <2>1, <3>3
  <2>2. CASE d \notin inside
    BY <2>2
  <2> QED
    BY <2>1, <2>2
<1>2. UpTo(0)
  <2>1. [d \in D |-> <<>>] \in [D -> Seq(E)] /\ \A d \in D : ~ size[d] < 0
    OBVIOUS
  <2> QED
    BY <2>1
<1>3. ASSUME NEW k \in Nat, UpTo(k) PROVE UpTo(k + 1)
  <2>1. PICK g \in [D -> Seq(E)] : \A d \in D : size[d] < k => g[d] = Rest(g, d)
    BY <1>3
  <2> DEFINE h == [d \in D |-> Rest(g, d)]
  <2>2. h \in [D -> Seq(E)] /\ \A d \in D : h[d] = Rest(g, d)
    <3> HIDE DEF Rest
    <3> QED
      BY <1>1
  <2> HIDE DEF h
  <2>3. ASSUME NEW d \in D, size[d] < k + 1 PROVE h[d] = Rest(h, d)
    <3>1. CASE d \in inside
      <4>1. below[d] \in D /\ beside[d] \in D /\ size[below[d]] < k /\ size[beside[d]] < k
        <5>1. below[d] \in D /\ beside[d] \in D
          BY <3>1
        <5>2. size[below[d]] \in Nat /\ size[beside[d]] \in Nat /\ size[d] \in Nat
          BY <5>1
        <5>3. size[below[d]] < size[d] /\ size[beside[d]] < size[d]
          BY <3>1
        <5> QED
          BY <2>3, <5>1, <5>2, <5>3
      <4>2. h[below[d]] = g[below[d]] /\ h[beside[d]] = g[beside[d]]
        <5> HIDE DEF Rest
        <5> QED
          BY <2>1, <2>2, <4>1
      <4>3. h[d] = Rest(g, d)
        BY <2>2
      <4> QED
        BY <4>2, <4>3
    <3>2. CASE d \notin inside
      BY <2>2, <3>2
    <3> QED
      BY <3>1, <3>2
  <2> HIDE DEF Rest
  <2> QED
    BY <2>2, <2>3
<1>4. bound + 1 \in Good
  <2> HIDE DEF UpTo
  <2>1. 0 \in Good /\ \A k \in Nat : k \in Good => k + 1 \in Good
    BY <1>2, <1>3
  <2> HIDE DEF Good
  <2> QED
    BY <2>1, SetInduction
<1>5. PICK g \in [D -> Seq(E)] : \A d \in D : size[d] < bound + 1 => g[d] = Rest(g, d)
  BY <1>4
<1>6. \A d \in D : size[d] < bound + 1
  <2>1. \A d \in D : size[d] \in Nat /\ size[d] <= bound
    OBVIOUS
  <2> QED
    BY <2>1
<1> QED
  BY <1>5, <1>6 DEF Visit

(* The items of s stand for the paths of X, in document order.             *)
InOrder(s, id, X) == /\ \A i, j \in 1 .. Len(s) : i < j <=> Before(id[s[i]], id[s[j]])
                     /\ \A i \in 1 .. Len(s) : id[s[i]] \in X
                     /\ \A x \in X : \E i \in 1 .. Len(s) : id[s[i]] = x

(* What comes before everything in a list can be put before the list.      *)
LEMMA JoinInOrder ==
    ASSUME NEW E, NEW s \in Seq(E), NEW u \in Seq(E), NEW id,
           NEW X \in SUBSET Nodes, NEW Y \in SUBSET Nodes,
           InOrder(s, id, X), InOrder(u, id, Y), \A x \in X, y \in Y : Before(x, y)
    PROVE  s \o u \in Seq(E) /\ InOrder(s \o u, id, X \cup Y)
<1> DEFINE m == Len(s)
           n == Len(u)
           all == s \o u
<1>1. /\ m \in Nat /\ n \in Nat /\ all \in Seq(E) /\ Len(all) = m + n
      /\ \A i \in 1 .. m + n : all[i] = IF i <= m THEN s[i] ELSE u[i - m]
  BY ConcatProperties, LenProperties
<1>2. /\ \A i, j \in 1 .. m : i < j <=> Before(id[s[i]], id[s[j]])
      /\ \A i \in 1 .. m : id[s[i]] \in X
      /\ \A x \in X : \E i \in 1 .. m : id[s[i]] = x
  BY DEF InOrder
<1>3. /\ \A i, j \in 1 .. n : i < j <=> Before(id[u[i]], id[u[j]])
      /\ \A i \in 1 .. n : id[u[i]] \in Y
      /\ \A x \in Y : \E i \in 1 .. n : id[u[i]] = x
  BY DEF InOrder
<1> HIDE DEF m, n, all
<1>4. ASSUME NEW i \in 1 .. m + n
      PROVE  \/ i \in 1 .. m /\ all[i] = s[i] /\ id[all[i]] \in X
             \/ m < i /\ i - m \in 1 .. n /\ all[i] = u[i - m] /\ id[all[i]] \in Y
  <2>1. CASE i <= m
    <3>1. i \in 1 .. m /\ all[i] = s[i]
      BY <1>1, <2>1
    <3> QED
      BY <1>2, <3>1
  <2>2. CASE ~ i <= m
    <3>1. i - m \in 1 .. n /\ all[i] = u[i - m] /\ m < i
      BY <1>1, <2>2
    <3> QED
      BY <1>3, <3>1
  <2> QED
    BY <2>1, <2>2
<1>5. ASSUME NEW i \in 1 .. m + n, NEW j \in 1 .. m + n
      PROVE  i < j <=> Before(id[all[i]], id[all[j]])
  <2>1. CASE i <= m /\ j <= m
    <3>1. i \in 1 .. m /\ j \in 1 .. m /\ all[i] = s[i] /\ all[j] = s[j]
      BY <1>1, <1>4, <2>1
    <3> QED
      BY <1>2, <3>1
  <2>2. CASE m < i /\ m < j
    <3> DEFINE a == i - m
               b == j - m
    <3>1. a \in 1 .. n /\ b \in 1 .. n /\ all[i] = u[a] /\ all[j] = u[b] /\ (i < j <=> a < b)
      BY <1>1, <2>2
    <3> HIDE DEF a, b
    <3> QED
      BY <1>3, <3>1
  <2>3. CASE i <= m /\ m < j
    <3>1. id[all[i]] \in X /\ id[all[j]] \in Y /\ i < j
      BY <1>1, <1>4, <2>3
    <3> QED
      BY <3>1
  <2>4. CASE m < i /\ j <= m
    <3>1. id[all[j]] \in X /\ id[all[i]] \in Y /\ ~ i < j
      BY <1>1, <1>4, <2>4
    <3> QED
      BY <3>1, BeforeOneWay
  <2> QED
    BY <1>1, <2>1, <2>2, <2>3, <2>4
<1>6. ASSUME NEW x \in X \cup Y PROVE \E i \in 1 .. m + n : id[all[i]] = x
  <2>1. CASE x \in X
    <3>1. PICK i \in 1 .. m : id[s[i]] = x
      BY <1>2, <2>1
    <3>2. i \in 1 .. m + n /\ all[i] = s[i]
      BY <1>1
    <3> QED
      BY <3>1, <3>2
  <2>2. CASE x \in Y
    <3>1. PICK i \in 1 .. n : id[u[i]] = x
      BY <1>3, <2>2
    <3>2. i + m \in 1 .. m + n /\ all[i + m] = u[i]
      BY <1>1
    <3> QED
      BY <3>1, <3>2
  <2> QED
    BY <2>1, <2>2
<1>7. \A i \in 1 .. m + n : id[all[i]] \in X \cup Y
  BY <1>4
<1> QED
  BY <1>1, <1>5, <1>6, <1>7 DEF InOrder, all

(* A walk of a tree whose items stand for the nodes.                       *)
IsWalk(t, D, E, at, inside, item, below, beside, id) ==
    /\ IsTree(t)
    /\ at \in [D -> Nodes]
    /\ inside = {d \in D : at[d] \in t}
    /\ item \in [inside -> E]
    /\ below \in [inside -> D]
    /\ beside \in [inside -> D]
    /\ \A d \in inside : /\ id[item[d]] = at[d]
                          /\ at[below[d]] = FirstChild(at[d])
                          /\ at[beside[d]] = NextSibling(at[d])

(* Such a walk there is. *)
LEMMA WalkExists ==
    ASSUME NEW t, NEW D, NEW E, NEW at, NEW inside, NEW item, NEW below, NEW beside, NEW id,
           IsWalk(t, D, E, at, inside, item, below, beside, id)
    PROVE  \E g \in [D -> Seq(E)] : Visit(g, D, inside, item, below, beside)
<1> DEFINE size == [d \in D |-> Cardinality(From(t, at[d]))]
           bound == Cardinality(t)
<1>1. bound \in Nat /\ size \in [D -> Nat] /\ \A d \in D : size[d] <= bound
  BY FromShrinks DEF IsWalk
<1>2. \A d \in inside : size[below[d]] < size[d] /\ size[beside[d]] < size[d]
  <2> SUFFICES ASSUME NEW d \in inside
               PROVE  size[below[d]] < size[d] /\ size[beside[d]] < size[d]
    OBVIOUS
  <2>1. /\ d \in D /\ below[d] \in D /\ beside[d] \in D /\ at[d] \in t /\ IsTree(t)
        /\ at[below[d]] = FirstChild(at[d]) /\ at[beside[d]] = NextSibling(at[d])
    BY DEF IsWalk
  <2> QED
    BY <2>1, FromShrinks
<1> HIDE DEF size, bound
<1> QED
  BY <1>1, <1>2, Visits DEF IsWalk

(* It has every node in document order, and what holds of each item at its *)
(* own place and comes up from below and beside, holds of all.             *)
LEMMA WalkInOrder ==
    ASSUME NEW t, NEW D, NEW E, NEW at, NEW inside, NEW item, NEW below, NEW beside, NEW id,
           IsWalk(t, D, E, at, inside, item, below, beside, id),
           NEW held,
           \A d \in inside :
              /\ <<d, item[d]>> \in held
              /\ \A e \in E :
                    (id[e] \in From(t, at[below[d]]) /\ <<below[d], e>> \in held)
                        => <<d, e>> \in held
              /\ \A e \in E :
                    (id[e] \in From(t, at[beside[d]]) /\ <<beside[d], e>> \in held)
                        => <<d, e>> \in held,
           NEW g, Visit(g, D, inside, item, below, beside)
    PROVE  \A d \in D : /\ g[d] \in Seq(E) /\ InOrder(g[d], id, From(t, at[d]))
                        /\ \A i \in 1 .. Len(g[d]) : <<d, g[d][i]>> \in held
<1> DEFINE size(d) == Cardinality(From(t, at[d]))
           Right(d) == /\ g[d] \in Seq(E) /\ InOrder(g[d], id, From(t, at[d]))
                       /\ \A i \in 1 .. Len(g[d]) : <<d, g[d][i]>> \in held
           Good == {k \in Nat : \A d \in D : size(d) < k => Right(d)}
<1>1. IsTree(t) /\ Cardinality(t) \in Nat
      /\ \A d \in D : size(d) \in Nat /\ size(d) <= Cardinality(t)
  BY FromShrinks DEF IsWalk
<1>2. ASSUME NEW d \in D, d \notin inside PROVE Right(d)
  <2>1. at[d] \in Nodes /\ at[d] \notin t
    BY <1>2 DEF IsWalk
  <2>2. From(t, at[d]) = {}
    BY <1>1, <2>1, NothingFrom
  <2>3. g[d] = <<>>
    BY <1>2 DEF Visit
  <2>4. g[d] \in Seq(E) /\ Len(g[d]) = 0 /\ 1 .. 0 = {}
    BY <2>3
  <2> QED
    BY <2>2, <2>4 DEF InOrder
<1>3. ASSUME NEW d \in inside, Right(below[d]), Right(beside[d]) PROVE Right(d)
  <2> DEFINE p == at[d]
             one == <<item[d]>>
             first == one \o g[below[d]]
             under == From(t, FirstChild(p))
             after == From(t, NextSibling(p))
  <2>1. /\ d \in D /\ p \in t /\ item[d] \in E /\ below[d] \in D /\ beside[d] \in D
        /\ id[item[d]] = p
        /\ From(t, at[below[d]]) = under /\ From(t, at[beside[d]]) = after
    BY DEF IsWalk
  <2>2. /\ p \in Nodes /\ From(t, p) = {p} \cup under \cup after
        /\ \A q \in under : Before(p, q) /\ \A r \in after : Before(q, r)
        /\ \A r \in after : Before(p, r)
    BY <1>1, <2>1, FromNode
  <2>3. under \in SUBSET Nodes /\ after \in SUBSET Nodes /\ {p} \in SUBSET Nodes
    <3>1. t \subseteq Nodes
      BY <1>1, FromNode
    <3> QED
      BY <2>2, <3>1 DEF From
  <2>4. g[d] = first \o g[beside[d]]
    BY <2>1 DEF Visit
  <2>5. /\ g[below[d]] \in Seq(E) /\ InOrder(g[below[d]], id, under)
        /\ g[beside[d]] \in Seq(E) /\ InOrder(g[beside[d]], id, after)
        /\ \A i \in 1 .. Len(g[below[d]]) : <<below[d], g[below[d]][i]>> \in held
        /\ \A i \in 1 .. Len(g[beside[d]]) : <<beside[d], g[beside[d]][i]>> \in held
    BY <1>3, <2>1
  <2> HIDE DEF under, after
  <2>6. one \in Seq(E) /\ Len(one) = 1 /\ one[1] = item[d] /\ InOrder(one, id, {p})
    <3>1. one \in Seq(E) /\ Len(one) = 1 /\ one[1] = item[d]
      BY <2>1
    <3>2. ~ Before(p, p)
      BY <2>2, BeforeOneWay
    <3>3. \A i \in 1 .. 1 : i = 1
      OBVIOUS
    <3> HIDE DEF one, p
    <3> QED
      BY <2>1, <3>1, <3>2, <3>3 DEF InOrder
  <2> HIDE DEF one, p
  <2>7. first \in Seq(E) /\ InOrder(first, id, {p} \cup under)
    BY <2>2, <2>3, <2>5, <2>6, JoinInOrder
  <2>8. g[d] \in Seq(E) /\ InOrder(g[d], id, From(t, p))
    <3> HIDE DEF first
    <3>1. {p} \cup under \in SUBSET Nodes
      BY <2>3
    <3>2. \A x \in {p} \cup under, y \in after : Before(x, y)
      BY <2>2
    <3> DEFINE both == {p} \cup under
               rest == g[beside[d]]
    <3>3. /\ first \in Seq(E) /\ rest \in Seq(E) /\ both \in SUBSET Nodes /\ after \in SUBSET Nodes
          /\ InOrder(first, id, both) /\ InOrder(rest, id, after)
          /\ \A x \in both, y \in after : Before(x, y)
      BY <2>3, <2>5, <2>7, <3>1, <3>2
    <3>4. g[d] = first \o rest /\ From(t, p) = both \cup after
      BY <2>2, <2>4
    <3> HIDE DEF both, rest
    <3>5. first \o rest \in Seq(E) /\ InOrder(first \o rest, id, both \cup after)
      BY <3>3, JoinInOrder
    <3> QED
      BY <3>4, <3>5
  <2>9. /\ <<d, item[d]>> \in held
        /\ \A e \in E : (id[e] \in under /\ <<below[d], e>> \in held) => <<d, e>> \in held
        /\ \A e \in E : (id[e] \in after /\ <<beside[d], e>> \in held) => <<d, e>> \in held
    BY <2>1
  <2>10. ASSUME NEW i \in 1 .. Len(g[d]) PROVE <<d, g[d][i]>> \in held
    <3> DEFINE m == Len(g[below[d]])
               n == Len(g[beside[d]])
    <3>1. /\ m \in Nat /\ n \in Nat
          /\ Len(first) = 1 + m
          /\ \A j \in 1 .. 1 + m : first[j] = IF j <= 1 THEN one[j] ELSE g[below[d]][j - 1]
          /\ Len(g[d]) = 1 + m + n
          /\ \A j \in 1 .. 1 + m + n :
                g[d][j] = IF j <= 1 + m THEN first[j] ELSE g[beside[d]][j - (1 + m)]
      <4>1. m \in Nat /\ n \in Nat
        BY <2>5, LenProperties
      <4>2. /\ Len(first) = 1 + m
            /\ \A j \in 1 .. 1 + m : first[j] = IF j <= 1 THEN one[j] ELSE g[below[d]][j - 1]
        <5> DEFINE more == g[below[d]]
        <5>1. one \in Seq(E) /\ more \in Seq(E) /\ first = one \o more /\ m = Len(more)
          BY <2>5, <2>6
        <5> HIDE DEF first, m, more
        <5>2. /\ Len(first) = Len(one) + Len(more)
              /\ \A j \in 1 .. Len(one) + Len(more) :
                    first[j] = IF j <= Len(one) THEN one[j] ELSE more[j - Len(one)]
          BY <5>1, ConcatProperties
        <5> QED
          BY <2>6, <5>1, <5>2 DEF more
      <4> HIDE DEF first
      <4>3. /\ Len(g[d]) = Len(first) + n
            /\ \A j \in 1 .. Len(first) + n :
                  g[d][j] = IF j <= Len(first) THEN first[j] ELSE g[beside[d]][j - Len(first)]
        BY <2>4, <2>5, <2>7, ConcatProperties
      <4> QED
        BY <4>1, <4>2, <4>3
    <3> HIDE DEF m, n, first
    <3>2. CASE i = 1
      <4>1. g[d][i] = item[d]
        BY <2>6, <3>1, <3>2
      <4> QED
        BY <2>9, <4>1
    <3>3. CASE i > 1 /\ i <= 1 + m
      <4> DEFINE j == i - 1
      <4>1. j \in 1 .. m /\ g[d][i] = g[below[d]][j]
        BY <3>1, <3>3
      <4> HIDE DEF j
      <4>2. g[below[d]][j] \in E /\ id[g[below[d]][j]] \in under
        BY <2>5, <4>1, ElementOfSeq DEF InOrder, m
      <4>3. <<below[d], g[below[d]][j]>> \in held
        BY <2>5, <4>1 DEF m
      <4> QED
        BY <2>9, <4>1, <4>2, <4>3
    <3>4. CASE i > 1 + m
      <4> DEFINE j == i - (1 + m)
      <4>1. j \in 1 .. n /\ g[d][i] = g[beside[d]][j]
        BY <3>1, <3>4
      <4> HIDE DEF j
      <4>2. g[beside[d]][j] \in E /\ id[g[beside[d]][j]] \in after
        BY <2>5, <4>1, ElementOfSeq DEF InOrder, n
      <4>3. <<beside[d], g[beside[d]][j]>> \in held
        BY <2>5, <4>1 DEF n
      <4> QED
        BY <2>9, <4>1, <4>2, <4>3
    <3> QED
      BY <3>1, <3>2, <3>3, <3>4
  <2> QED
    BY <2>8, <2>10 DEF p
<1>4. ASSUME NEW k \in Nat, k \in Good PROVE k + 1 \in Good
  <2> SUFFICES ASSUME NEW d \in D, size(d) < k + 1 PROVE Right(d)
    OBVIOUS
  <2>1. CASE d \notin inside
    <3> HIDE DEF Right
    <3> QED
      BY <1>2, <2>1
  <2>2. CASE d \in inside
    <3>1. /\ at[d] \in t /\ below[d] \in D /\ beside[d] \in D
          /\ at[below[d]] = FirstChild(at[d]) /\ at[beside[d]] = NextSibling(at[d])
      BY <2>2 DEF IsWalk
    <3>2. size(below[d]) < size(d) /\ size(beside[d]) < size(d)
      BY <1>1, <3>1, FromShrinks
    <3>3. size(below[d]) \in Nat /\ size(beside[d]) \in Nat /\ size(d) \in Nat
      BY <1>1, <3>1
    <3> HIDE DEF Right, size
    <3>4. Right(below[d]) /\ Right(beside[d])
      BY <1>4, <3>1, <3>2, <3>3
    <3> QED
      BY <1>3, <2>2, <3>4
  <2> QED
    BY <2>1, <2>2
<1>5. \A k \in Nat : k \in Good
  <2>1. 0 \in Good
    <3> HIDE DEF Right, size
    <3> QED
      BY <1>1
  <2> HIDE DEF Good
  <2> QED
    BY <1>4, <2>1, SetInduction
<1>6. ASSUME NEW d \in D PROVE Right(d)
  <2> DEFINE k == Cardinality(t) + 1
  <2>1. k \in Nat /\ size(d) < k
    BY <1>1
  <2> HIDE DEF k, Right, size
  <2> QED
    BY <1>5, <2>1
<1> QED
  BY <1>6

-----------------------------------------------------------------------------
(* The walks of the normalizer. *)

LEMMA PlaceFacts ==
    ASSUME NEW t, IsTree(t)
    PROVE  /\ Places(t) \subseteq Nodes /\ t \subseteq Places(t) /\ Root \in Places(t)
           /\ \A p \in t : FirstChild(p) \in Places(t) /\ NextSibling(p) \in Places(t)
           /\ From(t, Root) = t
           /\ \A p \in t : Len(p) = 1 <=> p = Root
<1>1. t \subseteq Nodes
  BY FromNode
<1>2. Root \in Nodes /\ Len(Root) = 1 /\ Root[1] = 1
  BY DEF Root, Nodes, Paths
<1>3. \A p \in t : FirstChild(p) \in Nodes /\ NextSibling(p) \in Nodes
  BY <1>1, ChildFacts
<1>4. \A p \in t : Len(p) \in Nat \ {0} /\ p[1] \in Nat \ {0}
  <2> SUFFICES ASSUME NEW p \in t PROVE Len(p) \in Nat \ {0} /\ p[1] \in Nat \ {0}
    OBVIOUS
  <2>1. p \in Nodes
    BY <1>1
  <2>2. Len(p) \in Nat \ {0} /\ \A i \in 1 .. Len(p) : p[i] \in Nat \ {0}
    BY <2>1, PathFacts
  <2>3. 1 \in 1 .. Len(p)
    BY <2>2
  <2> QED
    BY <2>2, <2>3
<1>5. From(t, Root) = t
  <2> SUFFICES ASSUME NEW p \in t PROVE p \in From(t, Root)
    BY DEF From
  <2>1. Len(Root) <= Len(p) /\ Root[Len(Root)] <= p[Len(Root)] /\ 1 .. Len(Root) - 1 = {}
    BY <1>2, <1>4
  <2> QED
    BY <2>1 DEF From
<1>6. \A p \in t : Len(p) = 1 <=> p = Root
  <2> SUFFICES ASSUME NEW p \in t PROVE Len(p) = 1 <=> p = Root
    OBVIOUS
  <2>1. p = Root \/ Len(p) > 1
    BY DEF IsTree
  <2>2. Len(p) \in Nat
    BY <1>4
  <2>3. p = Root => Len(p) = 1
    BY <1>2
  <2>4. Len(p) = 1 => ~ (Len(p) > 1)
    BY <2>2
  <2> QED
    BY <2>1, <2>3, <2>4, Zenon
<1> QED
  BY <1>1, <1>2, <1>3, <1>5, <1>6 DEF Places

(* The walk over the stages has each of them once, in document order.      *)
LEMMA WalkLists ==
    ASSUME NEW t, IsTree(t)
    PROVE  Walk(t) \in Seq(t) /\ ListsInOrder(Walk(t), t)
<1> DEFINE D == Places(t)
           at == [p \in D |-> p]
           item == [p \in t |-> p]
           below == [p \in t |-> FirstChild(p)]
           beside == [p \in t |-> NextSibling(p)]
           id == [p \in t |-> p]
           Step(g) == [p \in D |-> IF p \in t THEN <<p>> \o g[FirstChild(p)] \o g[NextSibling(p)]
                                   ELSE <<>>]
           walk == CHOOSE g : g = Step(g)
           held == D \X t
<1>1. IsWalk(t, D, t, at, t, item, below, beside, id)
  <2>1. at \in [D -> Nodes] /\ t = {d \in D : at[d] \in t} /\ item \in [t -> t]
    BY PlaceFacts
  <2>2. below \in [t -> D] /\ beside \in [t -> D]
    BY PlaceFacts
  <2>3. ASSUME NEW d \in t PROVE /\ id[item[d]] = at[d] /\ at[below[d]] = FirstChild(at[d])
                                /\ at[beside[d]] = NextSibling(at[d])
    BY PlaceFacts
  <2> HIDE DEF D, at, item, below, beside, id
  <2> QED
    BY <2>1, <2>2, <2>3 DEF IsWalk
<1>2. \A g : (g \in [D -> Seq(t)] /\ Visit(g, D, t, item, below, beside)) => g = Step(g)
  <2> SUFFICES ASSUME NEW g \in [D -> Seq(t)], Visit(g, D, t, item, below, beside)
               PROVE  g = Step(g)
    OBVIOUS
  <2>1. \A p \in D : g[p] = Step(g)[p]
    BY DEF Visit
  <2> DEFINE h == Step(g)
  <2>2. h = [p \in D |-> h[p]] /\ g = [p \in D |-> g[p]]
    OBVIOUS
  <2>3. \A p \in D : g[p] = h[p]
    BY <2>1
  <2> HIDE DEF h, D
  <2>4. g = h
    BY <2>2, <2>3
  <2> QED
    BY <2>4 DEF h
<1>3. walk = Step(walk)
  <2>1. \E g : g = Step(g)
    <3> HIDE DEF Step, D, at, item, below, beside, id
    <3> QED
      BY <1>1, <1>2, WalkExists
  <2> HIDE DEF Step
  <2> QED
    BY <2>1
<1>4. Walk(t) = walk[Root]
  BY DEF Walk
<1> HIDE DEF walk
<1>5. Visit(walk, D, t, item, below, beside)
  <2>1. \A p \in D : walk[p] = IF p \in t THEN <<p>> \o walk[FirstChild(p)] \o walk[NextSibling(p)]
                              ELSE <<>>
    BY <1>3
  <2> QED
    BY <2>1 DEF Visit
<1> HIDE DEF Step
<1>6. Root \in D /\ From(t, at[Root]) = t
  BY PlaceFacts
<1>7. \A d \in t :
         /\ <<d, item[d]>> \in held
         /\ \A e \in t : (id[e] \in From(t, at[below[d]]) /\ <<below[d], e>> \in held) => <<d, e>> \in held
         /\ \A e \in t : (id[e] \in From(t, at[beside[d]]) /\ <<beside[d], e>> \in held) => <<d, e>> \in held
  BY PlaceFacts
<1> HIDE DEF D, at, item, below, beside, id, held
<1>8. walk[Root] \in Seq(t) /\ InOrder(walk[Root], id, t)
  <2>1. \A d \in D : walk[d] \in Seq(t) /\ InOrder(walk[d], id, From(t, at[d]))
    BY <1>1, <1>5, <1>7, WalkInOrder
  <2> QED
    BY <1>6, <2>1
<1>9. ASSUME NEW s \in Seq(t), InOrder(s, id, t) PROVE ListsInOrder(s, t)
  <2>1. DOMAIN s = 1 .. Len(s) /\ \A i \in 1 .. Len(s) : s[i] \in t /\ id[s[i]] = s[i]
    BY LenProperties, ElementOfSeq DEF id
  <2>2. \A i, j \in 1 .. Len(s) : i < j <=> Before(s[i], s[j])
    BY <1>9, <2>1 DEF InOrder
  <2>3. \A p \in t : \E i \in 1 .. Len(s) : s[i] = p
    BY <1>9, <2>1 DEF InOrder
  <2> QED
    BY <2>1, <2>2, <2>3 DEF ListsInOrder
<1> QED
  BY <1>4, <1>8, <1>9

PlanNodes(t, stage) == [stage : {stage}, id : t, parent : Parents(t)]

(* A node's parent is the node above it. *)
UnderParent(n) == n.parent = IF n.id = Root THEN None ELSE Some(Front(n.id))

(* flattenPlan has each node of a plan once, in document order and under   *)
(* its parent.                                                             *)
LEMMA FlatLists ==
    ASSUME NEW t, IsTree(t), NEW stage
    PROVE  /\ FlattenPlan(t, stage) \in Seq(PlanNodes(t, stage))
           /\ InOrder(FlattenPlan(t, stage), [n \in PlanNodes(t, stage) |-> n.id], t)
           /\ \A i \in 1 .. Len(FlattenPlan(t, stage)) : UnderParent(FlattenPlan(t, stage)[i])
<1> DEFINE D == Places(t) \X Parents(t)
           E == PlanNodes(t, stage)
           in == {d \in D : d[1] \in t}
           at == [d \in D |-> d[1]]
           item == [d \in in |-> PlanNode(stage, d[1], d[2])]
           below == [d \in in |-> <<FirstChild(d[1]), Some(d[1])>>]
           beside == [d \in in |-> <<NextSibling(d[1]), d[2]>>]
           id == [n \in E |-> n.id]
           Step(g) == [d \in D |-> IF d[1] \in t
                                   THEN <<PlanNode(stage, d[1], d[2])>>
                                            \o g[<<FirstChild(d[1]), Some(d[1])>>]
                                            \o g[<<NextSibling(d[1]), d[2]>>]
                                   ELSE <<>>]
           flat == CHOOSE g : g = Step(g)
           root == <<Root, None>>
           held == {x \in D \X E : x[2].parent = IF Len(x[2].id) = Len(x[1][1]) THEN x[1][2]
                                                ELSE Some(Front(x[2].id))}
<1>1. ASSUME NEW d \in in
      PROVE  /\ d \in D /\ d[1] \in t /\ d[1] \in Nodes /\ d[2] \in Parents(t) /\ item[d] \in E
             /\ item[d].id = d[1] /\ item[d].parent = d[2]
             /\ below[d] \in D /\ below[d][1] = FirstChild(d[1]) /\ below[d][2] = Some(d[1])
             /\ beside[d] \in D /\ beside[d][1] = NextSibling(d[1]) /\ beside[d][2] = d[2]
  <2>1. d \in D /\ d[1] \in t /\ d[1] \in Nodes /\ d[2] \in Parents(t)
    BY PlaceFacts
  <2>2. Some(d[1]) \in Parents(t)
    BY <2>1 DEF Parents
  <2>3. item[d] = PlanNode(stage, d[1], d[2])
    OBVIOUS
  <2>4. item[d] \in E /\ item[d].id = d[1] /\ item[d].parent = d[2]
    <3> HIDE DEF item
    <3> QED
      BY <2>1, <2>3 DEF PlanNode, PlanNodes
  <2>5. FirstChild(d[1]) \in Places(t) /\ NextSibling(d[1]) \in Places(t)
    BY <2>1, PlaceFacts
  <2> QED
    BY <2>1, <2>2, <2>4, <2>5
<1>2. IsWalk(t, D, E, at, in, item, below, beside, id)
  <2>1. at \in [D -> Nodes] /\ in = {d \in D : at[d] \in t}
    BY PlaceFacts
  <2>2. \A d \in in : item[d] \in E /\ below[d] \in D /\ beside[d] \in D
    BY <1>1
  <2>3. item = [d \in in |-> item[d]] /\ below = [d \in in |-> below[d]] /\ beside = [d \in in |-> beside[d]]
    OBVIOUS
  <2>4. item \in [in -> E] /\ below \in [in -> D] /\ beside \in [in -> D]
    <3> HIDE DEF in, E, D, item, below, beside
    <3> QED
      BY <2>2, <2>3
  <2>5. ASSUME NEW d \in in PROVE /\ id[item[d]] = at[d] /\ at[below[d]] = FirstChild(at[d])
                                 /\ at[beside[d]] = NextSibling(at[d])
    <3> HIDE DEF item, below, beside, E, D, in
    <3> QED
      BY <1>1
  <2> HIDE DEF D, E, in, at, item, below, beside, id
  <2> QED
    BY <2>1, <2>4, <2>5 DEF IsWalk
<1>3. \A g : (g \in [D -> Seq(E)] /\ Visit(g, D, in, item, below, beside)) => g = Step(g)
  <2> SUFFICES ASSUME NEW g \in [D -> Seq(E)], Visit(g, D, in, item, below, beside)
               PROVE  g = Step(g)
    OBVIOUS
  <2>1. \A d \in D : g[d] = Step(g)[d]
    BY DEF Visit
  <2> DEFINE h == Step(g)
  <2>2. h = [d \in D |-> h[d]] /\ g = [d \in D |-> g[d]]
    OBVIOUS
  <2>3. \A d \in D : g[d] = h[d]
    BY <2>1
  <2> HIDE DEF h, D
  <2>4. g = h
    BY <2>2, <2>3
  <2> QED
    BY <2>4 DEF h
<1>4. flat = Step(flat)
  <2>1. \E g : g = Step(g)
    <3> HIDE DEF Step, D, E, in, at, item, below, beside, id
    <3> QED
      BY <1>2, <1>3, WalkExists
  <2> HIDE DEF Step
  <2> QED
    BY <2>1
<1>5. FlattenPlan(t, stage) = flat[root]
  BY DEF FlattenPlan
<1> HIDE DEF flat
<1>6. Visit(flat, D, in, item, below, beside)
  <2>1. \A d \in D : flat[d] = IF d[1] \in t
                              THEN <<PlanNode(stage, d[1], d[2])>>
                                       \o flat[<<FirstChild(d[1]), Some(d[1])>>]
                                       \o flat[<<NextSibling(d[1]), d[2]>>]
                              ELSE <<>>
    BY <1>4
  <2> QED
    BY <2>1 DEF Visit
<1> HIDE DEF Step
<1>7. root \in D /\ From(t, at[root]) = t /\ root[1] = Root /\ root[2] = None
  BY PlaceFacts DEF Parents
<1>8. ASSUME NEW d \in in
      PROVE  /\ <<d, item[d]>> \in held
             /\ \A e \in E : (id[e] \in From(t, at[below[d]]) /\ <<below[d], e>> \in held)
                               => <<d, e>> \in held
             /\ \A e \in E : (id[e] \in From(t, at[beside[d]]) /\ <<beside[d], e>> \in held)
                               => <<d, e>> \in held
  <2> DEFINE p == d[1]
             Held(at1, up, e) == e.parent = IF Len(e.id) = Len(at1) THEN up ELSE Some(Front(e.id))
  <2>1. \A b \in D, e \in E : <<b, e>> \in held <=> Held(b[1], b[2], e)
    OBVIOUS
  <2>2. \A e \in E : id[e] = e.id
    OBVIOUS
  <2>3. at[below[d]] = FirstChild(p) /\ at[beside[d]] = NextSibling(p)
    <3> HIDE DEF below, beside, D, in
    <3> QED
      BY <1>1
  <2>4. /\ d \in D /\ below[d] \in D /\ beside[d] \in D /\ item[d] \in E /\ p \in Nodes /\ p \in t
        /\ item[d].id = p /\ item[d].parent = d[2]
        /\ below[d][1] = FirstChild(p) /\ below[d][2] = Some(p)
        /\ beside[d][1] = NextSibling(p) /\ beside[d][2] = d[2]
    BY <1>1
  <2> HIDE DEF D, E, in, at, item, below, beside, id, held, p
  <2>5. <<d, item[d]>> \in held
    BY <2>1, <2>4 DEF p
  <2>6. ASSUME NEW e \in E, id[e] \in From(t, at[below[d]]), <<below[d], e>> \in held
        PROVE  <<d, e>> \in held
    <3>1. Held(FirstChild(p), Some(p), e) /\ e.id \in From(t, FirstChild(p))
      BY <2>1, <2>2, <2>3, <2>4, <2>6
    <3>2. Held(p, d[2], e)
      <4> DEFINE q == e.id
                 c == FirstChild(p)
                 k == Len(p)
      <4>1. q \in t /\ Len(c) <= Len(q) /\ \A i \in 1 .. Len(c) - 1 : q[i] = c[i]
        BY <3>1 DEF From
      <4>2. k \in Nat \ {0} /\ Len(c) = k + 1 /\ \A i \in 1 .. k : c[i] = p[i]
        BY <2>4, ChildFacts, PathFacts
      <4>3. q \in Nodes /\ Len(q) \in Nat
        <5>1. q \in Nodes
          BY <4>1, FromNode
        <5> QED
          BY <5>1, PathFacts
      <4>4. e.parent = IF Len(q) = Len(c) THEN Some(p) ELSE Some(Front(q))
        BY <3>1
      <4> HIDE DEF q, c, k
      <4>5. Len(q) # k
        BY <4>1, <4>2, <4>3
      <4>6. Len(q) = Len(c) => Front(q) = p
        <5> SUFFICES ASSUME Len(q) = k + 1 PROVE Front(q) = p
          BY <4>2
        <5>1. Front(q) \in Paths /\ Len(Front(q)) = k /\ \A i \in 1 .. k : Front(q)[i] = q[i]
          <6>1. Len(q) - 1 = k
            BY <4>2
          <6> QED
            BY <4>3, <6>1, FrontFacts
        <5>2. \A i \in 1 .. k : q[i] = p[i]
          BY <4>1, <4>2
        <5>3. Front(q) \in Nodes
          <6>1. Len(<<>>) = 0
            OBVIOUS
          <6> QED
            BY <4>2, <5>1, <6>1 DEF Nodes
        <5> QED
          BY <2>4, <5>1, <5>2, <5>3, SamePath DEF k
      <4>7. e.parent = Some(Front(q))
        BY <4>4, <4>6
      <4> QED
        BY <4>5, <4>7 DEF q, k
    <3> QED
      BY <2>1, <2>4, <3>2 DEF p
  <2>7. ASSUME NEW e \in E, id[e] \in From(t, at[beside[d]]), <<beside[d], e>> \in held
        PROVE  <<d, e>> \in held
    <3>1. Held(NextSibling(p), d[2], e)
      BY <2>1, <2>4, <2>7
    <3>2. Len(NextSibling(p)) = Len(p)
      BY <2>4, ChildFacts
    <3>3. Held(p, d[2], e)
      BY <3>1, <3>2
    <3> QED
      BY <2>1, <2>4, <3>3 DEF p
  <2> QED
    BY <2>5, <2>6, <2>7
<1>9. \A x \in held : x[1] = root => UnderParent(x[2])
  <2> SUFFICES ASSUME NEW x \in held, x[1] = root PROVE UnderParent(x[2])
    OBVIOUS
  <2> DEFINE n == x[2]
  <2>1. n \in E /\ n.parent = IF Len(n.id) = Len(Root) THEN None ELSE Some(Front(n.id))
    BY <1>7
  <2>2. n.id \in t
    BY <2>1 DEF PlanNodes
  <2>3. Len(n.id) = Len(Root) <=> n.id = Root
    <3>1. Len(Root) = 1
      BY DEF Root
    <3> QED
      BY <2>2, <3>1, PlaceFacts
  <2> HIDE DEF n
  <2>4. UnderParent(n)
    BY <2>1, <2>3 DEF UnderParent
  <2> QED
    BY <2>4 DEF n
<1> HIDE DEF D, in, at, item, below, beside, id, held, root, E
<1>10. \A d \in D : /\ flat[d] \in Seq(E) /\ InOrder(flat[d], id, From(t, at[d]))
                    /\ \A i \in 1 .. Len(flat[d]) : <<d, flat[d][i]>> \in held
  BY <1>2, <1>6, <1>8, WalkInOrder
<1>11. /\ flat[root] \in Seq(E) /\ InOrder(flat[root], id, t)
       /\ \A i \in 1 .. Len(flat[root]) : UnderParent(flat[root][i])
  BY <1>7, <1>9, <1>10
<1> QED
  BY <1>5, <1>11 DEF E, id

-----------------------------------------------------------------------------
(* The plans of all stages in one list. *)

(* The elements of s that belong to a stage stand for the paths of X, in   *)
(* document order.                                                         *)
Tells(s, stage, X) ==
    /\ \A i, j \in 1 .. Len(s) : s[i].stage = stage /\ s[j].stage = stage =>
                                    (i < j <=> Before(s[i].id, s[j].id))
    /\ \A i \in 1 .. Len(s) : s[i].stage = stage => s[i].id \in X
    /\ \A x \in X : \E i \in 1 .. Len(s) : s[i].stage = stage /\ s[i].id = x

(* What another stage adds, before or after, changes nothing of that.      *)
LEMMA TellsStill ==
    ASSUME NEW E, NEW s \in Seq(E), NEW u \in Seq(E), NEW stage, NEW X
    PROVE  /\ (Tells(s, stage, X) /\ \A i \in 1 .. Len(u) : u[i].stage # stage)
                 => Tells(s \o u, stage, X)
           /\ (Tells(u, stage, X) /\ \A i \in 1 .. Len(s) : s[i].stage # stage)
                 => Tells(s \o u, stage, X)
<1> DEFINE m == Len(s)
           n == Len(u)
           all == s \o u
<1>1. /\ m \in Nat /\ n \in Nat /\ Len(all) = m + n
      /\ \A i \in 1 .. m + n : all[i] = IF i <= m THEN s[i] ELSE u[i - m]
  BY ConcatProperties, LenProperties
<1> HIDE DEF m, n, all
<1>2. \A i \in 1 .. m : i \in 1 .. m + n /\ all[i] = s[i]
  BY <1>1
<1>3. \A i \in 1 .. n : i + m \in 1 .. m + n /\ all[i + m] = u[i]
  BY <1>1
<1>4. ASSUME Tells(s, stage, X), \A i \in 1 .. n : u[i].stage # stage
      PROVE  Tells(all, stage, X)
  <2>1. /\ \A i, j \in 1 .. m : s[i].stage = stage /\ s[j].stage = stage =>
                                  (i < j <=> Before(s[i].id, s[j].id))
        /\ \A i \in 1 .. m : s[i].stage = stage => s[i].id \in X
        /\ \A x \in X : \E i \in 1 .. m : s[i].stage = stage /\ s[i].id = x
    BY <1>4 DEF Tells, m
  <2>2. ASSUME NEW i \in 1 .. m + n, all[i].stage = stage PROVE i \in 1 .. m /\ all[i] = s[i]
    <3>1. CASE i <= m
      BY <1>1, <3>1
    <3>2. CASE ~ i <= m
      <4>1. i - m \in 1 .. n /\ all[i] = u[i - m]
        BY <1>1, <3>2
      <4> QED
        BY <1>4, <2>2, <4>1
    <3> QED
      BY <3>1, <3>2
  <2>3. \A i, j \in 1 .. m + n : all[i].stage = stage /\ all[j].stage = stage =>
                                   (i < j <=> Before(all[i].id, all[j].id))
    <3> SUFFICES ASSUME NEW i \in 1 .. m + n, NEW j \in 1 .. m + n,
                        all[i].stage = stage, all[j].stage = stage
                 PROVE  i < j <=> Before(all[i].id, all[j].id)
      OBVIOUS
    <3>1. i \in 1 .. m /\ j \in 1 .. m /\ all[i] = s[i] /\ all[j] = s[j]
      BY <2>2
    <3> QED
      BY <2>1, <3>1
  <2>4. \A i \in 1 .. m + n : all[i].stage = stage => all[i].id \in X
    BY <2>1, <2>2
  <2>5. \A x \in X : \E i \in 1 .. m + n : all[i].stage = stage /\ all[i].id = x
    BY <1>2, <2>1
  <2> QED
    BY <1>1, <2>3, <2>4, <2>5 DEF Tells
<1>5. ASSUME Tells(u, stage, X), \A i \in 1 .. m : s[i].stage # stage
      PROVE  Tells(all, stage, X)
  <2>1. /\ \A i, j \in 1 .. n : u[i].stage = stage /\ u[j].stage = stage =>
                                  (i < j <=> Before(u[i].id, u[j].id))
        /\ \A i \in 1 .. n : u[i].stage = stage => u[i].id \in X
        /\ \A x \in X : \E i \in 1 .. n : u[i].stage = stage /\ u[i].id = x
    BY <1>5 DEF Tells, n
  <2>2. ASSUME NEW i \in 1 .. m + n, all[i].stage = stage
        PROVE  i - m \in 1 .. n /\ all[i] = u[i - m]
    <3>1. CASE i <= m
      <4>1. i \in 1 .. m /\ all[i] = s[i]
        BY <1>1, <3>1
      <4> QED
        BY <1>5, <2>2, <4>1
    <3>2. CASE ~ i <= m
      BY <1>1, <3>2
    <3> QED
      BY <3>1, <3>2
  <2>3. \A i, j \in 1 .. m + n : all[i].stage = stage /\ all[j].stage = stage =>
                                   (i < j <=> Before(all[i].id, all[j].id))
    <3> SUFFICES ASSUME NEW i \in 1 .. m + n, NEW j \in 1 .. m + n,
                        all[i].stage = stage, all[j].stage = stage
                 PROVE  i < j <=> Before(all[i].id, all[j].id)
      OBVIOUS
    <3> DEFINE a == i - m
               b == j - m
    <3>1. a \in 1 .. n /\ b \in 1 .. n /\ all[i] = u[a] /\ all[j] = u[b]
      BY <2>2
    <3>2. i < j <=> a < b
      BY <1>1
    <3> HIDE DEF a, b
    <3> QED
      BY <2>1, <3>1, <3>2
  <2>4. \A i \in 1 .. m + n : all[i].stage = stage => all[i].id \in X
    BY <2>1, <2>2
  <2>5. \A x \in X : \E i \in 1 .. m + n : all[i].stage = stage /\ all[i].id = x
    BY <1>3, <2>1
  <2> QED
    BY <1>1, <2>3, <2>4, <2>5 DEF Tells
<1> QED
  BY <1>4, <1>5 DEF all, m, n

(* The blocks of a list, one for each stage, put together: every stage     *)
(* still has its nodes in order, and nothing else is there.                *)
LEMMA BlocksTell ==
    ASSUME NEW n \in Nat, NEW E, NEW block \in [1 .. n -> Seq(E)], NEW stage, NEW X,
           \A i, j \in 1 .. n : stage[i] = stage[j] => i = j,
           \A i \in 1 .. n : /\ \A k \in 1 .. Len(block[i]) : block[i][k].stage = stage[i]
                             /\ Tells(block[i], stage[i], X[i])
    PROVE  Concat(block) \in Seq(E) /\ \A i \in 1 .. n : Tells(Concat(block), stage[i], X[i])
<1> DEFINE step == [a \in Seq(E) \X (1 .. n) |-> a[1] \o block[a[2]]]
           Step(g) == [i \in 1 .. Len(block) |-> IF i = 1 THEN block[i] ELSE g[i - 1] \o block[i]]
           flatten == CHOOSE g : g = Step(g)
           first == stage
           Right(k) == /\ flatten[k] \in Seq(E)
                       /\ \A i \in 1 .. Len(flatten[k]) : \E j \in 1 .. k : flatten[k][i].stage = stage[j]
                       /\ \A j \in 1 .. k : Tells(flatten[k], stage[j], X[j])
           Good == {k \in Nat : k \in 1 .. n => Right(k)}
<1>1. block = [i \in 1 .. n |-> block[i]] /\ Len(block) = n /\ \A i \in 1 .. n : block[i] \in Seq(E)
  <2>1. block = [i \in 1 .. n |-> block[i]]
    OBVIOUS
  <2> QED
    BY <2>1, Listed
<1>2. CASE n = 0
  <2>1. block = <<>>
    BY <1>1, <1>2
  <2> QED
    BY <1>2, <2>1 DEF Concat
<1>3. CASE n # 0
  <2>1. Concat(block) = flatten[n]
    <3>1. block # <<>> /\ Len(block) # 0
      <4>1. Len(<<>>) = 0
        OBVIOUS
      <4> QED
        BY <1>1, <1>3, <4>1
    <3>2. Concat(block) = flatten[Len(block)]
      <4> HIDE <1>1
      <4> QED
        BY <3>1 DEF Concat, FlattenSeq
    <3> HIDE DEF flatten
    <3> QED
      BY <1>1, <3>2
  <2>2. \E g : g = Step(g)
    <3>1. \A x \in Seq(E), i \in 1 .. n : step[<<x, i>>] = x \o block[i] /\ step[<<x, i>>] \in Seq(E)
      BY <1>1, ConcatProperties
    <3>2. <<>> \in Seq(E)
      OBVIOUS
    <3> HIDE DEF step
    <3>3. PICK g \in [0 .. n -> Seq(E)] : Steps(g, n, <<>>, step)
      BY <3>1, <3>2, Recursion
    <3> DEFINE h == [i \in 1 .. n |-> g[i]]
               r == Step(h)
    <3>4. ASSUME NEW i \in 1 .. n PROVE g[i] = g[i - 1] \o block[i]
      <4>1. g[i] = step[<<g[i - 1], i>>]
        BY <3>3 DEF Steps
      <4>2. g[i - 1] \in Seq(E)
        <5>1. i - 1 \in 0 .. n
          OBVIOUS
        <5> QED
          BY <5>1
      <4> QED
        BY <3>1, <4>1, <4>2
    <3>5. \A i \in 1 .. n : h[i] = r[i]
      <4> SUFFICES ASSUME NEW i \in 1 .. n PROVE h[i] = r[i]
        OBVIOUS
      <4>1. CASE i = 1
        <5>1. g[1] = <<>> \o block[1]
          <6>1. 1 \in 1 .. n /\ 1 - 1 = 0
            BY <4>1
          <6>2. g[1] = g[1 - 1] \o block[1]
            BY <3>4, <6>1
          <6> QED
            BY <3>3, <6>1, <6>2 DEF Steps
        <5>2. g[1] = block[1]
          BY <1>1, <4>1, <5>1, ConcatEmptySeq
        <5> QED
          BY <1>1, <4>1, <5>2
      <4>2. CASE i # 1
        <5> DEFINE j == i - 1
        <5>1. j \in 1 .. n
          BY <4>2
        <5>2. g[i] = g[j] \o block[i]
          BY <3>4
        <5>3. r[i] = h[j] \o block[i]
          BY <1>1, <4>2
        <5> QED
          BY <5>1, <5>2, <5>3
      <4> QED
        BY <4>1, <4>2
    <3>6. h = [i \in 1 .. n |-> h[i]] /\ r = [i \in 1 .. n |-> r[i]]
      BY <1>1 DEF Step
    <3> HIDE DEF h, r
    <3>7. h = r
      BY <3>5, <3>6
    <3> QED
      BY <3>7 DEF r
  <2>3. flatten = Step(flatten)
    <3> HIDE DEF Step
    <3> QED
      BY <2>2
  <2> HIDE DEF flatten
  <2>4. \A i \in 1 .. n : flatten[i] = IF i = 1 THEN block[i] ELSE flatten[i - 1] \o block[i]
    BY <1>1, <2>3
  <2>5. 0 \in Good
    OBVIOUS
  <2>6. ASSUME NEW k \in Nat, k \in Good PROVE k + 1 \in Good
    <3> SUFFICES ASSUME k + 1 \in 1 .. n PROVE Right(k + 1)
      OBVIOUS
    <3> DEFINE new == block[k + 1]
    <3>1. new \in Seq(E) /\ (\A i \in 1 .. Len(new) : new[i].stage = stage[k + 1])
          /\ Tells(new, stage[k + 1], X[k + 1])
      OBVIOUS
    <3>2. CASE k = 0
      <4>1. flatten[k + 1] = new
        BY <2>4, <3>2
      <4>2. 1 .. k + 1 = {k + 1}
        BY <3>2
      <4> QED
        BY <3>1, <4>1, <4>2
    <3>3. CASE k # 0
      <4> DEFINE old == flatten[k]
                 all == flatten[k + 1]
      <4>1. Right(k)
        BY <2>6, <3>3
      <4>2. all = old \o new /\ old \in Seq(E)
        <5>1. k + 1 # 1 /\ (k + 1) - 1 = k
          BY <3>3
        <5>2. all = flatten[(k + 1) - 1] \o new
          BY <2>4, <5>1
        <5> QED
          BY <4>1, <5>1, <5>2
      <4>3. /\ Len(old) \in Nat /\ Len(new) \in Nat /\ all \in Seq(E)
            /\ Len(all) = Len(old) + Len(new)
            /\ \A i \in 1 .. Len(old) + Len(new) : all[i] = IF i <= Len(old) THEN old[i] ELSE new[i - Len(old)]
        <5> HIDE DEF old, new, all
        <5> QED
          BY <3>1, <4>2, ConcatProperties, LenProperties
      <4>4. /\ \A i \in 1 .. Len(old) : \E j \in 1 .. k : old[i].stage = stage[j]
            /\ \A j \in 1 .. k : Tells(old, stage[j], X[j])
        BY <4>1
      <4>5. \A j \in 1 .. k : j \in 1 .. n /\ stage[j] # stage[k + 1]
        OBVIOUS
      <4> HIDE DEF old, new, all
      <4>6. ASSUME NEW i \in 1 .. Len(all) PROVE \E j \in 1 .. k + 1 : all[i].stage = stage[j]
        <5>1. CASE i <= Len(old)
          <6>1. i \in 1 .. Len(old) /\ all[i] = old[i]
            BY <4>3, <5>1
          <6>2. PICK j \in 1 .. k : old[i].stage = stage[j]
            BY <4>4, <6>1
          <6> QED
            BY <6>1, <6>2
        <5>2. CASE ~ i <= Len(old)
          <6>1. i - Len(old) \in 1 .. Len(new) /\ all[i] = new[i - Len(old)]
            BY <4>3, <5>2
          <6>2. all[i].stage = stage[k + 1] /\ k + 1 \in 1 .. k + 1
            BY <3>1, <6>1
          <6> QED
            BY <6>2
        <5> QED
          BY <5>1, <5>2
      <4>7. ASSUME NEW j \in 1 .. k PROVE Tells(all, stage[j], X[j])
        <5>1. \A i \in 1 .. Len(new) : new[i].stage # stage[j]
          BY <3>1, <4>5
        <5> QED
          BY <3>1, <4>2, <4>4, <5>1, TellsStill
      <4>8. Tells(all, stage[k + 1], X[k + 1])
        <5>1. \A i \in 1 .. Len(old) : old[i].stage # stage[k + 1]
          BY <4>4, <4>5
        <5> QED
          BY <3>1, <4>2, <5>1, TellsStill
      <4>9. \A j \in 1 .. k + 1 : j \in 1 .. k \/ j = k + 1
        OBVIOUS
      <4>10. \A j \in 1 .. k + 1 : Tells(all, stage[j], X[j])
        BY <4>7, <4>8, <4>9
      <4> QED
        BY <4>3, <4>6, <4>10 DEF all
    <3> QED
      BY <3>2, <3>3
  <2>7. \A k \in Nat : k \in Good
    <3> HIDE DEF Good
    <3> QED
      BY <2>5, <2>6, SetInduction
  <2> QED
    BY <1>3, <2>1, <2>7
<1> QED
  BY <1>2, <1>3

(* Elements of another kind make another kind of list. *)
LEMMA OtherElements == ASSUME NEW A, NEW B, NEW s \in Seq(A), \A i \in 1 .. Len(s) : s[i] \in B
               PROVE  s \in Seq(B)
<1>1. s \in [1 .. Len(s) -> A] /\ Len(s) \in Nat
  BY LenProperties
<1>2. s \in [1 .. Len(s) -> B]
  BY <1>1
<1> QED
  BY <1>1, <1>2, SeqDef

TreeOf(plan) == IF plan = None THEN {} ELSE plan[1]

PlacedNodes == {n \in [stage : Paths, id : Paths, parent : Parents(Paths)] : UnderParent(n)}

(* The nodes of all plans: those of a stage are its plan, in order, and    *)
(* each has its parent.                                                    *)
LEMMA PlansTell ==
    ASSUME NEW d, IsDocument(d)
    PROVE  /\ PlanFromLive(d) \in Seq(PlacedNodes)
           /\ \A p \in d.stages : Tells(PlanFromLive(d), p, TreeOf(d.plan[p]))
<1> DEFINE t == d.stages
           order == Walk(t)
           n == Len(order)
           E == PlacedNodes
           block == [i \in DOMAIN order |-> PlanOfStage(d, order[i])]
           stage == [i \in 1 .. n |-> order[i]]
           X == [i \in 1 .. n |-> TreeOf(d.plan[order[i]])]
<1>1. IsTree(t) /\ \A p \in t : d.plan[p] # None => IsTree(d.plan[p][1])
  BY DEF IsDocument
<1>2. order \in Seq(t) /\ ListsInOrder(order, t)
  BY <1>1, WalkLists
<1> HIDE DEF order
<1>3. n \in Nat /\ DOMAIN order = 1 .. n /\ \A i \in 1 .. n : order[i] \in t
  BY <1>2, LenProperties, ElementOfSeq
<1>4. t \subseteq Nodes
  BY <1>1, PlaceFacts
<1>5. /\ \A i, j \in 1 .. n : i < j <=> Before(order[i], order[j])
      /\ \A p \in t : \E i \in 1 .. n : order[i] = p
  BY <1>2, <1>3 DEF ListsInOrder
<1> HIDE DEF t, n
<1>6. \A i, j \in 1 .. n : stage[i] = stage[j] => i = j
  <2> SUFFICES ASSUME NEW i \in 1 .. n, NEW j \in 1 .. n, order[i] = order[j] PROVE i = j
    OBVIOUS
  <2>1. order[i] \in Nodes
    BY <1>3, <1>4
  <2>2. ~ Before(order[i], order[i])
    BY <2>1, BeforeOneWay
  <2>3. ~ i < j /\ ~ j < i
    BY <1>5, <2>2
  <2> QED
    BY <1>3, <2>3
<1>7. ASSUME NEW i \in 1 .. n
      PROVE  /\ block[i] \in Seq(E)
             /\ \A k \in 1 .. Len(block[i]) : block[i][k].stage = stage[i]
             /\ Tells(block[i], stage[i], X[i])
  <2> DEFINE p == order[i]
             plan == d.plan[p]
             flat == FlattenPlan(plan[1], p)
  <2>1. p \in t /\ p \in Paths /\ stage[i] = p /\ X[i] = TreeOf(plan)
    BY <1>3, <1>4 DEF Nodes
  <2>2. block[i] = IF plan = None THEN <<>> ELSE flat
    BY <1>3 DEF PlanOfStage
  <2>3. CASE plan = None
    <3>1. block[i] = <<>> /\ X[i] = {} /\ Len(<<>>) = 0 /\ <<>> \in Seq(E)
      BY <2>1, <2>2, <2>3 DEF TreeOf
    <3> HIDE DEF block, stage, X, E
    <3>2. \A k \in 1 .. Len(block[i]) : FALSE
      BY <3>1
    <3> QED
      BY <3>1, <3>2 DEF Tells
  <2>4. CASE plan # None
    <3> DEFINE tree == plan[1]
               F == PlanNodes(tree, p)
               id == [m \in F |-> m.id]
    <3>1. block[i] = flat /\ X[i] = tree /\ IsTree(tree) /\ tree \subseteq Paths
      BY <1>1, <2>1, <2>2, <2>4 DEF TreeOf, IsTree
    <3>2. /\ flat \in Seq(F) /\ InOrder(flat, id, tree)
          /\ \A k \in 1 .. Len(flat) : UnderParent(flat[k])
      BY <3>1, FlatLists
    <3>3. \A m \in F : UnderParent(m) => m \in E
      <4>1. Parents(tree) \subseteq Parents(Paths)
        BY <3>1 DEF Parents
      <4> QED
        BY <2>1, <3>1, <4>1 DEF PlanNodes, PlacedNodes
    <3>4. \A m \in F : m.stage = p /\ id[m] = m.id
      BY DEF PlanNodes
    <3> HIDE DEF block, stage, X, E, flat, F, id, tree
    <3>5. \A k \in 1 .. Len(flat) : flat[k] \in F
      BY <3>2, ElementOfSeq
    <3>6. flat \in Seq(E)
      BY <3>2, <3>3, <3>5, OtherElements
    <3>7. Tells(flat, p, tree)
      BY <3>2, <3>4, <3>5 DEF Tells, InOrder
    <3> QED
      BY <2>1, <3>1, <3>4, <3>5, <3>6, <3>7
  <2> QED
    BY <2>3, <2>4
<1>8. block \in [1 .. n -> Seq(E)]
  <2>1. block = [i \in 1 .. n |-> block[i]]
    BY <1>3
  <2> HIDE DEF block, E
  <2> QED
    BY <1>7, <2>1
<1>9. PlanFromLive(d) = Concat(block)
  BY DEF PlanFromLive, order, t
<1>10. Concat(block) \in Seq(E) /\ \A i \in 1 .. n : Tells(Concat(block), stage[i], X[i])
  <2> HIDE DEF block, stage, X, E
  <2> QED
    BY <1>3, <1>6, <1>7, <1>8, BlocksTell
<1>11. ASSUME NEW p \in t PROVE Tells(Concat(block), p, TreeOf(d.plan[p]))
  <2>1. PICK i \in 1 .. n : order[i] = p
    BY <1>5
  <2>2. stage[i] = p /\ X[i] = TreeOf(d.plan[p])
    BY <2>1
  <2> HIDE DEF block, stage, X, E
  <2> QED
    BY <1>10, <2>2
<1> HIDE DEF block
<1> QED
  BY <1>9, <1>10, <1>11 DEF t

=============================================================================
