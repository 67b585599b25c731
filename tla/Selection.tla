------------------------------- MODULE Selection -------------------------------
(***************************************************************************)
(* The loops that go through a slice and append what they keep, and what   *)
(* it is to keep exactly some positions, in order.                         *)
(***************************************************************************)
EXTENDS Integers, Sequences

(* for i := range s { if i is kept { out = append(out, s[i]) } } *)
Selected(s, kept) ==
    LET out[n \in 0 .. Len(s)] ==
            IF n = 0 THEN <<>> ELSE IF n \in kept THEN Append(out[n - 1], s[n]) ELSE out[n - 1]
    IN  out[Len(s)]

(* The reference: n positions that are those kept, from low to high.       *)
Orders(n, kept) == {at \in [1 .. n -> kept] : /\ \A k \in kept : \E i \in 1 .. n : at[i] = k
                                              /\ \A i, j \in 1 .. n : i < j => at[i] < at[j]}

=============================================================================
