----------------------------- MODULE RecencyList -----------------------------
(***************************************************************************)
(* Lists of distinct items, the most recent first: what lru::LruCache      *)
(* keeps of its keys.  A list is a sequence; the operators are written as  *)
(* functions on its slots.                                                 *)
(***************************************************************************)
EXTENDS Naturals, Sequences

In(s, x) == \E k \in 1 .. Len(s) : s[k] = x

Distinct(s) == \A i, j \in 1 .. Len(s) : s[i] = s[j] => i = j

\* The slot that becomes free when x moves to the front.
Slot(s, x) == IF In(s, x) THEN CHOOSE k \in 1 .. Len(s) : s[k] = x ELSE Len(s) + 1

\* x is the most recent item of s from now on.
Touch(s, x) ==
  [k \in 1 .. (IF In(s, x) THEN Len(s) ELSE Len(s) + 1) |->
     IF k = 1 THEN x
     ELSE IF k <= Slot(s, x) THEN s[k - 1] ELSE s[k]]

\* The n most recent items of s.
Firsts(s, n) == [k \in 1 .. (IF Len(s) <= n THEN Len(s) ELSE n) |-> s[k]]

=============================================================================
