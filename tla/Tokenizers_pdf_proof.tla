------------------------- MODULE Tokenizers_pdf_proof -------------------------
(***************************************************************************)
(* What the operators over texts return, for every text, and what is found *)
(* in a PDF document, for every document and every limit: all that it      *)
(* shows (ShownBy of module Pdf) is among the words (ShownJoined).         *)
(*                                                                         *)
(* The operators are recursive functions over the prefixes of a sequence   *)
(* (Fold, FlattenSeq).  That such a function exists is lemma Recursion;    *)
(* what it computes follows by induction over the prefixes (UpTo), that    *)
(* is, from the least number that is no member.                            *)
(***************************************************************************)
EXTENDS Tokenizers, TLAPS, SequenceTheorems, WellFoundedInduction

-----------------------------------------------------------------------------
(* Recursion and induction over the numbers up to l *)

\* A set of numbers has a least one.
LEMMA Least ==
  ASSUME NEW T \in SUBSET Nat, T # {}
  PROVE  \E x \in T : \A y \in T : x <= y
<1>1. \E x \in T : \A y \in T : ~ (<<y, x>> \in OpToRel(<, Nat))
  BY NatLessThanWellFounded, WFMin
<1>2. PICK x \in T : \A y \in T : ~(y < x)
  BY <1>1 DEF OpToRel
<1> QED BY <1>2

\* What holds 0, and with every number the next one, holds all numbers up to l.
LEMMA UpTo ==
  ASSUME NEW l \in Nat, NEW P, 0 \in P, \A n \in 1 .. l : n - 1 \in P => n \in P
  PROVE  0 .. l \subseteq P
<1> DEFINE T == {n \in 0 .. l : n \notin P}
<1> SUFFICES ASSUME T # {} PROVE FALSE
  OBVIOUS
<1>0. T \in SUBSET Nat
  OBVIOUS
<1> HIDE DEF T
<1>1. PICK x \in T : \A y \in T : x <= y
  BY <1>0, Least
<1>2. x \in 0 .. l /\ x \notin P
  BY <1>1 DEF T
<1>3. x \in 1 .. l /\ x - 1 \in 0 .. l
  BY <1>2
<1>4. x - 1 \in P
  <2>1. x - 1 \notin T
    BY <1>1, <1>3
  <2> QED BY <2>1, <1>3 DEF T
<1> QED BY <1>2, <1>3, <1>4

\* f takes its values in S, starts with base and makes the steps of a function.
Solves(f, l, S, base, step) ==
  f \in [0 .. l -> S] /\ f[0] = base /\ \A n \in 1 .. l : f[n] = step[n][f[n - 1]]

\* What is defined by recursion over 0 .. l exists.
LEMMA Recursion ==
  ASSUME NEW l \in Nat, NEW S, NEW base \in S, NEW step \in [1 .. l -> [S -> S]]
  PROVE  \E f : Solves(f, l, S, base, step)
<1> DEFINE P == {k \in 0 .. l : \E f : Solves(f, k, S, base, step)}
<1>1. 0 \in P
  <2> DEFINE f == [n \in 0 .. 0 |-> base]
  <2>1. Solves(f, 0, S, base, step)
    BY DEF Solves
  <2> QED BY <2>1
<1>2. ASSUME NEW k \in 1 .. l, k - 1 \in P
      PROVE  k \in P
  <2>1. PICK f : Solves(f, k - 1, S, base, step)
    BY <1>2
  <2> DEFINE x == step[k][f[k - 1]]
             g == [n \in 0 .. k |-> IF n = k THEN x ELSE f[n]]
  <2>2. f \in [0 .. k - 1 -> S] /\ step[k] \in [S -> S]
    BY <2>1 DEF Solves
  <2>3. x \in S
    BY <2>2
  <2> HIDE DEF x
  <2>4. g \in [0 .. k -> S]
    BY <2>2, <2>3
  <2>5. ASSUME NEW n \in 1 .. k
        PROVE  g[n] = step[n][g[n - 1]]
    <3>1. CASE n = k
      <4>1. g[k] = x /\ g[k - 1] = f[k - 1]
        OBVIOUS
      <4> QED BY <4>1, <3>1 DEF x
    <3>2. CASE n # k
      <4>1. n \in 1 .. k - 1 /\ n - 1 \in 0 .. k - 1
        BY <3>2
      <4>2. g[n] = f[n] /\ g[n - 1] = f[n - 1]
        BY <4>1, <3>2
      <4>3. f[n] = step[n][f[n - 1]]
        BY <2>1, <4>1 DEF Solves
      <4> QED BY <4>2, <4>3
    <3> QED BY <3>1, <3>2
  <2>6. g[0] = base
    BY <2>1 DEF Solves
  <2> HIDE DEF g
  <2>7. Solves(g, k, S, base, step)
    BY <2>4, <2>5, <2>6 DEF Solves
  <2> QED BY <2>7
<1>3. 0 .. l \subseteq P
  <2> HIDE DEF P
  <2> QED BY <1>1, <1>2, UpTo
<1>4. l \in P
  BY <1>3
<1> QED BY <1>4

-----------------------------------------------------------------------------
(* Joining sequences *)

\* A sequence is the concatenation of two if it has their members in order.
LEMMA IsConcat ==
  ASSUME NEW S, NEW u \in Seq(S), NEW v \in Seq(S), NEW w \in Seq(S), Len(u) = Len(v) + Len(w),
         \A i \in 1 .. Len(v) : u[i] = v[i], \A i \in 1 .. Len(w) : u[Len(v) + i] = w[i]
  PROVE  u = v \o w
<1>1. v \o w \in Seq(S) /\ Len(v \o w) = Len(u) /\ Len(v) \in Nat /\ Len(w) \in Nat
  OBVIOUS
<1>2. ASSUME NEW i \in 1 .. Len(u) PROVE u[i] = (v \o w)[i]
  <2>1. CASE i <= Len(v)
    BY <1>1, <2>1
  <2>2. CASE i > Len(v)
    <3> DEFINE k == i - Len(v)
    <3>1. k \in 1 .. Len(w) /\ Len(v) + k = i
      BY <1>1, <2>2
    <3>2. (v \o w)[Len(v) + k] = w[k]
      <4> HIDE DEF k
      <4> QED BY <1>1, <3>1
    <3> HIDE DEF k
    <3> QED BY <3>1, <3>2
  <2> QED BY <1>1, <2>1, <2>2
<1> QED BY <1>1, <1>2, SeqEqual

\* f[n] is what the first n sequences of s make.
Joins(f, s, S) ==
  /\ f \in [0 .. Len(s) -> Seq(S)]
  /\ f[0] = <<>> /\ \A n \in 1 .. Len(s) : f[n] = f[n - 1] \o s[n]

Regroups(a, b, c) == (a \o b) \o c = a \o (b \o c)

\* Concatenation is associative.
LEMMA ConcatRegroups ==
  ASSUME NEW S, NEW a \in Seq(S), NEW b \in Seq(S), NEW c \in Seq(S)
  PROVE  Regroups(a, b, c)
<1>1. (a \o b) \o c = a \o (b \o c)
  BY ConcatAssociative
<1> QED BY <1>1 DEF Regroups

\* FlattenSeq is a recursive function over the prefixes of a sequence of sequences.
LEMMA FlattenJoins ==
  ASSUME NEW S, NEW s \in Seq(Seq(S))
  PROVE  \E f : Joins(f, s, S) /\ FlattenSeq(s) = f[Len(s)]
<1> DEFINE l == Len(s)
           step == [n \in 1 .. l |-> [t \in Seq(S) |-> t \o s[n]]]
<1>0. l \in Nat /\ (\A n \in 1 .. l : s[n] \in Seq(S)) /\ <<>> \in Seq(S)
  OBVIOUS
<1>1. PICK f : Solves(f, l, Seq(S), <<>>, step)
  <2>1. step \in [1 .. l -> [Seq(S) -> Seq(S)]]
    BY <1>0
  <2> HIDE DEF step, l
  <2> QED BY <2>1, <1>0, Recursion
<1>2. Joins(f, s, S)
  <2>1. f \in [0 .. l -> Seq(S)] /\ f[0] = <<>>
    BY <1>1 DEF Solves
  <2>2. ASSUME NEW n \in 1 .. l
        PROVE  f[n] = f[n - 1] \o s[n]
    <3>1. f[n - 1] \in Seq(S) /\ f[n] = step[n][f[n - 1]]
      <4> HIDE DEF step, l
      <4>1. n - 1 \in 0 .. l
        BY <1>0
      <4> QED BY <4>1, <1>1 DEF Solves
    <3> QED BY <3>1
  <2> QED BY <2>1, <2>2 DEF Joins
<1>3. CASE l = 0
  BY <1>2, <1>3 DEF Joins, FlattenSeq
<1>4. CASE l # 0
  <2> DEFINE Eq(h) == h = [i \in 1 .. l |-> IF i = 1 THEN s[i] ELSE h[i - 1] \o s[i]]
             g == [i \in 1 .. l |-> f[i]]
             c == CHOOSE h : Eq(h)
  <2>1. FlattenSeq(s) = c[l]
    BY <1>4 DEF FlattenSeq
  <2> HIDE DEF l
  <2>2. ASSUME NEW i \in 1 .. l
        PROVE  g[i] = IF i = 1 THEN s[i] ELSE g[i - 1] \o s[i]
    <3>1. f[i] = f[i - 1] \o s[i] /\ f[0] = <<>> /\ s[i] \in Seq(S)
      BY <1>0, <1>2 DEF Joins, l
    <3>2. <<>> \o s[i] = s[i]
      BY <3>1
    <3>3. CASE i = 1
      <4>1. i - 1 = 0 /\ g[i] = f[i]
        BY <1>0, <3>3
      <4>2. f[i] = <<>> \o s[i]
        BY <4>1, <3>1
      <4> QED BY <3>2, <3>3, <4>1, <4>2
    <3>4. CASE i # 1
      <4>1. i - 1 \in 1 .. l /\ g[i] = f[i]
        BY <1>0, <3>4
      <4>2. g[i - 1] = f[i - 1]
        BY <4>1
      <4> QED BY <3>1, <3>4, <4>1, <4>2
    <3> QED BY <3>3, <3>4
  <2>3. Eq(g)
    <3>1. g = [i \in 1 .. l |-> g[i]]
      OBVIOUS
    <3> HIDE DEF g
    <3> QED BY <2>2, <3>1
  <2>4. Eq(c)
    BY <2>3
  <2> HIDE DEF c
  <2>5. \A i \in 1 .. l : c[i] = IF i = 1 THEN s[i] ELSE c[i - 1] \o s[i]
    BY <2>4
  <2> DEFINE P == {n \in 0 .. l : n = 0 \/ c[n] = f[n]}
  <2>6. ASSUME NEW n \in 1 .. l, n - 1 \in P
        PROVE  n \in P
    <3>1. g[n] = f[n] /\ (n # 1 => g[n - 1] = f[n - 1])
      BY <1>0
    <3> QED BY <2>2, <2>5, <2>6, <3>1
  <2>7. 0 .. l \subseteq P
    <3>1. 0 \in P
      BY <1>0
    <3> HIDE DEF P
    <3> QED BY <1>0, <2>6, <3>1, UpTo
  <2>8. c[l] = f[l]
    BY <2>7, <1>4, <1>0
  <2> QED BY <2>1, <2>8, <1>2 DEF l
<1> QED BY <1>3, <1>4

\* What is flattened is a sequence of the members, and empty if there is nothing.
LEMMA FlattenType ==
  ASSUME NEW S, NEW s \in Seq(Seq(S))
  PROVE  FlattenSeq(s) \in Seq(S) /\ (s = <<>> => FlattenSeq(s) = <<>>)
<1>1. PICK f : Joins(f, s, S) /\ FlattenSeq(s) = f[Len(s)]
  BY FlattenJoins
<1>2. Len(s) \in 0 .. Len(s)
  OBVIOUS
<1> QED BY <1>1, <1>2 DEF Joins

\* What is joined in two parts.
LEMMA FlattenConcat ==
  ASSUME NEW S, NEW s \in Seq(Seq(S)), NEW t \in Seq(Seq(S))
  PROVE  FlattenSeq(s \o t) = FlattenSeq(s) \o FlattenSeq(t)
<1> DEFINE u == s \o t
           k == Len(s)
           l == Len(t)
<1>0. /\ k \in Nat /\ l \in Nat /\ u \in Seq(Seq(S)) /\ Len(u) = k + l
      /\ \A n \in 1 .. k : u[n] = s[n] /\ s[n] \in Seq(S)
      /\ \A n \in 1 .. l : u[k + n] = t[n] /\ t[n] \in Seq(S)
  OBVIOUS
<1>1. PICK f : Joins(f, s, S) /\ FlattenSeq(s) = f[k]
  BY FlattenJoins
<1>2. PICK g : Joins(g, t, S) /\ FlattenSeq(t) = g[l]
  BY FlattenJoins
<1>3. PICK h : Joins(h, u, S) /\ FlattenSeq(u) = h[k + l]
  <2> HIDE DEF u
  <2>1. PICK h : Joins(h, u, S) /\ FlattenSeq(u) = h[Len(u)]
    BY <1>0, FlattenJoins
  <2> QED BY <1>0, <2>1
<1> HIDE DEF u, k, l
<1>4. /\ f \in [0 .. k -> Seq(S)] /\ f[0] = <<>> /\ \A n \in 1 .. k : f[n] = f[n - 1] \o s[n]
      /\ g \in [0 .. l -> Seq(S)] /\ g[0] = <<>> /\ \A n \in 1 .. l : g[n] = g[n - 1] \o t[n]
      /\ h \in [0 .. k + l -> Seq(S)] /\ h[0] = <<>>
      /\ \A n \in 1 .. k + l : h[n] = h[n - 1] \o u[n]
  BY <1>0, <1>1, <1>2, <1>3 DEF Joins, k, l
<1>5. h[k] = f[k]
  <2> DEFINE P == {n \in 0 .. k : h[n] = f[n]}
  <2>1. 0 \in P
    BY <1>0, <1>4
  <2>2. ASSUME NEW n \in 1 .. k, n - 1 \in P
        PROVE  n \in P
    <3>1. n \in 1 .. k + l /\ h[n - 1] = f[n - 1] /\ u[n] = s[n]
      BY <1>0, <2>2
    <3>2. h[n] = h[n - 1] \o u[n] /\ f[n] = f[n - 1] \o s[n]
      BY <1>4, <3>1
    <3>3. h[n] = f[n] /\ n \in 0 .. k
      BY <1>0, <3>1, <3>2
    <3> QED BY <3>3
  <2>3. 0 .. k \subseteq P
    <3> HIDE DEF P
    <3> QED BY <1>0, <2>1, <2>2, UpTo
  <2> QED BY <1>0, <2>3
<1>6. h[k + l] = f[k] \o g[l]
  <2> DEFINE P == {n \in 0 .. l : h[k + n] = f[k] \o g[n]}
  <2>0. f[k] \in Seq(S) /\ k + 0 = k /\ 0 \in 0 .. l
    BY <1>0, <1>4
  <2>1. 0 \in P
    <3>1. f[k] \o <<>> = f[k]
      BY <2>0, ConcatEmptySeq, Zenon
    <3>2. h[k + 0] = f[k] \o g[0]
      BY <1>4, <1>5, <2>0, <3>1, Zenon
    <3> QED BY <2>0, <3>2, Zenon
  <2>2. ASSUME NEW n \in 1 .. l, n - 1 \in P
        PROVE  n \in P
    <3>1. k + n \in 1 .. k + l /\ (k + n) - 1 = k + (n - 1) /\ n - 1 \in 0 .. l
      BY <1>0
    <3>2. h[k + n] = h[(k + n) - 1] \o u[k + n]
      BY <1>4, <3>1
    <3>3. h[k + n] = (f[k] \o g[n - 1]) \o t[n]
      BY <1>0, <2>2, <3>1, <3>2
    <3>4. g[n - 1] \in Seq(S) /\ t[n] \in Seq(S) /\ g[n] = g[n - 1] \o t[n]
      BY <1>0, <1>4, <3>1
    <3>5. (f[k] \o g[n - 1]) \o t[n] = f[k] \o (g[n - 1] \o t[n])
      <4> DEFINE a == f[k]
                 b == g[n - 1]
                 c == t[n]
      <4>1. a \in Seq(S) /\ b \in Seq(S) /\ c \in Seq(S)
        BY <2>0, <3>4
      <4> HIDE DEF a, b, c
      <4>2. (a \o b) \o c = a \o (b \o c)
        <5>1. Regroups(a, b, c)
          BY <4>1, ConcatRegroups
        <5> QED BY <5>1, Zenon DEF Regroups
      <4> QED BY <4>2 DEF a, b, c
    <3>6. h[k + n] = f[k] \o g[n]
      BY <3>3, <3>4, <3>5, Zenon
    <3>7. n \in 0 .. l
      BY <1>0
    <3> QED BY <3>6, <3>7
  <2>3. 0 .. l \subseteq P
    <3> HIDE DEF P
    <3> QED BY <1>0, <2>1, <2>2, UpTo
  <2>4. l \in 0 .. l
    BY <1>0
  <2>5. l \in P
    BY <2>3, <2>4
  <2> QED BY <2>5
<1> QED BY <1>1, <1>2, <1>3, <1>5, <1>6 DEF u

\* The numbers of a bounded set have a greatest one.
LEMMA Greatest ==
  ASSUME NEW l \in Nat, NEW T \in SUBSET (0 .. l), T # {}
  PROVE  \E x \in T : \A y \in T : y <= x
<1> DEFINE U == {l - y : y \in T}
<1>1. U \in SUBSET Nat /\ U # {}
  <2>1. ASSUME NEW y \in T PROVE l - y \in Nat
    OBVIOUS
  <2> QED BY <2>1
<1> HIDE DEF U
<1>2. PICK u \in U : \A v \in U : u <= v
  BY <1>1, Least
<1>3. PICK x \in T : u = l - x
  BY <1>2 DEF U
<1>4. ASSUME NEW y \in T PROVE y <= x
  <2>1. l - y \in U
    BY DEF U
  <2>2. l - x <= l - y /\ x \in Nat /\ y \in Nat
    BY <1>2, <1>3, <2>1
  <2> QED BY <2>2
<1> QED BY <1>4

\* Append adds a member and keeps the others.
LEMMA MembersAppend ==
  ASSUME NEW S, NEW s \in Seq(S), NEW x \in S
  PROVE  ToSet(s) \subseteq ToSet(Append(s, x)) /\ x \in ToSet(Append(s, x))
<1>1. /\ Len(s) \in Nat /\ DOMAIN s = 1 .. Len(s)
      /\ DOMAIN Append(s, x) = 1 .. Len(s) + 1
      /\ \A i \in 1 .. Len(s) : Append(s, x)[i] = s[i]
      /\ Append(s, x)[Len(s) + 1] = x
  OBVIOUS
<1>2. Len(s) + 1 \in DOMAIN Append(s, x)
  BY <1>1
<1>3. x \in ToSet(Append(s, x))
  BY <1>1, <1>2 DEF ToSet
<1>4. ASSUME NEW i \in 1 .. Len(s)
      PROVE  i \in DOMAIN Append(s, x) /\ Append(s, x)[i] = s[i]
  BY <1>1
<1>5. ToSet(s) \subseteq ToSet(Append(s, x))
  BY <1>1, <1>4 DEF ToSet
<1> QED BY <1>3, <1>5

\* One sequence, flattened, is that sequence.
LEMMA FlattenOne ==
  ASSUME NEW S, NEW s \in Seq(S)
  PROVE  FlattenSeq(<<s>>) = s
<1> DEFINE t == <<s>>
<1>1. t \in Seq(Seq(S)) /\ Len(t) = 1 /\ t[1] = s
  OBVIOUS
<1> HIDE DEF t
<1>2. PICK f : Joins(f, t, S) /\ FlattenSeq(t) = f[Len(t)]
  BY <1>1, FlattenJoins
<1>3. f[0] = <<>> /\ f[1] = f[0] \o t[1]
  <2>1. 1 \in 1 .. Len(t) /\ 1 - 1 = 0
    BY <1>1
  <2> QED BY <1>2, <2>1 DEF Joins
<1>4. f[1] = <<>> \o s
  BY <1>1, <1>3
<1>5. <<>> \o s = s
  OBVIOUS
<1> QED BY <1>1, <1>2, <1>4, <1>5 DEF t

\* A sequence that is appended is flattened behind the others.
LEMMA FlattenAppend ==
  ASSUME NEW S, NEW s \in Seq(Seq(S)), NEW x \in Seq(S)
  PROVE  FlattenSeq(Append(s, x)) = FlattenSeq(s) \o x
<1>1. Append(s, x) = s \o <<x>> /\ <<x>> \in Seq(Seq(S))
  OBVIOUS
<1>2. FlattenSeq(s \o <<x>>) = FlattenSeq(s) \o FlattenSeq(<<x>>)
  BY <1>1, FlattenConcat
<1> QED BY <1>1, <1>2, FlattenOne

\* A function over 1 .. l is a sequence.
LEMMA MapType ==
  ASSUME NEW B, NEW l \in Nat, NEW t \in [1 .. l -> B]
  PROVE  t \in Seq(B) /\ Len(t) = l
OBVIOUS

\* Sequences each of which is no longer, or no more than one longer (d).
LEMMA FlattenLonger ==
  ASSUME NEW S, NEW T, NEW s \in Seq(Seq(S)), NEW t \in Seq(Seq(T)), Len(t) = Len(s),
         NEW d \in {0, 1}, \A n \in 1 .. Len(s) : Len(t[n]) <= Len(s[n]) + d
  PROVE  Len(FlattenSeq(t)) <= Len(FlattenSeq(s)) + (IF d = 1 THEN Len(s) ELSE 0)
<1> DEFINE l == Len(s)
<1>0. l \in Nat /\ \A n \in 1 .. l : s[n] \in Seq(S) /\ t[n] \in Seq(T)
  OBVIOUS
<1>1. PICK f : Joins(f, s, S) /\ FlattenSeq(s) = f[l]
  BY FlattenJoins
<1>2. PICK g : Joins(g, t, T) /\ FlattenSeq(t) = g[l]
  BY FlattenJoins
<1> HIDE DEF l
<1> DEFINE e(n) == IF d = 1 THEN n ELSE 0
           P == {n \in 0 .. l : Len(g[n]) <= Len(f[n]) + e(n)}
<1>3. 0 \in P
  BY <1>0, <1>1, <1>2 DEF Joins
<1>e. \A n \in 1 .. l : e(n) = e(n - 1) + d /\ e(n) \in Nat /\ e(n - 1) \in Nat
  BY <1>0
<1> HIDE DEF e
<1>4. ASSUME NEW n \in 1 .. l, n - 1 \in P
      PROVE  n \in P
  <2>0. n - 1 \in 0 .. l /\ n \in 0 .. l
    BY <1>0
  <2>1. n - 1 \in 0 .. l /\ n \in 0 .. l /\ Len(g[n - 1]) <= Len(f[n - 1]) + e(n - 1)
    BY <1>4, <2>0
  <2>2. /\ f[n - 1] \in Seq(S) /\ f[n] = f[n - 1] \o s[n] /\ s[n] \in Seq(S)
        /\ g[n - 1] \in Seq(T) /\ g[n] = g[n - 1] \o t[n] /\ t[n] \in Seq(T)
    BY <1>0, <1>1, <1>2, <2>1 DEF Joins, l
  <2>3. Len(t[n]) <= Len(s[n]) + d
    BY DEF l
  <2>4. Len(f[n]) = Len(f[n - 1]) + Len(s[n]) /\ Len(f[n - 1]) \in Nat /\ Len(s[n]) \in Nat
    BY <2>2
  <2>5. Len(g[n]) = Len(g[n - 1]) + Len(t[n]) /\ Len(g[n - 1]) \in Nat /\ Len(t[n]) \in Nat
    BY <2>2
  <2>6. e(n) = e(n - 1) + d /\ e(n) \in Nat /\ e(n - 1) \in Nat
    BY <1>e
  <2>7. Len(g[n]) <= Len(f[n]) + e(n)
    <3> DEFINE a == Len(f[n - 1])
               b == Len(s[n])
               c == Len(g[n - 1])
               k == Len(t[n])
               e0 == e(n - 1)
    <3>1. /\ a \in Nat /\ b \in Nat /\ c \in Nat /\ k \in Nat /\ e0 \in Nat
          /\ c <= a + e0 /\ k <= b + d /\ e(n) = e0 + d
      BY <2>1, <2>3, <2>4, <2>5, <2>6
    <3> HIDE DEF a, b, c, k, e0
    <3>3. c + k <= a + b + e(n)
      BY <3>1
    <3> QED BY <2>4, <2>5, <3>3 DEF a, b, c, k
  <2> QED BY <2>1, <2>7
<1>5. 0 .. l \subseteq P
  <2> HIDE DEF P
  <2> QED BY <1>0, <1>3, <1>4, UpTo
<1>6. l \in 0 .. l
  BY <1>0
<1>7. l \in P
  BY <1>5, <1>6
<1> QED BY <1>1, <1>2, <1>7 DEF l, e

\* Sequences none of which is empty are at most as many as their members.
LEMMA FlattenCounts ==
  ASSUME NEW S, NEW s \in Seq(Seq(S) \ {<<>>})
  PROVE  Len(s) <= Len(FlattenSeq(s))
<1> DEFINE l == Len(s)
<1>0. l \in Nat /\ s \in Seq(Seq(S)) /\ \A n \in 1 .. l : s[n] \in Seq(S) /\ s[n] # <<>>
  OBVIOUS
<1>1. PICK f : Joins(f, s, S) /\ FlattenSeq(s) = f[l]
  BY <1>0, FlattenJoins
<1> HIDE DEF l
<1> DEFINE P == {n \in 0 .. l : n <= Len(f[n])}
<1>3. 0 \in P
  BY <1>0, <1>1 DEF Joins
<1>4. ASSUME NEW n \in 1 .. l, n - 1 \in P
      PROVE  n \in P
  <2>1. n - 1 \in 0 .. l /\ n \in 0 .. l /\ n - 1 <= Len(f[n - 1])
    BY <1>0, <1>4
  <2>2. f[n - 1] \in Seq(S) /\ f[n] = f[n - 1] \o s[n] /\ s[n] \in Seq(S) /\ s[n] # <<>>
    BY <1>0, <1>1, <2>1 DEF Joins, l
  <2>3. /\ Len(f[n]) = Len(f[n - 1]) + Len(s[n]) /\ Len(f[n - 1]) \in Nat
        /\ Len(s[n]) \in Nat /\ Len(s[n]) # 0
    BY <2>2
  <2>4. n <= Len(f[n])
    <3> DEFINE a == Len(f[n - 1])
               b == Len(s[n])
    <3>1. a \in Nat /\ b \in Nat /\ b # 0 /\ n - 1 <= a /\ Len(f[n]) = a + b /\ n \in Nat
      BY <1>0, <2>1, <2>3
    <3> HIDE DEF a, b
    <3>2. n <= a + b
      BY <3>1
    <3> QED BY <3>1, <3>2
  <2> QED BY <2>1, <2>4
<1>5. 0 .. l \subseteq P
  <2> HIDE DEF P
  <2> QED BY <1>0, <1>3, <1>4, UpTo
<1>6. l \in 0 .. l
  BY <1>0
<1>7. l \in P
  BY <1>5, <1>6
<1> QED BY <1>1, <1>7 DEF l

\* A sequence is what its members make, each as a sequence of one.
LEMMA FlattenSingles ==
  ASSUME NEW S, NEW s \in Seq(S)
  PROVE  /\ [i \in DOMAIN s |-> <<s[i]>>] \in Seq(Seq(S))
         /\ FlattenSeq([i \in DOMAIN s |-> <<s[i]>>]) = s
<1> DEFINE t == [i \in DOMAIN s |-> <<s[i]>>]
           l == Len(s)
<1>0. /\ l \in Nat /\ t \in Seq(Seq(S)) /\ Len(t) = l
      /\ \A n \in 1 .. l : t[n] = <<s[n]>> /\ s[n] \in S
  <2>1. l \in Nat /\ DOMAIN s = 1 .. l /\ \A n \in 1 .. l : s[n] \in S
    OBVIOUS
  <2>2. t = [i \in 1 .. l |-> <<s[i]>>]
    BY <2>1
  <2>3. \A n \in 1 .. l : <<s[n]>> \in Seq(S)
    BY <2>1
  <2> HIDE DEF t, l
  <2>4. t \in [1 .. l -> Seq(S)]
    BY <2>2, <2>3
  <2>5. t \in Seq(Seq(S)) /\ Len(t) = l
    BY <2>1, <2>4
  <2> QED BY <2>1, <2>2, <2>5
<1> HIDE DEF t
<1>1. PICK f : Joins(f, t, S) /\ FlattenSeq(t) = f[Len(t)]
  BY <1>0, FlattenJoins
<1> HIDE DEF l
<1> DEFINE P == {n \in 0 .. l : f[n] = SubSeq(s, 1, n)}
<1>3. 0 \in P
  BY <1>0, <1>1 DEF Joins
<1>4. ASSUME NEW n \in 1 .. l, n - 1 \in P
      PROVE  n \in P
  <2>1. n - 1 \in 0 .. l /\ n \in 0 .. l /\ f[n - 1] = SubSeq(s, 1, n - 1)
    BY <1>0, <1>4
  <2>2. f[n] = f[n - 1] \o <<s[n]>>
    BY <1>0, <1>1, <2>1 DEF Joins
  <2>3. SubSeq(s, 1, n) = SubSeq(s, 1, n - 1) \o <<s[n]>>
    BY DEF l
  <2> QED BY <2>1, <2>2, <2>3
<1>5. 0 .. l \subseteq P
  <2> HIDE DEF P
  <2> QED BY <1>0, <1>3, <1>4, UpTo
<1>6. l \in 0 .. l
  BY <1>0
<1>7. f[l] = SubSeq(s, 1, l)
  BY <1>5, <1>6
<1>8. SubSeq(s, 1, l) = s
  BY DEF l
<1> QED BY <1>0, <1>1, <1>7, <1>8 DEF t

-----------------------------------------------------------------------------
(* Gather *)

Gathered(T) == [words : Seq(Seq(T) \ {<<>>}), open : Seq(T)]

\* f[n] is what the first n parts make.
Gathers(f, parts, blanks, T) ==
  /\ f \in [0 .. Len(parts) -> Gathered(T)]
  /\ f[0] = [words |-> <<>>, open |-> <<>>]
  /\ \A n \in 1 .. Len(parts) :
       f[n] = IF parts[n] \in blanks THEN Close(f[n - 1])
              ELSE [words |-> f[n - 1].words, open |-> f[n - 1].open \o parts[n]]

\* Close() puts what is open, unless it is empty, behind the words.
LEMMA CloseType ==
  ASSUME NEW T, NEW g \in Gathered(T)
  PROVE  /\ Close(g) \in Gathered(T) /\ Close(g).open = <<>>
         /\ g.open = <<>> => Close(g).words = g.words
         /\ g.open # <<>> => Close(g).words = Append(g.words, g.open)
<1>1. g.words \in Seq(Seq(T) \ {<<>>}) /\ g.open \in Seq(T)
  BY DEF Gathered
<1>2. CASE g.open = <<>>
  BY <1>2 DEF Close
<1>3. CASE g.open # <<>>
  <2>1. g.open \in Seq(T) \ {<<>>}
    BY <1>1, <1>3
  <2>2. Append(g.words, g.open) \in Seq(Seq(T) \ {<<>>})
    <3> DEFINE w == g.words
               o == g.open
               X == Seq(T) \ {<<>>}
    <3>1. w \in Seq(X) /\ o \in X
      BY <1>1, <2>1
    <3> HIDE DEF w, o, X
    <3>2. Append(w, o) \in Seq(X)
      BY <3>1
    <3> QED BY <3>2 DEF w, o, X
  <2>3. Close(g) = [words |-> Append(g.words, g.open), open |-> <<>>]
    BY <1>3 DEF Close
  <2>4. <<>> \in Seq(T)
    OBVIOUS
  <2> QED BY <1>3, <2>2, <2>3, <2>4 DEF Gathered
<1> QED BY <1>2, <1>3

\* Gather() is a recursive function over the prefixes of the parts.
LEMMA GatherFold ==
  ASSUME NEW T, NEW blanks, NEW S, NEW parts \in Seq(S),
         \A n \in 1 .. Len(parts) : parts[n] \in blanks \/ parts[n] \in Seq(T)
  PROVE  \E f : /\ Gathers(f, parts, blanks, T)
                /\ Gather(parts, blanks) = Close(f[Len(parts)]).words
<1> DEFINE G == Gathered(T)
           l == Len(parts)
           base == [words |-> <<>>, open |-> <<>>]
           Op(g, p) == IF p \in blanks THEN Close(g) ELSE [g EXCEPT !.open = @ \o p]
           step == [n \in 1 .. l |-> [g \in G |-> Op(g, parts[n])]]
           F(h) == h = [n \in 0 .. l |-> IF n = 0 THEN base ELSE Op(h[n - 1], parts[n])]
           c == CHOOSE h : F(h)
<1>0. l \in Nat /\ base \in G
  BY DEF Gathered
<1>1. Gather(parts, blanks) = Close(c[l]).words
  BY DEF Gather, Fold
<1> HIDE DEF base, l
<1>2. step \in [1 .. l -> [G -> G]]
  <2>1. ASSUME NEW n \in 1 .. l, NEW g \in G
        PROVE  Op(g, parts[n]) \in G
    <3>1. CASE parts[n] \in blanks
      BY <3>1, CloseType
    <3>2. CASE parts[n] \notin blanks
      <4>1. parts[n] \in Seq(T) /\ g.open \in Seq(T) /\ g \in [words : Seq(Seq(T) \ {<<>>}), open : Seq(T)]
        BY <3>2 DEF l, Gathered
      <4>2. g.open \o parts[n] \in Seq(T)
        BY <4>1
      <4> QED BY <3>2, <4>1, <4>2 DEF Gathered
    <3> QED BY <3>1, <3>2
  <2> HIDE DEF Op, G
  <2> QED BY <2>1
<1>3. PICK f : Solves(f, l, G, base, step)
  <2> HIDE DEF step, G
  <2> QED BY <1>0, <1>2, Recursion
<1>4. /\ f \in [0 .. l -> G] /\ f[0] = base
      /\ \A n \in 1 .. l : f[n] = Op(f[n - 1], parts[n])
  <2>1. f \in [0 .. l -> G] /\ f[0] = base /\ \A n \in 1 .. l : f[n] = step[n][f[n - 1]]
    <3> HIDE DEF step
    <3> QED BY <1>3 DEF Solves
  <2>2. ASSUME NEW n \in 1 .. l
        PROVE  f[n] = Op(f[n - 1], parts[n])
    <3>1. n - 1 \in 0 .. l
      BY <1>0
    <3>2. f[n - 1] \in G
      BY <2>1, <3>1
    <3>3. step[n][f[n - 1]] = Op(f[n - 1], parts[n])
      <4> HIDE DEF Op, G
      <4> QED BY <3>2
    <3> HIDE DEF step, Op, G
    <3> QED BY <2>1, <3>3
  <2> HIDE DEF step, Op, G
  <2> QED BY <2>1, <2>2
<1>5. F(f)
  <2> HIDE DEF Op, G
  <2> QED BY <1>4
<1>6. F(c)
  <2> HIDE DEF F
  <2> QED BY <1>5
<1> HIDE DEF c
<1>7. c[0] = base /\ \A n \in 1 .. l : c[n] = Op(c[n - 1], parts[n])
  <2> HIDE DEF Op
  <2>1. 0 \in 0 .. l /\ \A n \in 1 .. l : n \in 0 .. l /\ n # 0
    BY <1>0
  <2> QED BY <1>6, <2>1
<1> DEFINE P == {n \in 0 .. l : c[n] = f[n]}
<1>8. 0 .. l \subseteq P
  <2>1. 0 \in P
    BY <1>0, <1>4, <1>7
  <2>2. ASSUME NEW n \in 1 .. l, n - 1 \in P
        PROVE  n \in P
    <3> HIDE DEF Op
    <3>1. n \in 0 .. l
      BY <1>0
    <3> QED BY <1>4, <1>7, <2>2, <3>1
  <2> HIDE DEF P
  <2> QED BY <1>0, <2>1, <2>2, UpTo
<1>9. l \in 0 .. l
  BY <1>0
<1>10. c[l] = f[l]
  BY <1>8, <1>9
<1>11. Gathers(f, parts, blanks, T)
  <2>1. ASSUME NEW n \in 1 .. l
        PROVE  f[n] = IF parts[n] \in blanks THEN Close(f[n - 1])
                      ELSE [words |-> f[n - 1].words, open |-> f[n - 1].open \o parts[n]]
    <3>1. n - 1 \in 0 .. l
      BY <1>0
    <3>2. f[n - 1] \in [words : Seq(Seq(T) \ {<<>>}), open : Seq(T)]
      BY <1>4, <3>1 DEF Gathered
    <3>3. f[n] = Op(f[n - 1], parts[n])
      BY <1>4
    <3> QED BY <3>2, <3>3
  <2> QED BY <1>4, <2>1 DEF Gathers, l, base
<1> QED BY <1>1, <1>10, <1>11 DEF l

\* The parts join to words that are not empty and hold no blank.
LEMMA GatherType ==
  ASSUME NEW T, NEW blanks, NEW S, NEW parts \in Seq(S),
         \A n \in 1 .. Len(parts) : parts[n] \in blanks \/ parts[n] \in Seq(T)
  PROVE  Gather(parts, blanks) \in Seq(Seq(T) \ {<<>>})
<1>1. PICK f : /\ Gathers(f, parts, blanks, T)
               /\ Gather(parts, blanks) = Close(f[Len(parts)]).words
  BY GatherFold
<1>2. Len(parts) \in 0 .. Len(parts)
  OBVIOUS
<1>3. f[Len(parts)] \in Gathered(T)
  BY <1>1, <1>2 DEF Gathers
<1>4. Close(f[Len(parts)]) \in Gathered(T)
  BY <1>3, CloseType
<1> QED BY <1>1, <1>4 DEF Gathered

\* Close() drops no member.
LEMMA CloseLength ==
  ASSUME NEW T, NEW g \in Gathered(T)
  PROVE  Len(FlattenSeq(Close(g).words)) = Len(FlattenSeq(g.words)) + Len(g.open)
<1>1. g.words \in Seq(Seq(T)) /\ g.open \in Seq(T) /\ Seq(Seq(T) \ {<<>>}) \subseteq Seq(Seq(T))
  BY DEF Gathered
<1>2. FlattenSeq(g.words) \in Seq(T)
  BY <1>1, FlattenType
<1>3. CASE g.open = <<>>
  <2>1. Close(g).words = g.words
    BY <1>3, CloseType
  <2>2. Len(g.open) = 0 /\ Len(FlattenSeq(g.words)) \in Nat
    BY <1>2, <1>3
  <2> QED BY <2>1, <2>2
<1>4. CASE g.open # <<>>
  <2>1. Close(g).words = Append(g.words, g.open)
    BY <1>4, CloseType
  <2>2. FlattenSeq(Append(g.words, g.open)) = FlattenSeq(g.words) \o g.open
    BY <1>1, FlattenAppend
  <2>3. Len(FlattenSeq(g.words) \o g.open) = Len(FlattenSeq(g.words)) + Len(g.open)
    <3> DEFINE a == FlattenSeq(g.words)
               b == g.open
    <3>1. a \in Seq(T) /\ b \in Seq(T)
      BY <1>1, <1>2
    <3> HIDE DEF a, b
    <3>2. Len(a \o b) = Len(a) + Len(b)
      BY <3>1
    <3> QED BY <3>2 DEF a, b
  <2> QED BY <2>1, <2>2, <2>3
<1> QED BY <1>3, <1>4

\* The words are no longer than the parts.
LEMMA GatherLength ==
  ASSUME NEW T, NEW blanks, NEW S, NEW parts \in Seq(Seq(S)),
         \A n \in 1 .. Len(parts) : parts[n] \in blanks \/ parts[n] \in Seq(T)
  PROVE  Len(FlattenSeq(Gather(parts, blanks))) <= Len(FlattenSeq(parts))
<1> DEFINE l == Len(parts)
<1>0. l \in Nat /\ l \in 0 .. l /\ \A n \in 1 .. l : parts[n] \in Seq(S) /\ Len(parts[n]) \in Nat
  OBVIOUS
<1>1. PICK f : Gathers(f, parts, blanks, T) /\ Gather(parts, blanks) = Close(f[l]).words
  BY GatherFold
<1>2. PICK h : Joins(h, parts, S) /\ FlattenSeq(parts) = h[l]
  BY FlattenJoins
<1> DEFINE A(n) == Len(FlattenSeq(f[n].words))
           B(n) == Len(f[n].open)
           H(n) == Len(h[n])
           P == {n \in 0 .. l : A(n) + B(n) <= H(n)}
<1>3. \A n \in 0 .. l : /\ f[n] \in Gathered(T) /\ f[n].open \in Seq(T)
                        /\ f[n].words \in Seq(Seq(T)) /\ FlattenSeq(f[n].words) \in Seq(T)
  <2> TAKE n \in 0 .. l
  <2>1. f[n] \in Gathered(T)
    BY <1>1 DEF Gathers
  <2>2. f[n].open \in Seq(T) /\ f[n].words \in Seq(Seq(T))
    BY <2>1 DEF Gathered
  <2> QED BY <2>1, <2>2, FlattenType
<1>n. \A n \in 0 .. l : A(n) \in Nat /\ B(n) \in Nat
  BY <1>3
<1>h. /\ H(0) = 0
      /\ \A n \in 1 .. l : H(n - 1) \in Nat /\ H(n) = H(n - 1) + Len(parts[n])
  <2>1. H(0) = 0
    BY <1>2 DEF Joins
  <2>2. ASSUME NEW n \in 1 .. l PROVE H(n - 1) \in Nat /\ H(n) = H(n - 1) + Len(parts[n])
    <3>1. n - 1 \in 0 .. l
      BY <1>0
    <3>2. h[n - 1] \in Seq(S) /\ h[n] = h[n - 1] \o parts[n] /\ parts[n] \in Seq(S)
      BY <1>0, <1>2, <3>1 DEF Joins
    <3> QED BY <3>2
  <2> QED BY <2>1, <2>2
<1>4. A(0) + B(0) = 0
  <2>1. f[0] = [words |-> <<>>, open |-> <<>>]
    BY <1>1 DEF Gathers
  <2>2. FlattenSeq(<<>>) = <<>>
    <3>1. <<>> \in Seq(Seq(T))
      OBVIOUS
    <3> QED BY <3>1, FlattenType
  <2> QED BY <2>1, <2>2
<1>5. ASSUME NEW n \in 1 .. l
      PROVE  A(n) + B(n) <= (A(n - 1) + B(n - 1)) + Len(parts[n])
  <2>1. n - 1 \in 0 .. l
    BY <1>0
  <2>4. f[n - 1].open \in Seq(T) /\ f[n - 1] \in Gathered(T)
    BY <1>3, <2>1
  <2>5. f[n] = IF parts[n] \in blanks THEN Close(f[n - 1])
               ELSE [words |-> f[n - 1].words, open |-> f[n - 1].open \o parts[n]]
    BY <1>1 DEF Gathers
  <2> HIDE DEF A, B
  <2>6. CASE parts[n] \in blanks
    <3>1. f[n].open = <<>> /\ f[n] = Close(f[n - 1])
      BY <2>4, <2>5, <2>6, CloseType
    <3>2. A(n) = A(n - 1) + B(n - 1)
      BY <2>4, <3>1, CloseLength DEF A, B
    <3>3. B(n) = 0
      BY <3>1 DEF B
    <3> QED BY <1>0, <1>n, <2>1, <3>2, <3>3
  <2>7. CASE parts[n] \notin blanks
    <3>0. f[n] = [words |-> f[n - 1].words, open |-> f[n - 1].open \o parts[n]]
      BY <2>5, <2>7
    <3>1. A(n) = A(n - 1)
      BY <3>0 DEF A
    <3>2. f[n].open = f[n - 1].open \o parts[n]
      <4> DEFINE o == f[n - 1].open \o parts[n]
      <4>1. f[n] = [words |-> f[n - 1].words, open |-> o]
        BY <3>0
      <4> HIDE DEF o
      <4>2. f[n].open = o
        BY <4>1
      <4> QED BY <4>2 DEF o
    <3>3. B(n) = B(n - 1) + Len(parts[n])
      <4>1. parts[n] \in Seq(T)
        BY <2>7
      <4> QED BY <2>4, <3>2, <4>1 DEF B
    <3>4. A(n - 1) \in Nat /\ B(n - 1) \in Nat /\ Len(parts[n]) \in Nat
      BY <1>0, <1>n, <2>1
    <3> QED BY <3>1, <3>3, <3>4
  <2> QED BY <2>6, <2>7
<1>6. A(l) + B(l) <= H(l)
  <2> HIDE DEF A, B, H, l
  <2>1. 0 \in P
    BY <1>0, <1>4, <1>h
  <2>2. ASSUME NEW n \in 1 .. l, n - 1 \in P
        PROVE  n \in P
    <3>1. n - 1 \in 0 .. l /\ n \in 0 .. l /\ A(n - 1) + B(n - 1) <= H(n - 1)
      BY <1>0, <2>2
    <3>2. /\ A(n) + B(n) <= (A(n - 1) + B(n - 1)) + Len(parts[n])
          /\ H(n) = H(n - 1) + Len(parts[n])
      BY <1>5, <1>h
    <3>3. /\ A(n) \in Nat /\ B(n) \in Nat /\ A(n - 1) \in Nat /\ B(n - 1) \in Nat
          /\ Len(parts[n]) \in Nat /\ H(n - 1) \in Nat
      BY <1>0, <1>n, <1>h, <3>1
    <3>4. A(n) + B(n) <= H(n)
      BY <3>1, <3>2, <3>3
    <3> QED BY <3>1, <3>4
  <2>3. 0 .. l \subseteq P
    <3> HIDE DEF P
    <3> QED BY <1>0, <2>1, <2>2, UpTo
  <2> QED BY <1>0, <2>3
<1>8. Len(FlattenSeq(Close(f[l]).words)) = A(l) + B(l)
  BY <1>0, <1>3, CloseLength
<1> QED BY <1>1, <1>2, <1>6, <1>8

\* Close() keeps the words, and makes one of what is open.
LEMMA CloseKeeps ==
  ASSUME NEW T, NEW g \in Gathered(T)
  PROVE  /\ ToSet(g.words) \subseteq ToSet(Close(g).words)
         /\ g.open # <<>> => g.open \in ToSet(Close(g).words)
<1>1. CASE g.open = <<>>
  BY <1>1, CloseType
<1>2. CASE g.open # <<>>
  <2>1. Close(g).words = Append(g.words, g.open)
    BY <1>2, CloseType
  <2>2. g.words \in Seq(Seq(T)) /\ g.open \in Seq(T)
    BY DEF Gathered
  <2> QED BY <2>1, <2>2, MembersAppend
<1> QED BY <1>1, <1>2

\* A subsequence grows by one member at its end.
LEMMA SubSeqStep ==
  ASSUME NEW S, NEW s \in Seq(S), NEW i \in 1 .. Len(s), NEW n \in i .. Len(s)
  PROVE  /\ SubSeq(s, i, n) = Append(SubSeq(s, i, n - 1), s[n])
         /\ SubSeq(s, i, n - 1) \in Seq(S) /\ s[n] \in S /\ SubSeq(s, i, i - 1) = <<>>
  OBVIOUS

\* A run of parts between blanks is in one of the words; it is that word if there is
\* a blank, or the end, on either side.
LEMMA GatherRun ==
  ASSUME NEW T, NEW blanks, NEW S, NEW parts \in Seq(Seq(S)),
         \A n \in 1 .. Len(parts) : parts[n] \in blanks \/ parts[n] \in Seq(T),
         NEW i \in 1 .. Len(parts), NEW j \in i .. Len(parts),
         \A n \in i .. j : parts[n] \notin blanks,
         FlattenSeq(SubSeq(parts, i, j)) # <<>>
  PROVE  \E o, y \in Seq(T) :
           /\ (o \o FlattenSeq(SubSeq(parts, i, j))) \o y \in ToSet(Gather(parts, blanks))
           /\ i = 1 \/ parts[i - 1] \in blanks => o = <<>>
           /\ j = Len(parts) \/ parts[j + 1] \in blanks => y = <<>>
<1> DEFINE l == Len(parts)
           X(n) == FlattenSeq(SubSeq(parts, i, n))
           Opens == i = 1 \/ parts[i - 1] \in blanks
           Ends_ == j = l \/ parts[j + 1] \in blanks
<1>0. l \in Nat /\ i \in Nat /\ j \in Nat /\ 1 <= i /\ i <= j /\ j <= l
  OBVIOUS
<1>1. PICK f : Gathers(f, parts, blanks, T) /\ Gather(parts, blanks) = Close(f[l]).words
  BY GatherFold
<1>2. \A n \in 0 .. l : f[n] \in Gathered(T) /\ f[n].open \in Seq(T)
  BY <1>1 DEF Gathers, Gathered
<1>3. \A n \in 1 .. l :
        IF parts[n] \in blanks THEN f[n] = Close(f[n - 1])
        ELSE /\ f[n].words = f[n - 1].words
             /\ f[n].open = f[n - 1].open \o parts[n] /\ parts[n] \in Seq(T)
  <2> TAKE n \in 1 .. l
  <2>1. f[n] = IF parts[n] \in blanks THEN Close(f[n - 1])
               ELSE [words |-> f[n - 1].words, open |-> f[n - 1].open \o parts[n]]
    BY <1>1 DEF Gathers
  <2> DEFINE o == f[n - 1].open \o parts[n]
  <2>2. parts[n] \in blanks \/ parts[n] \in Seq(T)
    OBVIOUS
  <2> HIDE DEF o
  <2>3. CASE parts[n] \notin blanks
    <3>1. f[n] = [words |-> f[n - 1].words, open |-> o]
      BY <2>1, <2>3 DEF o
    <3>2. f[n].words = f[n - 1].words /\ f[n].open = o
      BY <3>1
    <3> QED BY <2>2, <2>3, <3>2 DEF o
  <2> QED BY <2>1, <2>3
<1> DEFINE o == f[i - 1].open
<1>4. o \in Seq(T) /\ (Opens => o = <<>>)
  <2>1. i - 1 \in 0 .. l
    BY <1>0
  <2>2. CASE i = 1
    <3>1. f[0] = [words |-> <<>>, open |-> <<>>]
      BY <1>1 DEF Gathers
    <3> QED BY <1>2, <2>1, <2>2, <3>1
  <2>3. CASE i # 1 /\ parts[i - 1] \in blanks
    <3>1. i - 1 \in 1 .. l /\ (i - 1) - 1 \in 0 .. l
      BY <1>0, <2>3
    <3>2. f[i - 1] = Close(f[(i - 1) - 1]) /\ f[(i - 1) - 1] \in Gathered(T)
      BY <1>2, <1>3, <2>3, <3>1
    <3> QED BY <1>2, <2>1, <3>2, CloseType
  <2> QED BY <1>2, <2>1, <2>2, <2>3
<1>5. X(i - 1) = <<>> /\ \A n \in i .. j : X(n) = X(n - 1) \o parts[n]
  <2>1. X(i - 1) = <<>>
    <3>1. SubSeq(parts, i, i - 1) = <<>> /\ <<>> \in Seq(Seq(S))
      BY <1>0
    <3> QED BY <3>1, FlattenType
  <2>2. ASSUME NEW n \in i .. j
        PROVE  X(n) = X(n - 1) \o parts[n]
    <3>1. n \in i .. l
      BY <1>0
    <3>2. /\ SubSeq(parts, i, n) = Append(SubSeq(parts, i, n - 1), parts[n])
          /\ SubSeq(parts, i, n - 1) \in Seq(Seq(S)) /\ parts[n] \in Seq(S)
      BY <3>1, SubSeqStep
    <3> QED BY <3>2, FlattenAppend
  <2> QED BY <2>1, <2>2
<1> HIDE DEF X
<1>6. X(j) \in Seq(T) /\ f[j].open = o \o X(j)
  <2> DEFINE m == (j - i) + 1
             P == {k \in 0 .. m : X((i - 1) + k) \in Seq(T) /\ f[(i - 1) + k].open = o \o X((i - 1) + k)}
  <2>0. m \in Nat /\ (i - 1) + 0 = i - 1 /\ (i - 1) + m = j /\ m \in 0 .. m /\ 0 \in 0 .. m
    BY <1>0
  <2> HIDE DEF m
  <2>1. 0 \in P
    <3>1. o \o <<>> = o /\ <<>> \in Seq(T)
      BY <1>4
    <3> QED BY <1>5, <2>0, <3>1
  <2>2. ASSUME NEW k \in 1 .. m, k - 1 \in P
        PROVE  k \in P
    <3> DEFINE n == (i - 1) + k
    <3>1. n \in i .. j /\ n \in 1 .. l /\ n - 1 = (i - 1) + (k - 1) /\ k \in 0 .. m
      BY <1>0 DEF m
    <3>2. X(n - 1) \in Seq(T) /\ f[n - 1].open = o \o X(n - 1)
      BY <2>2, <3>1
    <3> HIDE DEF n
    <3>3. f[n].open = f[n - 1].open \o parts[n] /\ parts[n] \in Seq(T)
      BY <1>3, <3>1
    <3>4. X(n) = X(n - 1) \o parts[n]
      BY <1>5, <3>1
    <3>5. X(n) \in Seq(T) /\ f[n].open = o \o X(n)
      <4> DEFINE a == f[i - 1].open
                 b == X(n - 1)
                 c == parts[n]
      <4>1. a \in Seq(T) /\ b \in Seq(T) /\ c \in Seq(T)
        BY <1>4, <3>2, <3>3
      <4>4. X(n) = b \o c /\ f[n].open = (a \o b) \o c
        BY <3>2, <3>3, <3>4
      <4> HIDE DEF a, b, c
      <4>2. (a \o b) \o c = a \o (b \o c)
        <5>1. Regroups(a, b, c)
          BY <4>1, ConcatRegroups
        <5> QED BY <5>1, Zenon DEF Regroups
      <4>5. b \o c \in Seq(T)
        BY <4>1
      <4>3. o = a
        BY DEF a
      <4> HIDE DEF o
      <4> QED BY <4>2, <4>3, <4>4, <4>5
    <3> QED BY <3>1, <3>5 DEF n
  <2>3. 0 .. m \subseteq P
    <3> HIDE DEF P
    <3> QED BY <2>0, <2>1, <2>2, UpTo
  <2> QED BY <2>0, <2>3
<1> HIDE DEF o
<1> DEFINE Z == o \o X(j)
           Q(n) == \E y \in Seq(T) :
                     /\ Ends_ => y = <<>>
                     /\ \/ f[n].open = Z \o y /\ (Ends_ => n = j)
                        \/ Z \o y \in ToSet(f[n].words)
<1>7. Z \in Seq(T) /\ Z # <<>>
  <2>1. X(j) # <<>>
    BY DEF X
  <2> DEFINE b == X(j)
  <2>2. o \in Seq(T) /\ b \in Seq(T) /\ b # <<>>
    BY <1>4, <1>6, <2>1
  <2> HIDE DEF b
  <2>3. o \o b \in Seq(T) /\ o \o b # <<>>
    BY <2>2
  <2> QED BY <2>3 DEF b
<1> HIDE DEF Z
<1>8. Q(l)
  <2> DEFINE m == l - j
             P == {k \in 0 .. m : Q(j + k)}
  <2>0. m \in Nat /\ j + 0 = j /\ j + m = l /\ m \in 0 .. m /\ 0 \in 0 .. m
    BY <1>0
  <2>1. 0 \in P
    <3>1. Z \o <<>> = Z /\ <<>> \in Seq(T)
      BY <1>7
    <3>2. f[j].open = Z \o <<>>
      BY <1>6, <3>1 DEF Z
    <3>3. Q(j)
      BY <3>1, <3>2
    <3> HIDE DEF Q
    <3> QED BY <2>0, <3>3
  <2>2. ASSUME NEW k \in 1 .. m, k - 1 \in P
        PROVE  k \in P
    <3> DEFINE n == j + k
    <3>1. n \in 1 .. l /\ n - 1 \in 0 .. l /\ n - 1 = j + (k - 1) /\ k \in 0 .. m /\ n > j
      BY <1>0
    <3>2. Q(n - 1)
      <4> HIDE DEF Q
      <4> QED BY <2>2, <3>1
    <3> HIDE DEF n
    <3>3. PICK y \in Seq(T) :
            /\ Ends_ => y = <<>>
            /\ \/ f[n - 1].open = Z \o y /\ (Ends_ => n - 1 = j)
               \/ Z \o y \in ToSet(f[n - 1].words)
      BY <3>2
    <3>4. Z \o y \in Seq(T) /\ Z \o y # <<>>
      BY <1>7
    <3>5. f[n - 1] \in Gathered(T)
      BY <1>2, <3>1
    <3>6. CASE parts[n] \in blanks
      <4>1. f[n] = Close(f[n - 1])
        BY <1>3, <3>1, <3>6
      <4>2. Z \o y \in ToSet(f[n].words)
        BY <3>3, <3>4, <3>5, <4>1, CloseKeeps
      <4> QED BY <3>1, <3>3, <4>2 DEF n
    <3>7. CASE parts[n] \notin blanks
      <4>1. /\ f[n].words = f[n - 1].words /\ f[n].open = f[n - 1].open \o parts[n]
            /\ parts[n] \in Seq(T)
        BY <1>3, <3>1, <3>7
      <4>2. CASE Z \o y \in ToSet(f[n - 1].words)
        BY <3>1, <3>3, <4>1, <4>2 DEF n
      <4>3. CASE f[n - 1].open = Z \o y /\ (Ends_ => n - 1 = j)
        <5>1. ~Ends_
          <6>1. ASSUME Ends_ PROVE FALSE
            <7>1. n = j + 1 /\ j # l
              BY <1>0, <3>1, <4>3, <6>1
            <7> QED BY <3>7, <6>1, <7>1
          <6> QED BY <6>1
        <5>2. f[n].open = Z \o (y \o parts[n]) /\ y \o parts[n] \in Seq(T)
          <6> DEFINE c == parts[n]
          <6>1. c \in Seq(T) /\ f[n].open = (Z \o y) \o c
            BY <4>1, <4>3
          <6>0. c \in Seq(T) /\ Z \in Seq(T) /\ y \in Seq(T)
            BY <1>7, <6>1
          <6> HIDE DEF c
          <6>2. (Z \o y) \o c = Z \o (y \o c)
            <7>1. Regroups(Z, y, c)
              BY <6>0, ConcatRegroups
            <7> QED BY <7>1, Zenon DEF Regroups
          <6>3. y \o c \in Seq(T)
            BY <6>1
          <6> QED BY <6>1, <6>2, <6>3 DEF c
        <5> QED BY <3>1, <5>1, <5>2 DEF n
      <4> QED BY <3>3, <4>2, <4>3
    <3> QED BY <3>6, <3>7
  <2> HIDE DEF m
  <2>3. 0 .. m \subseteq P
    <3> HIDE DEF P
    <3> QED BY <2>0, <2>1, <2>2, UpTo
  <2>4. m \in P
    BY <2>0, <2>3
  <2> HIDE DEF Q
  <2> QED BY <2>0, <2>4
<1>9. PICK y \in Seq(T) : /\ Ends_ => y = <<>>
                          /\ \/ f[l].open = Z \o y
                             \/ Z \o y \in ToSet(f[l].words)
  BY <1>8
<1>10. Z \o y \in ToSet(Close(f[l]).words)
  <2>1. Z \o y # <<>>
    BY <1>7
  <2>2. f[l] \in Gathered(T)
    BY <1>0, <1>2
  <2> QED BY <1>9, <2>1, <2>2, CloseKeeps
<1> QED BY <1>1, <1>4, <1>9, <1>10 DEF X, Z

-----------------------------------------------------------------------------
(* Characters *)

\* Wide() leaves characters without the second halves, and does not lengthen a text.
LEMMA WideType ==
  ASSUME NEW S, NEW s \in Seq(S)
  PROVE  Wide(s) \in Seq(S \ {"C"}) /\ Len(Wide(s)) <= Len(s)
<1> DEFINE t == [i \in DOMAIN s |-> IF s[i] = "C" THEN <<>> ELSE <<s[i]>>]
           u == [i \in DOMAIN s |-> <<s[i]>>]
           T == S \ {"C"}
<1>0. DOMAIN s = 1 .. Len(s) /\ Len(s) \in Nat /\ \A i \in 1 .. Len(s) : s[i] \in S
  OBVIOUS
<1>1. t = [i \in DOMAIN s |-> t[i]]
  OBVIOUS
<1>2. \A i \in 1 .. Len(s) : t[i] \in Seq(T) /\ Len(t[i]) <= 1
  <2> TAKE i \in 1 .. Len(s)
  <2>1. s[i] \in S /\ t[i] = IF s[i] = "C" THEN <<>> ELSE <<s[i]>>
    BY <1>0
  <2>2. CASE s[i] = "C"
    <3>1. t[i] = <<>>
      BY <2>1, <2>2
    <3> QED BY <3>1
  <2>3. CASE s[i] # "C"
    <3>1. t[i] = <<s[i]>> /\ s[i] \in T
      BY <2>1, <2>3
    <3> HIDE DEF t, T
    <3> QED BY <3>1
  <2> QED BY <2>2, <2>3
<1>3. Wide(s) = FlattenSeq(t)
  BY DEF Wide
<1>4. u \in Seq(Seq(S)) /\ FlattenSeq(u) = s
  BY FlattenSingles
<1>5. Len(u) = Len(s) /\ \A i \in 1 .. Len(s) : Len(u[i]) = 1
  BY <1>0, <1>4
<1> HIDE DEF t, u
<1>6. t \in Seq(Seq(T)) /\ Len(t) = Len(s)
  <2>1. t \in [1 .. Len(s) -> Seq(T)]
    BY <1>0, <1>1, <1>2
  <2> QED BY <1>0, <2>1, MapType
<1>7. FlattenSeq(t) \in Seq(T)
  BY <1>6, FlattenType
<1>8. Len(FlattenSeq(t)) <= Len(FlattenSeq(u))
  <2>1. \A i \in 1 .. Len(u) : Len(t[i]) <= Len(u[i]) + 0
    <3> TAKE i \in 1 .. Len(u)
    <3>1. Len(t[i]) <= 1 /\ Len(u[i]) = 1
      BY <1>2, <1>5
    <3> QED BY <3>1
  <2>2. Len(FlattenSeq(t)) <= Len(FlattenSeq(u)) + (IF 0 = 1 THEN Len(u) ELSE 0)
    <3>1. 0 \in {0, 1} /\ Len(t) = Len(u)
      BY <1>5, <1>6
    <3> QED BY <1>4, <1>6, <2>1, <3>1, FlattenLonger
  <2>3. Len(FlattenSeq(u)) \in Nat
    BY <1>4
  <2> QED BY <2>2, <2>3
<1> QED BY <1>3, <1>4, <1>7, <1>8

\* Wide() of a concatenation is that of its parts.
LEMMA WideConcat ==
  ASSUME NEW S, NEW a \in Seq(S), NEW b \in Seq(S)
  PROVE  Wide(a \o b) = Wide(a) \o Wide(b)
<1> DEFINE W(c) == IF c = "C" THEN <<>> ELSE <<c>>
           M(s) == [i \in DOMAIN s |-> W(s[i])]
           s == a \o b
<1>1. /\ s \in Seq(S) /\ Len(s) = Len(a) + Len(b) /\ Len(a) \in Nat /\ Len(b) \in Nat
      /\ \A i \in 1 .. Len(a) : s[i] = a[i]
      /\ \A i \in 1 .. Len(b) : s[Len(a) + i] = b[i]
  OBVIOUS
<1>2. \A x \in S : W(x) \in Seq(S)
  OBVIOUS
<1> HIDE DEF W
<1>3. ASSUME NEW x \in Seq(S)
      PROVE  M(x) \in Seq(Seq(S)) /\ Len(M(x)) = Len(x) /\ \A i \in 1 .. Len(x) : M(x)[i] = W(x[i])
  <2> DEFINE t == M(x)
  <2>1. \A i \in 1 .. Len(x) : t[i] = W(x[i]) /\ t[i] \in Seq(S)
    BY <1>2
  <2>2. t = [i \in 1 .. Len(x) |-> t[i]] /\ Len(x) \in Nat
    OBVIOUS
  <2> HIDE DEF t
  <2>3. t \in Seq(Seq(S)) /\ Len(t) = Len(x)
    <3>1. t \in [1 .. Len(x) -> Seq(S)]
      BY <2>1, <2>2
    <3> QED BY <2>2, <3>1, MapType
  <2> QED BY <2>1, <2>3 DEF t
<1>4. M(s) = M(a) \o M(b)
  <2> DEFINE u == M(s)
             v == M(a)
             w == M(b)
  <2>1. /\ u \in Seq(Seq(S)) /\ v \in Seq(Seq(S)) /\ w \in Seq(Seq(S))
        /\ Len(u) = Len(a) + Len(b) /\ Len(v) = Len(a) /\ Len(w) = Len(b)
    BY <1>1, <1>3
  <2>2. \A i \in 1 .. Len(a) : u[i] = v[i]
    BY <1>1, <1>3
  <2>3. \A i \in 1 .. Len(b) : u[Len(a) + i] = w[i]
    <3> TAKE i \in 1 .. Len(b)
    <3>1. Len(a) + i \in 1 .. Len(s)
      BY <1>1
    <3> QED BY <1>1, <1>3, <3>1
  <2> HIDE DEF u, v, w
  <2>4. u = v \o w
    <3> DEFINE X == Seq(S)
    <3>1. u \in Seq(X) /\ v \in Seq(X) /\ w \in Seq(X)
      BY <2>1
    <3>2. Len(u) = Len(v) + Len(w)
      BY <2>1
    <3>3. \A i \in 1 .. Len(v) : u[i] = v[i]
      BY <2>1, <2>2
    <3>4. \A i \in 1 .. Len(w) : u[Len(v) + i] = w[i]
      BY <2>1, <2>3
    <3> HIDE DEF X
    <3> QED BY <3>1, <3>2, <3>3, <3>4, IsConcat
  <2> QED BY <2>4 DEF u, v, w
<1>5. Wide(s) = FlattenSeq(M(s)) /\ Wide(a) = FlattenSeq(M(a)) /\ Wide(b) = FlattenSeq(M(b))
  BY DEF Wide, W
<1>6. FlattenSeq(M(a) \o M(b)) = FlattenSeq(M(a)) \o FlattenSeq(M(b))
  <2> HIDE DEF M
  <2> QED BY <1>3, FlattenConcat
<1> QED BY <1>4, <1>5, <1>6

\* The pieces between two delimiters hold none, and are no longer than the text.
LEMMA SplitType ==
  ASSUME NEW S, NEW s \in Seq(S), NEW d
  PROVE  /\ Split(s, d) \in Seq(Seq(S \ {"B", d}) \ {<<>>})
         /\ Len(FlattenSeq(Split(s, d))) <= Len(s)
<1> DEFINE parts == [i \in DOMAIN s |-> <<s[i]>>]
           blanks == {<<"B">>, <<d>>}
           T == S \ {"B", d}
<1>1. parts \in Seq(Seq(S)) /\ FlattenSeq(parts) = s
  BY FlattenSingles
<1>2. \A n \in 1 .. Len(parts) : parts[n] \in blanks \/ parts[n] \in Seq(T)
  <2> TAKE n \in 1 .. Len(parts)
  <2>1. Len(parts) = Len(s) /\ n \in DOMAIN s
    BY <1>1
  <2>2. parts[n] = <<s[n]>> /\ s[n] \in S
    BY <2>1
  <2>3. CASE s[n] \in {"B", d}
    BY <2>2, <2>3
  <2>4. CASE s[n] \notin {"B", d}
    <3>1. s[n] \in T
      BY <2>2, <2>4
    <3> HIDE DEF T
    <3>2. <<s[n]>> \in Seq(T)
      BY <3>1
    <3> QED BY <2>2, <3>2
  <2> QED BY <2>3, <2>4
<1>3. Split(s, d) = Gather(parts, blanks)
  BY DEF Split
<1> HIDE DEF parts, blanks, T
<1>4. Gather(parts, blanks) \in Seq(Seq(T) \ {<<>>})
  BY <1>1, <1>2, GatherType
<1>5. Len(FlattenSeq(Gather(parts, blanks))) <= Len(FlattenSeq(parts))
  BY <1>1, <1>2, GatherLength
<1> QED BY <1>1, <1>3, <1>4, <1>5 DEF T

\* trim() leaves a part of the text, with every character it does not cut.
LEMMA TrimCuts ==
  ASSUME NEW S, NEW s \in Seq(S)
  PROVE  \E a \in 1 .. Len(s) + 1, b \in 0 .. Len(s) :
           /\ Trim(s) = SubSeq(s, a, b)
           /\ \A i \in 1 .. Len(s) : s[i] \notin Trimmed => a <= i /\ i <= b
<1> DEFINE l == Len(s)
           kept == {i \in DOMAIN s : s[i] \notin Trimmed}
           a == CHOOSE i \in kept : \A j \in kept : i <= j
           b == CHOOSE i \in kept : \A j \in kept : j <= i
<1>0. l \in Nat /\ DOMAIN s = 1 .. l
  OBVIOUS
<1>1. Trim(s) = IF kept = {} THEN <<>> ELSE SubSeq(s, a, b)
  BY DEF Trim
<1>2. CASE kept = {}
  <2>1. Trim(s) = SubSeq(s, 1, 0)
    BY <1>1, <1>2
  <2>2. \A i \in 1 .. l : s[i] \in Trimmed
    BY <1>0, <1>2
  <2> QED BY <1>0, <2>1, <2>2
<1>3. CASE kept # {}
  <2>1. kept \in SUBSET Nat /\ kept \in SUBSET (0 .. l) /\ kept \subseteq 1 .. l
    BY <1>0
  <2>2. \A i \in 1 .. l : s[i] \notin Trimmed => i \in kept
    BY <1>0
  <2> HIDE DEF kept, l
  <2>3. \E i \in kept : \A j \in kept : i <= j
    BY <1>3, <2>1, Least
  <2>4. \E i \in kept : \A j \in kept : j <= i
    BY <1>0, <1>3, <2>1, Greatest
  <2>5. a \in kept /\ \A j \in kept : a <= j
    BY <2>3
  <2>6. b \in kept /\ \A j \in kept : j <= b
    BY <2>4
  <2> HIDE DEF a, b
  <2>7. Trim(s) = SubSeq(s, a, b) /\ a \in 1 .. l + 1 /\ b \in 0 .. l
    BY <1>0, <1>1, <1>3, <2>1, <2>5, <2>6
  <2>8. \A i \in 1 .. l : s[i] \notin Trimmed => a <= i /\ i <= b
    BY <2>2, <2>5, <2>6
  <2> QED BY <2>7, <2>8 DEF l
<1> QED BY <1>2, <1>3

\* Trim() does not lengthen a text.
LEMMA TrimType ==
  ASSUME NEW S, NEW s \in Seq(S)
  PROVE  Trim(s) \in Seq(S) /\ Len(Trim(s)) <= Len(s)
<1>1. PICK a \in 1 .. Len(s) + 1, b \in 0 .. Len(s) : Trim(s) = SubSeq(s, a, b)
  BY TrimCuts
<1>2. SubSeq(s, a, b) \in Seq(S) /\ Len(SubSeq(s, a, b)) <= Len(s)
  OBVIOUS
<1> QED BY <1>1, <1>2

\* What holds no space that trim() knows stays as it is.
LEMMA TrimSame ==
  ASSUME NEW S, NEW s \in Seq(S \ Trimmed)
  PROVE  Trim(s) = s
<1>1. PICK a \in 1 .. Len(s) + 1, b \in 0 .. Len(s) :
        /\ Trim(s) = SubSeq(s, a, b)
        /\ \A i \in 1 .. Len(s) : s[i] \notin Trimmed => a <= i /\ i <= b
  BY TrimCuts
<1>2. \A i \in 1 .. Len(s) : s[i] \notin Trimmed
  OBVIOUS
<1>3. CASE s = <<>>
  <2>1. SubSeq(s, a, b) = <<>>
    BY <1>3
  <2> QED BY <1>1, <1>3, <2>1
<1>4. CASE s # <<>>
  <2>1. Len(s) \in Nat /\ Len(s) # 0
    BY <1>4
  <2>2. 1 \in 1 .. Len(s) /\ Len(s) \in 1 .. Len(s)
    BY <2>1
  <2>3. a = 1 /\ b = Len(s)
    BY <1>1, <1>2, <2>1, <2>2
  <2>4. SubSeq(s, 1, Len(s)) = s
    OBVIOUS
  <2> QED BY <1>1, <2>3, <2>4
<1> QED BY <1>3, <1>4

Space == " "

\* Joined() lengthens a line by one character at most.
LEMMA JoinedType ==
  ASSUME NEW S, Space \in S, NEW line \in Seq(S), line # <<>>
  PROVE  Joined(line) \in Seq(S) /\ Len(Joined(line)) <= Len(line) + 1
<1>1. CASE Last(line) = "-"
  <2>1. Joined(line) = SubSeq(line, 1, Len(line) - 1)
    BY <1>1 DEF Joined, Front
  <2>2. Len(line) \in Nat /\ Len(line) # 0
    OBVIOUS
  <2>3. SubSeq(line, 1, Len(line) - 1) \in Seq(S) /\ Len(SubSeq(line, 1, Len(line) - 1)) = Len(line) - 1
    BY <2>2
  <2> QED BY <2>1, <2>2, <2>3
<1>2. CASE Last(line) # "-"
  <2>1. Joined(line) = line \o <<Space>>
    BY <1>2 DEF Joined, Space
  <2>2. line \o <<Space>> \in Seq(S) /\ Len(line \o <<Space>>) = Len(line) + 1
    OBVIOUS
  <2> QED BY <2>1, <2>2
<1> QED BY <1>1, <1>2

\* The lines of a text make one that is at most twice as long as they are.
LEMMA JoinLinesType ==
  ASSUME NEW S, Space \in S, NEW lines \in Seq(Seq(S) \ {<<>>})
  PROVE  /\ [n \in DOMAIN lines |-> Joined(lines[n])] \in Seq(Seq(S))
         /\ JoinLines(lines) \in Seq(S)
         /\ Len(JoinLines(lines)) <= 2 * Len(FlattenSeq(lines))
<1> DEFINE t == [n \in DOMAIN lines |-> Joined(lines[n])]
           l == Len(lines)
           X == Seq(S)
<1>0. /\ l \in Nat /\ DOMAIN lines = 1 .. l /\ lines \in Seq(X)
      /\ \A n \in 1 .. l : lines[n] \in Seq(S) /\ lines[n] # <<>>
  OBVIOUS
<1>1. \A n \in 1 .. l : t[n] \in X /\ Len(t[n]) <= Len(lines[n]) + 1
  <2> TAKE n \in 1 .. l
  <2>1. t[n] = Joined(lines[n])
    BY <1>0
  <2> QED BY <1>0, <2>1, JoinedType
<1>2. t = [n \in 1 .. l |-> t[n]]
  BY <1>0
<1>3. JoinLines(lines) = FlattenSeq(t)
  BY DEF JoinLines
<1> HIDE DEF t
<1>4. t \in Seq(X) /\ Len(t) = l
  <2> HIDE DEF X
  <2>1. t \in [1 .. l -> X]
    BY <1>1, <1>2
  <2> QED BY <1>0, <2>1, MapType
<1>5. FlattenSeq(t) \in Seq(S)
  BY <1>4, FlattenType
<1>6. Len(FlattenSeq(t)) <= Len(FlattenSeq(lines)) + l
  <2>1. Len(FlattenSeq(t)) <= Len(FlattenSeq(lines)) + (IF 1 = 1 THEN Len(lines) ELSE 0)
    <3>1. \A n \in 1 .. Len(lines) : Len(t[n]) <= Len(lines[n]) + 1
      BY <1>1
    <3>2. lines \in Seq(Seq(S)) /\ t \in Seq(Seq(S)) /\ Len(t) = Len(lines) /\ 1 \in {0, 1}
      BY <1>0, <1>4
    <3> QED BY <3>1, <3>2, FlattenLonger
  <2> QED BY <2>1
<1>7. l <= Len(FlattenSeq(lines))
  BY FlattenCounts
<1>8. Len(FlattenSeq(lines)) \in Nat /\ Len(FlattenSeq(t)) \in Nat
  <2>1. FlattenSeq(lines) \in Seq(S)
    BY <1>0, FlattenType
  <2> QED BY <1>5, <2>1
<1>9. Len(FlattenSeq(t)) <= 2 * Len(FlattenSeq(lines))
  BY <1>0, <1>6, <1>7, <1>8
<1> QED BY <1>3, <1>4, <1>5, <1>9 DEF t

\* OneLine() at most doubles the length of words that are not empty.
LEMMA OneLineType ==
  ASSUME NEW S, Space \in S, NEW found \in Seq(Seq(S) \ {<<>>})
  PROVE  /\ OneLine(found) \in Seq(S)
         /\ Len(OneLine(found)) <= 2 * Len(FlattenSeq(found))
<1> DEFINE t == [n \in DOMAIN found |-> <<" ">> \o found[n]]
           l == Len(found)
           X == Seq(S)
<1>0. /\ l \in Nat /\ DOMAIN found = 1 .. l /\ found \in Seq(X)
      /\ \A n \in 1 .. l : found[n] \in Seq(S) /\ found[n] # <<>>
  OBVIOUS
<1>1. \A n \in 1 .. l : t[n] \in X /\ Len(t[n]) <= Len(found[n]) + 1
  <2> TAKE n \in 1 .. l
  <2>1. t[n] = <<Space>> \o found[n]
    BY <1>0 DEF Space
  <2> DEFINE w == found[n]
  <2>2. w \in Seq(S)
    BY <1>0
  <2> HIDE DEF w
  <2>3. <<Space>> \o w \in Seq(S) /\ Len(<<Space>> \o w) = Len(w) + 1
    BY <2>2
  <2> HIDE DEF t
  <2> QED BY <2>1, <2>3 DEF w
<1>2. t = [n \in 1 .. l |-> t[n]]
  BY <1>0
<1>3. OneLine(found) = FlattenSeq(t)
  BY DEF OneLine
<1> HIDE DEF t
<1>4. t \in Seq(X) /\ Len(t) = l
  <2> HIDE DEF X
  <2>1. t \in [1 .. l -> X]
    BY <1>1, <1>2
  <2> QED BY <1>0, <2>1, MapType
<1>5. FlattenSeq(t) \in Seq(S)
  BY <1>4, FlattenType
<1>6. Len(FlattenSeq(t)) <= Len(FlattenSeq(found)) + l
  <2>1. Len(FlattenSeq(t)) <= Len(FlattenSeq(found)) + (IF 1 = 1 THEN Len(found) ELSE 0)
    <3>1. \A n \in 1 .. Len(found) : Len(t[n]) <= Len(found[n]) + 1
      BY <1>1
    <3>2. found \in Seq(Seq(S)) /\ t \in Seq(Seq(S)) /\ Len(t) = Len(found) /\ 1 \in {0, 1}
      BY <1>0, <1>4
    <3> QED BY <3>1, <3>2, FlattenLonger
  <2> QED BY <2>1
<1>7. l <= Len(FlattenSeq(found))
  BY FlattenCounts
<1>8. Len(FlattenSeq(found)) \in Nat /\ Len(FlattenSeq(t)) \in Nat
  <2>1. FlattenSeq(found) \in Seq(S)
    BY <1>0, FlattenType
  <2> QED BY <1>5, <2>1
<1>9. Len(FlattenSeq(t)) <= 2 * Len(FlattenSeq(found))
  BY <1>0, <1>6, <1>7, <1>8
<1> QED BY <1>3, <1>5, <1>9

\* The first members of a sequence.
LEMMA PrefixType ==
  ASSUME NEW S, NEW s \in Seq(S), NEW n \in 0 .. Len(s)
  PROVE  /\ SubSeq(s, 1, n) \in Seq(S) /\ Len(SubSeq(s, 1, n)) = n
         /\ \A i \in 1 .. n : SubSeq(s, 1, n)[i] = s[i] /\ i \in 1 .. Len(s)
  OBVIOUS

\* A sequence is its front and its last member.
LEMMA FrontLast ==
  ASSUME NEW S, NEW s \in Seq(S), s # <<>>
  PROVE  /\ Front(s) \in Seq(S) /\ Last(s) \in S /\ s = Append(Front(s), Last(s))
         /\ Len(Front(s)) = Len(s) - 1 /\ Len(s) \in Nat
<1>1. Front(s) = SubSeq(s, 1, Len(s) - 1) /\ Last(s) = s[Len(s)]
  BY DEF Front, Last
<1>2. Len(s) \in Nat /\ Len(s) # 0
  OBVIOUS
<1>3. SubSeq(s, 1, Len(s) - 1) \in Seq(S) /\ Len(SubSeq(s, 1, Len(s) - 1)) = Len(s) - 1
  <2>1. Len(s) - 1 \in 0 .. Len(s)
    BY <1>2
  <2>2. SubSeq(s, 1, Len(s) - 1) \in Seq(S)
    BY <2>1
  <2>3. Len(SubSeq(s, 1, Len(s) - 1)) = Len(s) - 1
    BY <2>1, PrefixType
  <2> QED BY <2>2, <2>3
<1>4. s[Len(s)] \in S
  BY <1>2
<1>5. s = Append(SubSeq(s, 1, Len(s) - 1), s[Len(s)])
  BY <1>2
<1> QED BY <1>1, <1>2, <1>3, <1>4, <1>5

-----------------------------------------------------------------------------
(* JoinHyphens *)

Joining(C) == {d \in [words : Seq(Seq(C) \ {<<>>}), open : BOOLEAN] : d.open => d.words # <<>>}

\* One turn of the loop.
Hyphen(d, w) ==
  IF d.open
    THEN [words |-> Front(d.words) \o <<Last(d.words) \o w>>, open |-> FALSE]
    ELSE [words |-> Append(d.words, IF Hyphenated(w) THEN Front(w) ELSE w),
          open  |-> Hyphenated(w)]

\* f[n] is what the first n words make.
Hyphens(f, found, C) ==
  /\ f \in [0 .. Len(found) -> Joining(C)]
  /\ f[0] = [words |-> <<>>, open |-> FALSE]
  /\ \A n \in 1 .. Len(found) : f[n] = Hyphen(f[n - 1], found[n])

\* A turn of the loop over hyphens makes words of words, and no longer ones.
LEMMA HyphenType ==
  ASSUME NEW C, NEW d \in Joining(C), NEW w \in Seq(C) \ {<<>>}
  PROVE  /\ Hyphen(d, w) \in Joining(C)
         /\ Len(FlattenSeq(Hyphen(d, w).words)) <= Len(FlattenSeq(d.words)) + Len(w)
<1> DEFINE X == Seq(C) \ {<<>>}
           F(s) == FlattenSeq(s)
<1>0. /\ d.words \in Seq(X) /\ d.open \in BOOLEAN /\ (d.open => d.words # <<>>)
      /\ w \in X /\ w \in Seq(C) /\ w # <<>>
  BY DEF Joining
<1>1. \A s \in Seq(X) : s \in Seq(Seq(C)) /\ F(s) \in Seq(C)
  <2> TAKE s \in Seq(X)
  <2>1. s \in Seq(Seq(C))
    OBVIOUS
  <2> QED BY <2>1, FlattenType
<1>2. \A s \in Seq(X), x \in X : Append(s, x) \in Seq(X) /\ F(Append(s, x)) = F(s) \o x
  <2> TAKE s \in Seq(X), x \in X
  <2>1. s \in Seq(Seq(C)) /\ x \in Seq(C)
    BY <1>1
  <2>2. F(Append(s, x)) = F(s) \o x
    BY <2>1, FlattenAppend
  <2>3. Append(s, x) \in Seq(X)
    <3> HIDE DEF X
    <3> QED OBVIOUS
  <2> QED BY <2>2, <2>3
<1>3. CASE d.open
  <2> DEFINE a == Front(d.words)
             b == Last(d.words)
             e == Front(d.words) \o <<Last(d.words) \o w>>
  <2>1. Hyphen(d, w) = [words |-> e, open |-> FALSE]
    BY <1>3 DEF Hyphen
  <2>2. a \in Seq(X) /\ b \in X /\ d.words = Append(a, b)
    <3> HIDE DEF X
    <3> QED BY <1>0, <1>3, FrontLast
  <2>3. b \o w \in X /\ Len(b \o w) = Len(b) + Len(w)
    <3>1. b \in Seq(C) /\ b # <<>>
      BY <2>2
    <3> HIDE DEF b
    <3>2. b \o w \in Seq(C) /\ Len(b \o w) = Len(b) + Len(w) /\ b \o w # <<>>
      BY <1>0, <3>1
    <3> QED BY <3>2
  <2>4. e = Append(a, b \o w)
    <3> DEFINE x == b \o w
    <3>1. a \in Seq(X) /\ x \in X /\ e = a \o <<x>>
      BY <2>2, <2>3
    <3> HIDE DEF a, x, X, e
    <3>2. e = Append(a, x)
      BY <3>1
    <3> QED BY <3>2 DEF x
  <2> HIDE DEF a, b, e, F
  <2>5. e \in Seq(X) /\ F(e) = F(a) \o (b \o w) /\ F(d.words) = F(a) \o b
    <3> HIDE DEF X
    <3> QED BY <1>2, <2>2, <2>3, <2>4
  <2>6. F(a) \in Seq(C) /\ b \in Seq(C) /\ b \o w \in Seq(C)
    BY <1>1, <2>2, <2>3
  <2>7. Len(F(a) \o (b \o w)) = Len(F(a)) + Len(b \o w) /\ Len(F(a)) \in Nat
    BY <2>6
  <2>8. Len(F(a) \o b) = Len(F(a)) + Len(b) /\ Len(b) \in Nat /\ Len(w) \in Nat
    BY <1>0, <2>6
  <2>9. Len(F(e)) <= Len(F(d.words)) + Len(w)
    BY <2>3, <2>5, <2>7, <2>8
  <2>10. e # <<>>
    <3> HIDE DEF X
    <3> QED BY <2>2, <2>3, <2>4
  <2> QED BY <2>1, <2>5, <2>9 DEF Joining, F
<1>4. CASE ~d.open
  <2> DEFINE x == IF Hyphenated(w) THEN Front(w) ELSE w
             e == Append(d.words, x)
  <2>1. Hyphen(d, w) = [words |-> e, open |-> Hyphenated(w)]
    BY <1>4 DEF Hyphen
  <2>2. x \in X /\ Len(x) <= Len(w) /\ Len(x) \in Nat
    <3>1. CASE Hyphenated(w)
      <4>1. Front(w) \in Seq(C) /\ Len(Front(w)) = Len(w) - 1 /\ Len(w) > 1 /\ Len(w) \in Nat
        BY <1>0, <3>1, FrontLast DEF Hyphenated
      <4>2. Front(w) # <<>>
        BY <4>1
      <4> QED BY <3>1, <4>1, <4>2
    <3>2. CASE ~Hyphenated(w)
      BY <1>0, <3>2
    <3> QED BY <3>1, <3>2
  <2> HIDE DEF x
  <2>3. e \in Seq(X) /\ F(e) = F(d.words) \o x /\ e # <<>>
    <3>1. e \in Seq(X) /\ F(e) = F(d.words) \o x
      BY <1>0, <1>2, <2>2
    <3>2. e # <<>>
      <4> DEFINE a == d.words
      <4>1. a \in Seq(X) /\ x \in X
        BY <1>0, <2>2
      <4> HIDE DEF X, a
      <4>2. Append(a, x) # <<>>
        BY <4>1
      <4> QED BY <4>2 DEF a
    <3> QED BY <3>1, <3>2
  <2>4. F(d.words) \in Seq(C) /\ x \in Seq(C)
    BY <1>0, <1>1, <2>2
  <2> HIDE DEF e, F
  <2>5. Len(F(d.words) \o x) = Len(F(d.words)) + Len(x) /\ Len(F(d.words)) \in Nat /\ Len(w) \in Nat
    BY <1>0, <2>4
  <2>6. Len(F(e)) <= Len(F(d.words)) + Len(w)
    BY <2>2, <2>3, <2>5
  <2>7. Hyphenated(w) \in BOOLEAN
    BY DEF Hyphenated
  <2> QED BY <2>1, <2>3, <2>6, <2>7 DEF Joining, F
<1> QED BY <1>0, <1>3, <1>4

\* JoinHyphens() is a recursive function over the prefixes of the words.
LEMMA HyphensFold ==
  ASSUME NEW C, NEW found \in Seq(Seq(C) \ {<<>>})
  PROVE  \E f : Hyphens(f, found, C) /\ JoinHyphens(found) = f[Len(found)].words
<1> DEFINE G == Joining(C)
           X == Seq(C) \ {<<>>}
           l == Len(found)
           base == [words |-> <<>>, open |-> FALSE]
           step == [n \in 1 .. l |-> [g \in G |-> Hyphen(g, found[n])]]
           F(h) == h = [n \in 0 .. l |-> IF n = 0 THEN base ELSE Hyphen(h[n - 1], found[n])]
           c == CHOOSE h : F(h)
<1>0. l \in Nat /\ base \in G /\ \A n \in 1 .. l : found[n] \in X
  <2>1. base \in G
    BY DEF Joining
  <2>2. l \in Nat /\ \A n \in 1 .. l : found[n] \in X
    <3>1. found \in Seq(X)
      OBVIOUS
    <3> HIDE DEF X
    <3> QED BY <3>1
  <2> QED BY <2>1, <2>2
<1>1. JoinHyphens(found) = c[l].words
  BY DEF JoinHyphens, Fold, Hyphen
<1> HIDE DEF base, l, X
<1>2. step \in [1 .. l -> [G -> G]]
  <2>1. ASSUME NEW n \in 1 .. l, NEW g \in G
        PROVE  Hyphen(g, found[n]) \in G
    <3>1. found[n] \in Seq(C) \ {<<>>}
      BY <1>0 DEF X
    <3> QED BY <3>1, HyphenType
  <2> HIDE DEF G
  <2> QED BY <2>1
<1>3. PICK f : Solves(f, l, G, base, step)
  <2> HIDE DEF step, G
  <2> QED BY <1>0, <1>2, Recursion
<1> HIDE DEF G
<1>4. /\ f \in [0 .. l -> G] /\ f[0] = base
      /\ \A n \in 1 .. l : f[n] = Hyphen(f[n - 1], found[n])
  <2>1. f \in [0 .. l -> G] /\ f[0] = base /\ \A n \in 1 .. l : f[n] = step[n][f[n - 1]]
    <3> HIDE DEF step
    <3> QED BY <1>3 DEF Solves
  <2>2. ASSUME NEW n \in 1 .. l
        PROVE  f[n] = Hyphen(f[n - 1], found[n])
    <3>1. n - 1 \in 0 .. l
      BY <1>0
    <3>2. f[n - 1] \in G
      BY <2>1, <3>1
    <3>3. step[n][f[n - 1]] = Hyphen(f[n - 1], found[n])
      BY <3>2
    <3> HIDE DEF step
    <3> QED BY <2>1, <3>3
  <2> HIDE DEF step
  <2> QED BY <2>1, <2>2
<1>5. F(f)
  BY <1>4
<1>6. F(c)
  <2> HIDE DEF F
  <2> QED BY <1>5
<1> HIDE DEF c
<1>7. c[0] = base /\ \A n \in 1 .. l : c[n] = Hyphen(c[n - 1], found[n])
  <2>1. 0 \in 0 .. l /\ \A n \in 1 .. l : n \in 0 .. l /\ n # 0
    BY <1>0
  <2> QED BY <1>6, <2>1
<1> DEFINE P == {n \in 0 .. l : c[n] = f[n]}
<1>8. 0 .. l \subseteq P
  <2>1. 0 \in P
    BY <1>0, <1>4, <1>7
  <2>2. ASSUME NEW n \in 1 .. l, n - 1 \in P
        PROVE  n \in P
    <3>1. n \in 0 .. l
      BY <1>0
    <3> QED BY <1>4, <1>7, <2>2, <3>1
  <2> HIDE DEF P
  <2> QED BY <1>0, <2>1, <2>2, UpTo
<1>9. l \in 0 .. l
  BY <1>0
<1>10. c[l] = f[l]
  BY <1>8, <1>9
<1>11. Hyphens(f, found, C)
  BY <1>4 DEF Hyphens, l, base, G
<1> QED BY <1>1, <1>10, <1>11 DEF l

\* Joining the hyphenated words makes no text longer.
LEMMA JoinHyphensType ==
  ASSUME NEW C, NEW found \in Seq(Seq(C) \ {<<>>})
  PROVE  /\ JoinHyphens(found) \in Seq(Seq(C) \ {<<>>})
         /\ Len(FlattenSeq(JoinHyphens(found))) <= Len(FlattenSeq(found))
<1> DEFINE l == Len(found)
           X == Seq(C) \ {<<>>}
<1>0. /\ l \in Nat /\ l \in 0 .. l /\ 0 \in 0 .. l
      /\ \A n \in 1 .. l : found[n] \in Seq(C) \ {<<>>} /\ Len(found[n]) \in Nat
  <2>1. l \in Nat /\ \A n \in 1 .. l : found[n] \in X
    <3>1. found \in Seq(X)
      OBVIOUS
    <3> HIDE DEF X
    <3> QED BY <3>1
  <2> HIDE DEF l
  <2> QED BY <2>1
<1>1. PICK f : Hyphens(f, found, C) /\ JoinHyphens(found) = f[l].words
  BY HyphensFold
<1>2. PICK h : Joins(h, found, C) /\ FlattenSeq(found) = h[l]
  <2>1. found \in Seq(Seq(C))
    OBVIOUS
  <2> QED BY <2>1, FlattenJoins
<1> DEFINE A(n) == Len(FlattenSeq(f[n].words))
           H(n) == Len(h[n])
           P == {n \in 0 .. l : A(n) <= H(n)}
<1>3. \A n \in 0 .. l : f[n] \in Joining(C) /\ A(n) \in Nat /\ f[n].words \in Seq(X)
  <2> TAKE n \in 0 .. l
  <2>1. f[n] \in Joining(C)
    BY <1>1 DEF Hyphens
  <2>2. f[n].words \in Seq(X)
    BY <2>1 DEF Joining
  <2>3. f[n].words \in Seq(Seq(C))
    BY <2>2
  <2>4. FlattenSeq(f[n].words) \in Seq(C)
    BY <2>3, FlattenType
  <2> QED BY <2>1, <2>2, <2>4
<1>4. H(0) = 0 /\ \A n \in 1 .. l : H(n - 1) \in Nat /\ H(n) = H(n - 1) + Len(found[n])
  <2>1. H(0) = 0
    BY <1>2 DEF Joins
  <2>2. ASSUME NEW n \in 1 .. l PROVE H(n - 1) \in Nat /\ H(n) = H(n - 1) + Len(found[n])
    <3>1. n - 1 \in 0 .. l
      BY <1>0
    <3>2. h[n - 1] \in Seq(C) /\ h[n] = h[n - 1] \o found[n] /\ found[n] \in Seq(C)
      BY <1>0, <1>2, <3>1 DEF Joins
    <3> QED BY <3>2
  <2> QED BY <2>1, <2>2
<1>5. A(0) = 0
  <2>1. f[0].words = <<>>
    BY <1>1 DEF Hyphens
  <2>2. FlattenSeq(<<>>) = <<>>
    <3>1. <<>> \in Seq(Seq(C))
      OBVIOUS
    <3> QED BY <3>1, FlattenType
  <2> QED BY <2>1, <2>2
<1>6. \A n \in 1 .. l : A(n) <= A(n - 1) + Len(found[n])
  <2> TAKE n \in 1 .. l
  <2>1. n - 1 \in 0 .. l
    BY <1>0
  <2>2. f[n] = Hyphen(f[n - 1], found[n])
    BY <1>1 DEF Hyphens
  <2>3. f[n - 1] \in Joining(C) /\ found[n] \in Seq(C) \ {<<>>}
    BY <1>0, <1>3, <2>1
  <2> QED BY <2>2, <2>3, HyphenType
<1>7. A(l) <= H(l)
  <2> HIDE DEF A, H, l
  <2>1. 0 \in P
    BY <1>0, <1>4, <1>5
  <2>2. ASSUME NEW n \in 1 .. l, n - 1 \in P
        PROVE  n \in P
    <3>1. n - 1 \in 0 .. l /\ n \in 0 .. l /\ A(n - 1) <= H(n - 1)
      BY <1>0, <2>2
    <3>2. A(n) <= A(n - 1) + Len(found[n]) /\ H(n) = H(n - 1) + Len(found[n])
      BY <1>4, <1>6
    <3>3. A(n) \in Nat /\ A(n - 1) \in Nat /\ Len(found[n]) \in Nat /\ H(n - 1) \in Nat
      BY <1>0, <1>3, <1>4, <3>1
    <3>4. A(n) <= H(n)
      BY <3>1, <3>2, <3>3
    <3> QED BY <3>1, <3>4
  <2>3. 0 .. l \subseteq P
    <3> HIDE DEF P
    <3> QED BY <1>0, <2>1, <2>2, UpTo
  <2> QED BY <1>0, <2>3
<1> QED BY <1>0, <1>1, <1>2, <1>3, <1>7

-----------------------------------------------------------------------------
(* extract_text().  C are the characters that its texts are made of. *)

TokenOf(C) ==
  {t \in Tokens : /\ t.parts \in Seq(Seq(C)) /\ (t.kind = "string" => t.text \in Seq(C))
                  /\ Len(t.text) <= Longest /\ Len(FlattenSeq(t.parts)) <= Longest}

Fields(C) ==
  [status : {"on", "over", "thrown"}, stack : Seq(TokenOf(C)), isText : BOOLEAN,
   font : Fonts \cup {"none"}, found : Seq(Seq(C) \ {<<>>}), size : Nat]

\* What has been found is counted, and is no longer than the limit and one text.
Reader(C) ==
  {r \in Fields(C) : r.size = Len(FlattenSeq(r.found)) /\ r.size <= MaxPdf + Longest}

\* A reader below the limit stays one when it keeps words of one operand.
LEMMA KeepType ==
  ASSUME NEW C, NEW r \in Reader(C), r.size <= MaxPdf,
         NEW new \in Seq(Seq(C) \ {<<>>}), Len(FlattenSeq(new)) <= Longest
  PROVE  /\ Keep(r, new) \in Reader(C)
         /\ Keep(r, new).stack = r.stack /\ Keep(r, new).found = r.found \o new
<1> DEFINE X == Seq(C) \ {<<>>}
           found == r.found \o new
           amount == r.size + Len(FlattenSeq(new))
<1>1. r \in Fields(C) /\ r.size = Len(FlattenSeq(r.found)) /\ r.size \in Nat /\ r.found \in Seq(X)
  BY DEF Reader, Fields
<1>2. found \in Seq(X)
  <2> DEFINE a == r.found
  <2>1. a \in Seq(X) /\ new \in Seq(X)
    BY <1>1
  <2> HIDE DEF a, X
  <2>2. a \o new \in Seq(X)
    BY <2>1
  <2> QED BY <2>2 DEF a
<1>3. Len(FlattenSeq(found)) = amount /\ Len(FlattenSeq(new)) \in Nat
  <2>1. r.found \in Seq(Seq(C)) /\ new \in Seq(Seq(C))
    BY <1>1
  <2>2. FlattenSeq(found) = FlattenSeq(r.found) \o FlattenSeq(new)
    BY <2>1, FlattenConcat
  <2> DEFINE a == FlattenSeq(r.found)
             b == FlattenSeq(new)
  <2>3. a \in Seq(C) /\ b \in Seq(C)
    BY <2>1, FlattenType
  <2> HIDE DEF a, b
  <2>4. Len(a \o b) = Len(a) + Len(b) /\ Len(b) \in Nat
    BY <2>3
  <2> QED BY <1>1, <2>2, <2>4 DEF a, b
<1>4. amount \in Nat /\ amount <= MaxPdf + Longest
  BY <1>1, <1>3, PdfAssumption, LimitAssumption
<1>5. Keep(r, new) = [r EXCEPT !.found = found, !.size = amount]
  BY <1>1 DEF Keep, Fields
<1> HIDE DEF found, amount, X
<1>6. /\ [r EXCEPT !.found = found, !.size = amount] \in Fields(C)
      /\ [r EXCEPT !.found = found, !.size = amount].found = found
      /\ [r EXCEPT !.found = found, !.size = amount].size = amount
      /\ [r EXCEPT !.found = found, !.size = amount].stack = r.stack
  BY <1>1, <1>2, <1>4 DEF Fields, X
<1> QED BY <1>3, <1>4, <1>5, <1>6 DEF Reader, found

\* The other changes leave what has been found.
LEMMA ReaderType ==
  ASSUME NEW C, NEW r \in Reader(C)
  PROVE  /\ \A stack \in Seq(TokenOf(C)) : [r EXCEPT !.stack = stack] \in Reader(C)
         /\ Clear(r) \in Reader(C) /\ Over(r) \in Reader(C) /\ Thrown(r) \in Reader(C)
         /\ [r EXCEPT !.isText = TRUE] \in Reader(C)
         /\ [r EXCEPT !.stack = <<>>, !.isText = FALSE, !.font = "none"] \in Reader(C)
         /\ \A f \in Fonts \cup {"none"} : [r EXCEPT !.font = f] \in Reader(C)
<1> DEFINE T == TokenOf(C)
           X == Seq(C) \ {<<>>}
           Fs == Fonts \cup {"none"}
<1>0. <<>> \in Seq(T) /\ "none" \in Fs
  OBVIOUS
<1>1. r \in Fields(C) /\ r.size = Len(FlattenSeq(r.found)) /\ r.size <= MaxPdf + Longest
  BY DEF Reader
<1> HIDE DEF T, X, Fs
<1>2. Fields(C) = [status : {"on", "over", "thrown"}, stack : Seq(T), isText : BOOLEAN,
                   font : Fs, found : Seq(X), size : Nat]
  BY DEF Fields, T, X, Fs
<1> DEFINE R == [status : {"on", "over", "thrown"}, stack : Seq(T), isText : BOOLEAN,
                 font : Fs, found : Seq(X), size : Nat]
<1>r. r \in R
  BY <1>1, <1>2
<1>3. ASSUME NEW q \in R, q.found = r.found, q.size = r.size
      PROVE  q \in Reader(C)
  BY <1>1, <1>2, <1>3 DEF Reader
<1>4. ASSUME NEW stack \in Seq(T)
      PROVE  /\ [r EXCEPT !.stack = stack] \in R
             /\ [r EXCEPT !.stack = stack].found = r.found
             /\ [r EXCEPT !.stack = stack].size = r.size
  BY <1>r
<1>5. Clear(r) \in R /\ Clear(r).found = r.found /\ Clear(r).size = r.size
  BY <1>0, <1>r DEF Clear
<1>6. /\ Over(r) \in R /\ Over(r).found = r.found /\ Over(r).size = r.size
      /\ Thrown(r) \in R /\ Thrown(r).found = r.found /\ Thrown(r).size = r.size
  BY <1>r DEF Over, Thrown
<1>7. /\ [r EXCEPT !.isText = TRUE] \in R
      /\ [r EXCEPT !.isText = TRUE].found = r.found
      /\ [r EXCEPT !.isText = TRUE].size = r.size
  BY <1>r
<1>8. /\ [r EXCEPT !.stack = <<>>, !.isText = FALSE, !.font = "none"] \in R
      /\ [r EXCEPT !.stack = <<>>, !.isText = FALSE, !.font = "none"].found = r.found
      /\ [r EXCEPT !.stack = <<>>, !.isText = FALSE, !.font = "none"].size = r.size
  BY <1>0, <1>r
<1>9. ASSUME NEW f \in Fs
      PROVE  /\ [r EXCEPT !.font = f] \in R
             /\ [r EXCEPT !.font = f].found = r.found
             /\ [r EXCEPT !.font = f].size = r.size
  BY <1>r
<1> HIDE DEF R
<1> QED BY <1>3, <1>4, <1>5, <1>6, <1>7, <1>8, <1>9 DEF Fs, T

\* A reader stays one when it drops operands.
LEMMA PopType ==
  ASSUME NEW C, NEW r \in Reader(C), NEW n \in 1 .. Len(r.stack)
  PROVE  Pop(r, n) \in Reader(C)
<1> DEFINE st == r.stack
           T == TokenOf(C)
<1>1. st \in Seq(T)
  BY DEF Reader, Fields
<1> HIDE DEF st, T
<1>2. SubSeq(st, 1, Len(st) - n) \in Seq(T)
  <2>1. Len(st) - n \in 0 .. Len(st)
    BY <1>1 DEF st
  <2> QED BY <1>1, <2>1, PrefixType
<1>3. Pop(r, n) = [r EXCEPT !.stack = SubSeq(st, 1, Len(st) - n)]
  BY DEF Pop, st
<1> QED BY <1>2, <1>3, ReaderType DEF T

\* The operand on top of the stack is a token of the page.
LEMMA TopType ==
  ASSUME NEW C, NEW r \in Reader(C), r.stack # <<>>
  PROVE  /\ Top(r) \in TokenOf(C) /\ Len(r.stack) \in Nat /\ Len(r.stack) # 0
         /\ Top(r).parts \in Seq(Seq(C)) /\ Len(FlattenSeq(Top(r).parts)) <= Longest
         /\ Top(r).kind = "string" => Top(r).text \in Seq(C) /\ Len(Top(r).text) <= Longest
<1> DEFINE st == r.stack
           T == TokenOf(C)
<1>1. st \in Seq(T) /\ st # <<>> /\ Top(r) = Last(st)
  BY DEF Reader, Fields, Top
<1> HIDE DEF st, T
<1>2. Last(st) \in T /\ Len(st) \in Nat /\ Len(st) # 0
  <2>1. Last(st) \in T
    BY <1>1, FrontLast
  <2>2. Len(st) \in Nat /\ Len(st) # 0
    BY <1>1
  <2> QED BY <2>1, <2>2
<1>3. Top(r) \in TokenOf(C)
  BY <1>1, <1>2 DEF T
<1> QED BY <1>2, <1>3 DEF TokenOf, st

\* "Tf" makes a reader of a reader.
LEMMA SetFontType ==
  ASSUME NEW C, NEW r \in Reader(C)
  PROVE  SetFont(r) \in Reader(C)
<1>1. Len(r.stack) \in Nat
  BY DEF Reader, Fields
<1>2. CASE Len(r.stack) < 2
  BY <1>2, ReaderType DEF SetFont
<1>3. CASE Len(r.stack) >= 2
  <2> DEFINE operand == r.stack[Len(r.stack) - 1]
  <2>1. Pop(r, 1) \in Reader(C)
    BY <1>1, <1>3, PopType
  <2>2. SetFont(r) = IF operand.kind # "name" THEN Thrown(r)
                     ELSE IF operand.name \in Fonts THEN [Pop(r, 1) EXCEPT !.font = operand.name]
                     ELSE Over(r)
    BY <1>1, <1>3 DEF SetFont
  <2>3. Thrown(r) \in Reader(C) /\ Over(r) \in Reader(C)
    BY ReaderType
  <2>4. operand.name \in Fonts => [Pop(r, 1) EXCEPT !.font = operand.name] \in Reader(C)
    <3> HIDE DEF operand
    <3> QED BY <2>1, ReaderType
  <2> HIDE DEF operand
  <2> QED BY <2>2, <2>3, <2>4
<1> QED BY <1>1, <1>2, <1>3

\* "Tj" and the quotes make a reader of a reader.
LEMMA ShowType ==
  ASSUME NEW C, NEW r \in Reader(C), r.size <= MaxPdf, NEW n \in 1 .. Len(r.stack)
  PROVE  Show(r, n) \in Reader(C)
<1>1. r.stack \in Seq(TokenOf(C)) /\ r.stack # <<>>
  BY DEF Reader, Fields
<1> DEFINE s == Utf8(r, Top(r).text)
           new == IF s \in {<<>>, <<" ">>} THEN <<>> ELSE <<s>>
<1>2. Show(r, n) = IF Top(r).kind = "string" THEN Pop(Keep(r, new), n) ELSE Thrown(r)
  BY DEF Show
<1>3. CASE Top(r).kind = "string"
  <2>1. Top(r).text \in Seq(C) /\ Len(Top(r).text) <= Longest /\ Len(Top(r).text) \in Nat
    BY <1>1, <1>3, TopType
  <2>2. s \in Seq(C) /\ Len(s) <= Longest /\ Longest \in Nat
    <3>1. s = Top(r).text \/ s = <<>>
      BY DEF Utf8
    <3>2. <<>> \in Seq(C) /\ Len(<<>>) = 0
      OBVIOUS
    <3>3. Longest \in Nat
      BY LimitAssumption
    <3> HIDE DEF s
    <3>4. CASE s = Top(r).text
      BY <2>1, <3>3, <3>4
    <3>5. CASE s = <<>>
      <4>1. 0 <= Longest
        BY <3>3
      <4> QED BY <3>2, <3>3, <3>5, <4>1
    <3> QED BY <3>1, <3>4, <3>5
  <2> HIDE DEF s
  <2>3. new \in Seq(Seq(C) \ {<<>>}) /\ Len(FlattenSeq(new)) <= Longest
    <3>1. CASE s \in {<<>>, <<" ">>}
      <4>1. new = <<>>
        BY <3>1
      <4>2. FlattenSeq(<<>>) = <<>>
        <5>1. <<>> \in Seq(Seq(C))
          OBVIOUS
        <5> QED BY <5>1, FlattenType
      <4>3. <<>> \in Seq(Seq(C) \ {<<>>}) /\ Len(<<>>) = 0
        <5> DEFINE X == Seq(C) \ {<<>>}
        <5> HIDE DEF X
        <5>1. <<>> \in Seq(X) /\ Len(<<>>) = 0
          OBVIOUS
        <5> QED BY <5>1 DEF X
      <4>4. 0 <= Longest
        BY <2>2
      <4> HIDE DEF new
      <4> QED BY <4>1, <4>2, <4>3, <4>4
    <3>2. CASE s \notin {<<>>, <<" ">>}
      <4>1. new = <<s>> /\ s \in Seq(C) \ {<<>>}
        BY <2>2, <3>2
      <4>2. FlattenSeq(<<s>>) = s
        BY <2>2, FlattenOne
      <4>3. <<s>> \in Seq(Seq(C) \ {<<>>})
        <5> DEFINE X == Seq(C) \ {<<>>}
        <5>1. s \in X
          BY <4>1
        <5> HIDE DEF X
        <5>2. <<s>> \in Seq(X)
          BY <5>1
        <5> QED BY <5>2 DEF X
      <4> HIDE DEF new
      <4> QED BY <2>2, <4>1, <4>2, <4>3
    <3> QED BY <3>1, <3>2
  <2> HIDE DEF new
  <2>4. Keep(r, new) \in Reader(C) /\ Keep(r, new).stack = r.stack
    BY <2>3, KeepType
  <2>5. Pop(Keep(r, new), n) \in Reader(C)
    BY <2>4, PopType
  <2> QED BY <1>2, <1>3, <2>5
<1>4. CASE Top(r).kind # "string"
  BY <1>2, <1>4, ReaderType
<1> QED BY <1>3, <1>4

\* What an array shows: words of its characters, and no more of them.
LEMMA TextsType ==
  ASSUME NEW C, NEW r, NEW parts \in Seq(Seq(C))
  PROVE  LET texts == [i \in DOMAIN parts |-> Utf8(r, parts[i])]
         IN /\ texts \in Seq(Seq(C)) /\ Len(texts) = Len(parts)
            /\ Gather(texts, {<<" ">>}) \in Seq(Seq(C) \ {<<>>})
            /\ Len(FlattenSeq(Gather(texts, {<<" ">>}))) <= Len(FlattenSeq(parts))
<1> DEFINE texts == [i \in DOMAIN parts |-> Utf8(r, parts[i])]
           l == Len(parts)
           X == Seq(C)
           list == Gather(texts, {<<" ">>})
<1>0. l \in Nat /\ DOMAIN parts = 1 .. l /\ \A i \in 1 .. l : parts[i] \in X
  OBVIOUS
<1>1. \A i \in 1 .. l : texts[i] \in X /\ Len(texts[i]) <= Len(parts[i]) + 0
  <2> TAKE i \in 1 .. l
  <2>1. texts[i] = parts[i] \/ texts[i] = <<>>
    BY <1>0 DEF Utf8
  <2>2. <<>> \in X /\ Len(<<>>) = 0 /\ Len(parts[i]) \in Nat /\ parts[i] \in X
    BY <1>0
  <2> HIDE DEF texts, X
  <2>3. CASE texts[i] = parts[i]
    BY <2>2, <2>3
  <2>4. CASE texts[i] = <<>>
    BY <2>2, <2>4
  <2> QED BY <2>1, <2>3, <2>4
<1>2. texts = [i \in 1 .. l |-> texts[i]]
  BY <1>0
<1> HIDE DEF texts, l
<1>3. texts \in Seq(X) /\ Len(texts) = l
  <2> HIDE DEF X
  <2>1. texts \in [1 .. l -> X]
    BY <1>1, <1>2
  <2> QED BY <1>0, <2>1, MapType
<1>4. Len(FlattenSeq(texts)) <= Len(FlattenSeq(parts))
  <2>1. Len(FlattenSeq(texts)) <= Len(FlattenSeq(parts)) + (IF 0 = 1 THEN Len(parts) ELSE 0)
    <3>1. 0 \in {0, 1} /\ Len(texts) = Len(parts)
      BY <1>3 DEF l
    <3>2. \A i \in 1 .. Len(parts) : Len(texts[i]) <= Len(parts[i]) + 0
      BY <1>1 DEF l
    <3> QED BY <1>3, <3>1, <3>2, FlattenLonger
  <2>2. FlattenSeq(parts) \in Seq(C)
    BY FlattenType
  <2> QED BY <2>1, <2>2
<1>5. \A n \in 1 .. Len(texts) : texts[n] \in {<<" ">>} \/ texts[n] \in Seq(C)
  BY <1>1, <1>3
<1>6. list \in Seq(Seq(C) \ {<<>>}) /\ Len(FlattenSeq(list)) <= Len(FlattenSeq(texts))
  BY <1>3, <1>5, GatherType, GatherLength
<1> HIDE DEF list
<1>7. Len(FlattenSeq(list)) <= Len(FlattenSeq(parts))
  <2>1. list \in Seq(Seq(C))
    BY <1>6
  <2>2. FlattenSeq(list) \in Seq(C) /\ FlattenSeq(texts) \in Seq(C) /\ FlattenSeq(parts) \in Seq(C)
    BY <1>3, <2>1, FlattenType
  <2>3. /\ Len(FlattenSeq(list)) \in Nat /\ Len(FlattenSeq(texts)) \in Nat
        /\ Len(FlattenSeq(parts)) \in Nat
    BY <2>2
  <2> QED BY <1>4, <1>6, <2>3
<1> QED BY <1>3, <1>6, <1>7 DEF texts, l, list

\* "TJ" makes a reader of a reader.
LEMMA ShowArrayType ==
  ASSUME NEW C, NEW r \in Reader(C), r.size <= MaxPdf
  PROVE  ShowArray(r) \in Reader(C)
<1>0. Len(r.stack) \in Nat /\ r.stack \in Seq(TokenOf(C))
  BY DEF Reader, Fields
<1> DEFINE parts == Top(r).parts
           new == Gather([i \in DOMAIN parts |-> Utf8(r, parts[i])], {<<" ">>})
<1>1. CASE Len(r.stack) < 3
  BY <1>1 DEF ShowArray
<1>2. CASE Len(r.stack) >= 3 /\ Top(r).kind # "array"
  <2>1. ShowArray(r) = Thrown(r)
    BY <1>0, <1>2 DEF ShowArray
  <2> QED BY <2>1, ReaderType
<1>3. CASE Len(r.stack) >= 3 /\ Top(r).kind = "array"
  <2>1. ShowArray(r) = Pop(Keep(r, new), 1)
    <3>1. ~(Len(r.stack) < 3)
      BY <1>0, <1>3
    <3> QED BY <1>3, <3>1, Zenon DEF ShowArray
  <2>2. r.stack # <<>>
    BY <1>0, <1>3
  <2>3. parts \in Seq(Seq(C)) /\ Len(FlattenSeq(parts)) <= Longest
    BY <2>2, TopType
  <2>4. new \in Seq(Seq(C) \ {<<>>}) /\ Len(FlattenSeq(new)) <= Len(FlattenSeq(parts))
    <3> HIDE DEF parts
    <3> QED BY <2>3, TextsType
  <2> HIDE DEF parts, new
  <2>5. Len(FlattenSeq(new)) <= Longest
    <3>1. new \in Seq(Seq(C))
      BY <2>4
    <3>2. FlattenSeq(new) \in Seq(C) /\ FlattenSeq(parts) \in Seq(C)
      BY <2>3, <3>1, FlattenType
    <3>3. Len(FlattenSeq(new)) \in Nat /\ Len(FlattenSeq(parts)) \in Nat /\ Longest \in Nat
      BY <3>2, LimitAssumption
    <3> QED BY <2>3, <2>4, <3>3
  <2>6. Keep(r, new) \in Reader(C) /\ Keep(r, new).stack = r.stack
    BY <2>4, <2>5, KeepType
  <2>7. Pop(Keep(r, new), 1) \in Reader(C)
    <3>1. 1 \in 1 .. Len(Keep(r, new).stack)
      BY <1>0, <1>3, <2>6
    <3> QED BY <2>6, <3>1, PopType
  <2> QED BY <2>1, <2>7
<1> QED BY <1>0, <1>1, <1>2, <1>3

\* Every operator makes a reader of a reader.
LEMMA ObeyType ==
  ASSUME NEW C, NEW r \in Reader(C), r.size <= MaxPdf, NEW k
  PROVE  Obey(r, k) \in Reader(C)
<1>0. Len(r.stack) \in Nat /\ (r.stack # <<>> => Len(r.stack) # 0)
  BY DEF Reader, Fields
<1>1. /\ Clear(r) \in Reader(C) /\ SetFont(r) \in Reader(C) /\ ShowArray(r) \in Reader(C)
      /\ [r EXCEPT !.isText = TRUE] \in Reader(C)
  BY ReaderType, SetFontType, ShowArrayType
<1>2. (IF r.stack = <<>> THEN r ELSE Show(r, 1)) \in Reader(C)
  <2>1. CASE r.stack = <<>>
    BY <2>1
  <2>2. CASE r.stack # <<>>
    <3>1. 1 \in 1 .. Len(r.stack)
      BY <1>0, <2>2
    <3> QED BY <2>2, <3>1, ShowType
  <2> QED BY <2>1, <2>2
<1>3. (IF Len(r.stack) < 3 THEN Clear(r) ELSE Show(r, 3)) \in Reader(C)
  <2>1. CASE Len(r.stack) < 3
    BY <1>1, <2>1
  <2>2. CASE Len(r.stack) >= 3
    <3>1. 3 \in 1 .. Len(r.stack)
      BY <1>0, <2>2
    <3>2. Show(r, 3) \in Reader(C)
      BY <3>1, ShowType
    <3> QED BY <1>0, <2>2, <3>2
  <2> QED BY <1>0, <2>1, <2>2
<1> QED BY <1>1, <1>2, <1>3 DEF Obey

\* Every token makes a reader of a reader.
LEMMA ReadTokenType ==
  ASSUME NEW C, NEW r \in Reader(C), NEW token \in TokenOf(C)
  PROVE  ReadToken(r, token) \in Reader(C)
<1>0. r.size \in Nat /\ MaxPdf \in Nat /\ r.stack \in Seq(TokenOf(C))
  BY PdfAssumption DEF Reader, Fields
<1>1. CASE r.status # "on"
  BY <1>1 DEF ReadToken
<1>2. CASE r.status = "on" /\ r.size > MaxPdf
  <2>1. ReadToken(r, token) = Over(r)
    BY <1>2 DEF ReadToken
  <2> QED BY <2>1, ReaderType
<1>3. CASE r.status = "on" /\ ~(r.size > MaxPdf) /\ token.kind = "keyword"
  <2>1. ReadToken(r, token) = Obey(r, token.name) /\ r.size <= MaxPdf
    BY <1>0, <1>3 DEF ReadToken
  <2> QED BY <2>1, ObeyType
<1>4. CASE r.status = "on" /\ ~(r.size > MaxPdf) /\ token.kind # "keyword"
  <2> DEFINE st == r.stack
  <2>1. ReadToken(r, token) = [r EXCEPT !.stack = Append(st, token)]
    BY <1>4 DEF ReadToken
  <2>2. Append(st, token) \in Seq(TokenOf(C))
    <3>1. st \in Seq(TokenOf(C))
      BY <1>0
    <3> HIDE DEF st
    <3> QED BY <3>1
  <2> DEFINE new == Append(st, token)
  <2> HIDE DEF new
  <2>3. ReadToken(r, token) = [r EXCEPT !.stack = new] /\ new \in Seq(TokenOf(C))
    BY <2>1, <2>2 DEF new
  <2>4. \A stack \in Seq(TokenOf(C)) : [r EXCEPT !.stack = stack] \in Reader(C)
    BY ReaderType
  <2>5. [r EXCEPT !.stack = new] \in Reader(C)
    BY <2>3, <2>4, Zenon
  <2> QED BY <2>3, <2>5, Zenon
<1> QED BY <1>1, <1>2, <1>3, <1>4

\* f[n] is the reader after the first n tokens of a page, and after n pages.
ReadsTokens(f, r, page, C) ==
  /\ f \in [0 .. Len(page) -> Reader(C)] /\ f[0] = r
  /\ \A n \in 1 .. Len(page) : f[n] = ReadToken(f[n - 1], page[n])
ReadsPages(f, r, document, C) ==
  /\ f \in [0 .. Len(document) -> Reader(C)] /\ f[0] = r
  /\ \A n \in 1 .. Len(document) : f[n] = ReadPage(f[n - 1], document[n])

\* A page is read by a recursive function over the prefixes of its tokens.
LEMMA TokensFold ==
  ASSUME NEW C, NEW base \in Reader(C), NEW page \in Seq(TokenOf(C))
  PROVE  \E f : ReadsTokens(f, base, page, C) /\ Fold(ReadToken, base, page) = f[Len(page)]
<1> DEFINE G == Reader(C)
           X == TokenOf(C)
           l == Len(page)
           step == [n \in 1 .. l |-> [g \in G |-> ReadToken(g, page[n])]]
           F(h) == h = [n \in 0 .. l |-> IF n = 0 THEN base ELSE ReadToken(h[n - 1], page[n])]
           c == CHOOSE h : F(h)
<1>0. l \in Nat /\ base \in G /\ \A n \in 1 .. l : page[n] \in X
  OBVIOUS
<1>1. Fold(ReadToken, base, page) = c[l]
  BY DEF Fold
<1> HIDE DEF l
<1>2. step \in [1 .. l -> [G -> G]]
  <2>1. ASSUME NEW n \in 1 .. l, NEW g \in G
        PROVE  ReadToken(g, page[n]) \in G
    BY <1>0, ReadTokenType
  <2> HIDE DEF G
  <2> QED BY <2>1
<1>3. PICK f : Solves(f, l, G, base, step)
  <2> HIDE DEF step, G
  <2> QED BY <1>0, <1>2, Recursion
<1> HIDE DEF G, X
<1>4. /\ f \in [0 .. l -> G] /\ f[0] = base
      /\ \A n \in 1 .. l : f[n] = ReadToken(f[n - 1], page[n])
  <2>1. f \in [0 .. l -> G] /\ f[0] = base /\ \A n \in 1 .. l : f[n] = step[n][f[n - 1]]
    <3> HIDE DEF step
    <3> QED BY <1>3 DEF Solves
  <2>2. ASSUME NEW n \in 1 .. l
        PROVE  f[n] = ReadToken(f[n - 1], page[n])
    <3>1. n - 1 \in 0 .. l
      BY <1>0
    <3>2. f[n - 1] \in G
      BY <2>1, <3>1
    <3>3. step[n][f[n - 1]] = ReadToken(f[n - 1], page[n])
      BY <3>2
    <3> HIDE DEF step
    <3> QED BY <2>1, <3>3
  <2> HIDE DEF step
  <2> QED BY <2>1, <2>2
<1>5. F(f)
  BY <1>4
<1>6. F(c)
  <2> HIDE DEF F
  <2> QED BY <1>5
<1> HIDE DEF c
<1>7. c[0] = base /\ \A n \in 1 .. l : c[n] = ReadToken(c[n - 1], page[n])
  <2>1. 0 \in 0 .. l /\ \A n \in 1 .. l : n \in 0 .. l /\ n # 0
    BY <1>0
  <2> QED BY <1>6, <2>1
<1> DEFINE P == {n \in 0 .. l : c[n] = f[n]}
<1>8. 0 .. l \subseteq P
  <2>1. 0 \in P
    BY <1>0, <1>4, <1>7
  <2>2. ASSUME NEW n \in 1 .. l, n - 1 \in P
        PROVE  n \in P
    <3>1. n \in 0 .. l
      BY <1>0
    <3> QED BY <1>4, <1>7, <2>2, <3>1
  <2> HIDE DEF P
  <2> QED BY <1>0, <2>1, <2>2, UpTo
<1>9. l \in 0 .. l
  BY <1>0
<1>10. c[l] = f[l]
  BY <1>8, <1>9
<1>11. ReadsTokens(f, base, page, C)
  BY <1>4 DEF ReadsTokens, l, G
<1> QED BY <1>1, <1>10, <1>11 DEF l

Blank(r) == [r EXCEPT !.stack = <<>>, !.isText = FALSE, !.font = "none"]

\* Every page makes a reader of a reader.
LEMMA ReadPageType ==
  ASSUME NEW C, NEW r \in Reader(C), NEW page \in Seq(TokenOf(C))
  PROVE  /\ ReadPage(r, page) \in Reader(C)
         /\ \E f : ReadsTokens(f, Blank(r), page, C) /\ ReadPage(r, page) = f[Len(page)]
<1>1. Blank(r) \in Reader(C)
  BY ReaderType DEF Blank
<1>2. ReadPage(r, page) = Fold(ReadToken, Blank(r), page)
  BY DEF ReadPage, Blank
<1>3. PICK f : ReadsTokens(f, Blank(r), page, C) /\ ReadPage(r, page) = f[Len(page)]
  BY <1>1, <1>2, TokensFold
<1>4. Len(page) \in 0 .. Len(page)
  OBVIOUS
<1> QED BY <1>3, <1>4 DEF ReadsTokens

\* A document is read by a recursive function over the prefixes of its pages.
LEMMA PagesFold ==
  ASSUME NEW C, NEW base \in Reader(C), NEW document \in Seq(Seq(TokenOf(C)))
  PROVE  \E f : ReadsPages(f, base, document, C) /\ Fold(ReadPage, base, document) = f[Len(document)]
<1> DEFINE G == Reader(C)
           X == Seq(TokenOf(C))
           l == Len(document)
           step == [n \in 1 .. l |-> [g \in G |-> ReadPage(g, document[n])]]
           F(h) == h = [n \in 0 .. l |-> IF n = 0 THEN base ELSE ReadPage(h[n - 1], document[n])]
           c == CHOOSE h : F(h)
<1>0. l \in Nat /\ base \in G /\ \A n \in 1 .. l : document[n] \in X
  OBVIOUS
<1>1. Fold(ReadPage, base, document) = c[l]
  BY DEF Fold
<1> HIDE DEF l
<1>2. step \in [1 .. l -> [G -> G]]
  <2>1. ASSUME NEW n \in 1 .. l, NEW g \in G
        PROVE  ReadPage(g, document[n]) \in G
    BY <1>0, ReadPageType
  <2> HIDE DEF G
  <2> QED BY <2>1
<1>3. PICK f : Solves(f, l, G, base, step)
  <2> HIDE DEF step, G
  <2> QED BY <1>0, <1>2, Recursion
<1> HIDE DEF G, X
<1>4. /\ f \in [0 .. l -> G] /\ f[0] = base
      /\ \A n \in 1 .. l : f[n] = ReadPage(f[n - 1], document[n])
  <2>1. f \in [0 .. l -> G] /\ f[0] = base /\ \A n \in 1 .. l : f[n] = step[n][f[n - 1]]
    <3> HIDE DEF step
    <3> QED BY <1>3 DEF Solves
  <2>2. ASSUME NEW n \in 1 .. l
        PROVE  f[n] = ReadPage(f[n - 1], document[n])
    <3>1. n - 1 \in 0 .. l
      BY <1>0
    <3>2. f[n - 1] \in G
      BY <2>1, <3>1
    <3>3. step[n][f[n - 1]] = ReadPage(f[n - 1], document[n])
      BY <3>2
    <3> HIDE DEF step
    <3> QED BY <2>1, <3>3
  <2> HIDE DEF step
  <2> QED BY <2>1, <2>2
<1>5. F(f)
  BY <1>4
<1>6. F(c)
  <2> HIDE DEF F
  <2> QED BY <1>5
<1> HIDE DEF c
<1>7. c[0] = base /\ \A n \in 1 .. l : c[n] = ReadPage(c[n - 1], document[n])
  <2>1. 0 \in 0 .. l /\ \A n \in 1 .. l : n \in 0 .. l /\ n # 0
    BY <1>0
  <2> QED BY <1>6, <2>1
<1> DEFINE P == {n \in 0 .. l : c[n] = f[n]}
<1>8. 0 .. l \subseteq P
  <2>1. 0 \in P
    BY <1>0, <1>4, <1>7
  <2>2. ASSUME NEW n \in 1 .. l, n - 1 \in P
        PROVE  n \in P
    <3>1. n \in 0 .. l
      BY <1>0
    <3> QED BY <1>4, <1>7, <2>2, <3>1
  <2> HIDE DEF P
  <2> QED BY <1>0, <2>1, <2>2, UpTo
<1>9. l \in 0 .. l
  BY <1>0
<1>10. c[l] = f[l]
  BY <1>8, <1>9
<1>11. ReadsPages(f, base, document, C)
  BY <1>4 DEF ReadsPages, l, G
<1> QED BY <1>1, <1>10, <1>11 DEF l

\* extract_text() starts with a reader.
LEMMA NewReaderIn ==
  ASSUME NEW C
  PROVE  NewReader \in Reader(C)
<1>1. <<>> \in Seq(Seq(C)) /\ Len(<<>>) = 0 /\ MaxPdf \in Nat /\ Longest \in Nat
  BY PdfAssumption, LimitAssumption
<1>2. FlattenSeq(<<>>) = <<>>
  BY <1>1, FlattenType
<1>3. NewReader.size = Len(FlattenSeq(NewReader.found)) /\ NewReader.size <= MaxPdf + Longest
  BY <1>1, <1>2 DEF NewReader
<1> DEFINE X == Seq(C) \ {<<>>}
           T == TokenOf(C)
<1>4. NewReader \in [status : {"on", "over", "thrown"}, stack : Seq(T), isText : BOOLEAN,
                     font : Fonts \cup {"none"}, found : Seq(X), size : Nat]
  <2> HIDE DEF X, T
  <2>1. <<>> \in Seq(T) /\ <<>> \in Seq(X)
    OBVIOUS
  <2> QED BY <2>1 DEF NewReader
<1> QED BY <1>3, <1>4 DEF Reader, Fields

\* What extract_text() reads page by page.
LEMMA ExtractFold ==
  ASSUME NEW C, NEW document \in Seq(Seq(TokenOf(C)))
  PROVE  \E h : ReadsPages(h, NewReader, document, C) /\ ExtractText(document) = h[Len(document)]
BY NewReaderIn, PagesFold DEF ExtractText

\* What extract_text() finds, and how much it is.
LEMMA ExtractType ==
  ASSUME NEW C, NEW document \in Seq(Seq(TokenOf(C)))
  PROVE  ExtractText(document) \in Reader(C)
<1>1. PICK h : ReadsPages(h, NewReader, document, C) /\ ExtractText(document) = h[Len(document)]
  BY ExtractFold
<1>2. Len(document) \in 0 .. Len(document)
  OBVIOUS
<1> QED BY <1>1, <1>2 DEF ReadsPages

-----------------------------------------------------------------------------
(* No word of a PDF file is lost: what the readers keep *)

\* One sequence is the beginning of another.
Begins(a, b) == Len(a) <= Len(b) /\ \A n \in 1 .. Len(a) : b[n] = a[n]

\* The beginning of a beginning is a beginning.
LEMMA BeginsTrans ==
  ASSUME NEW S, NEW a \in Seq(S), NEW b \in Seq(S), NEW c \in Seq(S), Begins(a, b), Begins(b, c)
  PROVE  Begins(a, c)
<1>1. Len(a) \in Nat /\ Len(b) \in Nat /\ Len(c) \in Nat
  OBVIOUS
<1>2. Len(a) <= Len(b) /\ Len(b) <= Len(c) /\ \A n \in 1 .. Len(a) : n \in 1 .. Len(b)
  BY <1>1 DEF Begins
<1> QED BY <1>1, <1>2 DEF Begins

\* A sequence is the beginning of what is concatenated to it, and of itself.
LEMMA BeginsConcat ==
  ASSUME NEW S, NEW a \in Seq(S), NEW b \in Seq(S)
  PROVE  Begins(a, a \o b) /\ Begins(a, a)
<1>1. Len(a) <= Len(a \o b) /\ Len(a) <= Len(a)
  OBVIOUS
<1>2. \A n \in 1 .. Len(a) : (a \o b)[n] = a[n]
  OBVIOUS
<1> QED BY <1>1, <1>2 DEF Begins

\* q is a reader that has come later than r.
Later(r, q) ==
  /\ r.size <= q.size /\ Begins(r.found, q.found)
  /\ r.status # "on" => q.status = r.status

\* What is later than a later reader is later.
LEMMA LaterTrans ==
  ASSUME NEW C, NEW r \in Reader(C), NEW q \in Reader(C), NEW p \in Reader(C), Later(r, q), Later(q, p)
  PROVE  Later(r, p)
<1> DEFINE X == Seq(C) \ {<<>>}
<1>1. /\ r.size \in Nat /\ q.size \in Nat /\ p.size \in Nat
      /\ r.found \in Seq(X) /\ q.found \in Seq(X) /\ p.found \in Seq(X)
  BY DEF Reader, Fields
<1> HIDE DEF X
<1>2. Begins(r.found, p.found)
  BY <1>1, BeginsTrans DEF Later
<1>3. r.size <= p.size
  BY <1>1 DEF Later
<1>4. r.status # "on" => p.status = r.status
  BY DEF Later
<1> QED BY <1>2, <1>3, <1>4 DEF Later

\* What has the same found words and size is later.
LEMMA LaterSame ==
  ASSUME NEW C, NEW r \in Reader(C), NEW q, q.found = r.found, q.size = r.size,
         r.status = "on" \/ q.status = r.status
  PROVE  Later(r, q)
<1> DEFINE X == Seq(C) \ {<<>>}
<1>1. r.size \in Nat /\ r.found \in Seq(X)
  BY DEF Reader, Fields
<1> HIDE DEF X
<1>2. Begins(r.found, r.found)
  BY <1>1, BeginsConcat
<1> QED BY <1>1, <1>2 DEF Later

\* The fields that the changes of a reader leave alone.
LEMMA ChangeFields ==
  ASSUME NEW C, NEW r \in Reader(C)
  PROVE  /\ \A n : /\ Pop(r, n).stack = SubSeq(r.stack, 1, Len(r.stack) - n)
                   /\ Pop(r, n).status = r.status /\ Pop(r, n).isText = r.isText
                   /\ Pop(r, n).font = r.font /\ Pop(r, n).found = r.found /\ Pop(r, n).size = r.size
         /\ Clear(r).stack = <<>> /\ Clear(r).status = r.status /\ Clear(r).isText = r.isText
         /\ Clear(r).font = r.font /\ Clear(r).found = r.found /\ Clear(r).size = r.size
         /\ Over(r).status = "over" /\ Over(r).found = r.found /\ Over(r).size = r.size
         /\ Over(r).stack = r.stack /\ Over(r).isText = r.isText /\ Over(r).font = r.font
         /\ Thrown(r).status = "thrown" /\ Thrown(r).found = r.found /\ Thrown(r).size = r.size
         /\ Thrown(r).stack = r.stack /\ Thrown(r).isText = r.isText /\ Thrown(r).font = r.font
         /\ \A new : /\ Keep(r, new).stack = r.stack /\ Keep(r, new).status = r.status
                     /\ Keep(r, new).isText = r.isText /\ Keep(r, new).font = r.font
                     /\ Keep(r, new).found = r.found \o new
                     /\ Keep(r, new).size = r.size + Len(FlattenSeq(new))
<1> DEFINE X == Seq(C) \ {<<>>}
           T == TokenOf(C)
           Fs == Fonts \cup {"none"}
<1>1. r \in [status : {"on", "over", "thrown"}, stack : Seq(T), isText : BOOLEAN,
             font : Fs, found : Seq(X), size : Nat]
  BY DEF Reader, Fields
<1> HIDE DEF X, T, Fs
<1>2. \A n : /\ Pop(r, n).stack = SubSeq(r.stack, 1, Len(r.stack) - n)
             /\ Pop(r, n).status = r.status /\ Pop(r, n).isText = r.isText
             /\ Pop(r, n).font = r.font /\ Pop(r, n).found = r.found /\ Pop(r, n).size = r.size
  BY <1>1 DEF Pop
<1>3. /\ Clear(r).stack = <<>> /\ Clear(r).status = r.status /\ Clear(r).isText = r.isText
      /\ Clear(r).font = r.font /\ Clear(r).found = r.found /\ Clear(r).size = r.size
  BY <1>1 DEF Clear
<1>4. /\ Over(r).status = "over" /\ Over(r).found = r.found /\ Over(r).size = r.size
      /\ Over(r).stack = r.stack /\ Over(r).isText = r.isText /\ Over(r).font = r.font
  BY <1>1 DEF Over
<1>5. /\ Thrown(r).status = "thrown" /\ Thrown(r).found = r.found /\ Thrown(r).size = r.size
      /\ Thrown(r).stack = r.stack /\ Thrown(r).isText = r.isText /\ Thrown(r).font = r.font
  BY <1>1 DEF Thrown
<1>6. ASSUME NEW new
      PROVE  /\ Keep(r, new).stack = r.stack /\ Keep(r, new).status = r.status
             /\ Keep(r, new).isText = r.isText /\ Keep(r, new).font = r.font
             /\ Keep(r, new).found = r.found \o new
             /\ Keep(r, new).size = r.size + Len(FlattenSeq(new))
  <2> DEFINE f == r.found \o new
             z == r.size + Len(FlattenSeq(new))
  <2>1. Keep(r, new) = [r EXCEPT !.found = f, !.size = z]
    BY <1>1 DEF Keep
  <2> HIDE DEF f, z
  <2>2. /\ Keep(r, new).stack = r.stack /\ Keep(r, new).status = r.status
        /\ Keep(r, new).isText = r.isText /\ Keep(r, new).font = r.font
        /\ Keep(r, new).found = f /\ Keep(r, new).size = z
    BY <1>1, <2>1
  <2> QED BY <2>2 DEF f, z
<1> QED BY <1>2, <1>3, <1>4, <1>5, <1>6

\* "Tf" sets the font that its operands name.
LEMMA SetFontStep ==
  ASSUME NEW C, NEW r \in Reader(C), NEW q, q = SetFont(r)
  PROVE  /\ q.found = r.found /\ q.size = r.size /\ q.isText = r.isText
         /\ \/ q.status = r.status \/ q.status = "thrown"
            \/ /\ q.status = "over" /\ Len(r.stack) >= 2
               /\ r.stack[Len(r.stack) - 1].kind = "name"
               /\ r.stack[Len(r.stack) - 1].name \notin Fonts
         /\ q.status \notin {"over", "thrown"} =>
              IF Len(r.stack) < 2 THEN q.stack = r.stack
              ELSE /\ r.stack[Len(r.stack) - 1].kind = "name"
                   /\ q.font = r.stack[Len(r.stack) - 1].name
                   /\ q.stack = SubSeq(r.stack, 1, Len(r.stack) - 1)
         /\ \/ q.stack = r.stack
            \/ Len(r.stack) >= 2 /\ q.stack = SubSeq(r.stack, 1, Len(r.stack) - 1)
<1>0. Len(r.stack) \in Nat /\ r.status \in {"on", "over", "thrown"}
  BY DEF Reader, Fields
<1>1. CASE Len(r.stack) < 2
  <2>1. q = [r EXCEPT !.font = "none"]
    BY <1>1 DEF SetFont
  <2>2. /\ q.found = r.found /\ q.size = r.size /\ q.isText = r.isText /\ q.stack = r.stack
        /\ q.status = r.status
    BY <2>1 DEF Reader, Fields
  <2> QED BY <1>1, <2>2
<1>2. CASE Len(r.stack) >= 2
  <2> DEFINE operand == r.stack[Len(r.stack) - 1]
             f == operand.name
  <2>1. q = IF operand.kind # "name" THEN Thrown(r)
            ELSE IF f \in Fonts THEN [Pop(r, 1) EXCEPT !.font = f]
            ELSE Over(r)
    BY <1>0, <1>2 DEF SetFont
  <2>2. Pop(r, 1) \in Reader(C)
    BY <1>0, <1>2, PopType
  <2> HIDE DEF f
  <2>3. CASE operand.kind # "name"
    <3>1. q = Thrown(r)
      BY <2>1, <2>3
    <3> QED BY <3>1, ChangeFields
  <2>4. CASE operand.kind = "name" /\ f \notin Fonts
    <3>1. q = Over(r)
      BY <2>1, <2>4
    <3> QED BY <1>2, <2>4, <3>1, ChangeFields DEF f
  <2>5. CASE operand.kind = "name" /\ f \in Fonts
    <3> DEFINE p == Pop(r, 1)
    <3>1. q = [p EXCEPT !.font = f] /\ p \in Reader(C)
      BY <2>1, <2>2, <2>5
    <3>2. /\ p.stack = SubSeq(r.stack, 1, Len(r.stack) - 1) /\ p.status = r.status
          /\ p.isText = r.isText /\ p.found = r.found /\ p.size = r.size
      BY ChangeFields
    <3> HIDE DEF p
    <3>3. /\ q.font = f /\ q.stack = p.stack /\ q.status = p.status /\ q.isText = p.isText
          /\ q.found = p.found /\ q.size = p.size
      BY <3>1 DEF Reader, Fields
    <3>4. ~(Len(r.stack) < 2)
      BY <1>0, <1>2
    <3> QED BY <1>2, <2>5, <3>2, <3>3, <3>4 DEF f
  <2> QED BY <2>3, <2>4, <2>5
<1> QED BY <1>0, <1>1, <1>2

\* What a text must be to be found.
Visible(s) == s \notin {<<>>, <<" ">>}

\* What a keyword may do to what has been found, and to the stack.
LEMMA ShowStep ==
  ASSUME NEW C, NEW r \in Reader(C), r.size <= MaxPdf, NEW n \in 1 .. Len(r.stack),
         NEW q, q = Show(r, n)
  PROVE  /\ Later(r, q) \/ r.status # "on"
         /\ q.isText = r.isText /\ q.font = r.font
         /\ q.status = r.status \/ q.status = "thrown"
         /\ q.stack = r.stack \/ q.stack = SubSeq(r.stack, 1, Len(r.stack) - n)
         /\ q.found = r.found \/ q.found = r.found \o <<Top(r).text>>
         /\ q.status # "thrown" =>
              /\ Top(r).kind = "string"
              /\ q.stack = SubSeq(r.stack, 1, Len(r.stack) - n)
              /\ r.font \in Readable /\ Visible(Top(r).text)
                   => q.found = r.found \o <<Top(r).text>>
<1> DEFINE s == Utf8(r, Top(r).text)
           new == IF s \in {<<>>, <<" ">>} THEN <<>> ELSE <<s>>
           X == Seq(C) \ {<<>>}
<1>0. r.stack \in Seq(TokenOf(C)) /\ r.stack # <<>> /\ r.found \in Seq(X) /\ r.size \in Nat
  BY DEF Reader, Fields
<1>1. q = IF Top(r).kind = "string" THEN Pop(Keep(r, new), n) ELSE Thrown(r)
  BY DEF Show
<1>2. CASE Top(r).kind # "string"
  <2>1. q = Thrown(r)
    BY <1>1, <1>2
  <2>2. q.found = r.found /\ q.size = r.size /\ q.isText = r.isText /\ q.font = r.font
        /\ q.stack = r.stack /\ q.status = "thrown"
    BY <2>1, ChangeFields
  <2>3. r.status = "on" => Later(r, q)
    BY <2>2, LaterSame
  <2> QED BY <2>2, <2>3
<1>3. CASE Top(r).kind = "string"
  <2>1. q = Pop(Keep(r, new), n)
    BY <1>1, <1>3
  <2>2. Top(r).text \in Seq(C) /\ Len(Top(r).text) <= Longest
    BY <1>0, <1>3, TopType
  <2>3. s = Top(r).text \/ s = <<>>
    BY DEF Utf8
  <2>4. r.font \in Readable => s = Top(r).text
    BY DEF Utf8
  <2> HIDE DEF s
  <2>5. /\ new = <<>> \/ (new = <<s>> /\ s = Top(r).text /\ s # <<>>)
        /\ r.font \in Readable /\ Visible(Top(r).text) => new = <<Top(r).text>>
    BY <2>3, <2>4 DEF Visible
  <2>6. new \in Seq(X) /\ Len(FlattenSeq(new)) <= Longest /\ Len(FlattenSeq(new)) \in Nat
    <3>1. CASE new = <<>>
      <4>1. FlattenSeq(<<>>) = <<>>
        <5>1. <<>> \in Seq(Seq(C))
          OBVIOUS
        <5> QED BY <5>1, FlattenType
      <4>2. <<>> \in Seq(X) /\ Len(<<>>) = 0
        <5> HIDE DEF X
        <5> QED OBVIOUS
      <4>3. 0 <= Longest
        BY LimitAssumption
      <4> HIDE DEF new, X
      <4> QED BY <3>1, <4>1, <4>2, <4>3
    <3>2. CASE new = <<s>> /\ s = Top(r).text /\ s # <<>>
      <4>1. s \in X
        BY <2>2, <3>2
      <4>2. FlattenSeq(<<s>>) = s
        BY <2>2, <3>2, FlattenOne
      <4>3. <<s>> \in Seq(X)
        <5> HIDE DEF X
        <5> QED BY <4>1
      <4>4. Len(s) \in Nat
        <5>1. s \in Seq(C)
          BY <2>2, <3>2
        <5> QED BY <5>1
      <4> HIDE DEF new, X
      <4> QED BY <2>2, <3>2, <4>2, <4>3, <4>4
    <3> HIDE DEF new, X
    <3> QED BY <2>5, <3>1, <3>2
  <2> HIDE DEF new
  <2> DEFINE p == Keep(r, new)
  <2>7. p \in Reader(C)
    BY <2>6, KeepType
  <2>8. /\ p.stack = r.stack /\ p.status = r.status /\ p.isText = r.isText /\ p.font = r.font
        /\ p.found = r.found \o new /\ p.size = r.size + Len(FlattenSeq(new))
    BY ChangeFields
  <2> HIDE DEF p
  <2>9. /\ q.stack = SubSeq(r.stack, 1, Len(r.stack) - n) /\ q.status = r.status
        /\ q.isText = r.isText /\ q.font = r.font
        /\ q.found = r.found \o new /\ q.size = r.size + Len(FlattenSeq(new))
    <3>1. q = Pop(p, n)
      BY <2>1 DEF p
    <3>2. /\ q.stack = SubSeq(p.stack, 1, Len(p.stack) - n) /\ q.status = p.status
          /\ q.isText = p.isText /\ q.font = p.font /\ q.found = p.found /\ q.size = p.size
      BY <2>7, <3>1, ChangeFields
    <3> QED BY <2>8, <3>2
  <2>10. Later(r, q)
    <3>1. Begins(r.found, q.found)
      <4> HIDE DEF X
      <4> QED BY <1>0, <2>6, <2>9, BeginsConcat
    <3>2. r.size <= q.size
      BY <1>0, <2>6, <2>9
    <3> QED BY <2>9, <3>1, <3>2 DEF Later
  <2>11. q.found = r.found \/ q.found = r.found \o <<Top(r).text>>
    <3>1. r.found \o <<>> = r.found
      <4> DEFINE f == r.found
      <4>1. f \in Seq(X)
        BY <1>0
      <4> HIDE DEF X, f
      <4>2. f \o <<>> = f
        BY <4>1
      <4> QED BY <4>2 DEF f
    <3> QED BY <2>5, <2>9, <3>1
  <2> QED BY <1>3, <2>5, <2>9, <2>10, <2>11
<1> QED BY <1>2, <1>3

\* The words that the parts of an array make.
PartWords(r, parts) == Gather([i \in DOMAIN parts |-> Utf8(r, parts[i])], {<<" ">>})

\* What "TJ" changes of a reader.
LEMMA ShowArrayStep ==
  ASSUME NEW C, NEW r \in Reader(C), r.size <= MaxPdf, NEW q, q = ShowArray(r)
  PROVE  /\ Later(r, q) \/ r.status # "on"
         /\ q.isText = r.isText /\ q.font = r.font
         /\ q.status = r.status \/ q.status = "thrown"
         /\ q.stack = r.stack \/ (Len(r.stack) >= 3 /\ q.stack = SubSeq(r.stack, 1, Len(r.stack) - 1))
         /\ q.found = r.found \/ (Len(r.stack) >= 3 /\ q.found = r.found \o PartWords(r, Top(r).parts))
         /\ q.status # "thrown" /\ Len(r.stack) >= 3 =>
              Top(r).kind = "array" /\ q.found = r.found \o PartWords(r, Top(r).parts)
<1> DEFINE parts == Top(r).parts
           new == PartWords(r, parts)
           X == Seq(C) \ {<<>>}
<1>0. Len(r.stack) \in Nat /\ r.stack \in Seq(TokenOf(C)) /\ r.found \in Seq(X) /\ r.size \in Nat
  BY DEF Reader, Fields
<1>1. CASE Len(r.stack) < 3
  <2>1. q = r /\ ~(Len(r.stack) >= 3)
    BY <1>0, <1>1 DEF ShowArray
  <2>2. Later(r, r)
    BY LaterSame
  <2> QED BY <2>1, <2>2
<1>2. CASE Len(r.stack) >= 3 /\ Top(r).kind # "array"
  <2>1. q = Thrown(r)
    BY <1>0, <1>2 DEF ShowArray
  <2>2. q.found = r.found /\ q.size = r.size /\ q.isText = r.isText /\ q.font = r.font
        /\ q.stack = r.stack /\ q.status = "thrown"
    BY <2>1, ChangeFields
  <2>3. r.status = "on" => Later(r, q)
    BY <2>2, LaterSame
  <2> QED BY <2>2, <2>3
<1>3. CASE Len(r.stack) >= 3 /\ Top(r).kind = "array"
  <2>1. q = Pop(Keep(r, new), 1)
    <3>1. ~(Len(r.stack) < 3)
      BY <1>0, <1>3
    <3> QED BY <1>3, <3>1, Zenon DEF ShowArray, PartWords
  <2>2. r.stack # <<>>
    BY <1>0, <1>3
  <2>3. parts \in Seq(Seq(C)) /\ Len(FlattenSeq(parts)) <= Longest
    BY <2>2, TopType
  <2> HIDE DEF parts
  <2>4. new \in Seq(X) /\ Len(FlattenSeq(new)) <= Len(FlattenSeq(parts))
    BY <2>3, TextsType DEF PartWords
  <2> HIDE DEF new
  <2>5. Len(FlattenSeq(new)) <= Longest /\ Len(FlattenSeq(new)) \in Nat
    <3>1. new \in Seq(Seq(C))
      BY <2>4
    <3>2. FlattenSeq(new) \in Seq(C) /\ FlattenSeq(parts) \in Seq(C)
      BY <2>3, <3>1, FlattenType
    <3>3. Len(FlattenSeq(new)) \in Nat /\ Len(FlattenSeq(parts)) \in Nat /\ Longest \in Nat
      BY <3>2, LimitAssumption
    <3> QED BY <2>3, <2>4, <3>3
  <2> DEFINE p == Keep(r, new)
  <2>7. p \in Reader(C)
    BY <2>4, <2>5, KeepType
  <2>8. /\ p.stack = r.stack /\ p.status = r.status /\ p.isText = r.isText /\ p.font = r.font
        /\ p.found = r.found \o new /\ p.size = r.size + Len(FlattenSeq(new))
    BY ChangeFields
  <2> HIDE DEF p
  <2>9. /\ q.stack = SubSeq(r.stack, 1, Len(r.stack) - 1) /\ q.status = r.status
        /\ q.isText = r.isText /\ q.font = r.font
        /\ q.found = r.found \o new /\ q.size = r.size + Len(FlattenSeq(new))
    <3>1. q = Pop(p, 1)
      BY <2>1 DEF p
    <3>a. \A n : /\ Pop(p, n).stack = SubSeq(p.stack, 1, Len(p.stack) - n)
                 /\ Pop(p, n).status = p.status /\ Pop(p, n).isText = p.isText
                 /\ Pop(p, n).font = p.font /\ Pop(p, n).found = p.found /\ Pop(p, n).size = p.size
      BY <2>7, ChangeFields
    <3>2. /\ q.stack = SubSeq(p.stack, 1, Len(p.stack) - 1) /\ q.status = p.status
          /\ q.isText = p.isText /\ q.font = p.font /\ q.found = p.found /\ q.size = p.size
      BY <3>1, <3>a
    <3> QED BY <2>8, <3>2
  <2>10. Later(r, q)
    <3>1. Begins(r.found, q.found)
      <4> HIDE DEF X
      <4> QED BY <1>0, <2>4, <2>9, BeginsConcat
    <3>2. r.size <= q.size
      BY <1>0, <2>5, <2>9
    <3> QED BY <2>9, <3>1, <3>2 DEF Later
  <2>11. q.found = r.found \o PartWords(r, Top(r).parts)
    BY <2>9 DEF new, parts
  <2>12. q.stack = r.stack \/ (Len(r.stack) >= 3 /\ q.stack = SubSeq(r.stack, 1, Len(r.stack) - 1))
    BY <1>3, <2>9, Zenon
  <2>13. q.found = r.found \/ (Len(r.stack) >= 3 /\ q.found = r.found \o PartWords(r, Top(r).parts))
    BY <1>3, <2>11, Zenon
  <2>14. q.status # "thrown" /\ Len(r.stack) >= 3 =>
           Top(r).kind = "array" /\ q.found = r.found \o PartWords(r, Top(r).parts)
    BY <1>3, <2>11, Zenon
  <2>15. q.isText = r.isText /\ q.font = r.font /\ (q.status = r.status \/ q.status = "thrown")
    BY <2>9
  <2> HIDE DEF parts, new, p
  <2> QED BY <2>10, <2>12, <2>13, <2>14, <2>15, Zenon
<1>4. Len(r.stack) < 3 \/ Len(r.stack) >= 3
  BY <1>0
<1> HIDE DEF parts, new, X
<1> QED BY <1>1, <1>2, <1>3, <1>4, Zenon

\* What a token may do.
TokenStep(r, token, q) ==
  /\ Later(r, q)
  /\ r.isText => q.isText
  /\ token.kind # "keyword" \/ token.name # "Tf" => q.font = r.font
  /\ q.status \in {r.status, "thrown"} \/ r.size > MaxPdf
       \/ \E k \in 1 .. Len(r.stack) : r.stack[k].kind = "name" /\ r.stack[k].name \notin Fonts
  /\ \/ q.stack = <<>> \/ q.stack = Append(r.stack, token)
     \/ \E n \in 0 .. Len(r.stack) : q.stack = SubSeq(r.stack, 1, n)
  /\ \/ q.found = r.found
     \/ r.stack # <<>> /\ q.found = r.found \o <<Top(r).text>>
     \/ r.stack # <<>> /\ q.found = r.found \o PartWords(r, Top(r).parts)

\* What a token changes of a reader.
LEMMA ReadTokenStep ==
  ASSUME NEW C, NEW r \in Reader(C), NEW token \in TokenOf(C), NEW q, q = ReadToken(r, token)
  PROVE  TokenStep(r, token, q)
<1> DEFINE T == TokenOf(C)
<1>0. /\ r.size \in Nat /\ MaxPdf \in Nat /\ r.stack \in Seq(T) /\ Len(r.stack) \in Nat
      /\ r.isText \in BOOLEAN
  BY PdfAssumption DEF Reader, Fields
<1>a. r.stack = SubSeq(r.stack, 1, Len(r.stack)) /\ Len(r.stack) \in 0 .. Len(r.stack)
      /\ (Len(r.stack) >= 1 => Len(r.stack) - 1 \in 0 .. Len(r.stack) /\ r.stack # <<>>)
      /\ (Len(r.stack) >= 3 => Len(r.stack) - 3 \in 0 .. Len(r.stack) /\ r.stack # <<>>)
  <2> DEFINE s == r.stack
  <2>1. s \in Seq(T)
    BY <1>0
  <2> HIDE DEF s, T
  <2>2. /\ s = SubSeq(s, 1, Len(s)) /\ Len(s) \in 0 .. Len(s)
        /\ (Len(s) >= 1 => Len(s) - 1 \in 0 .. Len(s) /\ s # <<>>)
        /\ (Len(s) >= 3 => Len(s) - 3 \in 0 .. Len(s) /\ s # <<>>)
    BY <2>1
  <2> QED BY <2>2 DEF s
<1> HIDE DEF T
<1>b. Later(r, r)
  BY LaterSame
<1>1. CASE r.status # "on"
  <2>1. q = r
    BY <1>1 DEF ReadToken
  <2> QED BY <1>a, <1>b, <2>1 DEF TokenStep
<1>2. CASE r.status = "on" /\ r.size > MaxPdf
  <2>1. q = Over(r)
    BY <1>2 DEF ReadToken
  <2>2. q.found = r.found /\ q.size = r.size /\ q.stack = r.stack /\ q.isText = r.isText /\ q.font = r.font
    BY <2>1, ChangeFields
  <2>3. Later(r, q)
    BY <1>2, <2>2, LaterSame
  <2> QED BY <1>2, <1>a, <2>2, <2>3 DEF TokenStep
<1>3. CASE r.status = "on" /\ ~(r.size > MaxPdf) /\ token.kind # "keyword"
  <2>1. q = [r EXCEPT !.stack = Append(r.stack, token)]
    BY <1>3 DEF ReadToken
  <2>2. /\ q.found = r.found /\ q.size = r.size /\ q.stack = Append(r.stack, token)
        /\ q.isText = r.isText /\ q.font = r.font /\ q.status = r.status
    <3> DEFINE new == Append(r.stack, token)
    <3>1. q = [r EXCEPT !.stack = new]
      BY <2>1
    <3> HIDE DEF new
    <3>2. /\ q.found = r.found /\ q.size = r.size /\ q.stack = new
          /\ q.isText = r.isText /\ q.font = r.font /\ q.status = r.status
      BY <3>1 DEF Reader, Fields
    <3> QED BY <3>2 DEF new
  <2>3. Later(r, q)
    BY <1>3, <2>2, LaterSame
  <2> QED BY <2>2, <2>3 DEF TokenStep
<1>4. CASE r.status = "on" /\ ~(r.size > MaxPdf) /\ token.kind = "keyword"
  <2> DEFINE k == token.name
  <2>1. q = Obey(r, k) /\ r.size <= MaxPdf
    BY <1>0, <1>4 DEF ReadToken
  <2> HIDE DEF k
  <2>2. CASE q = Clear(r)
    <3>1. /\ q.stack = <<>> /\ q.found = r.found /\ q.size = r.size /\ q.isText = r.isText
          /\ q.font = r.font /\ q.status = r.status
      BY <2>2, ChangeFields
    <3>2. Later(r, q)
      BY <1>4, <3>1, LaterSame
    <3> QED BY <3>1, <3>2 DEF TokenStep
  <2>3. CASE q = [r EXCEPT !.isText = TRUE]
    <3>1. /\ q.stack = r.stack /\ q.found = r.found /\ q.size = r.size /\ q.isText = TRUE
          /\ q.font = r.font /\ q.status = r.status
      BY <2>3 DEF Reader, Fields
    <3>2. Later(r, q)
      BY <1>4, <3>1, LaterSame
    <3> QED BY <1>a, <3>1, <3>2 DEF TokenStep
  <2>4. CASE q = SetFont(r) /\ k = "Tf"
    <3>1. /\ q.found = r.found /\ q.size = r.size /\ q.isText = r.isText
          /\ \/ q.status = r.status \/ q.status = "thrown"
             \/ /\ q.status = "over" /\ Len(r.stack) >= 2
                /\ r.stack[Len(r.stack) - 1].kind = "name"
                /\ r.stack[Len(r.stack) - 1].name \notin Fonts
          /\ \/ q.stack = r.stack
             \/ Len(r.stack) >= 2 /\ q.stack = SubSeq(r.stack, 1, Len(r.stack) - 1)
      BY <2>4, SetFontStep
    <3>2. Later(r, q)
      BY <1>4, <3>1, LaterSame
    <3>3. Len(r.stack) >= 2 => Len(r.stack) - 1 \in 1 .. Len(r.stack) /\ Len(r.stack) - 1 \in 0 .. Len(r.stack)
      BY <1>0
    <3> QED BY <1>4, <1>a, <2>4, <3>1, <3>2, <3>3 DEF TokenStep, k
  <2>5. ASSUME NEW n \in Nat \ {0}, Len(r.stack) >= n, q = Show(r, n) PROVE TokenStep(r, token, q)
    <3>1. n \in 1 .. Len(r.stack) /\ Len(r.stack) - n \in 0 .. Len(r.stack) /\ r.stack # <<>>
      BY <1>0, <1>a, <2>5
    <3>2. /\ Later(r, q) \/ r.status # "on"
          /\ q.isText = r.isText /\ q.font = r.font
          /\ q.status = r.status \/ q.status = "thrown"
          /\ q.stack = r.stack \/ q.stack = SubSeq(r.stack, 1, Len(r.stack) - n)
          /\ q.found = r.found \/ q.found = r.found \o <<Top(r).text>>
      BY <2>1, <2>5, <3>1, ShowStep, ZenonT(30)
    <3> QED BY <1>4, <1>a, <3>1, <3>2 DEF TokenStep
  <2>6. CASE q = ShowArray(r)
    <3>1. /\ Later(r, q) \/ r.status # "on"
          /\ q.isText = r.isText /\ q.font = r.font
          /\ q.status = r.status \/ q.status = "thrown"
          /\ q.stack = r.stack \/ (Len(r.stack) >= 3 /\ q.stack = SubSeq(r.stack, 1, Len(r.stack) - 1))
          /\ q.found = r.found \/ (Len(r.stack) >= 3 /\ q.found = r.found \o PartWords(r, Top(r).parts))
      BY <2>1, <2>6, ShowArrayStep
    <3>2. Len(r.stack) >= 3 => r.stack # <<>> /\ Len(r.stack) - 1 \in 0 .. Len(r.stack)
      BY <1>0, <1>a
    <3> QED BY <1>4, <1>a, <3>1, <3>2 DEF TokenStep
  <2>7. CASE q = r
    BY <1>a, <1>b, <2>7 DEF TokenStep
  <2>8. \/ q = Clear(r) \/ q = [r EXCEPT !.isText = TRUE] \/ (q = SetFont(r) /\ k = "Tf")
        \/ (r.stack # <<>> /\ q = Show(r, 1)) \/ (~(Len(r.stack) < 3) /\ q = Show(r, 3))
        \/ q = ShowArray(r) \/ q = r
    BY <2>1, Zenon DEF Obey
  <2>9. r.stack # <<>> => Len(r.stack) >= 1
    BY <1>0
  <2>10. ~(Len(r.stack) < 3) => Len(r.stack) >= 3
    BY <1>0
  <2> QED BY <2>2, <2>3, <2>4, <2>5, <2>6, <2>7, <2>8, <2>9, <2>10
<1> QED BY <1>1, <1>2, <1>3, <1>4

-----------------------------------------------------------------------------
(* What the reader of a page keeps *)

\* The fields of a reader.
LEMMA ReaderFields ==
  ASSUME NEW C, NEW r \in Reader(C)
  PROVE  /\ r.stack \in Seq(TokenOf(C)) /\ r.size \in Nat /\ r.isText \in BOOLEAN
         /\ r.status \in {"on", "over", "thrown"} /\ r.found \in Seq(Seq(C) \ {<<>>})
         /\ r.font \in Fonts \cup {"none"}
BY DEF Reader, Fields

\* The readers along a page.
LEMMA PageSteps ==
  ASSUME NEW C, NEW page \in Seq(TokenOf(C)), NEW r, NEW g, ReadsTokens(g, r, page, C)
  PROVE  /\ Len(page) \in Nat /\ g[0] = r
         /\ \A n \in 0 .. Len(page) : g[n] \in Reader(C)
         /\ \A n \in 1 .. Len(page) :
              /\ n - 1 \in 0 .. Len(page) /\ n \in 0 .. Len(page) /\ page[n] \in TokenOf(C)
              /\ g[n] = ReadToken(g[n - 1], page[n]) /\ TokenStep(g[n - 1], page[n], g[n])
<1>1. Len(page) \in Nat /\ \A n \in 1 .. Len(page) : page[n] \in TokenOf(C)
  <2> DEFINE T == TokenOf(C)
  <2>1. page \in Seq(T)
    OBVIOUS
  <2> HIDE DEF T
  <2>2. Len(page) \in Nat /\ \A n \in 1 .. Len(page) : page[n] \in T
    BY <2>1
  <2> QED BY <2>2 DEF T
<1>2. /\ g \in [0 .. Len(page) -> Reader(C)] /\ g[0] = r
      /\ \A n \in 1 .. Len(page) : g[n] = ReadToken(g[n - 1], page[n])
  BY DEF ReadsTokens
<1>3. ASSUME NEW n \in 1 .. Len(page)
      PROVE  /\ n - 1 \in 0 .. Len(page) /\ n \in 0 .. Len(page) /\ page[n] \in TokenOf(C)
             /\ g[n] = ReadToken(g[n - 1], page[n]) /\ TokenStep(g[n - 1], page[n], g[n])
  <2>1. n - 1 \in 0 .. Len(page) /\ n \in 0 .. Len(page)
    BY <1>1
  <2>2. g[n - 1] \in Reader(C)
    BY <1>2, <2>1
  <2>3. TokenStep(g[n - 1], page[n], g[n])
    BY <1>1, <1>2, <2>2, ReadTokenStep
  <2> QED BY <1>1, <1>2, <2>1, <2>3
<1> QED BY <1>1, <1>2, <1>3

\* Along a page readers get later.
LEMMA PageLater ==
  ASSUME NEW C, NEW page \in Seq(TokenOf(C)), NEW r, NEW g, ReadsTokens(g, r, page, C),
         NEW m \in 0 .. Len(page), NEW n \in m .. Len(page)
  PROVE  Later(g[m], g[n])
<1> DEFINE l == Len(page)
           P == {k \in 0 .. l : k < m \/ Later(g[m], g[k])}
<1>0. /\ l \in Nat /\ m \in 0 .. l
      /\ \A k \in 0 .. l : g[k] \in Reader(C)
      /\ \A k \in 1 .. l : k - 1 \in 0 .. l /\ k \in 0 .. l /\ Later(g[k - 1], g[k])
  BY PageSteps DEF TokenStep
<1> HIDE DEF l
<1>1. Later(g[m], g[m])
  BY <1>0, LaterSame
<1>2. 0 \in P
  <2>1. m = 0 \/ 0 < m
    BY <1>0
  <2>2. 0 \in 0 .. l
    BY <1>0
  <2> QED BY <1>1, <2>1, <2>2
<1>3. ASSUME NEW k \in 1 .. l, k - 1 \in P
      PROVE  k \in P
  <2>1. k < m \/ k = m \/ ~(k - 1 < m)
    BY <1>0
  <2>2. ~(k - 1 < m) => Later(g[m], g[k])
    <3>1. g[k - 1] \in Reader(C) /\ g[k] \in Reader(C) /\ g[m] \in Reader(C) /\ Later(g[k - 1], g[k])
      BY <1>0
    <3>2. ~(k - 1 < m) => Later(g[m], g[k - 1])
      BY <1>3
    <3> QED BY <3>1, <3>2, LaterTrans
  <2> QED BY <1>0, <1>1, <2>1, <2>2
<1>4. 0 .. l \subseteq P
  <2> HIDE DEF P
  <2> QED BY <1>0, <1>2, <1>3, UpTo
<1>5. n \in 0 .. l /\ ~(n < m)
  BY <1>0 DEF l
<1> QED BY <1>4, <1>5

\* What is on the stack stands on the page.
LEMMA FromPage ==
  ASSUME NEW C, NEW page \in Seq(TokenOf(C)), NEW r, NEW g, ReadsTokens(g, r, page, C),
         r.stack = <<>>, NEW n \in 0 .. Len(page), NEW k \in 1 .. Len(g[n].stack)
  PROVE  \E i \in 1 .. n : g[n].stack[k] = page[i]
<1> DEFINE l == Len(page)
           T == TokenOf(C)
           S(m) == \A j \in 1 .. Len(g[m].stack) : \E i \in 1 .. m : g[m].stack[j] = page[i]
           P == {m \in 0 .. l : S(m)}
<1>0. /\ l \in Nat /\ g[0].stack = <<>>
      /\ \A m \in 0 .. l : g[m].stack \in Seq(T)
      /\ \A m \in 1 .. l : /\ m - 1 \in 0 .. l /\ m \in 0 .. l /\ page[m] \in T
                           /\ TokenStep(g[m - 1], page[m], g[m])
  <2>1. /\ l \in Nat /\ g[0] = r
        /\ \A m \in 0 .. l : g[m] \in Reader(C)
        /\ \A m \in 1 .. l : /\ m - 1 \in 0 .. l /\ m \in 0 .. l /\ page[m] \in T
                             /\ TokenStep(g[m - 1], page[m], g[m])
    BY PageSteps
  <2>2. \A m \in 0 .. l : g[m].stack \in Seq(T)
    BY <2>1, ReaderFields
  <2> QED BY <2>1, <2>2
<1> HIDE DEF l, T
<1>1. 0 \in P
  BY <1>0
<1>2. ASSUME NEW m \in 1 .. l, S(m - 1)
      PROVE  S(m)
  <2> DEFINE a == g[m - 1].stack
             b == g[m].stack
  <2>0. a \in Seq(T) /\ b \in Seq(T) /\ m \in Nat /\ m >= 1 /\ page[m] \in T
    BY <1>0
  <2>1. \A j \in 1 .. Len(a) : \E i \in 1 .. m - 1 : a[j] = page[i]
    BY <1>2
  <2>2. \/ b = <<>> \/ b = Append(a, page[m])
        \/ \E c \in 0 .. Len(a) : b = SubSeq(a, 1, c)
    BY <1>0 DEF TokenStep
  <2>3. \A i \in 1 .. m - 1 : i \in 1 .. m
    BY <2>0
  <2> HIDE DEF a, b
  <2> SUFFICES ASSUME NEW j \in 1 .. Len(b) PROVE \E i \in 1 .. m : b[j] = page[i]
    BY DEF b
  <2>4. CASE b = <<>>
    BY <2>0, <2>4
  <2>5. CASE b = Append(a, page[m])
    <3>1. (j \in 1 .. Len(a) /\ b[j] = a[j]) \/ b[j] = page[m]
      <4> DEFINE x == page[m]
      <4> HIDE DEF x
      <4>1. x \in T /\ b = Append(a, x)
        BY <2>0, <2>5 DEF x
      <4>2. (j \in 1 .. Len(a) /\ b[j] = a[j]) \/ b[j] = x
        BY <2>0, <4>1
      <4> QED BY <4>2 DEF x
    <3>2. m \in 1 .. m
      BY <2>0
    <3> QED BY <2>1, <2>3, <3>1, <3>2
  <2>6. CASE \E c \in 0 .. Len(a) : b = SubSeq(a, 1, c)
    <3>1. PICK c \in 0 .. Len(a) : b = SubSeq(a, 1, c)
      BY <2>6
    <3>2. j \in 1 .. Len(a) /\ b[j] = a[j]
      BY <2>0, <3>1
    <3> QED BY <2>1, <2>3, <3>2
  <2> QED BY <2>2, <2>4, <2>5, <2>6
<1>3. 0 .. l \subseteq P
  <2>1. \A m \in 1 .. l : m - 1 \in P => m \in P
    BY <1>0, <1>2
  <2> HIDE DEF P
  <2> QED BY <1>0, <1>1, <2>1, UpTo
<1> QED BY <1>3 DEF l

\* A page that is read to its end, with no text left out.
Whole(g, page, C) ==
  /\ page \in Seq(TokenOf(C)) /\ ReadsTokens(g, g[0], page, C)
  /\ g[0].stack = <<>>
  /\ \A n \in 0 .. Len(page) : g[n].status = "on" /\ g[n].size <= MaxPdf

\* A page is read as a whole if it does not throw, stays below the limit, and misses no font.
LEMMA PageWhole ==
  ASSUME NEW C, NEW page \in Seq(TokenOf(C)), NEW r, NEW g, ReadsTokens(g, r, page, C),
         r.stack = <<>>, r.status = "on",
         g[Len(page)].status # "thrown", g[Len(page)].size <= MaxPdf,
         \A i \in 1 .. Len(page) : page[i].kind = "name" => page[i].name \in Fonts
  PROVE  Whole(g, page, C)
<1> DEFINE l == Len(page)
           P == {n \in 0 .. l : g[n].status = "on"}
<1>0. /\ l \in Nat /\ MaxPdf \in Nat /\ g[0] = r
      /\ \A n \in 0 .. l : g[n].size \in Nat /\ g[n].status \in {"on", "over", "thrown"}
      /\ \A n \in 1 .. l : n - 1 \in 0 .. l /\ n \in 0 .. l /\ TokenStep(g[n - 1], page[n], g[n])
  <2>1. /\ l \in Nat /\ g[0] = r
        /\ \A n \in 0 .. l : g[n] \in Reader(C)
        /\ \A n \in 1 .. l : n - 1 \in 0 .. l /\ n \in 0 .. l /\ TokenStep(g[n - 1], page[n], g[n])
    BY PageSteps
  <2>2. \A n \in 0 .. l : g[n].size \in Nat /\ g[n].status \in {"on", "over", "thrown"}
    BY <2>1, ReaderFields
  <2> QED BY <2>1, <2>2, PdfAssumption
<1>1. \A n \in 0 .. l : Later(g[n], g[l])
  <2> TAKE n \in 0 .. l
  <2>1. l \in n .. l
    BY <1>0
  <2> QED BY <2>1, PageLater
<1>2. \A n \in 0 .. l : g[n].size <= MaxPdf
  <2> TAKE n \in 0 .. l
  <2>1. l \in 0 .. l /\ g[n].size <= g[l].size /\ g[l].size <= MaxPdf
    BY <1>0, <1>1 DEF Later
  <2> QED BY <1>0, <2>1
<1>3. 0 \in P
  BY <1>0
<1>4. ASSUME NEW n \in 1 .. l, n - 1 \in P
      PROVE  n \in P
  <2> DEFINE a == g[n - 1]
  <2>1. n - 1 \in 0 .. l /\ n \in 0 .. l /\ a.status = "on"
    BY <1>0, <1>4
  <2>2. g[n].status # "thrown"
    <3>1. Later(g[n], g[l])
      BY <1>1, <2>1
    <3> QED BY <3>1 DEF Later
  <2>3. ~(a.size > MaxPdf)
    BY <1>0, <1>2, <2>1
  <2>4. \A k \in 1 .. Len(a.stack) : a.stack[k].kind = "name" => a.stack[k].name \in Fonts
    <3> TAKE k \in 1 .. Len(a.stack)
    <3>1. PICK i \in 1 .. n - 1 : a.stack[k] = page[i]
      BY <2>1, FromPage
    <3>2. i \in 1 .. Len(page)
      BY <1>0, <3>1
    <3> QED BY <3>1, <3>2
  <2>5. g[n].status \in {a.status, "thrown"}
    <3> HIDE DEF l
    <3>1. \/ g[n].status \in {a.status, "thrown"} \/ a.size > MaxPdf
          \/ \E k \in 1 .. Len(a.stack) : a.stack[k].kind = "name" /\ a.stack[k].name \notin Fonts
      BY <1>0 DEF TokenStep
    <3> QED BY <2>3, <2>4, <3>1
  <2> QED BY <2>1, <2>2, <2>5
<1>5. 0 .. l \subseteq P
  <2> HIDE DEF P, l
  <2> QED BY <1>0, <1>3, <1>4, UpTo
<1>6. \A n \in 0 .. l : g[n].status = "on"
  BY <1>5
<1>7. ReadsTokens(g, g[0], page, C) /\ g[0].stack = <<>>
  BY <1>0
<1> QED BY <1>2, <1>6, <1>7 DEF Whole

-----------------------------------------------------------------------------
(* What a whole page shows *)

\* One token of a page that is read as a whole.
LEMMA WholeStep ==
  ASSUME NEW C, NEW page, NEW g, Whole(g, page, C), NEW n \in 1 .. Len(page)
  PROVE  /\ Len(page) \in Nat /\ n - 1 \in 0 .. Len(page) /\ n \in 0 .. Len(page)
         /\ g[n - 1] \in Reader(C) /\ g[n] \in Reader(C) /\ page[n] \in TokenOf(C)
         /\ g[n].status = "on" /\ g[n - 1].status = "on" /\ g[n - 1].size <= MaxPdf
         /\ TokenStep(g[n - 1], page[n], g[n])
         /\ page[n].kind = "keyword" => g[n] = Obey(g[n - 1], page[n].name)
         /\ page[n].kind # "keyword" =>
              /\ g[n].stack = Append(g[n - 1].stack, page[n]) /\ g[n].found = g[n - 1].found
              /\ g[n].isText = g[n - 1].isText /\ g[n].font = g[n - 1].font
<1> DEFINE r == g[n - 1]
           t == page[n]
           q == g[n]
<1>1. /\ Len(page) \in Nat /\ n - 1 \in 0 .. Len(page) /\ n \in 0 .. Len(page)
      /\ r \in Reader(C) /\ q \in Reader(C) /\ t \in TokenOf(C)
      /\ q = ReadToken(r, t) /\ TokenStep(r, t, q)
  BY PageSteps DEF Whole
<1>2. q.status = "on" /\ r.status = "on" /\ r.size <= MaxPdf
  BY <1>1 DEF Whole
<1>3. q = IF t.kind = "keyword" THEN Obey(r, t.name) ELSE [r EXCEPT !.stack = Append(r.stack, t)]
  <2>1. ~(r.size > MaxPdf)
    <3>1. r.size \in Nat /\ MaxPdf \in Nat
      BY <1>1, ReaderFields, PdfAssumption
    <3> HIDE DEF r
    <3> QED BY <1>2, <3>1
  <2> HIDE DEF r, t, q
  <2> QED BY <1>1, <1>2, <2>1 DEF ReadToken
<1>4. t.kind # "keyword" =>
        /\ q.stack = Append(r.stack, t) /\ q.found = r.found
        /\ q.isText = r.isText /\ q.font = r.font
  <2> DEFINE new == Append(r.stack, t)
  <2> SUFFICES ASSUME t.kind # "keyword"
               PROVE  /\ q.stack = new /\ q.found = r.found
                      /\ q.isText = r.isText /\ q.font = r.font
    OBVIOUS
  <2>1. q = [r EXCEPT !.stack = new]
    BY <1>3
  <2> HIDE DEF new, r, t, q
  <2> QED BY <1>1, <2>1 DEF Reader, Fields
<1> HIDE DEF r, t, q
<1>5. t.kind = "keyword" => q = Obey(r, t.name)
  BY <1>3
<1> QED BY <1>1, <1>2, <1>4, <1>5 DEF r, t, q

\* An operand goes to the stack.
Pushes(g, page, n, C) ==
  /\ g[n].stack = Append(g[n - 1].stack, page[n])
  /\ g[n - 1] \in Reader(C) /\ g[n] \in Reader(C) /\ page[n] \in TokenOf(C)

\* What is no operator is put on the stack.
LEMMA Operand ==
  ASSUME NEW C, NEW page, NEW g, Whole(g, page, C), NEW n \in 1 .. Len(page), page[n].kind # "keyword"
  PROVE  Pushes(g, page, n, C)
<1>1. /\ g[n].stack = Append(g[n - 1].stack, page[n])
      /\ g[n - 1] \in Reader(C) /\ g[n] \in Reader(C) /\ page[n] \in TokenOf(C)
  BY WholeStep
<1> QED BY <1>1, Zenon DEF Pushes

\* After "BT" there is text up to the end of the page.
LEMMA TextOn ==
  ASSUME NEW C, NEW page, NEW g, Whole(g, page, C),
         NEW b \in 1 .. Len(page), Is(page, b, "BT"), NEW n \in b .. Len(page)
  PROVE  g[n].isText
<1> DEFINE l == Len(page)
           P == {k \in 0 .. l : k < b \/ g[k].isText}
<1>0. l \in Nat /\ b \in 1 .. l
  BY WholeStep
<1>1. \A k \in 1 .. l : k - 1 \in 0 .. l /\ k \in 0 .. l /\ (g[k - 1].isText => g[k].isText)
  BY WholeStep DEF TokenStep
<1>2. g[b].isText
  <2> DEFINE r == g[b - 1]
  <2>1. g[b] = Obey(r, "BT") /\ r \in Reader(C)
    BY WholeStep DEF Is
  <2> HIDE DEF r
  <2>2. g[b] = [r EXCEPT !.isText = TRUE]
    BY <2>1 DEF Obey
  <2> QED BY <2>1, <2>2 DEF Reader, Fields
<1>3. 0 \in P
  BY <1>0
<1>4. ASSUME NEW k \in 1 .. l, k - 1 \in P
      PROVE  k \in P
  <2>1. k < b \/ k = b \/ ~(k - 1 < b)
    BY <1>0
  <2> QED BY <1>1, <1>2, <1>4, <2>1
<1>5. 0 .. l \subseteq P
  <2> HIDE DEF P, l
  <2> QED BY <1>0, <1>3, <1>4, UpTo
<1>6. n \in 0 .. l /\ ~(n < b)
  BY <1>0
<1> QED BY <1>5, <1>6

\* The font stays until the next "Tf".
LEMMA FontOn ==
  ASSUME NEW C, NEW page, NEW g, Whole(g, page, C),
         NEW m \in 1 .. Len(page), NEW n \in m .. Len(page), \A k \in m + 1 .. n : ~Is(page, k, "Tf")
  PROVE  g[n].font = g[m].font
<1> DEFINE l == Len(page)
           P == {k \in 0 .. l : k < m \/ k > n \/ g[k].font = g[m].font}
<1>0. l \in Nat /\ m \in 1 .. l /\ n \in 0 .. l
  BY WholeStep
<1>1. \A k \in 1 .. l : /\ k - 1 \in 0 .. l /\ k \in 0 .. l
                        /\ ~Is(page, k, "Tf") => g[k].font = g[k - 1].font
  <2> TAKE k \in 1 .. l
  <2>1. k - 1 \in 0 .. l /\ k \in 0 .. l /\ TokenStep(g[k - 1], page[k], g[k])
    BY WholeStep
  <2>2. k \in DOMAIN page
    BY DEF Whole
  <2> QED BY <2>1, <2>2 DEF TokenStep, Is
<1>2. 0 \in P
  BY <1>0
<1>3. ASSUME NEW k \in 1 .. l, k - 1 \in P
      PROVE  k \in P
  <2>1. k < m \/ k = m \/ k > n \/ (~(k - 1 < m) /\ ~(k - 1 > n) /\ k \in m + 1 .. n)
    BY <1>0
  <2>2. k \in 0 .. l
    BY <1>1
  <2>3. CASE ~(k - 1 < m) /\ ~(k - 1 > n) /\ k \in m + 1 .. n
    <3>1. g[k - 1].font = g[m].font
      BY <1>3, <2>3
    <3>2. g[k].font = g[k - 1].font
      BY <1>1, <2>3
    <3> QED BY <2>2, <3>1, <3>2
  <2> QED BY <2>1, <2>2, <2>3
<1>4. 0 .. l \subseteq P
  <2> HIDE DEF P, l
  <2> QED BY <1>0, <1>2, <1>3, UpTo
<1>5. ~(n < m) /\ ~(n > n)
  BY <1>0
<1> QED BY <1>0, <1>4, <1>5

\* Where the page draws, the text is on and its font can be read.
LEMMA DrawsOn ==
  ASSUME NEW C, NEW page, NEW g, Whole(g, page, C), NEW i \in 1 .. Len(page), Draws(page, i)
  PROVE  g[i - 1].isText /\ g[i - 1].font \in Readable
<1>0. Len(page) \in Nat /\ DOMAIN page = 1 .. Len(page)
  <2>1. Len(page) \in Nat
    BY WholeStep
  <2> QED BY <2>1 DEF Whole
<1>a. PICK b \in 1 .. i - 1 : \E f \in b + 3 .. i - 1 :
        /\ Is(page, b, "BT") /\ Is(page, f, "Tf") /\ page[f - 1].kind # "keyword"
        /\ page[f - 2] \in {Name(n) : n \in Readable}
        /\ \A k \in f + 1 .. i - 1 : ~Is(page, k, "Tf")
  BY DEF Draws
<1>1. PICK f \in b + 3 .. i - 1 :
        /\ Is(page, b, "BT") /\ Is(page, f, "Tf") /\ page[f - 1].kind # "keyword"
        /\ page[f - 2] \in {Name(n) : n \in Readable}
        /\ \A k \in f + 1 .. i - 1 : ~Is(page, k, "Tf")
  BY <1>a
<1>2. /\ b \in 1 .. Len(page) /\ i - 1 \in b .. Len(page) /\ f \in 1 .. Len(page)
      /\ i - 1 \in f .. Len(page) /\ f - 1 \in b .. Len(page) /\ f - 1 \in 1 .. Len(page)
      /\ f - 2 \in 1 .. Len(page) /\ (f - 1) - 1 = f - 2
  BY <1>0, <1>1
<1>3. g[i - 1].isText /\ g[f - 1].isText
  BY <1>1, <1>2, TextOn
<1>4. g[i - 1].font = g[f].font
  BY <1>1, <1>2, FontOn
<1>5. g[f].font \in Readable
  <2> DEFINE r == g[f - 1]
             T == TokenOf(C)
             a == g[(f - 2) - 1].stack
             u == page[f - 2]
             v == page[f - 1]
  <2>1. u.kind = "name" /\ u.name \in Readable
    <3>1. PICK n \in Readable : u = Name(n)
      BY <1>1
    <3> HIDE DEF u
    <3> QED BY <3>1 DEF Name, Token
  <2>2. /\ g[f - 2].stack = Append(a, u) /\ g[(f - 2) - 1] \in Reader(C) /\ u \in T
    <3>1. f - 2 \in 1 .. Len(page) /\ page[f - 2].kind # "keyword"
      BY <1>2, <2>1
    <3>2. Pushes(g, page, f - 2, C)
      BY <3>1, Operand
    <3> QED BY <3>2, Zenon DEF Pushes
  <2>3. r.stack = Append(g[f - 2].stack, v) /\ r \in Reader(C) /\ v \in T
    <3>1. Pushes(g, page, f - 1, C)
      BY <1>1, <1>2, Operand
    <3>2. g[f - 1].stack = Append(g[(f - 1) - 1].stack, v) /\ r \in Reader(C) /\ v \in T
      BY <3>1, Zenon DEF Pushes
    <3> QED BY <1>2, <3>2
  <2>4. a \in Seq(T)
    BY <2>2, ReaderFields
  <2>5. r.stack = Append(Append(a, u), v)
    BY <2>2, <2>3
  <2>6. g[f] = Obey(r, "Tf") /\ g[f].status = "on"
    <3>1. page[f].kind = "keyword" /\ page[f].name = "Tf"
      BY <1>1 DEF Is
    <3>2. g[f].status = "on" /\ (page[f].kind = "keyword" => g[f] = Obey(r, page[f].name))
      BY <1>2, WholeStep
    <3> QED BY <3>1, <3>2
  <2>7. r.isText
    BY <1>3
  <2> HIDE DEF r, a, u, v, T
  <2>8. g[f] = SetFont(r)
    BY <2>6, <2>7 DEF Obey
  <2>9. ~(Len(r.stack) < 2) /\ r.stack[Len(r.stack) - 1] = u
    BY <2>2, <2>3, <2>4, <2>5
  <2>10. g[f].font = r.stack[Len(r.stack) - 1].name
    BY <2>3, <2>6, <2>8, <2>9, SetFontStep
  <2> QED BY <2>1, <2>9, <2>10
<1> QED BY <1>3, <1>4, <1>5

\* The operators that clear the stack.
Quotes(page, i) == Is(page, i, "\"")
Clears(page, i) == \E c \in {"m", "l", "\""} : Is(page, i, c)
Quote == "\""

\* What Quotes() says of a place.
LEMMA QuoteIs ==
  ASSUME NEW page, NEW i, Quotes(page, i)
  PROVE  i \in DOMAIN page /\ page[i].kind = "keyword" /\ page[i].name = Quote
BY Zenon DEF Quotes, Is, Quote

\* What the reader does at a quotation mark.
LEMMA QuoteObeyed ==
  ASSUME NEW r, r.isText
  PROVE  Obey(r, Quote) = IF Len(r.stack) < 3 THEN Clear(r) ELSE Show(r, 3)
BY DEF Obey, Quote

\* An operator that does not clear the stack is none of the three that may.
LEMMA NotCleared ==
  ASSUME NEW page, NEW i \in DOMAIN page, ~Clears(page, i), page[i].kind = "keyword"
  PROVE  page[i].name \notin {"m", "l", Quote}
BY Zenon DEF Clears, Is, Quote

\* What a keyword does that does not clear the stack.
LEMMA Obeyed ==
  ASSUME NEW r, NEW k, k \notin {"m", "l", Quote}
  PROVE  \/ Obey(r, k) = [r EXCEPT !.isText = TRUE] \/ Obey(r, k) = SetFont(r)
         \/ Obey(r, k) = Show(r, 1) \/ Obey(r, k) = ShowArray(r) \/ Obey(r, k) = r
BY Zenon DEF Obey, Quote

\* A text that is drawn and shown is found, after all that has been.
LEMMA TextShown ==
  ASSUME NEW C, NEW page, NEW g, Whole(g, page, C), NEW i \in 1 .. Len(page), Draws(page, i),
         page[i].kind = "string", Visible(page[i].text),
         \/ Is(page, i + 1, "Tj")
         \/ /\ Quotes(page, i + 1)
            /\ \A k \in {i - 1, i - 2} : k \in DOMAIN page /\ page[k].kind # "keyword"
  PROVE  /\ i + 1 \in 1 .. Len(page) /\ page[i].text \in Seq(C) \ {<<>>}
         /\ g[i].found = g[i - 1].found /\ g[i + 1].found = g[i].found \o <<page[i].text>>
<1> DEFINE r == g[i]
           t == page[i]
           T == TokenOf(C)
           a == g[i - 1].stack
           q == g[i + 1]
<1>0. Len(page) \in Nat /\ DOMAIN page = 1 .. Len(page)
  <2>1. Len(page) \in Nat
    BY WholeStep
  <2> QED BY <2>1 DEF Whole
<1>1. i + 1 \in 1 .. Len(page) /\ (i + 1) - 1 = i
  <2>1. i + 1 \in DOMAIN page
    BY QuoteIs DEF Is
  <2> QED BY <1>0, <2>1
<1>2. /\ r.stack = Append(a, t) /\ r.found = g[i - 1].found
      /\ r.isText = g[i - 1].isText /\ r.font = g[i - 1].font
      /\ g[i - 1] \in Reader(C) /\ r \in Reader(C) /\ t \in T
  <2>1. page[i].kind # "keyword"
    OBVIOUS
  <2>2. /\ g[i - 1] \in Reader(C) /\ g[i] \in Reader(C) /\ page[i] \in TokenOf(C)
        /\ page[i].kind # "keyword" =>
             /\ g[i].stack = Append(g[i - 1].stack, page[i]) /\ g[i].found = g[i - 1].found
             /\ g[i].isText = g[i - 1].isText /\ g[i].font = g[i - 1].font
    BY WholeStep
  <2> QED BY <2>1, <2>2, Zenon
<1>3. /\ g[i + 1].status = "on" /\ r.size <= MaxPdf
      /\ page[i + 1].kind = "keyword" => g[i + 1] = Obey(r, page[i + 1].name)
  BY <1>1, WholeStep
<1>4. r.isText /\ r.font \in Readable
  BY <1>2, DrawsOn
<1>5. a \in Seq(T)
  BY <1>2, ReaderFields
<1>6. Len(r.stack) \in Nat /\ Len(r.stack) >= 1 /\ r.stack # <<>> /\ Top(r) = t
  <2> DEFINE s == r.stack
  <2>1. Top(r) = s[Len(s)]
    BY DEF Top, Last
  <2> HIDE DEF a, t, T, r, s
  <2>2. s = Append(a, t)
    BY <1>2 DEF s
  <2>3. Len(s) \in Nat /\ Len(s) >= 1 /\ s # <<>> /\ s[Len(s)] = t
    BY <1>2, <1>5, <2>2
  <2> QED BY <2>1, <2>3 DEF s
<1> HIDE DEF r, t, a, T, q
<1>7. \E n \in 1 .. Len(r.stack) : q = Show(r, n)
  <2>1. CASE Is(page, i + 1, "Tj")
    <3>1. q = Obey(r, "Tj")
      BY <1>3, <2>1 DEF Is, q
    <3>2. q = Show(r, 1)
      BY <1>4, <1>6, <3>1 DEF Obey
    <3>3. 1 \in 1 .. Len(r.stack)
      BY <1>6
    <3> QED BY <3>2, <3>3
  <2>2. CASE /\ Quotes(page, i + 1)
             /\ \A k \in {i - 1, i - 2} : k \in DOMAIN page /\ page[k].kind # "keyword"
    <3> DEFINE u == page[i - 1]
               v == page[i - 2]
               b == g[(i - 2) - 1].stack
               p == page[i + 1].name
    <3>1. /\ i - 1 \in 1 .. Len(page) /\ i - 2 \in 1 .. Len(page) /\ (i - 1) - 1 = i - 2
          /\ u.kind # "keyword" /\ v.kind # "keyword"
      BY <1>0, <2>2
    <3>2. /\ g[i - 2].stack = Append(b, v) /\ g[(i - 2) - 1] \in Reader(C) /\ v \in T
      <4>1. /\ g[(i - 2) - 1] \in Reader(C) /\ v \in TokenOf(C)
            /\ v.kind # "keyword" => g[i - 2].stack = Append(b, v)
        BY <3>1, WholeStep
      <4> QED BY <3>1, <4>1 DEF T
    <3>3. a = Append(g[i - 2].stack, u) /\ u \in T
      <4>1. /\ u \in TokenOf(C)
            /\ u.kind # "keyword" => g[i - 1].stack = Append(g[(i - 1) - 1].stack, u)
        BY <3>1, WholeStep
      <4> QED BY <3>1, <4>1 DEF T, a
    <3>4. b \in Seq(T)
      BY <3>2, ReaderFields DEF T
    <3> HIDE DEF u, v, b
    <3>5. r.stack = Append(Append(Append(b, v), u), t)
      BY <1>2, <3>2, <3>3
    <3>6. ~(Len(r.stack) < 3) /\ 3 \in 1 .. Len(r.stack)
      <4>1. Append(b, v) \in Seq(T) /\ Len(Append(b, v)) = Len(b) + 1
        BY <3>2, <3>4
      <4> DEFINE b1 == Append(b, v)
      <4> HIDE DEF b1
      <4>2. Append(b1, u) \in Seq(T) /\ Len(Append(b1, u)) = Len(b1) + 1
        BY <3>3, <4>1 DEF b1
      <4> DEFINE b2 == Append(b1, u)
      <4> HIDE DEF b2
      <4>3. Len(Append(b2, t)) = Len(b2) + 1
        BY <1>2, <4>2 DEF b2
      <4>4. Len(r.stack) = Len(b) + 3 /\ Len(b) \in Nat
        BY <3>4, <3>5, <4>1, <4>2, <4>3 DEF b1, b2
      <4> QED BY <4>4
    <3>7. page[i + 1].kind = "keyword" /\ p = Quote
      BY <2>2, QuoteIs
    <3>8. q = Obey(r, p)
      BY <1>3, <3>7 DEF q
    <3> HIDE DEF p
    <3>9. q = IF Len(r.stack) < 3 THEN Clear(r) ELSE Show(r, 3)
      BY <1>4, <3>7, <3>8, QuoteObeyed
    <3> QED BY <3>6, <3>9
  <2> QED BY <2>1, <2>2
<1>8. t.kind = "string" /\ Visible(t.text)
  BY DEF t
<1>9. q.found = r.found \o <<t.text>>
  <2>1. PICK n \in 1 .. Len(r.stack) : q = Show(r, n)
    BY <1>7
  <2>2. q.status # "thrown"
    BY <1>3 DEF q
  <2>3. r.font \in Readable /\ Visible(Top(r).text) => q.found = r.found \o <<Top(r).text>>
    <3>1. r \in Reader(C) /\ r.size <= MaxPdf
      BY <1>2, <1>3
    <3>2. /\ Top(r).kind = "string"
          /\ q.stack = SubSeq(r.stack, 1, Len(r.stack) - n)
          /\ r.font \in Readable /\ Visible(Top(r).text) => q.found = r.found \o <<Top(r).text>>
      BY <2>1, <2>2, <3>1, ShowStep, ZenonT(30)
    <3> QED BY <3>2
  <2> QED BY <1>4, <1>6, <1>8, <2>3
<1>10. t.text \in Seq(C) \ {<<>>}
  BY <1>2, <1>8, Zenon DEF T, TokenOf, Visible
<1> QED BY <1>1, <1>2, <1>9, <1>10 DEF t, r, q

-----------------------------------------------------------------------------
\* Two numbers lie somewhere on the stack.
Deep(r) == \E e \in 1 .. Len(r.stack) - 1 : r.stack[e].kind = "number" /\ r.stack[e + 1].kind = "number"

\* Two operands below the top stay there until the stack is cleared.
LEMMA DeepStep ==
  ASSUME NEW C, NEW page, NEW g, Whole(g, page, C), NEW n \in 1 .. Len(page), Deep(g[n - 1]),
         ~Clears(page, n)
  PROVE  Deep(g[n])
<1> DEFINE r == g[n - 1]
           t == page[n]
           q == g[n]
           T == TokenOf(C)
           k == t.name
<1>1. /\ r \in Reader(C) /\ q \in Reader(C) /\ t \in T
      /\ q.status = "on" /\ r.size <= MaxPdf
      /\ t.kind = "keyword" => q = Obey(r, k)
      /\ t.kind # "keyword" => q.stack = Append(r.stack, t)
  BY WholeStep
<1>2. t.kind = "keyword" => k \notin {"m", "l", Quote}
  <2>1. n \in DOMAIN page
    BY DEF Whole
  <2> QED BY <2>1, NotCleared
<1>3. r.stack \in Seq(T) /\ Len(r.stack) \in Nat
  <2>1. r.stack \in Seq(T)
    BY <1>1, ReaderFields
  <2> HIDE DEF T, r
  <2> QED BY <2>1
<1> HIDE DEF r, q, t, T, k
<1>4. PICK e \in 1 .. Len(r.stack) - 1 : r.stack[e].kind = "number" /\ r.stack[e + 1].kind = "number"
  BY DEF Deep, r
<1>5. ASSUME NEW x \in Seq(T), x = q.stack, e + 1 <= Len(x), x[e] = r.stack[e], x[e + 1] = r.stack[e + 1]
      PROVE  Deep(q)
  <2>1. e \in 1 .. Len(q.stack) - 1
    BY <1>3, <1>5
  <2> QED BY <1>4, <1>5, <2>1 DEF Deep
<1>6. ASSUME NEW c \in 0 .. Len(r.stack), e + 1 <= c, q.stack = SubSeq(r.stack, 1, c)
      PROVE  Deep(q)
  <2> DEFINE s == r.stack
             x == SubSeq(s, 1, c)
  <2> HIDE DEF s
  <2>0. s \in Seq(T) /\ c \in 0 .. Len(s) /\ e \in 1 .. Len(s) - 1
    BY <1>3 DEF s
  <2>1. x \in Seq(T) /\ e + 1 <= Len(x) /\ x[e] = s[e] /\ x[e + 1] = s[e + 1]
    BY <1>6, <2>0
  <2> QED BY <1>5, <1>6, <2>1 DEF s
<1>7. ASSUME t.kind # "keyword" PROVE Deep(q)
  <2> DEFINE s == r.stack
             x == Append(s, t)
  <2> HIDE DEF s
  <2>0. s \in Seq(T) /\ e \in 1 .. Len(s) - 1
    BY <1>3 DEF s
  <2>1. x \in Seq(T) /\ e + 1 <= Len(x) /\ x[e] = s[e] /\ x[e + 1] = s[e + 1]
    BY <1>1, <2>0
  <2>2. x = q.stack
    BY <1>1, <1>7 DEF s
  <2> HIDE DEF x
  <2> QED BY <1>5, <2>1, <2>2 DEF s
<1>8. q.stack = r.stack => Deep(q)
  BY <1>4 DEF Deep
<1>9. Top(r) = r.stack[Len(r.stack)]
  BY DEF Top, Last
<1>10. Len(r.stack) - 1 \in 0 .. Len(r.stack) /\ Len(r.stack) >= 2 /\ r.stack # <<>>
  <2> DEFINE s == r.stack
  <2> HIDE DEF s
  <2>1. s \in Seq(T) /\ Len(s) \in Nat /\ e \in 1 .. Len(s) - 1
    BY <1>3 DEF s
  <2>2. Len(s) - 1 \in 0 .. Len(s) /\ Len(s) >= 2 /\ s # <<>>
    BY <2>1
  <2> QED BY <2>2 DEF s
<1>11. ASSUME t.kind = "keyword" PROVE Deep(q)
  <2>0. q = Obey(r, k)
    BY <1>1, <1>11
  <2>1. \/ q = [r EXCEPT !.isText = TRUE] \/ q = SetFont(r) \/ q = Show(r, 1) \/ q = ShowArray(r)
        \/ q = r
    BY <1>2, <1>11, <2>0, Obeyed
  <2>2. CASE q = [r EXCEPT !.isText = TRUE] \/ q = r
    <3>1. q.stack = r.stack
      BY <1>1, <2>2 DEF Reader, Fields
    <3> QED BY <1>8, <3>1
  <2>3. CASE q = SetFont(r)
    <3>1. q.stack = SubSeq(r.stack, 1, Len(r.stack) - 1) /\ r.stack[Len(r.stack) - 1].kind = "name"
      <4>1. q.status \notin {"over", "thrown"} =>
              IF Len(r.stack) < 2 THEN q.stack = r.stack
              ELSE /\ r.stack[Len(r.stack) - 1].kind = "name"
                   /\ q.font = r.stack[Len(r.stack) - 1].name
                   /\ q.stack = SubSeq(r.stack, 1, Len(r.stack) - 1)
        BY <1>1, <2>3, SetFontStep
      <4>2. ~(Len(r.stack) < 2)
        BY <1>3, <1>10
      <4> QED BY <1>1, <4>1, <4>2
    <3>2. e # Len(r.stack) - 1 /\ e + 1 # Len(r.stack) - 1
      BY <1>4, <3>1
    <3>3. e + 1 <= Len(r.stack) - 1
      BY <1>3, <3>2
    <3> QED BY <1>6, <1>10, <3>1, <3>3
  <2>4. ASSUME q.stack = r.stack \/ q.stack = SubSeq(r.stack, 1, Len(r.stack) - 1),
               Top(r).kind \in {"string", "array"}
        PROVE  Deep(q)
    <3>1. e + 1 # Len(r.stack)
      BY <1>4, <1>9, <2>4
    <3>2. e + 1 <= Len(r.stack) - 1
      BY <1>3, <3>1
    <3> QED BY <1>6, <1>8, <1>10, <2>4, <3>2
  <2>5. CASE q = Show(r, 1)
    <3>1. 1 \in 1 .. Len(r.stack)
      BY <1>3, <1>10
    <3>2. q.status # "thrown" => Top(r).kind = "string" /\ q.stack = SubSeq(r.stack, 1, Len(r.stack) - 1)
      BY <1>1, <2>5, <3>1, ShowStep
    <3> QED BY <1>1, <2>4, <3>2
  <2>6. CASE q = ShowArray(r)
    <3>1. /\ q.stack = r.stack \/ (Len(r.stack) >= 3 /\ q.stack = SubSeq(r.stack, 1, Len(r.stack) - 1))
          /\ q.status # "thrown" /\ Len(r.stack) >= 3 => Top(r).kind = "array"
      BY <1>1, <2>6, ShowArrayStep
    <3> QED BY <1>1, <1>8, <2>4, <3>1
  <2> QED BY <2>1, <2>2, <2>3, <2>5, <2>6
<1>12. Deep(q)
  BY <1>7, <1>11
<1> QED BY <1>12 DEF q

\* Below() finds two operands at the bottom of the stack.
LEMMA BelowDeep ==
  ASSUME NEW C, NEW page, NEW g, Whole(g, page, C), NEW i \in 1 .. Len(page), Below(page, i)
  PROVE  Deep(g[i - 1])
<1>0. Len(page) \in Nat
  BY WholeStep
<1>1. PICK k \in 3 .. i - 1 :
        /\ Is(page, k, "Td") /\ page[k - 1] = Number /\ page[k - 2] = Number
        /\ \A j \in k .. i : ~Clears(page, j)
  BY Zenon DEF Below, Clears
<1> DEFINE l == i - 1
           P == {n \in 0 .. l : n < k - 1 \/ Deep(g[n])}
<1>2. /\ l \in Nat /\ k - 2 \in 1 .. Len(page) /\ k - 1 \in 1 .. Len(page) /\ (k - 1) - 1 = k - 2
      /\ \A n \in 1 .. l : n \in 1 .. Len(page)
  BY <1>0
<1>3. Deep(g[k - 1])
  <2> DEFINE a == g[(k - 2) - 1].stack
             b == g[k - 2].stack
             c == g[k - 1].stack
             T == TokenOf(C)
  <2>1. Number.kind = "number"
    BY DEF Number, Token
  <2>2. b = Append(a, Number) /\ g[(k - 2) - 1] \in Reader(C) /\ Number \in T
    <3>1. page[k - 2] = Number /\ page[k - 2].kind # "keyword"
      BY <1>1, <2>1
    <3>2. Pushes(g, page, k - 2, C)
      BY <1>2, <3>1, Operand
    <3> QED BY <3>1, <3>2, Zenon DEF Pushes
  <2>3. c = Append(b, Number)
    <3>1. page[k - 1] = Number /\ page[k - 1].kind # "keyword"
      BY <1>1, <2>1
    <3>2. Pushes(g, page, k - 1, C)
      BY <1>2, <3>1, Operand
    <3>3. c = Append(g[(k - 1) - 1].stack, Number)
      BY <3>1, <3>2, Zenon DEF Pushes
    <3> QED BY <1>2, <3>3
  <2>4. a \in Seq(T)
    BY <2>2, ReaderFields
  <2> HIDE DEF a, b, c, T
  <2>5. /\ Len(a) \in Nat /\ Len(a) + 1 \in 1 .. Len(c) - 1
        /\ c[Len(a) + 1] = Number /\ c[(Len(a) + 1) + 1] = Number
    <3>1. b \in Seq(T) /\ Len(b) = Len(a) + 1 /\ b[Len(a) + 1] = Number /\ Len(a) \in Nat
      BY <2>2, <2>4
    <3>2. Len(c) = Len(b) + 1 /\ c[Len(b) + 1] = Number /\ \A n \in 1 .. Len(b) : c[n] = b[n]
      BY <2>2, <2>3, <3>1
    <3> QED BY <3>1, <3>2
  <2> QED BY <2>1, <2>5 DEF Deep, c
<1>4. 0 \in P
  BY <1>2
<1>5. ASSUME NEW n \in 1 .. l, n - 1 \in P
      PROVE  n \in P
  <2>1. n < k - 1 \/ n = k - 1 \/ (~(n - 1 < k - 1) /\ n \in k .. i)
    BY <1>2
  <2>2. n \in 0 .. l
    BY <1>2
  <2>3. CASE ~(n - 1 < k - 1) /\ n \in k .. i
    <3>1. Deep(g[n - 1])
      BY <1>5, <2>3
    <3>2. Deep(g[n])
      BY <1>1, <1>2, <2>3, <3>1, DeepStep
    <3> QED BY <2>2, <3>2
  <2> QED BY <1>3, <2>1, <2>2, <2>3
<1>6. 0 .. l \subseteq P
  <2> HIDE DEF P, l
  <2> QED BY <1>2, <1>4, <1>5, UpTo
<1>7. i - 1 \in 0 .. l /\ ~(i - 1 < k - 1)
  BY <1>0
<1> QED BY <1>6, <1>7

-----------------------------------------------------------------------------
\* Between the texts of a word there is no space.
Blanks == {<<" ">>}

\* A longest run of texts without a space is a word of the array.
LEMMA RunFound ==
  ASSUME NEW C, NEW parts \in Seq(Seq(C)), NEW w \in Runs(parts), w # <<>>
  PROVE  w \in ToSet(Gather(parts, Blanks)) /\ w \in Seq(C)
<1> DEFINE B(k) == k \notin DOMAIN parts \/ parts[k] \in Blanks
           X == Seq(C)
           l == Len(parts)
<1>0. l \in Nat /\ DOMAIN parts = 1 .. l /\ \A n \in 1 .. l : parts[n] \in Seq(C)
  <2>1. parts \in Seq(X)
    OBVIOUS
  <2> HIDE DEF X
  <2>2. l \in Nat /\ DOMAIN parts = 1 .. l /\ \A n \in 1 .. l : parts[n] \in X
    BY <2>1
  <2> QED BY <2>2 DEF X
<1>1. PICK i \in DOMAIN parts, j \in DOMAIN parts :
        /\ i <= j /\ \A k \in i .. j : ~B(k)
        /\ B(i - 1) /\ B(j + 1) /\ w = FlattenSeq(SubSeq(parts, i, j))
  <2>1. \A k : B(k) <=> (k \notin DOMAIN parts \/ parts[k] = <<" ">>)
    BY Zenon DEF Blanks
  <2> HIDE DEF B
  <2>2. PICK p \in (DOMAIN parts) \X (DOMAIN parts) :
          /\ p[1] <= p[2] /\ \A k \in p[1] .. p[2] : ~B(k)
          /\ B(p[1] - 1) /\ B(p[2] + 1) /\ w = FlattenSeq(SubSeq(parts, p[1], p[2]))
    BY <2>1, Zenon DEF Runs
  <2>3. p[1] \in DOMAIN parts /\ p[2] \in DOMAIN parts
    BY <2>2
  <2> QED BY <2>2, <2>3
<1> HIDE DEF l
<1>2. /\ i \in 1 .. l /\ j \in i .. l
      /\ \A n \in i .. j : parts[n] \notin Blanks
      /\ i = 1 \/ parts[i - 1] \in Blanks
      /\ j = l \/ parts[j + 1] \in Blanks
  BY <1>0, <1>1
<1>3. \A n \in 1 .. l : parts[n] \in Blanks \/ parts[n] \in Seq(C)
  BY <1>0
<1>4. PICK o \in Seq(C), y \in Seq(C) :
        /\ (o \o w) \o y \in ToSet(Gather(parts, Blanks))
        /\ i = 1 \/ parts[i - 1] \in Blanks => o = <<>>
        /\ j = Len(parts) \/ parts[j + 1] \in Blanks => y = <<>>
  <2> HIDE DEF B
  <2> QED BY <1>1, <1>2, <1>3, GatherRun DEF l
<1>5. w \in Seq(C)
  <2> DEFINE t == SubSeq(parts, i, j)
  <2>1. t \in Seq(X)
    <3>1. parts \in Seq(X)
      OBVIOUS
    <3> HIDE DEF X
    <3> QED BY <1>0, <1>2, <3>1
  <2>2. FlattenSeq(t) \in Seq(C)
    BY <2>1, FlattenType
  <2> QED BY <1>1, <2>2
<1>6. (<<>> \o w) \o <<>> = w
  BY <1>5
<1>7. o = <<>> /\ y = <<>>
  BY <1>2, <1>4 DEF l
<1> QED BY <1>4, <1>5, <1>6, <1>7

\* An array that is drawn and shown is found.
ArrayFound(g, page, i) == g[i + 1].found = g[i].found \o Gather(page[i].parts, Blanks)

\* What an array shows, if two operands lie below it, is found.
LEMMA ArrayShown ==
  ASSUME NEW C, NEW page, NEW g, Whole(g, page, C), NEW i \in 1 .. Len(page), Draws(page, i),
         page[i].kind = "array", Is(page, i + 1, "TJ"), Below(page, i)
  PROVE  i + 1 \in 1 .. Len(page) /\ ArrayFound(g, page, i)
<1> DEFINE r == g[i]
           t == page[i]
           T == TokenOf(C)
           a == g[i - 1].stack
           q == g[i + 1]
<1>0. Len(page) \in Nat /\ DOMAIN page = 1 .. Len(page)
  <2>1. Len(page) \in Nat
    BY WholeStep
  <2> QED BY <2>1 DEF Whole
<1>1. i + 1 \in 1 .. Len(page) /\ (i + 1) - 1 = i
  <2>1. i + 1 \in DOMAIN page
    BY DEF Is
  <2> QED BY <1>0, <2>1
<1>2. /\ r.stack = Append(a, t) /\ r.found = g[i - 1].found
      /\ r.isText = g[i - 1].isText /\ r.font = g[i - 1].font
      /\ g[i - 1] \in Reader(C) /\ r \in Reader(C) /\ t \in T
  <2>1. page[i].kind # "keyword"
    OBVIOUS
  <2>2. /\ g[i - 1] \in Reader(C) /\ g[i] \in Reader(C) /\ page[i] \in TokenOf(C)
        /\ page[i].kind # "keyword" =>
             /\ g[i].stack = Append(g[i - 1].stack, page[i]) /\ g[i].found = g[i - 1].found
             /\ g[i].isText = g[i - 1].isText /\ g[i].font = g[i - 1].font
    BY WholeStep
  <2> QED BY <2>1, <2>2, Zenon
<1>3. q.status = "on" /\ r.size <= MaxPdf /\ q = Obey(r, "TJ")
  <2>1. page[i + 1].kind = "keyword" /\ page[i + 1].name = "TJ"
    BY DEF Is
  <2>2. /\ g[i + 1].status = "on" /\ r.size <= MaxPdf
        /\ page[i + 1].kind = "keyword" => g[i + 1] = Obey(r, page[i + 1].name)
    BY <1>1, WholeStep
  <2> QED BY <2>1, <2>2
<1>4. r.isText /\ r.font \in Readable
  BY <1>2, DrawsOn
<1>5. a \in Seq(T)
  BY <1>2, ReaderFields
<1>6. PICK e \in 1 .. Len(a) - 1 : a[e].kind = "number" /\ a[e + 1].kind = "number"
  BY BelowDeep DEF Deep
<1>7. Len(r.stack) \in Nat /\ Len(r.stack) >= 3 /\ Top(r) = t
  <2> DEFINE s == r.stack
  <2>1. Top(r) = s[Len(s)]
    BY DEF Top, Last
  <2> HIDE DEF a, t, T, r, s
  <2>2. s = Append(a, t)
    BY <1>2 DEF s
  <2>3. Len(s) \in Nat /\ Len(s) = Len(a) + 1 /\ s[Len(s)] = t /\ Len(a) \in Nat
    BY <1>2, <1>5, <2>2
  <2>4. Len(a) >= 2
    BY <1>6, <2>3
  <2> QED BY <2>1, <2>3, <2>4 DEF s
<1> HIDE DEF r, t, a, T, q
<1>8. q = ShowArray(r)
  BY <1>3, <1>4 DEF Obey
<1>9. q.found = r.found \o PartWords(r, t.parts)
  <2>1. q.status # "thrown" /\ Len(r.stack) >= 3 =>
          Top(r).kind = "array" /\ q.found = r.found \o PartWords(r, Top(r).parts)
    BY <1>2, <1>3, <1>8, ShowArrayStep
  <2> QED BY <1>3, <1>7, <2>1
<1>10. t.parts \in Seq(Seq(C))
  BY <1>2 DEF T, TokenOf
<1>11. PartWords(r, t.parts) = Gather(t.parts, Blanks)
  <2> DEFINE parts == t.parts
             X == Seq(C)
  <2>1. parts \in Seq(X)
    BY <1>10
  <2> HIDE DEF parts, X
  <2>2. [k \in DOMAIN parts |-> Utf8(r, parts[k])] = [k \in DOMAIN parts |-> parts[k]]
    BY <1>4 DEF Utf8
  <2>3. [k \in DOMAIN parts |-> parts[k]] = parts
    BY <2>1
  <2>4. [k \in DOMAIN parts |-> Utf8(r, parts[k])] = parts
    BY <2>2, <2>3
  <2> QED BY <2>4, Zenon DEF PartWords, Blanks, parts
<1> QED BY <1>1, <1>9, <1>10, <1>11 DEF ArrayFound, t, r, q

\* A concatenation has the members of both.
LEMMA MembersConcat ==
  ASSUME NEW S, NEW a \in Seq(S), NEW b \in Seq(S)
  PROVE  ToSet(a) \subseteq ToSet(a \o b) /\ ToSet(b) \subseteq ToSet(a \o b)
<1>0. Len(a) \in Nat /\ Len(b) \in Nat /\ a \o b \in Seq(S) /\ Len(a \o b) = Len(a) + Len(b)
  OBVIOUS
<1>1. \A n \in 1 .. Len(a) : n \in 1 .. Len(a \o b) /\ (a \o b)[n] = a[n]
  BY <1>0
<1>2. \A n \in 1 .. Len(b) : Len(a) + n \in 1 .. Len(a \o b) /\ (a \o b)[Len(a) + n] = b[n]
  BY <1>0
<1>3. \A s \in Seq(S) : ToSet(s) = {s[n] : n \in 1 .. Len(s)}
  BY DEF ToSet
<1> DEFINE c == a \o b
<1> HIDE DEF c
<1>4. ToSet(a) = {a[n] : n \in 1 .. Len(a)} /\ ToSet(b) = {b[n] : n \in 1 .. Len(b)}
  BY <1>3
<1>5. ToSet(c) = {c[n] : n \in 1 .. Len(c)}
  BY <1>0, <1>3 DEF c
<1>6. ToSet(a) \subseteq ToSet(c)
  BY <1>1, <1>4, <1>5 DEF c
<1>7. ToSet(b) \subseteq ToSet(c)
  <2> SUFFICES ASSUME NEW n \in 1 .. Len(b) PROVE b[n] \in ToSet(c)
    BY <1>4
  <2>1. Len(a) + n \in 1 .. Len(c) /\ c[Len(a) + n] = b[n]
    BY <1>2 DEF c
  <2> DEFINE m == Len(a) + n
  <2> HIDE DEF m
  <2> QED BY <1>5, <2>1 DEF m
<1> QED BY <1>6, <1>7 DEF c

\* A sequence has the members of its beginning.
LEMMA MembersBegin ==
  ASSUME NEW S, NEW a \in Seq(S), NEW b \in Seq(S), Begins(a, b)
  PROVE  ToSet(a) \subseteq ToSet(b)
<1>0. Len(a) \in Nat /\ Len(b) \in Nat /\ Len(a) <= Len(b)
  BY DEF Begins
<1>1. \A n \in 1 .. Len(a) : n \in 1 .. Len(b) /\ b[n] = a[n]
  BY <1>0 DEF Begins
<1>3. \A s \in Seq(S) : ToSet(s) = {s[n] : n \in 1 .. Len(s)}
  BY DEF ToSet
<1> QED BY <1>1, <1>3

\* What a page shows is found on it.
LEMMA ShownFound ==
  ASSUME NEW C, NEW page, NEW g, Whole(g, page, C), NEW i \in DOMAIN page,
         NEW w \in ShownAt(page, i), Visible(w)
  PROVE  w \in ToSet(g[Len(page)].found) /\ w \in Seq(C) \ {<<>>}
<1> DEFINE l == Len(page)
           X == Seq(C) \ {<<>>}
           t == page[i]
<1>0. l \in Nat /\ i \in 1 .. l
  <2>1. i \in 1 .. l
    BY DEF Whole
  <2> QED BY <2>1, WholeStep
<1>1. /\ Draws(page, i)
      /\ \/ /\ t.kind = "string" /\ w = t.text
            /\ \/ Is(page, i + 1, "Tj")
               \/ /\ Quotes(page, i + 1)
                  /\ \A k \in {i - 1, i - 2} : k \in DOMAIN page /\ page[k].kind # "keyword"
         \/ t.kind = "array" /\ w \in Runs(t.parts) /\ Is(page, i + 1, "TJ") /\ Below(page, i)
  <2> DEFINE Y == Is(page, i + 1, "Tj")
             Z == /\ Quotes(page, i + 1)
                  /\ \A k \in {i - 1, i - 2} : k \in DOMAIN page /\ page[k].kind # "keyword"
             W == Is(page, i + 1, "TJ") /\ Below(page, i)
             D == /\ Draws(page, i)
                  /\ (t.kind = "string" /\ Y) \/ (t.kind = "string" /\ Z) \/ (t.kind = "array" /\ W)
  <2>1. ShownAt(page, i) = CASE D /\ t.kind = "string" -> {t.text}
                             [] D /\ t.kind = "array"  -> Runs(t.parts)
                             [] ~D                     -> {}
    BY Zenon DEF ShownAt, Quotes
  <2> HIDE DEF Y, Z, W, t
  <2>2. D
    BY <2>1
  <2>3. (t.kind = "string" /\ w = t.text) \/ (t.kind = "array" /\ w \in Runs(t.parts))
    BY <2>1, <2>2
  <2>4. t.kind = "string" => Y \/ Z
    BY <2>2
  <2>5. t.kind = "array" => W
    BY <2>2
  <2> HIDE DEF D
  <2>6. Draws(page, i)
    BY <2>2 DEF D
  <2> QED BY <2>3, <2>4, <2>5, <2>6, Zenon DEF Y, Z, W
<1> HIDE DEF t
<1>2. \A n \in 0 .. l : g[n].found \in Seq(X)
  <2> TAKE n \in 0 .. l
  <2>1. g[n] \in Reader(C)
    BY PageSteps DEF Whole
  <2> QED BY <2>1, ReaderFields
<1> HIDE DEF X
<1>3. i + 1 \in 1 .. l /\ w \in X /\ w \in ToSet(g[i + 1].found)
  <2>1. CASE /\ t.kind = "string" /\ w = t.text
             /\ \/ Is(page, i + 1, "Tj")
                \/ /\ Quotes(page, i + 1)
                   /\ \A k \in {i - 1, i - 2} : k \in DOMAIN page /\ page[k].kind # "keyword"
    <3>1. i + 1 \in 1 .. l /\ t.text \in X /\ g[i + 1].found = g[i].found \o <<t.text>>
      <4>1. /\ i \in 1 .. Len(page) /\ Draws(page, i) /\ page[i].kind = "string"
            /\ Visible(page[i].text)
            /\ \/ Is(page, i + 1, "Tj")
               \/ /\ Quotes(page, i + 1)
                  /\ \A k \in {i - 1, i - 2} : k \in DOMAIN page /\ page[k].kind # "keyword"
        BY <1>0, <1>1, <2>1 DEF t
      <4>2. /\ i + 1 \in 1 .. Len(page) /\ page[i].text \in Seq(C) \ {<<>>}
            /\ g[i].found = g[i - 1].found /\ g[i + 1].found = g[i].found \o <<page[i].text>>
        <5>1. \A k \in 1 .. Len(page) :
                /\ Draws(page, k) /\ page[k].kind = "string" /\ Visible(page[k].text)
                /\ \/ Is(page, k + 1, "Tj")
                   \/ /\ Quotes(page, k + 1)
                      /\ \A n \in {k - 1, k - 2} : n \in DOMAIN page /\ page[n].kind # "keyword"
                => /\ k + 1 \in 1 .. Len(page) /\ page[k].text \in Seq(C) \ {<<>>}
                   /\ g[k].found = g[k - 1].found /\ g[k + 1].found = g[k].found \o <<page[k].text>>
          BY TextShown
        <5> QED BY <4>1, <5>1
      <4> QED BY <4>2 DEF t, X
    <3>2. <<w>> \in Seq(X) /\ w \in ToSet(<<w>>)
      BY <2>1, <3>1 DEF ToSet
    <3>3. g[i].found \in Seq(X)
      BY <1>0, <1>2
    <3>4. ToSet(<<w>>) \subseteq ToSet(g[i].found \o <<w>>)
      BY <3>2, <3>3, MembersConcat
    <3> QED BY <2>1, <3>1, <3>2, <3>4
  <2>2. CASE t.kind = "array" /\ w \in Runs(t.parts) /\ Is(page, i + 1, "TJ") /\ Below(page, i)
    <3>1. /\ i + 1 \in 1 .. l /\ t.parts \in Seq(Seq(C))
          /\ g[i + 1].found = g[i].found \o Gather(t.parts, Blanks)
      <4>1. /\ i \in 1 .. Len(page) /\ Draws(page, i) /\ page[i].kind = "array"
            /\ Is(page, i + 1, "TJ") /\ Below(page, i)
        BY <1>0, <1>1, <2>2 DEF t
      <4>3. page[i].parts \in Seq(Seq(C))
        <5>1. page[i] \in TokenOf(C)
          BY <4>1, WholeStep
        <5> QED BY <5>1 DEF TokenOf
      <4>2. /\ i + 1 \in 1 .. Len(page)
            /\ g[i + 1].found = g[i].found \o Gather(page[i].parts, Blanks)
        <5>1. i + 1 \in 1 .. Len(page) /\ ArrayFound(g, page, i)
          BY <4>1, ArrayShown
        <5> QED BY <5>1, Zenon DEF ArrayFound
      <4> QED BY <4>2, <4>3 DEF t
    <3>2. w # <<>>
      BY DEF Visible
    <3>3. w \in ToSet(Gather(t.parts, Blanks)) /\ w \in Seq(C)
      BY <2>2, <3>1, <3>2, RunFound
    <3>4. Gather(t.parts, Blanks) \in Seq(X)
      <4>1. \A n \in 1 .. Len(t.parts) : t.parts[n] \in Blanks \/ t.parts[n] \in Seq(C)
        BY <3>1
      <4> QED BY <3>1, <4>1, GatherType DEF X
    <3>5. g[i].found \in Seq(X)
      BY <1>0, <1>2
    <3>6. ToSet(Gather(t.parts, Blanks)) \subseteq ToSet(g[i].found \o Gather(t.parts, Blanks))
      BY <3>4, <3>5, MembersConcat
    <3> QED BY <3>1, <3>2, <3>3, <3>6 DEF X
  <2> QED BY <1>1, <2>1, <2>2
<1>4. ToSet(g[i + 1].found) \subseteq ToSet(g[l].found)
  <2>1. i + 1 \in 0 .. l /\ l \in i + 1 .. l /\ l \in 0 .. l
    BY <1>0, <1>3
  <2>2. Begins(g[i + 1].found, g[l].found)
    BY <2>1, PageLater DEF Whole, Later
  <2> QED BY <1>2, <2>1, <2>2, MembersBegin
<1> QED BY <1>3, <1>4 DEF X

-----------------------------------------------------------------------------
(* Texts without a hyphen at their end *)

Bare(s)    == s # <<>> => Last(s) # "-"
AllBare(f) == \A n \in 1 .. Len(f) : Bare(f[n])
Quiet(t)   == Bare(t.text) /\ AllBare(t.parts)

\* Texts without a hyphen at their end make one without.
LEMMA BareConcat ==
  ASSUME NEW S, NEW a \in Seq(S), NEW b \in Seq(S), Bare(a), Bare(b)
  PROVE  Bare(a \o b)
<1>0. \A s \in Seq(S) : Last(s) = s[Len(s)] /\ Len(s) \in Nat /\ (s # <<>> <=> Len(s) # 0)
  BY DEF Last
<1> DEFINE t == a \o b
<1>1. t \in Seq(S) /\ Len(t) = Len(a) + Len(b)
  OBVIOUS
<1>2. CASE b = <<>>
  <2>1. t = a
    BY <1>2
  <2> QED BY <2>1
<1>3. CASE b # <<>>
  <2>1. Len(b) # 0 /\ Len(b) \in Nat /\ Len(a) \in Nat
    BY <1>0, <1>3
  <2>2. t[Len(a) + Len(b)] = b[Len(b)]
    BY <2>1
  <2> HIDE DEF t
  <2>3. Last(t) = Last(b)
    BY <1>0, <1>1, <2>2
  <2>4. Last(b) # "-"
    BY <1>3 DEF Bare
  <2> QED BY <2>3, <2>4 DEF Bare, t
<1> QED BY <1>2, <1>3

\* So do sequences of such texts.
LEMMA AllBareConcat ==
  ASSUME NEW S, NEW a \in Seq(S), NEW b \in Seq(S), AllBare(a), AllBare(b)
  PROVE  AllBare(a \o b)
<1>0. /\ Len(a) \in Nat /\ Len(b) \in Nat /\ Len(a \o b) = Len(a) + Len(b)
      /\ \A n \in 1 .. Len(a) : (a \o b)[n] = a[n]
      /\ \A n \in Len(a) + 1 .. Len(a) + Len(b) : (a \o b)[n] = b[n - Len(a)] /\ n - Len(a) \in 1 .. Len(b)
  OBVIOUS
<1> DEFINE c == a \o b
<1> HIDE DEF c
<1>1. ASSUME NEW n \in 1 .. Len(c) PROVE Bare(c[n])
  <2>1. n \in 1 .. Len(a) \/ n \in Len(a) + 1 .. Len(a) + Len(b)
    BY <1>0 DEF c
  <2>2. CASE n \in 1 .. Len(a)
    <3>1. c[n] = a[n]
      BY <1>0, <2>2 DEF c
    <3> QED BY <2>2, <3>1 DEF AllBare
  <2>3. CASE n \in Len(a) + 1 .. Len(a) + Len(b)
    <3>1. c[n] = b[n - Len(a)] /\ n - Len(a) \in 1 .. Len(b)
      BY <1>0, <2>3 DEF c
    <3> QED BY <3>1 DEF AllBare
  <2> QED BY <2>1, <2>2, <2>3
<1> QED BY <1>1 DEF AllBare, c

\* One such text, and none.
LEMMA AllBareOne ==
  ASSUME NEW s, Bare(s)
  PROVE  AllBare(<<s>>) /\ AllBare(<<>>)
<1> DEFINE t == <<s>>
<1>1. Len(t) = 1 /\ t[1] = s /\ Len(<<>>) = 0
  OBVIOUS
<1> HIDE DEF t
<1>2. \A n \in 1 .. Len(t) : Bare(t[n])
  BY <1>1
<1> QED BY <1>1, <1>2 DEF AllBare, t

\* The words that such parts make have none either.
LEMMA BareGather ==
  ASSUME NEW C, NEW blanks, NEW parts \in Seq(Seq(C)), AllBare(parts)
  PROVE  AllBare(Gather(parts, blanks))
<1> DEFINE X == Seq(C)
           l == Len(parts)
<1>0. l \in Nat /\ \A n \in 1 .. l : parts[n] \in Seq(C) /\ Bare(parts[n])
  <2>1. parts \in Seq(X)
    OBVIOUS
  <2> HIDE DEF X
  <2>2. l \in Nat /\ \A n \in 1 .. l : parts[n] \in X
    BY <2>1
  <2> QED BY <2>2 DEF X, AllBare
<1>1. PICK f : Gathers(f, parts, blanks, C) /\ Gather(parts, blanks) = Close(f[l]).words
  <2>1. \A n \in 1 .. Len(parts) : parts[n] \in blanks \/ parts[n] \in Seq(C)
    BY <1>0
  <2> QED BY <2>1, GatherFold
<1> DEFINE Y == Seq(C) \ {<<>>}
           Ok(g) == AllBare(g.words) /\ Bare(g.open)
<1>2. ASSUME NEW g \in Gathered(C), Ok(g)
      PROVE  Ok(Close(g))
  <2>0. g.words \in Seq(Y) /\ g.open \in Seq(C)
    BY DEF Gathered
  <2>1. CASE g.open = <<>>
    <3>1. Close(g).words = g.words /\ Close(g).open = <<>>
      BY <2>1, CloseType
    <3> QED BY <1>2, <3>1 DEF Bare
  <2>2. CASE g.open # <<>>
    <3>1. Close(g).words = Append(g.words, g.open) /\ Close(g).open = <<>>
      BY <2>2, CloseType
    <3> DEFINE w == g.words
               o == g.open
    <3>2. w \in Seq(Y) /\ o \in Y /\ AllBare(w) /\ Bare(o)
      BY <1>2, <2>0, <2>2
    <3> HIDE DEF w, o, Y
    <3>3. Append(w, o) = w \o <<o>> /\ <<o>> \in Seq(Y)
      BY <3>2
    <3>4. AllBare(w \o <<o>>)
      BY <3>2, <3>3, AllBareOne, AllBareConcat
    <3> QED BY <3>1, <3>3, <3>4 DEF Bare, w, o
  <2> QED BY <2>1, <2>2
<1>3. /\ \A n \in 0 .. l : f[n] \in Gathered(C) /\ f[n].open \in Seq(C)
      /\ f[0] = [words |-> <<>>, open |-> <<>>]
      /\ \A n \in 1 .. l : f[n] = IF parts[n] \in blanks THEN Close(f[n - 1])
                                  ELSE [words |-> f[n - 1].words, open |-> f[n - 1].open \o parts[n]]
  BY <1>1 DEF Gathers, Gathered
<1> HIDE DEF l
<1> DEFINE P == {n \in 0 .. l : Ok(f[n])}
<1>4. 0 \in P
  <2>1. f[0].words = <<>> /\ f[0].open = <<>>
    BY <1>3
  <2>2. AllBare(<<>>) /\ Bare(<<>>)
    <3>1. Bare(<<>>)
      BY DEF Bare
    <3> QED BY <3>1, AllBareOne
  <2> QED BY <1>0, <2>1, <2>2
<1>5. ASSUME NEW n \in 1 .. l, n - 1 \in P
      PROVE  n \in P
  <2>1. n \in 0 .. l /\ n - 1 \in 0 .. l /\ Ok(f[n - 1]) /\ f[n - 1] \in Gathered(C)
    BY <1>0, <1>3, <1>5
  <2>2. CASE parts[n] \in blanks
    <3>1. f[n] = Close(f[n - 1])
      BY <1>3, <2>2
    <3> HIDE DEF Ok
    <3> QED BY <1>2, <2>1, <3>1
  <2>3. CASE parts[n] \notin blanks
    <3>1. f[n].words = f[n - 1].words /\ f[n].open = f[n - 1].open \o parts[n]
      <4> DEFINE w == f[n - 1].words
                 o == f[n - 1].open \o parts[n]
      <4>1. f[n] = [words |-> w, open |-> o]
        BY <1>3, <2>3
      <4> HIDE DEF w, o
      <4>2. f[n].words = w /\ f[n].open = o
        BY <4>1
      <4> QED BY <4>2 DEF w, o
    <3>2. Bare(f[n - 1].open \o parts[n])
      BY <1>0, <1>3, <2>1, BareConcat
    <3> QED BY <2>1, <3>1, <3>2
  <2> QED BY <2>2, <2>3
<1>6. 0 .. l \subseteq P
  <2> HIDE DEF P
  <2> QED BY <1>0, <1>4, <1>5, UpTo
<1>7. Ok(f[l]) /\ f[l] \in Gathered(C)
  BY <1>0, <1>3, <1>6
<1>8. Ok(Close(f[l]))
  <2> HIDE DEF Ok
  <2> QED BY <1>2, <1>7
<1> QED BY <1>1, <1>8 DEF l

\* Parts without a hyphen at their end make words without one.
LEMMA BareWords ==
  ASSUME NEW C, NEW r, NEW parts \in Seq(Seq(C)), AllBare(parts)
  PROVE  AllBare(PartWords(r, parts)) /\ PartWords(r, parts) \in Seq(Seq(C) \ {<<>>})
<1> DEFINE texts == [i \in DOMAIN parts |-> Utf8(r, parts[i])]
           X == Seq(C)
<1>1. texts \in Seq(Seq(C))
  BY TextsType
<1>0. \A n \in 1 .. Len(texts) : n \in DOMAIN parts /\ n \in 1 .. Len(parts)
  <2>1. DOMAIN texts = DOMAIN parts
    OBVIOUS
  <2>2. parts \in Seq(X) /\ texts \in Seq(X)
    BY <1>1
  <2> HIDE DEF X, texts
  <2> QED BY <2>1, <2>2
<1>2. AllBare(texts)
  <2> SUFFICES ASSUME NEW n \in 1 .. Len(texts) PROVE Bare(texts[n])
    BY DEF AllBare
  <2>1. n \in 1 .. Len(parts) /\ n \in DOMAIN parts
    <3> HIDE DEF texts
    <3> QED BY <1>0
  <2>2. texts[n] = parts[n] \/ texts[n] = <<>>
    BY <2>1 DEF Utf8
  <2>3. Bare(parts[n]) /\ Bare(<<>>)
    BY <2>1 DEF AllBare, Bare
  <2> HIDE DEF texts
  <2> QED BY <2>2, <2>3
<1>3. PartWords(r, parts) = Gather(texts, {<<" ">>})
  BY Zenon DEF PartWords
<1>4. PartWords(r, parts) \in Seq(Seq(C) \ {<<>>})
  BY TextsType DEF PartWords
<1> HIDE DEF texts
<1> QED BY <1>1, <1>2, <1>3, <1>4, BareGather

\* As long as a page shows no hyphen, none is found.
LEMMA PageBare ==
  ASSUME NEW C, NEW page \in Seq(TokenOf(C)), NEW r, NEW g, ReadsTokens(g, r, page, C),
         r.stack = <<>>, AllBare(r.found), NEW m \in 0 .. Len(page), \A i \in 1 .. m : Quiet(page[i])
  PROVE  AllBare(g[m].found)
<1> DEFINE l == Len(page)
           X == Seq(C) \ {<<>>}
           P == {n \in 0 .. l : n > m \/ AllBare(g[n].found)}
<1>0. /\ l \in Nat /\ g[0] = r /\ \A n \in 0 .. l : g[n] \in Reader(C)
      /\ \A n \in 1 .. l : n - 1 \in 0 .. l /\ n \in 0 .. l /\ TokenStep(g[n - 1], page[n], g[n])
                           /\ page[n] \in TokenOf(C)
  BY PageSteps
<1>1. 0 \in P
  BY <1>0
<1>2. ASSUME NEW n \in 1 .. l, n - 1 \in P
      PROVE  n \in P
  <2> SUFFICES ASSUME ~(n > m) PROVE AllBare(g[n].found)
    BY <1>0
  <2> DEFINE a == g[n - 1]
             t == Top(a)
  <2>1. n - 1 \in 0 .. l /\ ~(n - 1 > m) /\ a \in Reader(C)
    BY <1>0
  <2>2. AllBare(a.found)
    BY <1>2, <2>1
  <2>3. a.found \in Seq(X) /\ a.stack \in Seq(TokenOf(C))
    BY <2>1, ReaderFields
  <2>4. a.stack # <<>> => t \in TokenOf(C) /\ Quiet(t)
    <3> SUFFICES ASSUME a.stack # <<>> PROVE t \in TokenOf(C) /\ Quiet(t)
      OBVIOUS
    <3> DEFINE s == a.stack
               T == TokenOf(C)
    <3>1. s \in Seq(T) /\ s # <<>>
      BY <2>3
    <3>2. t = s[Len(s)]
      BY DEF Top, Last
    <3>3. Len(s) \in 1 .. Len(s)
      <4> HIDE DEF s, T
      <4> QED BY <3>1
    <3>a. \A k \in 1 .. Len(g[n - 1].stack) : \E i \in 1 .. n - 1 : g[n - 1].stack[k] = page[i]
      BY <2>1, FromPage
    <3>4. PICK i \in 1 .. n - 1 : s[Len(s)] = page[i]
      BY <3>3, <3>a
    <3>5. i \in 1 .. m /\ i \in 1 .. l
      BY <1>0, <2>1, <3>4
    <3> QED BY <1>0, <3>2, <3>4, <3>5
  <2>5. \/ g[n].found = a.found
        \/ a.stack # <<>> /\ g[n].found = a.found \o <<t.text>>
        \/ a.stack # <<>> /\ g[n].found = a.found \o PartWords(a, t.parts)
    BY <1>0 DEF TokenStep
  <2> HIDE DEF a, t, X
  <2>6. CASE a.stack # <<>> /\ g[n].found = a.found \o <<t.text>>
    <3> DEFINE Y == X \cup {t.text}
    <3>1. a.found \in Seq(Y) /\ <<t.text>> \in Seq(Y)
      <4> DEFINE f == a.found
      <4> HIDE DEF f
      <4>1. f \in Seq(X)
        BY <2>3 DEF f
      <4>2. f \in Seq(Y)
        BY <4>1
      <4> QED BY <4>2 DEF f
    <3>2. AllBare(<<t.text>>)
      BY <2>4, <2>6, AllBareOne DEF Quiet
    <3> HIDE DEF Y
    <3>3. AllBare(a.found \o <<t.text>>)
      BY <2>2, <3>1, <3>2, AllBareConcat
    <3> QED BY <2>6, <3>3
  <2>7. CASE a.stack # <<>> /\ g[n].found = a.found \o PartWords(a, t.parts)
    <3>1. t.parts \in Seq(Seq(C)) /\ AllBare(t.parts)
      BY <2>4, <2>7 DEF TokenOf, Quiet
    <3>2. AllBare(PartWords(a, t.parts)) /\ PartWords(a, t.parts) \in Seq(X)
      BY <3>1, BareWords DEF X
    <3>3. AllBare(a.found \o PartWords(a, t.parts))
      BY <2>2, <2>3, <3>2, AllBareConcat
    <3> QED BY <2>7, <3>3
  <2> QED BY <2>2, <2>5, <2>6, <2>7
<1>3. 0 .. l \subseteq P
  <2> HIDE DEF P, l
  <2> QED BY <1>0, <1>1, <1>2, UpTo
<1>4. ~(m > m) /\ m \in 0 .. l
  BY <1>0
<1> QED BY <1>3, <1>4

-----------------------------------------------------------------------------
(* What JoinHyphens and OneLine keep *)

\* The front of a sequence has members of the sequence only.
LEMMA FrontMembers ==
  ASSUME NEW S, NEW s \in Seq(S), s # <<>>
  PROVE  ToSet(Front(s)) \subseteq ToSet(s)
<1>1. Front(s) \in Seq(S) /\ Last(s) \in S /\ s = Append(Front(s), Last(s))
  BY FrontLast
<1> DEFINE f == Front(s)
           z == Last(s)
<1> HIDE DEF f, z
<1>2. ToSet(f) \subseteq ToSet(Append(f, z))
  BY <1>1, MembersAppend DEF f, z
<1> QED BY <1>1, <1>2 DEF f, z

\* x is among the words, and no hyphen of its own waits for another word.
Held(d, x) == IF d.open THEN x \in ToSet(Front(d.words)) ELSE x \in ToSet(d.words)

\* Front() and Last() undo Append().
LEMMA FrontAppend ==
  ASSUME NEW S, NEW s \in Seq(S), NEW y \in S
  PROVE  Front(Append(s, y)) = s /\ Last(Append(s, y)) = y /\ Append(s, y) # <<>>
<1> DEFINE t == Append(s, y)
<1>1. t \in Seq(S) /\ Len(t) = Len(s) + 1 /\ t[Len(s) + 1] = y /\ t # <<>> /\ Len(s) \in Nat
  OBVIOUS
<1>2. SubSeq(t, 1, Len(s)) = s
  OBVIOUS
<1>3. Len(t) - 1 = Len(s)
  BY <1>1
<1>4. Front(t) = SubSeq(t, 1, Len(t) - 1) /\ Last(t) = t[Len(t)]
  BY DEF Front, Last
<1> HIDE DEF t
<1>5. Front(t) = s /\ Last(t) = y
  BY <1>1, <1>2, <1>3, <1>4
<1> QED BY <1>1, <1>5 DEF t

\* A turn of the loop over hyphens keeps the words that are complete.
LEMMA HyphenHeld ==
  ASSUME NEW C, NEW d \in Joining(C), NEW w \in Seq(C) \ {<<>>}, NEW x, Held(d, x)
  PROVE  Held(Hyphen(d, w), x)
<1> DEFINE X == Seq(C)
           a == d.words
<1>0. a \in Seq(X) /\ (d.open => a # <<>>) /\ w \in X /\ d.open \in BOOLEAN
  <2> DEFINE Y == Seq(C) \ {<<>>}
  <2>1. a \in Seq(Y) /\ (d.open => a # <<>>) /\ d.open \in BOOLEAN
    BY DEF Joining
  <2>2. Y \subseteq X
    OBVIOUS
  <2> HIDE DEF Y, X, a
  <2>3. a \in Seq(X)
    BY <2>1, <2>2
  <2>4. w \in X
    BY DEF X
  <2> QED BY <2>1, <2>3, <2>4
<1>1. CASE d.open
  <2> DEFINE f == Front(a)
             y == Last(a) \o w
             b == f \o <<y>>
  <2>1. Hyphen(d, w) = [words |-> b, open |-> FALSE]
    BY <1>1 DEF Hyphen
  <2>2. f \in Seq(X) /\ Last(a) \in X
    BY <1>0, <1>1, FrontLast
  <2>3. y \in X
    BY <1>0, <2>2
  <2>4. x \in ToSet(f)
    BY <1>1 DEF Held
  <2> HIDE DEF f, y, X
  <2>5. <<y>> \in Seq(X)
    BY <2>3
  <2>6. x \in ToSet(b)
    BY <2>2, <2>4, <2>5, MembersConcat
  <2> HIDE DEF b
  <2>7. Hyphen(d, w).words = b /\ Hyphen(d, w).open = FALSE
    BY <2>1
  <2> QED BY <2>6, <2>7 DEF Held
<1>2. CASE ~d.open
  <2> DEFINE y == IF Hyphenated(w) THEN Front(w) ELSE w
             b == Append(a, y)
  <2>1. Hyphen(d, w) = [words |-> b, open |-> Hyphenated(w)]
    BY <1>2 DEF Hyphen
  <2>2. y \in X
    <3>1. Front(w) \in Seq(C)
      BY FrontLast
    <3> QED BY <1>0, <3>1
  <2>3. x \in ToSet(a)
    BY <1>2 DEF Held
  <2> HIDE DEF y, X, a
  <2>4. ToSet(a) \subseteq ToSet(b) /\ Front(b) = a
    BY <1>0, <2>2, MembersAppend, FrontAppend
  <2> HIDE DEF b
  <2>5. Hyphen(d, w).words = b
    BY <2>1
  <2> QED BY <2>3, <2>4, <2>5 DEF Held
<1> QED BY <1>1, <1>2

\* The first word that ends with a hyphen makes one with the next; the words before it,
\* or all, stay.
LEMMA JoinedFirst ==
  ASSUME NEW C, NEW F \in Seq(Seq(C) \ {<<>>}), NEW n \in 1 .. Len(F), NEW x,
         \A m \in 1 .. n - 1 : ~Hyphenated(F[m]),
         \/ ~Hyphenated(F[n]) /\ x = F[n]
         \/ Hyphenated(F[n]) /\ n + 1 <= Len(F) /\ x = Front(F[n]) \o F[n + 1]
  PROVE  x \in ToSet(JoinHyphens(F))
<1> DEFINE X == Seq(C)
           Y == Seq(C) \ {<<>>}
           l == Len(F)
<1>0. l \in Nat /\ \A m \in 1 .. l : F[m] \in Seq(C) \ {<<>>} /\ F[m] \in X
  <2>1. F \in Seq(Y)
    OBVIOUS
  <2>2. Y \subseteq X
    OBVIOUS
  <2> HIDE DEF X, Y
  <2>3. l \in Nat /\ \A m \in 1 .. l : F[m] \in Y /\ F[m] \in X
    BY <2>1, <2>2
  <2> QED BY <2>3 DEF Y
<1>1. PICK f : Hyphens(f, F, C) /\ JoinHyphens(F) = f[l].words
  BY HyphensFold
<1>2. /\ \A m \in 0 .. l : f[m] \in Joining(C)
      /\ f[0] = [words |-> <<>>, open |-> FALSE]
      /\ \A m \in 1 .. l : f[m] = Hyphen(f[m - 1], F[m]) /\ m - 1 \in 0 .. l /\ m \in 0 .. l
  <2>1. /\ \A m \in 0 .. l : f[m] \in Joining(C)
        /\ f[0] = [words |-> <<>>, open |-> FALSE]
        /\ \A m \in 1 .. l : f[m] = Hyphen(f[m - 1], F[m])
    BY <1>1, Zenon DEF Hyphens
  <2> HIDE DEF l
  <2>2. \A m \in 1 .. l : m - 1 \in 0 .. l /\ m \in 0 .. l
    BY <1>0
  <2> QED BY <2>1, <2>2
<1>3. \A m \in 0 .. l : /\ f[m].words \in Seq(X) /\ f[m].open \in BOOLEAN
                        /\ f[m].open => f[m].words # <<>>
  <2> TAKE m \in 0 .. l
  <2> DEFINE a == f[m].words
  <2>1. a \in Seq(Y) /\ f[m].open \in BOOLEAN /\ (f[m].open => a # <<>>)
    BY <1>2 DEF Joining
  <2>2. Y \subseteq X
    OBVIOUS
  <2> HIDE DEF Y, X, a
  <2>3. a \in Seq(X)
    BY <2>1, <2>2
  <2> QED BY <2>1, <2>3 DEF a
<1>4. \A m \in 1 .. l : ~f[m - 1].open =>
        /\ f[m].words = Append(f[m - 1].words, IF Hyphenated(F[m]) THEN Front(F[m]) ELSE F[m])
        /\ f[m].open = Hyphenated(F[m])
  <2> TAKE m \in 1 .. l
  <2> SUFFICES ASSUME ~f[m - 1].open
               PROVE  /\ f[m].words = Append(f[m - 1].words, IF Hyphenated(F[m]) THEN Front(F[m]) ELSE F[m])
                      /\ f[m].open = Hyphenated(F[m])
    OBVIOUS
  <2> DEFINE b == Append(f[m - 1].words, IF Hyphenated(F[m]) THEN Front(F[m]) ELSE F[m])
             h == Hyphenated(F[m])
  <2>1. f[m] = [words |-> b, open |-> h]
    BY <1>2 DEF Hyphen
  <2> HIDE DEF b, h
  <2>2. f[m].words = b
    BY <2>1
  <2>3. f[m].open = h
    BY <2>1
  <2> QED BY <2>2, <2>3 DEF b, h
<1> HIDE DEF l
<1> DEFINE P == {m \in 0 .. l : m > n - 1 \/ ~f[m].open}
<1>5. 0 .. l \subseteq P
  <2>1. 0 \in P
    <3>1. f[0].open = FALSE
      BY <1>2
    <3> QED BY <1>0, <3>1
  <2>2. ASSUME NEW m \in 1 .. l, m - 1 \in P PROVE m \in P
    <3>1. m > n - 1 \/ (m \in 1 .. n - 1 /\ ~(m - 1 > n - 1))
      BY <1>0 DEF l
    <3>2. CASE m \in 1 .. n - 1 /\ ~(m - 1 > n - 1)
      <4>1. ~f[m - 1].open /\ ~Hyphenated(F[m])
        BY <2>2, <3>2
      <4>2. f[m].open = Hyphenated(F[m])
        BY <1>4, <4>1
      <4> QED BY <1>2, <4>1, <4>2, Zenon
    <3> QED BY <1>2, <3>1, <3>2
  <2> HIDE DEF P
  <2> QED BY <1>0, <2>1, <2>2, UpTo
<1>6. n - 1 \in 0 .. l /\ n \in 1 .. l /\ ~(n - 1 > n - 1)
  BY <1>0 DEF l
<1>7. ~f[n - 1].open
  BY <1>5, <1>6
<1>8. \E k \in 0 .. l : Held(f[k], x)
  <2> DEFINE a == f[n - 1].words
             y == IF Hyphenated(F[n]) THEN Front(F[n]) ELSE F[n]
  <2>1. f[n].words = Append(a, y) /\ f[n].open = Hyphenated(F[n])
    BY <1>4, <1>6, <1>7
  <2>2. a \in Seq(X) /\ F[n] \in X /\ F[n] # <<>>
    BY <1>0, <1>3, <1>6
  <2>3. CASE ~Hyphenated(F[n]) /\ x = F[n]
    <3>1. y = x /\ x \in X
      BY <2>2, <2>3
    <3> HIDE DEF a, y, X
    <3>2. x \in ToSet(Append(a, x))
      BY <2>2, <3>1, MembersAppend
    <3>3. Held(f[n], x)
      BY <2>1, <2>3, <3>1, <3>2, Zenon DEF Held
    <3> QED BY <1>2, <1>6, <3>3
  <2>4. CASE Hyphenated(F[n]) /\ n + 1 <= Len(F) /\ x = Front(F[n]) \o F[n + 1]
    <3>1. n + 1 \in 1 .. l /\ (n + 1) - 1 = n
      BY <1>0, <1>6, <2>4 DEF l
    <3>2. y = Front(F[n]) /\ Front(F[n]) \in X
      BY <2>2, <2>4, FrontLast
    <3> DEFINE z == y \o F[n + 1]
    <3>3. z = x /\ z \in X
      <4> DEFINE w == F[n + 1]
      <4>1. y \in Seq(C) /\ w \in Seq(C)
        BY <1>0, <3>1, <3>2
      <4>2. z = x
        BY <2>4, <3>2
      <4> HIDE DEF w, y
      <4>3. y \o w \in Seq(C)
        BY <4>1
      <4> QED BY <4>2, <4>3 DEF w
    <3>4. Front(f[n].words) = a /\ Last(f[n].words) = y
      <4> HIDE DEF a, y, X
      <4> QED BY <2>1, <2>2, <3>2, FrontAppend
    <3>5. f[n + 1] = Hyphen(f[n], F[n + 1]) /\ n + 1 \in 0 .. l
      BY <1>2, <3>1
    <3>6. f[n].open
      BY <2>1, <2>4
    <3>7. f[n + 1] = [words |-> a \o <<z>>, open |-> FALSE]
      <4> HIDE DEF a, y
      <4> QED BY <3>4, <3>5, <3>6 DEF Hyphen
    <3> HIDE DEF z, a, X, y
    <3>8. <<z>> \in Seq(X) /\ z \in ToSet(<<z>>)
      BY <3>3 DEF ToSet
    <3>9. z \in ToSet(a \o <<z>>)
      BY <2>2, <3>8, MembersConcat
    <3> DEFINE b == a \o <<z>>
    <3> HIDE DEF b
    <3>10. f[n + 1].words = b /\ f[n + 1].open = FALSE
      BY <3>7 DEF b
    <3>11. Held(f[n + 1], x)
      BY <3>3, <3>9, <3>10 DEF Held, b
    <3> QED BY <3>5, <3>11
  <2> QED BY <2>3, <2>4
<1>9. PICK k \in 0 .. l : Held(f[k], x)
  BY <1>8
<1> DEFINE Q == {m \in 0 .. l : m < k \/ Held(f[m], x)}
<1>10. 0 .. l \subseteq Q
  <2>1. 0 \in Q
    <3>1. k = 0 \/ 0 < k
      BY <1>0
    <3> QED BY <1>0, <1>9, <3>1
  <2>2. ASSUME NEW m \in 1 .. l, m - 1 \in Q PROVE m \in Q
    <3>1. m < k \/ m = k \/ ~(m - 1 < k)
      BY <1>0
    <3>2. CASE ~(m - 1 < k)
      <4>1. Held(f[m - 1], x)
        BY <2>2, <3>2
      <4>2. Held(Hyphen(f[m - 1], F[m]), x)
        <5>1. f[m - 1] \in Joining(C) /\ F[m] \in Seq(C) \ {<<>>}
          BY <1>0, <1>2
        <5> QED BY <4>1, <5>1, HyphenHeld
      <4> QED BY <1>2, <4>2
    <3> QED BY <1>2, <1>9, <3>1, <3>2
  <2> HIDE DEF Q
  <2> QED BY <1>0, <2>1, <2>2, UpTo
<1>11. Held(f[l], x)
  BY <1>0, <1>10
<1>12. x \in ToSet(f[l].words)
  <2> DEFINE a == f[l].words
  <2>1. a \in Seq(X) /\ (f[l].open => a # <<>>) /\ f[l].open \in BOOLEAN
    BY <1>0, <1>3
  <2> HIDE DEF a, X
  <2>2. f[l].open => ToSet(Front(a)) \subseteq ToSet(a)
    BY <2>1, FrontMembers
  <2> QED BY <1>11, <2>1, <2>2 DEF Held, a
<1> QED BY <1>1, <1>12

-----------------------------------------------------------------------------
(* The pages of a document *)

\* A page begins with an empty stack, no text and no font.
LEMMA BlankReader ==
  ASSUME NEW C, NEW r \in Reader(C)
  PROVE  /\ Blank(r) \in Reader(C) /\ Blank(r).stack = <<>> /\ Blank(r).found = r.found
         /\ Blank(r).size = r.size /\ Blank(r).status = r.status
<1>1. Blank(r) \in Reader(C)
  BY ReaderType DEF Blank
<1>2. /\ Blank(r).stack = <<>> /\ Blank(r).found = r.found
      /\ Blank(r).size = r.size /\ Blank(r).status = r.status
  BY DEF Blank, Reader, Fields
<1> QED BY <1>1, <1>2

\* A document begins with nothing found.
LEMMA NewReaderFields == NewReader.status = "on" /\ AllBare(NewReader.found)
<1>1. NewReader.status = "on" /\ NewReader.found = <<>>
  BY DEF NewReader
<1>2. AllBare(<<>>)
  BY DEF AllBare
<1> QED BY <1>1, <1>2

\* What is read page by page.
LEMMA PageOf ==
  ASSUME NEW C, NEW document \in Seq(Seq(TokenOf(C))), NEW h, ReadsPages(h, NewReader, document, C),
         NEW p \in 1 .. Len(document)
  PROVE  /\ p - 1 \in 0 .. Len(document) /\ p \in 0 .. Len(document)
         /\ h[p - 1] \in Reader(C) /\ h[p] \in Reader(C) /\ document[p] \in Seq(TokenOf(C))
         /\ Later(h[p - 1], h[p])
         /\ \E g : ReadsTokens(g, Blank(h[p - 1]), document[p], C) /\ h[p] = g[Len(document[p])]
<1> DEFINE l == Len(document)
           page == document[p]
           r == h[p - 1]
           X == Seq(TokenOf(C))
<1>0. l \in Nat /\ page \in Seq(TokenOf(C))
  <2>1. document \in Seq(X)
    OBVIOUS
  <2> HIDE DEF X
  <2>2. l \in Nat /\ page \in X
    BY <2>1
  <2> QED BY <2>2 DEF X
<1>1. p - 1 \in 0 .. l /\ p \in 0 .. l
  BY <1>0
<1>2. r \in Reader(C) /\ h[p] \in Reader(C) /\ h[p] = ReadPage(r, page)
  BY <1>1 DEF ReadsPages
<1> HIDE DEF r, page, l
<1>3. PICK g : ReadsTokens(g, Blank(r), page, C) /\ ReadPage(r, page) = g[Len(page)]
  BY <1>0, <1>2, ReadPageType
<1>4. Later(r, h[p])
  <2>1. 0 \in 0 .. Len(page) /\ Len(page) \in 0 .. Len(page)
    BY <1>0
  <2>2. Later(g[0], g[Len(page)])
    BY <1>0, <1>3, <2>1, PageLater
  <2>3. g[0] = Blank(r)
    BY <1>3 DEF ReadsTokens
  <2>4. Later(Blank(r), h[p])
    BY <1>2, <1>3, <2>2, <2>3
  <2>5. Blank(r).found = r.found /\ Blank(r).size = r.size /\ Blank(r).status = r.status
    BY <1>2, BlankReader
  <2> QED BY <2>4, <2>5, Zenon DEF Later
<1> QED BY <1>0, <1>1, <1>2, <1>3, <1>4 DEF r, page, l

\* What is read later goes on from what has been read.
LEMMA PagesLater ==
  ASSUME NEW C, NEW document \in Seq(Seq(TokenOf(C))), NEW h, ReadsPages(h, NewReader, document, C),
         NEW p \in 0 .. Len(document)
  PROVE  Later(h[p], h[Len(document)]) /\ h[p] \in Reader(C)
<1> DEFINE l == Len(document)
           P == {n \in 0 .. l : n < p \/ Later(h[p], h[n])}
<1>0. l \in Nat /\ p \in 0 .. l /\ h[p] \in Reader(C)
  BY DEF ReadsPages
<1>1. \A n \in 1 .. l : /\ n - 1 \in 0 .. l /\ n \in 0 .. l
                        /\ h[n - 1] \in Reader(C) /\ h[n] \in Reader(C) /\ Later(h[n - 1], h[n])
  BY PageOf, Zenon
<1> HIDE DEF l
<1>2. Later(h[p], h[p])
  <2> DEFINE q == h[p]
  <2>1. q \in Reader(C)
    BY <1>0
  <2> HIDE DEF q
  <2>2. Later(q, q)
    <3>1. q.status = "on" \/ q.status = q.status
      OBVIOUS
    <3> QED BY <2>1, <3>1, LaterSame
  <2> QED BY <2>2 DEF q
<1>3. 0 .. l \subseteq P
  <2>1. 0 \in P
    <3>1. p = 0 \/ 0 < p
      BY <1>0
    <3> QED BY <1>0, <1>2, <3>1
  <2>2. ASSUME NEW n \in 1 .. l, n - 1 \in P PROVE n \in P
    <3>1. n < p \/ n = p \/ ~(n - 1 < p)
      BY <1>0
    <3>2. CASE ~(n - 1 < p)
      <4>1. Later(h[p], h[n - 1])
        BY <2>2, <3>2
      <4>2. Later(h[p], h[n])
        BY <1>0, <1>1, <4>1, LaterTrans
      <4> QED BY <1>1, <4>2
    <3> QED BY <1>1, <1>2, <3>1, <3>2
  <2> HIDE DEF P
  <2> QED BY <1>0, <2>1, <2>2, UpTo
<1>4. l \in P /\ ~(l < p)
  <2>1. l \in 0 .. l /\ ~(l < p)
    BY <1>0
  <2> HIDE DEF P
  <2> QED BY <1>3, <2>1
<1> QED BY <1>0, <1>4 DEF l

\* Up to a page without hyphens no word ends with one.
LEMMA PagesBare ==
  ASSUME NEW C, NEW document \in Seq(Seq(TokenOf(C))), NEW h, ReadsPages(h, NewReader, document, C),
         NEW m \in 0 .. Len(document),
         \A p \in 1 .. m : \A i \in 1 .. Len(document[p]) : Quiet(document[p][i])
  PROVE  AllBare(h[m].found)
<1> DEFINE l == Len(document)
           P == {n \in 0 .. l : n > m \/ AllBare(h[n].found)}
<1>0. l \in Nat /\ m \in 0 .. l /\ h[0] = NewReader
  BY DEF ReadsPages
<1> HIDE DEF l
<1>1. 0 .. l \subseteq P
  <2>1. 0 \in P
    BY <1>0, NewReaderFields
  <2>2. ASSUME NEW n \in 1 .. l, n - 1 \in P PROVE n \in P
    <3>1. n \in 0 .. l /\ (n > m \/ (n \in 1 .. m /\ ~(n - 1 > m)))
      BY <1>0
    <3>2. CASE n \in 1 .. m /\ ~(n - 1 > m)
      <4> DEFINE page == document[n]
                 b == Blank(h[n - 1])
      <4>1. AllBare(h[n - 1].found)
        BY <2>2, <3>2
      <4>2. /\ h[n - 1] \in Reader(C) /\ page \in Seq(TokenOf(C))
            /\ \E g : ReadsTokens(g, b, page, C) /\ h[n] = g[Len(page)]
        BY PageOf DEF l
      <4>3. PICK g : ReadsTokens(g, b, page, C) /\ h[n] = g[Len(page)]
        BY <4>2
      <4>4. b.stack = <<>> /\ AllBare(b.found)
        BY <4>1, <4>2, BlankReader
      <4>5. \A i \in 1 .. Len(page) : Quiet(page[i])
        BY <3>2
      <4> HIDE DEF page, b
      <4>6. Len(page) \in 0 .. Len(page)
        BY <4>2
      <4>7. AllBare(g[Len(page)].found)
        BY <4>2, <4>3, <4>4, <4>5, <4>6, PageBare
      <4> QED BY <3>1, <4>3, <4>7
    <3> QED BY <3>1, <3>2
  <2> HIDE DEF P
  <2> QED BY <1>0, <2>1, <2>2, UpTo
<1>2. m \in P /\ ~(m > m)
  BY <1>0, <1>1
<1> QED BY <1>2

\* No token of the first m pages names a font that the page does not have.
AllNamed(document, m) ==
  \A p \in 1 .. m : \A i \in 1 .. Len(document[p]) :
    document[p][i].kind = "name" => document[p][i].name \in Fonts

\* Then the reader goes on to the end.
LEMMA PagesOn ==
  ASSUME NEW C, NEW document \in Seq(Seq(TokenOf(C))), NEW h, ReadsPages(h, NewReader, document, C),
         AllNamed(document, Len(document)),
         h[Len(document)].status # "thrown", h[Len(document)].size <= MaxPdf,
         NEW p \in 0 .. Len(document)
  PROVE  /\ h[p].status = "on"
         /\ p # 0 => \E g : /\ Whole(g, document[p], C) /\ g[0].found = h[p - 1].found
                            /\ h[p] = g[Len(document[p])]
<1> DEFINE l == Len(document)
           G(n) == \E g : /\ Whole(g, document[n], C) /\ g[0].found = h[n - 1].found
                          /\ h[n] = g[Len(document[n])]
           P == {n \in 0 .. l : h[n].status = "on" /\ (n # 0 => G(n))}
<1>0. l \in Nat /\ p \in 0 .. l /\ h[0] = NewReader
  BY DEF ReadsPages
<1>1. ASSUME NEW n \in 1 .. l, h[n - 1].status = "on"
      PROVE  h[n].status = "on" /\ G(n)
  <2> DEFINE page == document[n]
             r == h[n - 1]
             b == Blank(h[n - 1])
  <2>1. /\ r \in Reader(C) /\ h[n] \in Reader(C) /\ page \in Seq(TokenOf(C)) /\ n \in 0 .. l
        /\ \E g : ReadsTokens(g, b, page, C) /\ h[n] = g[Len(page)]
    BY PageOf
  <2>2. PICK g : ReadsTokens(g, b, page, C) /\ h[n] = g[Len(page)]
    BY <2>1
  <2>3. b.stack = <<>> /\ b.status = "on" /\ b.found = r.found
    BY <1>1, <2>1, BlankReader
  <2>4. Later(h[n], h[l])
    BY <2>1, PagesLater
  <2>5. h[n].status # "thrown" /\ h[n].size <= MaxPdf
    <3>1. h[n].size \in Nat /\ h[l].size \in Nat /\ MaxPdf \in Nat
      <4>1. l \in 0 .. l
        BY <1>0
      <4>2. h[l] \in Reader(C)
        BY <4>1, PagesLater
      <4> QED BY <2>1, <4>2, ReaderFields, PdfAssumption
    <3>2. h[n].status # "thrown"
      BY <2>4 DEF Later
    <3>3. h[n].size <= h[l].size
      BY <2>4 DEF Later
    <3> QED BY <3>1, <3>2, <3>3
  <2>6. \A i \in 1 .. Len(page) : page[i].kind = "name" => page[i].name \in Fonts
    BY DEF AllNamed
  <2> HIDE DEF page, b, r
  <2>7. Whole(g, page, C)
    BY <2>1, <2>2, <2>3, <2>5, <2>6, PageWhole
  <2>8. g[0] = b
    BY <2>2 DEF ReadsTokens
  <2>9. Len(page) \in 0 .. Len(page)
    BY <2>1
  <2>10. h[n].status = "on"
    BY <2>2, <2>7, <2>9 DEF Whole
  <2> QED BY <2>2, <2>3, <2>7, <2>8, <2>10 DEF page, r
<1> HIDE DEF G, l
<1>2. 0 .. l \subseteq P
  <2>1. 0 \in P
    BY <1>0, NewReaderFields
  <2>2. ASSUME NEW n \in 1 .. l, n - 1 \in P PROVE n \in P
    <3>1. n \in 0 .. l
      BY <1>0
    <3> QED BY <1>1, <2>2, <3>1
  <2> HIDE DEF P
  <2> QED BY <1>0, <2>1, <2>2, UpTo
<1>3. p \in P
  <2> HIDE DEF P
  <2> QED BY <1>0, <1>2
<1> QED BY <1>3 DEF G

\* What is found on a page is found in the document.
LEMMA DocumentWhole ==
  ASSUME NEW C, NEW document \in Seq(Seq(TokenOf(C))), NEW r, r = ExtractText(document),
         r.status # "thrown", r.size <= MaxPdf, AllNamed(document, Len(document)),
         NEW p \in 1 .. Len(document)
  PROVE  \E g : /\ Whole(g, document[p], C) /\ Begins(g[Len(document[p])].found, r.found)
                /\ (\A n \in 1 .. p - 1 : \A i \in 1 .. Len(document[n]) : Quiet(document[n][i]))
                     => AllBare(g[0].found)
<1>1. PICK h : ReadsPages(h, NewReader, document, C) /\ r = h[Len(document)]
  BY ExtractFold
<1>2. Len(document) \in Nat /\ p \in 0 .. Len(document) /\ p # 0 /\ p - 1 \in 0 .. Len(document)
  OBVIOUS
<1>3. PICK g : Whole(g, document[p], C) /\ g[0].found = h[p - 1].found /\ h[p] = g[Len(document[p])]
  BY <1>1, <1>2, PagesOn
<1>4. Begins(g[Len(document[p])].found, r.found)
  <2>1. Later(h[p], h[Len(document)])
    BY <1>1, <1>2, PagesLater
  <2> QED BY <1>1, <1>3, <2>1 DEF Later
<1>5. ASSUME \A n \in 1 .. p - 1 : \A i \in 1 .. Len(document[n]) : Quiet(document[n][i])
      PROVE  AllBare(g[0].found)
  <2>1. AllBare(h[p - 1].found)
    BY <1>1, <1>2, <1>5, PagesBare
  <2> QED BY <1>3, <2>1
<1> QED BY <1>3, <1>4, <1>5

\* Without hyphens no word ends with one.
LEMMA DocumentBare ==
  ASSUME NEW C, NEW document \in Seq(Seq(TokenOf(C))),
         \A n \in 1 .. Len(document) : \A i \in 1 .. Len(document[n]) : Quiet(document[n][i])
  PROVE  AllBare(ExtractText(document).found)
<1>1. PICK h : ReadsPages(h, NewReader, document, C) /\ ExtractText(document) = h[Len(document)]
  BY ExtractFold
<1>2. Len(document) \in 0 .. Len(document)
  OBVIOUS
<1>3. AllBare(h[Len(document)].found)
  BY <1>1, <1>2, PagesBare
<1> QED BY <1>1, <1>3

-----------------------------------------------------------------------------
(* The words that a document shows *)

Places(document) == UNION {{<<p, i>> : i \in DOMAIN document[p]} : p \in DOMAIN document}
TokenAt(document, q) == document[q[1]][q[2]]
HyphenPlaces(document) ==
  {q \in Places(document) :
     \E s \in {TokenAt(document, q).text} \cup ToSet(TokenAt(document, q).parts) :
       s # <<>> /\ Last(s) = "-"}
MissingPlaces(document) ==
  {q \in Places(document) :
     TokenAt(document, q).kind = "name" /\ TokenAt(document, q).name \notin Fonts}

\* What a document shows stands at a place of it, and at most there is a hyphen.
LEMMA ShownPlace ==
  ASSUME NEW document, NEW s \in ShownBy(document)
  PROVE  /\ MissingPlaces(document) = {}
         /\ \E q \in Places(document) :
              \/ HyphenPlaces(document) = {} /\ s \in ShownAt(document[q[1]], q[2])
              \/ HyphenPlaces(document) = {q} /\ s \in JoinedAt(document[q[1]], q[2])
<1> DEFINE P == Places(document)
           H == HyphenPlaces(document)
           M == MissingPlaces(document)
           Of(q) == IF H = {} THEN ShownAt(document[q[1]], q[2])
                    ELSE IF H = {q} THEN JoinedAt(document[q[1]], q[2]) ELSE {}
           D == IF M = {} THEN P ELSE {}
<1>1. ShownBy(document) = UNION {Of(q) : q \in D}
  BY Zenon DEF ShownBy, Places, HyphenPlaces, MissingPlaces, TokenAt
<1> HIDE DEF P, H, M, Of
<1>2. PICK q \in D : s \in Of(q)
  BY <1>1
<1>3. M = {} /\ q \in P
  BY <1>2
<1>4. \/ H = {} /\ s \in ShownAt(document[q[1]], q[2])
      \/ H = {q} /\ s \in JoinedAt(document[q[1]], q[2])
  <2>1. s \in Of(q)
    BY <1>2
  <2>2. CASE H = {}
    BY <2>1, <2>2 DEF Of
  <2>3. CASE H # {}
    <3>1. H = {q}
      BY <2>1, <2>3 DEF Of
    <3> QED BY <2>1, <2>3, <3>1 DEF Of
  <2> QED BY <2>2, <2>3
<1> QED BY <1>3, <1>4 DEF P, H, M

\* A place that is none of the hyphens and of the missing fonts.
LEMMA QuietPlace ==
  ASSUME NEW C, NEW document \in Seq(Seq(TokenOf(C))), NEW p \in 1 .. Len(document),
         NEW i \in 1 .. Len(document[p])
  PROVE  /\ <<p, i>> \in Places(document)
         /\ <<p, i>> \notin HyphenPlaces(document) => Quiet(document[p][i])
         /\ <<p, i>> \notin MissingPlaces(document) =>
              (document[p][i].kind = "name" => document[p][i].name \in Fonts)
<1> DEFINE q == <<p, i>>
           t == document[p][i]
           X == Seq(TokenOf(C))
<1>0. DOMAIN document = 1 .. Len(document) /\ document[p] \in Seq(TokenOf(C))
  <2>1. document \in Seq(X)
    OBVIOUS
  <2> HIDE DEF X
  <2>2. DOMAIN document = 1 .. Len(document) /\ document[p] \in X
    BY <2>1
  <2> QED BY <2>2 DEF X
<1>1. DOMAIN document[p] = 1 .. Len(document[p]) /\ t \in TokenOf(C)
  BY <1>0
<1>2. q \in Places(document)
  BY <1>0, <1>1 DEF Places
<1>3. TokenAt(document, q) = t
  BY DEF TokenAt
<1>4. t.parts \in Seq(Seq(C))
  BY <1>1 DEF TokenOf
<1> HIDE DEF q, t
<1>5. ASSUME q \notin HyphenPlaces(document) PROVE Quiet(t)
  <2>1. \A s \in {t.text} \cup ToSet(t.parts) : ~(s # <<>> /\ Last(s) = "-")
    BY <1>2, <1>3, <1>5 DEF HyphenPlaces
  <2>2. Bare(t.text)
    BY <2>1 DEF Bare
  <2>3. AllBare(t.parts)
    <3> SUFFICES ASSUME NEW n \in 1 .. Len(t.parts) PROVE Bare(t.parts[n])
      BY DEF AllBare
    <3> DEFINE a == t.parts
               Y == Seq(C)
    <3>1. a \in Seq(Y)
      BY <1>4
    <3> HIDE DEF a, Y
    <3>2. n \in 1 .. Len(a)
      BY DEF a
    <3>3. a[n] \in ToSet(a)
      BY <3>1, <3>2 DEF ToSet
    <3>4. ~(a[n] # <<>> /\ Last(a[n]) = "-")
      BY <2>1, <3>3 DEF a
    <3> QED BY <3>4 DEF Bare, a
  <2> QED BY <2>2, <2>3 DEF Quiet
<1>6. q \notin MissingPlaces(document) => (t.kind = "name" => t.name \in Fonts)
  BY <1>2, <1>3 DEF MissingPlaces
<1> QED BY <1>2, <1>5, <1>6 DEF q, t

\* A text of more than one character is not just a space.
LEMMA VisibleLong ==
  ASSUME NEW s, Len(s) \in Nat, Len(s) > 1
  PROVE  Visible(s)
<1>1. \A x : Len(<<x>>) = 1
  OBVIOUS
<1>2. Len(<<>>) = 0
  OBVIOUS
<1>3. \A n \in Nat : n > 1 => n # 0 /\ n # 1
  OBVIOUS
<1> QED BY <1>1, <1>2, <1>3, Zenon DEF Visible

\* Words without a hyphen at their end are not joined.
LEMMA BareStays ==
  ASSUME NEW s, Bare(s)
  PROVE  ~Hyphenated(s)
<1>1. Len(<<>>) = 0
  OBVIOUS
<1>2. ~(0 > 1)
  OBVIOUS
<1> QED BY <1>1, <1>2, Zenon DEF Bare, Hyphenated

\* The text at i is shown by "Tj".
TextAt(page, i) ==
  Draws(page, i) /\ page[i].kind = "string" /\ Visible(page[i].text) /\ Is(page, i + 1, "Tj")
TextFound(g, page, i, C) ==
  /\ i + 1 \in 1 .. Len(page) /\ page[i].text \in Seq(C) \ {<<>>}
  /\ g[i].found = g[i - 1].found /\ g[i + 1].found = g[i].found \o <<page[i].text>>

\* The text that an operator shows is found.
LEMMA TextAtFound ==
  ASSUME NEW C, NEW page, NEW g, Whole(g, page, C), NEW i \in 1 .. Len(page), TextAt(page, i)
  PROVE  TextFound(g, page, i, C)
<1>1. Draws(page, i) /\ page[i].kind = "string" /\ Visible(page[i].text) /\ Is(page, i + 1, "Tj")
  BY DEF TextAt
<1>2. /\ i + 1 \in 1 .. Len(page) /\ page[i].text \in Seq(C) \ {<<>>}
      /\ g[i].found = g[i - 1].found /\ g[i + 1].found = g[i].found \o <<page[i].text>>
  BY <1>1, TextShown
<1> QED BY <1>2, Zenon DEF TextFound

TwoFound(g, page, i, w, C) ==
  \E a \in Seq(Seq(C) \ {<<>>}), t, u \in Seq(C) \ {<<>>} :
    /\ w = Front(t) \o u /\ Hyphenated(t) /\ a = g[i - 1].found
    /\ Begins((a \o <<t>>) \o <<u>>, g[Len(page)].found)

\* Two texts shown one after the other are two words one after the other.
LEMMA TwoShown ==
  ASSUME NEW C, NEW page, NEW g, Whole(g, page, C), NEW i \in 1 .. Len(page), NEW w \in JoinedAt(page, i)
  PROVE  TwoFound(g, page, i, w, C)
<1> DEFINE j == i + 2
           l == Len(page)
           a == g[i - 1].found
           t == page[i].text
           u == page[j].text
<1>0. page \in Seq(TokenOf(C)) /\ DOMAIN page = 1 .. l /\ l \in Nat
  BY DEF Whole
<1>1. /\ j \in DOMAIN page /\ w = Front(t) \o u /\ page[i].kind = "string" /\ Hyphenated(t)
      /\ page[j].kind = "string" /\ u \notin {<<>>, <<" ">>}
      /\ Is(page, i + 1, "Tj") /\ Is(page, j + 1, "Tj") /\ Draws(page, i)
  <2>1. PICK k \in {k \in {i + 2} \cap DOMAIN page :
              /\ page[i].kind = "string" /\ Hyphenated(page[i].text)
              /\ page[k].kind = "string" /\ page[k].text \notin {<<>>, <<" ">>}
              /\ Is(page, i + 1, "Tj") /\ Is(page, k + 1, "Tj") /\ Draws(page, i)} :
              w = Front(page[i].text) \o page[k].text
    BY Zenon DEF JoinedAt
  <2>2. k = j
    BY <2>1, Zenon
  <2> QED BY <2>1, <2>2, Zenon
<1>2. Visible(u)
  BY <1>1, Zenon DEF Visible
<1> HIDE DEF j, l
<1>3. j \in 1 .. l /\ i \in 1 .. l /\ j = i + 2 /\ i + 1 \in 1 .. l /\ j - 1 = i + 1 /\ j # 0
  <2>1. i + 2 \in 1 .. l /\ i \in 1 .. l
    BY <1>0, <1>1, Zenon DEF j, l
  <2> QED BY <1>0, <2>1 DEF j
<1>4. Draws(page, j)
  <2>1. PICK b \in 1 .. i - 1 : \E f \in b + 3 .. i - 1 :
           /\ Is(page, b, "BT") /\ Is(page, f, "Tf") /\ page[f - 1].kind # "keyword"
           /\ page[f - 2] \in {Name(n) : n \in Readable}
           /\ \A k \in f + 1 .. i - 1 : ~Is(page, k, "Tf")
    BY <1>1 DEF Draws
  <2>2. PICK f \in b + 3 .. i - 1 :
           /\ Is(page, b, "BT") /\ Is(page, f, "Tf") /\ page[f - 1].kind # "keyword"
           /\ page[f - 2] \in {Name(n) : n \in Readable}
           /\ \A k \in f + 1 .. i - 1 : ~Is(page, k, "Tf")
    BY <2>1
  <2>3. b \in 1 .. j - 1 /\ f \in b + 3 .. j - 1
    BY <1>3
  <2>4. \A k \in f + 1 .. j - 1 : ~Is(page, k, "Tf")
    <3> TAKE k \in f + 1 .. j - 1
    <3>1. k \in f + 1 .. i - 1 \/ k = i \/ k = i + 1
      BY <1>3
    <3>2. ~Is(page, i, "Tf")
      BY <1>1 DEF Is
    <3>3. ~Is(page, i + 1, "Tf")
      BY <1>1 DEF Is
    <3> QED BY <2>2, <3>1, <3>2, <3>3
  <2> HIDE DEF j
  <2> QED BY <2>2, <2>3, <2>4 DEF Draws
<1>5. Visible(t)
  <2>1. i \in 1 .. l /\ page[i] \in TokenOf(C)
    BY <1>0, <1>3 DEF l
  <2>2. t \in Seq(C)
    BY <1>1, <2>1 DEF TokenOf
  <2>3. Len(t) > 1
    BY <1>1, Zenon DEF Hyphenated
  <2>4. Len(t) \in Nat
    BY <2>2
  <2> HIDE DEF t
  <2> QED BY <2>3, <2>4, VisibleLong
<1>6. /\ t \in Seq(C) \ {<<>>} /\ g[i].found = a /\ g[i + 1].found = g[i].found \o <<t>>
  <2>1. TextAt(page, i)
    BY <1>1, <1>5, Zenon DEF TextAt
  <2>2. TextFound(g, page, i, C)
    BY <2>1, TextAtFound
  <2> QED BY <2>2, Zenon DEF TextFound
<1>7. /\ j + 1 \in 1 .. l /\ u \in Seq(C) \ {<<>>} /\ g[j].found = g[j - 1].found
      /\ g[j + 1].found = g[j].found \o <<u>>
  <2>1. j \in 1 .. Len(page)
    BY <1>3 DEF l
  <2>2. TextAt(page, j)
    BY <1>1, <1>2, <1>4, Zenon DEF TextAt
  <2>3. TextFound(g, page, j, C)
    BY <2>1, <2>2, TextAtFound
  <2> QED BY <2>3, Zenon DEF TextFound, l
<1>8. g[j + 1].found = (a \o <<t>>) \o <<u>>
  <2> HIDE DEF a, t, u
  <2>1. g[j].found = a \o <<t>>
    BY <1>3, <1>6, <1>7
  <2> QED BY <1>7, <2>1
<1>9. a \in Seq(Seq(C) \ {<<>>})
  <2>1. i - 1 \in 0 .. l /\ g[i - 1] \in Reader(C)
    BY WholeStep DEF l
  <2> QED BY <2>1, ReaderFields
<1>10. Begins(g[j + 1].found, g[l].found)
  <2>1. j + 1 \in 0 .. l /\ l \in j + 1 .. l
    BY <1>0, <1>7
  <2>2. page \in Seq(TokenOf(C)) /\ ReadsTokens(g, g[0], page, C)
    BY DEF Whole
  <2>3. Later(g[j + 1], g[l])
    BY <2>1, <2>2, PageLater DEF l
  <2> QED BY <2>3 DEF Later
<1>11. /\ w = Front(t) \o u /\ Hyphenated(t) /\ a = g[i - 1].found
       /\ Begins((a \o <<t>>) \o <<u>>, g[Len(page)].found)
  BY <1>1, <1>8, <1>10 DEF l
<1> QED BY <1>6, <1>7, <1>9, <1>11, Zenon DEF TwoFound

\* If one place has a hyphen, nothing before it has.
LEMMA QuietPages ==
  ASSUME NEW C, NEW document \in Seq(Seq(TokenOf(C))), NEW q \in Places(document),
         HyphenPlaces(document) \subseteq {q}
  PROVE  /\ q[1] \in 1 .. Len(document) /\ q[2] \in 1 .. Len(document[q[1]])
         /\ q[1] \in DOMAIN document /\ q[2] \in DOMAIN document[q[1]]
         /\ \A n \in 1 .. q[1] - 1 : \A i \in 1 .. Len(document[n]) : Quiet(document[n][i])
         /\ \A i \in 1 .. q[2] - 1 : Quiet(document[q[1]][i])
<1> DEFINE X == Seq(TokenOf(C))
           l == Len(document)
<1>0. DOMAIN document = 1 .. l /\ l \in Nat /\ \A p \in 1 .. l : document[p] \in X
  <2>1. document \in Seq(X)
    OBVIOUS
  <2> HIDE DEF X
  <2> QED BY <2>1
<1>1. PICK p \in DOMAIN document : q \in {<<p, i>> : i \in DOMAIN document[p]}
  BY DEF Places
<1>2. PICK i \in DOMAIN document[p] : q = <<p, i>>
  BY <1>1
<1>3. q[1] = p /\ q[2] = i
  BY <1>2
<1>4. p \in 1 .. l /\ DOMAIN document[p] = 1 .. Len(document[p]) /\ Len(document[p]) \in Nat
  <2>1. p \in 1 .. l
    BY <1>0
  <2>2. document[p] \in Seq(TokenOf(C))
    BY <1>0, <2>1
  <2> QED BY <2>1, <2>2
<1>5. i \in 1 .. Len(document[p])
  BY <1>4
<1>6. ASSUME NEW n \in 1 .. p - 1, NEW k \in 1 .. Len(document[n]) PROVE Quiet(document[n][k])
  <2>1. n \in 1 .. l /\ n # p
    BY <1>0, <1>4
  <2>2. <<n, k>> # q
    BY <1>2, <2>1
  <2>3. <<n, k>> \notin HyphenPlaces(document)
    BY <2>2
  <2> QED BY <2>1, <2>3, QuietPlace DEF l
<1>7. ASSUME NEW k \in 1 .. i - 1 PROVE Quiet(document[p][k])
  <2>1. k \in 1 .. Len(document[p]) /\ k # i
    BY <1>4, <1>5
  <2>2. <<p, k>> # q
    BY <1>2, <2>1
  <2>3. <<p, k>> \notin HyphenPlaces(document)
    BY <2>2
  <2> QED BY <1>4, <2>1, <2>3, QuietPlace DEF l
<1>8. \A n \in 1 .. q[1] - 1 : \A k \in 1 .. Len(document[n]) : Quiet(document[n][k])
  BY <1>3, <1>6
<1>9. \A k \in 1 .. q[2] - 1 : Quiet(document[q[1]][k])
  BY <1>3, <1>7
<1> QED BY <1>1, <1>2, <1>3, <1>4, <1>5, <1>8, <1>9 DEF l

\* What a document shows is a word, after the hyphens.
LEMMA ShownJoined ==
  ASSUME NEW C, NEW document \in Seq(Seq(TokenOf(C))), NEW r, r = ExtractText(document),
         r.status # "thrown", r.size <= MaxPdf, NEW w \in ShownBy(document), Visible(w)
  PROVE  w \in ToSet(JoinHyphens(r.found))
<1> DEFINE X == Seq(C) \ {<<>>}
           l == Len(document)
           F == r.found
<1>1. MissingPlaces(document) = {}
  BY ShownPlace
<1>2. PICK q \in Places(document) :
        \/ HyphenPlaces(document) = {} /\ w \in ShownAt(document[q[1]], q[2])
        \/ HyphenPlaces(document) = {q} /\ w \in JoinedAt(document[q[1]], q[2])
  BY ShownPlace
<1> DEFINE p == q[1]
           i == q[2]
           page == document[p]
<1>3. HyphenPlaces(document) \subseteq {q}
  BY <1>2
<1>4. /\ p \in 1 .. l /\ i \in 1 .. Len(page) /\ p \in DOMAIN document /\ i \in DOMAIN page
      /\ \A n \in 1 .. p - 1 : \A k \in 1 .. Len(document[n]) : Quiet(document[n][k])
      /\ \A k \in 1 .. i - 1 : Quiet(page[k])
  BY <1>3, QuietPages
<1>5. AllNamed(document, l)
  BY <1>1, QuietPlace DEF AllNamed
<1>6. r \in Reader(C) /\ F \in Seq(X)
  <2>1. r \in Reader(C)
    BY ExtractType
  <2> QED BY <2>1, ReaderFields
<1> HIDE DEF p, i, page, l
<1>7. PICK g : Whole(g, page, C) /\ Begins(g[Len(page)].found, F) /\ AllBare(g[0].found)
  <2>1. AllNamed(document, Len(document)) /\ p \in 1 .. Len(document)
    BY <1>4, <1>5 DEF l
  <2>2. PICK g : /\ Whole(g, document[p], C) /\ Begins(g[Len(document[p])].found, r.found)
                 /\ (\A n \in 1 .. p - 1 : \A k \in 1 .. Len(document[n]) : Quiet(document[n][k]))
                      => AllBare(g[0].found)
    BY <2>1, DocumentWhole
  <2> QED BY <1>4, <2>2 DEF page
<1>8. page \in Seq(TokenOf(C)) /\ ReadsTokens(g, g[0], page, C) /\ g[0].stack = <<>>
  BY <1>7 DEF Whole
<1>9. Len(page) \in Nat /\ g[Len(page)].found \in Seq(X)
  <2>1. Len(page) \in Nat
    BY <1>8
  <2>2. Len(page) \in 0 .. Len(page)
    BY <2>1
  <2>3. g[Len(page)] \in Reader(C)
    BY <1>8, <2>2 DEF ReadsTokens
  <2> QED BY <2>1, <2>3, ReaderFields
<1>10. CASE HyphenPlaces(document) = {} /\ w \in ShownAt(page, i)
  <2>1. w \in ToSet(g[Len(page)].found)
    BY <1>4, <1>7, <1>10, ShownFound
  <2> DEFINE f == g[Len(page)].found
  <2>2. ToSet(f) \subseteq ToSet(F)
    <3> HIDE DEF f, F, X
    <3>1. f \in Seq(X) /\ Begins(f, F)
      BY <1>7, <1>9 DEF f
    <3> QED BY <1>6, <3>1, MembersBegin
  <2>3. AllBare(F)
    <3>1. \A n \in 1 .. Len(document) : \A k \in 1 .. Len(document[n]) : Quiet(document[n][k])
      BY <1>10, QuietPlace
    <3> QED BY <3>1, DocumentBare
  <2>4. PICK n \in 1 .. Len(F) : F[n] = w
    <3>1. w \in ToSet(F)
      BY <2>1, <2>2
    <3> HIDE DEF F, X
    <3> QED BY <1>6, <3>1 DEF ToSet
  <2>5. \A m \in 1 .. Len(F) : ~Hyphenated(F[m])
    BY <2>3, BareStays DEF AllBare
  <2>6. \A m \in 1 .. n - 1 : m \in 1 .. Len(F)
    BY <1>6
  <2>7. (\A m \in 1 .. n - 1 : ~Hyphenated(F[m])) /\ ~Hyphenated(F[n]) /\ w = F[n]
    BY <2>4, <2>5, <2>6
  <2> HIDE DEF F
  <2> QED BY <1>6, <2>7, JoinedFirst DEF F
<1>11. CASE HyphenPlaces(document) = {q} /\ w \in JoinedAt(page, i)
  <2>1. PICK a \in Seq(X), t \in X, u \in X :
          /\ w = Front(t) \o u /\ Hyphenated(t) /\ a = g[i - 1].found
          /\ Begins((a \o <<t>>) \o <<u>>, g[Len(page)].found)
    <3>1. TwoFound(g, page, i, w, C)
      BY <1>4, <1>7, <1>11, TwoShown
    <3> QED BY <3>1, Zenon DEF TwoFound
  <2>2. AllBare(a)
    <3>1. i - 1 \in 0 .. Len(page)
      BY <1>4, <1>9
    <3>2. AllBare(g[i - 1].found)
      BY <1>4, <1>7, <1>8, <3>1, PageBare
    <3> QED BY <2>1, <3>2
  <2> DEFINE b == (a \o <<t>>) \o <<u>>
             n == Len(a) + 1
  <2>3. b \in Seq(X)
    <3> HIDE DEF X
    <3> QED BY <2>1
  <2>4. Begins(b, F)
    <3> HIDE DEF b, X, F
    <3>1. Begins(b, g[Len(page)].found) /\ Begins(g[Len(page)].found, F)
      BY <1>7, <2>1 DEF b
    <3> QED BY <1>6, <1>9, <2>3, <3>1, BeginsTrans
  <2>5. /\ Len(b) = n + 1 /\ b[n] = t /\ b[n + 1] = u /\ n \in Nat /\ n >= 1
        /\ \A m \in 1 .. n - 1 : b[m] = a[m]
    <3> HIDE DEF X
    <3>1. Len(a) \in Nat /\ n = Len(a) + 1
      BY <2>1
    <3>2. Len(b) = Len(a) + 2 /\ b[Len(a) + 1] = t /\ b[Len(a) + 2] = u
      BY <2>1
    <3>3. \A m \in 1 .. Len(a) : b[m] = a[m]
      BY <2>1
    <3> HIDE DEF b
    <3> QED BY <3>1, <3>2, <3>3
  <2> HIDE DEF b, n, F
  <2>6. n + 1 <= Len(F) /\ n \in 1 .. Len(F) /\ F[n] = t /\ F[n + 1] = u
    <3>1. Len(b) <= Len(F) /\ (\A m \in 1 .. Len(b) : F[m] = b[m]) /\ Len(F) \in Nat
      BY <1>6, <2>4 DEF Begins
    <3>2. n \in 1 .. Len(b) /\ n + 1 \in 1 .. Len(b)
      BY <2>5
    <3> QED BY <2>5, <3>1, <3>2
  <2>7. \A m \in 1 .. n - 1 : ~Hyphenated(F[m])
    <3> TAKE m \in 1 .. n - 1
    <3>1. m \in 1 .. Len(a) /\ m \in 1 .. Len(b)
      <4>1. n - 1 = Len(a) /\ Len(b) = n + 1
        BY <2>5 DEF n
      <4> QED BY <2>5, <4>1
    <3>2. F[m] = a[m]
      BY <2>4, <2>5, <3>1 DEF Begins
    <3>3. Bare(a[m])
      BY <2>2, <3>1 DEF AllBare
    <3> QED BY <3>2, <3>3, BareStays
  <2>8. Hyphenated(F[n]) /\ n + 1 <= Len(F) /\ w = Front(F[n]) \o F[n + 1]
    BY <2>1, <2>6
  <2> QED BY <1>6, <2>6, <2>7, <2>8, JoinedFirst DEF F
<1> QED BY <1>2, <1>10, <1>11 DEF page, p, i

=============================================================================
