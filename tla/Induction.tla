------------------------------ MODULE Induction ------------------------------
(***************************************************************************)
(* Induction over the naturals for the proofs, with a set in place of the  *)
(* predicate: the least element of a set of naturals, the induction rule,  *)
(* functions defined by primitive recursion, and the concatenation of the  *)
(* sequences in a sequence, which the community modules define by one.     *)
(***************************************************************************)
EXTENDS Naturals, Sequences, SequencesExt, Filtering, SequenceTheorems,
        WellFoundedInduction, TLAPS

LEMMA LeastNatural ==
  ASSUME NEW S, S \subseteq Nat, S # {}
  PROVE  \E m \in S : \A n \in S : m <= n
<1>1. PICK m \in S : \A n \in S : ~ (<<n, m>> \in OpToRel(<, Nat))
  BY NatLessThanWellFounded, WFMin
<1>2. \A n \in S : n < m => <<n, m>> \in OpToRel(<, Nat)
  BY DEF OpToRel
<1>3. \A n \in S : ~(n < m)
  BY <1>1, <1>2, Zenon
<1>4. \A n \in S : m <= n
  BY <1>3
<1> QED
  BY <1>4

(* A set that has 0 and, with a natural, the next one has all of them.     *)
LEMMA SetInduction ==
  ASSUME NEW S, 0 \in S, \A n \in Nat : n \in S => n + 1 \in S
  PROVE  \A n \in Nat : n \in S
<1> DEFINE Out == {n \in Nat : n \notin S}
<1>1. CASE Out # {}
  <2>1. PICK m \in Out : \A n \in Out : m <= n
    <3>1. Out \subseteq Nat
      OBVIOUS
    <3> HIDE DEF Out
    <3> QED
      BY <1>1, <3>1, LeastNatural
  <2>2. m # 0 /\ m \in Nat /\ m - 1 \in Nat /\ m - 1 \notin Out
    BY <2>1
  <2>3. m - 1 \in S
    BY <2>2
  <2> QED
    BY <2>1, <2>2, <2>3
<1>2. CASE Out = {}
  BY <1>2
<1> QED
  BY <1>1, <1>2

(* A step can be iterated from any start for ever.                         *)
Iterates(f, X, x0, g) ==
  f \in [Nat -> X] /\ f[0] = x0 /\ \A n \in Nat : n # 0 => f[n] = g[f[n - 1]]

LEMMA Iteration ==
  ASSUME NEW X, NEW x0 \in X, NEW g \in [X -> X]
  PROVE  \E f : Iterates(f, X, x0, g)
<1> DEFINE Run(n) == {f \in [0 .. n -> X] :
                        f[0] = x0 /\ \A k \in 0 .. n : k # 0 => f[k] = g[f[k - 1]]}
           Made == {n \in Nat : Run(n) # {}}
           Agreed == {k \in Nat : \A m, n \in Nat : k <= m /\ k <= n =>
                        \A e \in Run(m), f \in Run(n) : e[k] = f[k]}
<1>1. \A n \in Nat : n \in Made
  <2>1. 0 \in Made
    <3>1. [k \in 0 .. 0 |-> x0] \in Run(0)
      OBVIOUS
    <3> QED
      BY <3>1
  <2>2. ASSUME NEW n \in Nat, n \in Made PROVE n + 1 \in Made
    <3>1. PICK f \in Run(n) : TRUE
      BY <2>2
    <3> DEFINE e == [k \in 0 .. n + 1 |-> IF k = n + 1 THEN g[f[n]] ELSE f[k]]
    <3>2. f \in [0 .. n -> X] /\ f[0] = x0 /\ f[n] \in X
      BY <3>1
    <3>3. e \in [0 .. n + 1 -> X]
      <4>1. \A k \in 0 .. n + 1 : k # n + 1 => k \in 0 .. n
        OBVIOUS
      <4> QED
        BY <3>2, <4>1
    <3>4. e[0] = x0
      BY <3>2
    <3>5. ASSUME NEW k \in 0 .. n + 1, k # 0 PROVE e[k] = g[e[k - 1]]
      <4>1. k - 1 \in 0 .. n + 1 /\ k - 1 # n + 1 /\ e[k - 1] = f[k - 1]
        BY <3>5
      <4>2. CASE k = n + 1
        BY <4>1, <4>2
      <4>3. CASE k # n + 1
        <5>1. k \in 0 .. n
          BY <4>3
        <5>2. f[k] = g[f[k - 1]]
          BY <3>1, <3>5, <5>1
        <5> QED
          BY <4>1, <4>3, <5>2
      <4> QED
        BY <4>2, <4>3
    <3>6. e \in Run(n + 1)
      <4> HIDE DEF e
      <4> QED
        BY <3>3, <3>4, <3>5
    <3> QED
      BY <3>6, SMTT(30)
  <2> HIDE DEF Made
  <2> QED
    BY <2>1, <2>2, SetInduction
<1>2. \A k \in Nat : k \in Agreed
  <2>1. 0 \in Agreed
    OBVIOUS
  <2>2. ASSUME NEW k \in Nat, k \in Agreed PROVE k + 1 \in Agreed
    <3>1. ASSUME NEW m \in Nat, NEW n \in Nat, k + 1 <= m, k + 1 <= n,
                 NEW e \in Run(m), NEW f \in Run(n)
          PROVE  e[k + 1] = f[k + 1]
      <4>1. e[k] = f[k]
        <5>1. k <= m /\ k <= n
          BY <3>1
        <5> HIDE DEF Run
        <5> QED
          BY <2>2, <3>1, <5>1
      <4>2. k + 1 \in 0 .. m /\ k + 1 \in 0 .. n /\ k + 1 # 0 /\ (k + 1) - 1 = k
        BY <3>1
      <4>3. e[k + 1] = g[e[k]] /\ f[k + 1] = g[f[k]]
        BY <4>2
      <4> QED
        BY <4>1, <4>3
    <3> HIDE DEF Run
    <3> QED
      BY <3>1
  <2> HIDE DEF Agreed
  <2> QED
    BY <2>1, <2>2, SetInduction
<1> DEFINE f == [n \in Nat |-> (CHOOSE e \in Run(n) : TRUE)[n]]
<1>3. ASSUME NEW n \in Nat PROVE \E e \in Run(n) : f[n] = e[n]
  <2>1. (CHOOSE e \in Run(n) : TRUE) \in Run(n)
    BY <1>1
  <2> HIDE DEF Run
  <2> QED
    BY <2>1
<1>4. DOMAIN f = Nat /\ f = [n \in Nat |-> f[n]]
  OBVIOUS
<1> HIDE DEF f
<1>5. \A n \in Nat : f[n] \in X
  BY <1>3
<1>6. f[0] = x0
  BY <1>3
<1>7. ASSUME NEW n \in Nat, n # 0 PROVE f[n] = g[f[n - 1]]
  <2>1. n - 1 \in Nat
    BY <1>7
  <2>2. PICK e \in Run(n) : f[n] = e[n]
    BY <1>3
  <2>3. PICK d \in Run(n - 1) : f[n - 1] = d[n - 1]
    BY <1>3, <2>1
  <2>4. n \in 0 .. n /\ n - 1 <= n /\ n - 1 <= n - 1
    BY <2>1
  <2>5. e[n] = g[e[n - 1]]
    BY <1>7, <2>2, <2>4
  <2>6. d[n - 1] = e[n - 1]
    <3>1. n - 1 \in Agreed
      BY <1>2, <2>1
    <3> HIDE DEF Run
    <3> QED
      BY <2>1, <2>4, <3>1
  <2> QED
    BY <2>2, <2>3, <2>5, <2>6
<1>8. f \in [Nat -> X]
  BY <1>4, <1>5
<1> QED
  BY <1>6, <1>7, <1>8 DEF Iterates

(* The partial concatenations of the sequences in s.                       *)
Flattens(f, s) ==
  f = [i \in 1 .. Len(s) |-> IF i = 1 THEN s[i] ELSE f[i - 1] \o s[i]]

LEMMA FlatteningExists ==
  ASSUME NEW X, NEW s \in Seq(Seq(X))
  PROVE  \E f : Flattens(f, s)
<1> DEFINE State == Nat \X Seq(X)
           step == [p \in State |->
                      <<p[1] + 1, IF p[1] + 1 \in 1 .. Len(s)
                                  THEN p[2] \o s[p[1] + 1] ELSE p[2]>>]
<1>1. step \in [State -> State]
  <2>1. ASSUME NEW p \in State PROVE step[p] \in State
    <3>1. p[1] + 1 \in Nat /\ p[2] \in Seq(X)
      OBVIOUS
    <3>2. p[1] + 1 \in 1 .. Len(s) => p[2] \o s[p[1] + 1] \in Seq(X)
      BY <3>1, ConcatProperties
    <3> QED
      BY <3>1, <3>2
  <2> QED
    BY <2>1
<1>2. <<0, <<>>>> \in State
  <2>1. <<>> \in Seq(X)
    OBVIOUS
  <2> QED
    BY <2>1
<1> HIDE DEF step
<1>3. PICK g : Iterates(g, State, <<0, <<>>>>, step)
  <2> HIDE DEF State
  <2> QED
    BY <1>1, <1>2, Iteration
<1>4. /\ g \in [Nat -> State] /\ g[0] = <<0, <<>>>>
      /\ \A n \in Nat : n # 0 => g[n] = step[g[n - 1]]
  BY <1>3 DEF Iterates
<1> DEFINE Counted == {n \in Nat : g[n][1] = n}
<1>5. \A n \in Nat : n \in Counted
  <2>1. 0 \in Counted
    BY <1>4
  <2>2. ASSUME NEW n \in Nat, n \in Counted PROVE n + 1 \in Counted
    <3>0. n + 1 \in Nat /\ n + 1 # 0 /\ (n + 1) - 1 = n
      OBVIOUS
    <3>1. g[n + 1] = step[g[n]] /\ g[n] \in State
      <4> HIDE DEF State
      <4> QED
        BY <1>4, <3>0
    <3>2. g[n + 1][1] = g[n][1] + 1
      BY <3>1 DEF step
    <3> QED
      BY <2>2, <3>2
  <2> HIDE DEF Counted
  <2> QED
    BY <2>1, <2>2, SetInduction
<1> DEFINE f == [i \in 1 .. Len(s) |-> g[i][2]]
<1>6. ASSUME NEW i \in 1 .. Len(s)
      PROVE  f[i] = IF i = 1 THEN s[i] ELSE f[i - 1] \o s[i]
  <2>1. i \in Nat /\ i - 1 \in Nat /\ i # 0 /\ (i - 1) + 1 = i
    OBVIOUS
  <2>2. g[i] = step[g[i - 1]] /\ g[i - 1] \in State /\ g[i - 1][1] = i - 1
    BY <1>4, <1>5, <2>1
  <2>3. g[i][2] = g[i - 1][2] \o s[i]
    <3>1. \A p \in State : p[1] + 1 \in 1 .. Len(s) =>
            step[p][2] = p[2] \o s[p[1] + 1]
      BY DEF step
    <3> HIDE DEF State
    <3>2. g[i - 1][1] + 1 = i
      BY <2>1, <2>2
    <3> QED
      BY <2>2, <3>1, <3>2
  <2>4. CASE i = 1
    <3>0. i - 1 = 0
      BY <2>4
    <3>1. g[i - 1][2] = <<>> /\ s[i] \in Seq(X) /\ f[i] = g[i][2]
      <4>1. g[i - 1] = <<0, <<>>>>
        <5> HIDE DEF State
        <5> QED
          BY <1>4, <3>0
      <4>2. g[i - 1][2] = <<>>
        BY <4>1
      <4> QED
        BY <4>2
    <3>2. <<>> \o s[i] = s[i]
      BY <3>1, ConcatEmptySeq
    <3> QED
      BY <2>3, <2>4, <3>1, <3>2
  <2>5. CASE i # 1
    <3>1. i - 1 \in 1 .. Len(s)
      BY <2>5
    <3> QED
      BY <2>3, <2>5, <3>1
  <2> QED
    BY <2>4, <2>5
<1>7. f = [i \in 1 .. Len(s) |-> f[i]]
  OBVIOUS
<1> HIDE DEF f
<1>8. Flattens(f, s)
  BY <1>6, <1>7 DEF Flattens
<1> QED
  BY <1>8

LEMMA FlattenIs ==
  ASSUME NEW X, NEW s \in Seq(Seq(X)), Len(s) # 0
  PROVE  \E f : Flattens(f, s) /\ FlattenSeq(s) = f[Len(s)]
<1> DEFINE f == CHOOSE e : e = [i \in 1 .. Len(s) |->
                                  IF i = 1 THEN s[i] ELSE e[i - 1] \o s[i]]
<1>1. FlattenSeq(s) = f[Len(s)]
  BY DEF FlattenSeq
<1>2. PICK e : Flattens(e, s)
  BY FlatteningExists
<1>3. f = [i \in 1 .. Len(s) |-> IF i = 1 THEN s[i] ELSE f[i - 1] \o s[i]]
  <2>1. e = [i \in 1 .. Len(s) |-> IF i = 1 THEN s[i] ELSE e[i - 1] \o s[i]]
    BY <1>2 DEF Flattens
  <2> QED
    BY <2>1, Zenon DEF f
<1> HIDE DEF f
<1> QED
  BY <1>1, <1>3 DEF Flattens

(* What the partial concatenations are made of.                            *)
LEMMA FlattensInSeq ==
  ASSUME NEW X, NEW s \in Seq(Seq(X)), NEW f, Flattens(f, s)
  PROVE  \A i \in 1 .. Len(s) : f[i] \in Seq(X)
<1> DEFINE Good == {n \in Nat : n \in 1 .. Len(s) => f[n] \in Seq(X)}
<1>0. \A i \in 1 .. Len(s) : f[i] = IF i = 1 THEN s[i] ELSE f[i - 1] \o s[i]
  BY DEF Flattens
<1>1. 0 \in Good
  OBVIOUS
<1>2. ASSUME NEW n \in Nat, n \in Good PROVE n + 1 \in Good
  <2>1. CASE n + 1 \in 1 .. Len(s) /\ n = 0
    <3>1. s[n + 1] \in Seq(X) /\ n + 1 = 1
      BY <2>1
    <3> QED
      BY <1>0, <2>1, <3>1
  <2>2. CASE n + 1 \in 1 .. Len(s) /\ n # 0
    <3>1. s[n + 1] \in Seq(X) /\ n + 1 # 1 /\ (n + 1) - 1 = n /\ n \in 1 .. Len(s)
      BY <2>2
    <3>2. f[n] \in Seq(X) /\ f[n + 1] = f[n] \o s[n + 1]
      BY <1>0, <1>2, <2>2, <3>1
    <3>3. f[n] \o s[n + 1] \in Seq(X)
      BY <3>1, <3>2, ConcatProperties
    <3>4. f[n + 1] \in Seq(X) /\ n + 1 \in Nat
      BY <3>2, <3>3
    <3> QED
      BY <3>4
  <2> QED
    BY <2>1, <2>2
<1>3. \A n \in Nat : n \in Good
  <2> HIDE DEF Good
  <2> QED
    BY <1>1, <1>2, SetInduction
<1> QED
  BY <1>3

LEMMA FlattenType ==
  ASSUME NEW X, NEW s \in Seq(Seq(X))
  PROVE  FlattenSeq(s) \in Seq(X)
<1>1. CASE Len(s) = 0
  BY <1>1 DEF FlattenSeq
<1>2. CASE Len(s) # 0
  <2>1. PICK f : Flattens(f, s) /\ FlattenSeq(s) = f[Len(s)]
    BY <1>2, FlattenIs
  <2>2. Len(s) \in 1 .. Len(s)
    BY <1>2
  <2> QED
    BY <2>1, <2>2, FlattensInSeq
<1> QED
  BY <1>1, <1>2

LEMMA FlattenEmpty == FlattenSeq(<<>>) = <<>>
BY DEF FlattenSeq

(* One more sequence goes to the end.                                      *)
LEMMA FlattenAppend ==
  ASSUME NEW X, NEW s \in Seq(Seq(X)), NEW e \in Seq(X)
  PROVE  FlattenSeq(Append(s, e)) = FlattenSeq(s) \o e
<1> DEFINE t == Append(s, e)
           N == Len(s)
<1>1. /\ t \in Seq(Seq(X)) /\ Len(t) = N + 1 /\ t[N + 1] = e /\ N \in Nat
      /\ \A i \in 1 .. N : t[i] = s[i]
  OBVIOUS
<1> HIDE DEF t
<1>2. PICK h : Flattens(h, t) /\ FlattenSeq(t) = h[N + 1]
  <2>1. Len(t) # 0
    BY <1>1
  <2>2. \E h : Flattens(h, t) /\ FlattenSeq(t) = h[Len(t)]
    BY <1>1, <2>1, FlattenIs
  <2> QED
    BY <1>1, <2>2
<1>3. \A i \in 1 .. N + 1 : h[i] = IF i = 1 THEN t[i] ELSE h[i - 1] \o t[i]
  BY <1>1, <1>2 DEF Flattens
<1>4. CASE N = 0
  <2>1. FlattenSeq(t) = e
    BY <1>1, <1>2, <1>3, <1>4
  <2>2. s = <<>>
    BY <1>4
  <2>3. FlattenSeq(s) \o e = e
    BY <2>2, FlattenEmpty, ConcatEmptySeq
  <2> QED
    BY <2>1, <2>3 DEF t
<1>5. CASE N # 0
  <2>1. PICK f : Flattens(f, s) /\ FlattenSeq(s) = f[N]
    BY <1>5, FlattenIs
  <2>2. \A i \in 1 .. N : f[i] = IF i = 1 THEN s[i] ELSE f[i - 1] \o s[i]
    BY <2>1 DEF Flattens
  <2> DEFINE Same == {n \in Nat : n \in 1 .. N => f[n] = h[n]}
  <2>3. 0 \in Same
    OBVIOUS
  <2>4. ASSUME NEW n \in Nat, n \in Same PROVE n + 1 \in Same
    <3>1. CASE n + 1 \in 1 .. N /\ n = 0
      <4>1. n + 1 = 1 /\ 1 \in 1 .. N /\ 1 \in 1 .. N + 1
        BY <1>1, <3>1
      <4>2. f[1] = s[1] /\ h[1] = t[1] /\ t[1] = s[1]
        BY <1>1, <1>3, <2>2, <4>1
      <4> QED
        BY <4>1, <4>2
    <3>2. CASE n + 1 \in 1 .. N /\ n # 0
      <4>1. /\ n + 1 # 1 /\ (n + 1) - 1 = n /\ n \in 1 .. N
            /\ n + 1 \in 1 .. N /\ n + 1 \in 1 .. N + 1
        BY <1>1, <3>2
      <4>2. f[n] = h[n]
        BY <2>4, <4>1
      <4>3. f[n + 1] = f[n] \o s[n + 1] /\ h[n + 1] = h[n] \o t[n + 1]
        BY <1>3, <2>2, <4>1
      <4>4. t[n + 1] = s[n + 1]
        BY <1>1, <4>1
      <4>5. f[n + 1] = h[n + 1] /\ n + 1 \in Nat
        BY <4>2, <4>3, <4>4
      <4> QED
        BY <4>5
    <3> QED
      BY <3>1, <3>2
  <2>5. \A n \in Nat : n \in Same
    <3> HIDE DEF Same
    <3> QED
      BY <2>3, <2>4, SetInduction
  <2>6. N \in 1 .. N /\ N + 1 \in 1 .. N + 1 /\ N + 1 # 1 /\ (N + 1) - 1 = N
    BY <1>1, <1>5
  <2>7. f[N] = h[N]
    BY <1>1, <2>5, <2>6
  <2>8. h[N + 1] = h[N] \o t[N + 1]
    BY <1>3, <2>6
  <2> QED
    BY <1>1, <1>2, <2>1, <2>7, <2>8 DEF t
<1> QED
  BY <1>4, <1>5

----------------------------------------------------------------------------
(* Induction over sequences, again with a set in place of the predicate.   *)
LEMMA SequenceInduction ==
  ASSUME NEW X, NEW S, <<>> \in S,
         \A s \in Seq(X), e \in X : s \in S => Append(s, e) \in S
  PROVE  \A s \in Seq(X) : s \in S
<1> DEFINE Good == {n \in Nat : \A s \in Seq(X) : Len(s) = n => s \in S}
<1>1. 0 \in Good
  <2>1. ASSUME NEW s \in Seq(X), Len(s) = 0 PROVE s \in S
    <3>1. s = <<>>
      BY <2>1
    <3> QED
      BY <3>1
  <2> QED
    BY <2>1
<1>2. ASSUME NEW n \in Nat, n \in Good PROVE n + 1 \in Good
  <2>1. ASSUME NEW s \in Seq(X), Len(s) = n + 1 PROVE s \in S
    <3>1. s # <<>>
      BY <2>1
    <3>2. PICK r \in Seq(X), e \in X : s = Append(r, e)
      BY <3>1, SequenceEmptyOrAppend
    <3>3. Len(r) = n
      BY <2>1, <3>2
    <3> QED
      BY <1>2, <3>2, <3>3
  <2> QED
    BY <2>1
<1>3. \A n \in Nat : n \in Good
  <2> HIDE DEF Good
  <2> QED
    BY <1>1, <1>2, SetInduction
<1> QED
  BY <1>3

Increasing(s) == \A i, j \in DOMAIN s : i < j => s[i] < s[j]

Occurs(x, s) == \E i \in DOMAIN s : s[i] = x

LEMMA AppendOccurs ==
  ASSUME NEW X, NEW s \in Seq(X), NEW e \in X, NEW x
  PROVE  Occurs(x, Append(s, e)) <=> Occurs(x, s) \/ x = e
<1>1. /\ DOMAIN s = 1 .. Len(s) /\ DOMAIN Append(s, e) = 1 .. Len(s) + 1
      /\ Len(s) \in Nat
      /\ \A i \in 1 .. Len(s) : Append(s, e)[i] = s[i]
      /\ Append(s, e)[Len(s) + 1] = e
  BY AppendProperties
<1> QED
  BY <1>1 DEF Occurs

LEMMA AppendIncreasing ==
  ASSUME NEW s \in Seq(Nat), NEW e \in Nat, Increasing(s),
         \A x \in Nat : Occurs(x, s) => x < e
  PROVE  Increasing(Append(s, e))
<1>1. /\ DOMAIN s = 1 .. Len(s) /\ DOMAIN Append(s, e) = 1 .. Len(s) + 1
      /\ Len(s) \in Nat
      /\ \A i \in 1 .. Len(s) : Append(s, e)[i] = s[i] /\ s[i] \in Nat
      /\ Append(s, e)[Len(s) + 1] = e
  OBVIOUS
<1>2. \A i \in 1 .. Len(s) : s[i] < e
  BY <1>1 DEF Occurs
<1> QED
  BY <1>1, <1>2 DEF Increasing

(* The concatenation part by part.                                         *)
Accumulates(g, h) ==
  /\ g[0] = <<>>
  /\ \A i \in 1 .. Len(h) : g[i] = g[i - 1] \o h[i]
  /\ g[Len(h)] = FlattenSeq(h)

LEMMA FlattenByParts ==
  ASSUME NEW X, NEW h \in Seq(Seq(X))
  PROVE  \E g \in [0 .. Len(h) -> Seq(X)] : Accumulates(g, h)
<1>0. Len(h) \in Nat /\ \A i \in 1 .. Len(h) : h[i] \in Seq(X)
  OBVIOUS
<1>1. CASE Len(h) = 0
  <2> DEFINE g == [i \in 0 .. Len(h) |-> <<>>]
  <2>1. g \in [0 .. Len(h) -> Seq(X)]
    OBVIOUS
  <2>2. g[0] = <<>> /\ g[Len(h)] = <<>> /\ h = <<>>
    BY <1>1
  <2>3. Accumulates(g, h)
    BY <1>1, <2>2, FlattenEmpty DEF Accumulates
  <2> QED
    BY <2>1, <2>3
<1>2. CASE Len(h) # 0
  <2>1. PICK f : Flattens(f, h) /\ FlattenSeq(h) = f[Len(h)]
    BY <1>2, FlattenIs
  <2>2. \A i \in 1 .. Len(h) : f[i] \in Seq(X)
    BY <2>1, FlattensInSeq
  <2> DEFINE g == [i \in 0 .. Len(h) |-> IF i = 0 THEN <<>> ELSE f[i]]
  <2>3. g \in [0 .. Len(h) -> Seq(X)]
    BY <2>2
  <2>4. /\ g[0] = <<>>
        /\ \A i \in 1 .. Len(h) : g[i] = f[i]
    BY <1>0
  <2> HIDE DEF g
  <2>5. ASSUME NEW i \in 1 .. Len(h) PROVE g[i] = g[i - 1] \o h[i]
    <3>1. f[i] = IF i = 1 THEN h[i] ELSE f[i - 1] \o h[i]
      BY <2>1 DEF Flattens
    <3>2. CASE i = 1
      <4>1. g[i - 1] = <<>> /\ h[i] \in Seq(X)
        BY <1>0, <2>4, <3>2
      <4> QED
        BY <2>4, <3>1, <3>2, <4>1, ConcatEmptySeq
    <3>3. CASE i # 1
      <4>1. i - 1 \in 1 .. Len(h)
        BY <3>3
      <4> QED
        BY <2>4, <3>1, <3>3, <4>1
    <3> QED
      BY <3>2, <3>3
  <2>6. g[Len(h)] = FlattenSeq(h)
    BY <1>0, <1>2, <2>1, <2>4
  <2> QED
    BY <2>3, <2>4, <2>5, <2>6 DEF Accumulates
<1> QED
  BY <1>1, <1>2

(* Filtering.  Of one element the filter keeps a sequence of it or nothing. *)
Kept1(e, gone) == IF e \in gone THEN <<>> ELSE <<e>>
Sieve(s, gone) == [i \in DOMAIN s |-> Kept1(s[i], gone)]

LEMMA SieveIs ==
  ASSUME NEW X, NEW s \in Seq(X), NEW gone
  PROVE  /\ Sieve(s, gone) \in Seq(Seq(X \ gone))
         /\ Without(s, gone) = FlattenSeq(Sieve(s, gone))
<1>1. ASSUME NEW x \in X PROVE Kept1(x, gone) \in Seq(X \ gone)
  <2>1. CASE x \in gone
    BY <2>1 DEF Kept1
  <2>2. CASE x \notin gone
    <3>1. x \in X \ gone
      BY <2>2
    <3>2. <<x>> \in Seq(X \ gone)
      BY <3>1
    <3> QED
      BY <2>2, <3>2 DEF Kept1
  <2> QED
    BY <2>1, <2>2
<1>2. /\ DOMAIN Sieve(s, gone) = 1 .. Len(s)
      /\ \A i \in 1 .. Len(s) : Sieve(s, gone)[i] \in Seq(X \ gone)
  BY <1>1 DEF Sieve
<1>3. Sieve(s, gone) \in Seq(Seq(X \ gone))
  <2>1. Sieve(s, gone) = [i \in 1 .. Len(s) |-> Kept1(s[i], gone)]
    BY DEF Sieve
  <2> DEFINE f == Sieve(s, gone)
  <2>2. f \in [1 .. Len(s) -> Seq(X \ gone)]
    BY <1>2, <2>1
  <2> HIDE DEF f
  <2>3. f \in Seq(Seq(X \ gone))
    BY <2>2
  <2> QED
    BY <2>3 DEF f
<1>4. Without(s, gone) = FlattenSeq(Sieve(s, gone))
  <2>0. Sieve(s, gone) \in Seq(Seq(X)) /\ Len(Sieve(s, gone)) = Len(s) /\ Len(s) \in Nat
    <3>1. \A r \in Seq(X \ gone) : r \in Seq(X)
      OBVIOUS
    <3>2. \A r \in Seq(Seq(X \ gone)) : r \in Seq(Seq(X))
      BY <3>1
    <3>3. Len(Sieve(s, gone)) = Len(s)
      BY <1>3 DEF Sieve
    <3> QED
      BY <1>3, <3>2, <3>3
  <2>1. PICK g \in [0 .. Len(s) -> Seq(X)] : Accumulates(g, Sieve(s, gone))
    BY <2>0, FlattenByParts
  <2>2. ASSUME NEW i \in 1 .. Len(s)
        PROVE  g[i] = IF s[i] \in gone THEN g[i - 1] ELSE Append(g[i - 1], s[i])
    <3>1. i - 1 \in 0 .. Len(s) /\ s[i] \in X
      OBVIOUS
    <3>2. g[i - 1] \in Seq(X)
      BY <3>1
    <3>3. g[i] = g[i - 1] \o Kept1(s[i], gone)
      <4>1. Sieve(s, gone)[i] = Kept1(s[i], gone)
        BY DEF Sieve
      <4>2. i \in 1 .. Len(Sieve(s, gone))
        BY <2>0
      <4>3. g[i] = g[i - 1] \o Sieve(s, gone)[i]
        BY <2>1, <4>2 DEF Accumulates
      <4> QED
        BY <4>1, <4>3
    <3>4. CASE s[i] \in gone
      BY <3>2, <3>3, <3>4, ConcatEmptySeq DEF Kept1
    <3>5. CASE s[i] \notin gone
      <4>1. g[i] = g[i - 1] \o <<s[i]>>
        BY <3>3, <3>5 DEF Kept1
      <4>2. Append(g[i - 1], s[i]) = g[i - 1] \o <<s[i]>>
        BY <3>1, <3>2, AppendIsConcat
      <4> QED
        BY <3>5, <4>1, <4>2
    <3> QED
      BY <3>4, <3>5
  <2> DEFINE Body(e, i) == IF i = 0 THEN <<>>
                           ELSE IF s[i] \in gone THEN e[i - 1] ELSE Append(e[i - 1], s[i])
             kept == CHOOSE e : e = [i \in 0 .. Len(s) |-> Body(e, i)]
  <2>3. kept = [i \in 0 .. Len(s) |-> Body(kept, i)]
    <3>1. g[0] = <<>>
      BY <2>1 DEF Accumulates
    <3>2. \A i \in 0 .. Len(s) : i = 0 \/ i \in 1 .. Len(s)
      BY <2>0
    <3>3. \A i \in 0 .. Len(s) : g[i] = Body(g, i)
      BY <2>2, <3>1, <3>2
    <3>4. g = [i \in 0 .. Len(s) |-> Body(g, i)]
      BY <3>3
    <3> QED
      BY <3>4, Zenon
  <2>4. Without(s, gone) = kept[Len(s)]
    BY DEF Without
  <2> HIDE DEF kept
  <2>5. \A i \in 0 .. Len(s) : kept[i] = Body(kept, i)
    BY <2>3
  <2> DEFINE Same == {n \in Nat : n \in 0 .. Len(s) => kept[n] = g[n]}
  <2>6. 0 \in Same
    <3>1. 0 \in 0 .. Len(s) /\ g[0] = <<>>
      BY <2>0, <2>1 DEF Accumulates
    <3> QED
      BY <2>5, <3>1
  <2>7. ASSUME NEW n \in Nat, n \in Same PROVE n + 1 \in Same
    <3>1. CASE n + 1 \in 0 .. Len(s)
      <4>1. /\ n \in 0 .. Len(s) /\ n + 1 # 0 /\ (n + 1) - 1 = n
            /\ n + 1 \in 1 .. Len(s) /\ n + 1 \in Nat
        BY <2>0, <3>1
      <4>2. kept[n] = g[n]
        BY <2>7, <4>1
      <4>3. kept[n + 1] = IF s[n + 1] \in gone THEN kept[n] ELSE Append(kept[n], s[n + 1])
        BY <2>5, <3>1, <4>1
      <4>4. g[n + 1] = IF s[n + 1] \in gone THEN g[n] ELSE Append(g[n], s[n + 1])
        BY <2>2, <4>1
      <4> QED
        BY <4>1, <4>2, <4>3, <4>4
    <3> QED
      BY <3>1
  <2>8. \A n \in Nat : n \in Same
    <3> HIDE DEF Same
    <3> QED
      BY <2>6, <2>7, SetInduction
  <2>9. kept[Len(s)] = g[Len(s)]
    BY <2>0, <2>8
  <2> QED
    BY <2>0, <2>1, <2>4, <2>9 DEF Accumulates
<1> QED
  BY <1>3, <1>4

LEMMA WithoutType ==
  ASSUME NEW X, NEW s \in Seq(X), NEW gone
  PROVE  Without(s, gone) \in Seq(X \ gone) /\ Without(s, gone) \in Seq(X)
<1>1. Without(s, gone) \in Seq(X \ gone)
  <2>1. /\ Sieve(s, gone) \in Seq(Seq(X \ gone))
        /\ Without(s, gone) = FlattenSeq(Sieve(s, gone))
    BY SieveIs
  <2> QED
    BY <2>1, FlattenType
<1>2. \A t \in Seq(X \ gone) : t \in Seq(X)
  OBVIOUS
<1> QED
  BY <1>1, <1>2

LEMMA WithoutEmpty == ASSUME NEW gone PROVE Without(<<>>, gone) = <<>>
<1>1. <<>> \in Seq({})
  OBVIOUS
<1>2. Sieve(<<>>, gone) = <<>>
  BY DEF Sieve
<1> QED
  BY <1>1, <1>2, SieveIs, FlattenEmpty

LEMMA WithoutAppend ==
  ASSUME NEW X, NEW s \in Seq(X), NEW e \in X, NEW gone
  PROVE  Without(Append(s, e), gone) =
           IF e \in gone THEN Without(s, gone) ELSE Append(Without(s, gone), e)
<1> DEFINE t == Append(s, e)
<1>1. t \in Seq(X) /\ Len(t) = Len(s) + 1 /\ t[Len(s) + 1] = e
      /\ (\A i \in 1 .. Len(s) : t[i] = s[i]) /\ Len(s) \in Nat
  OBVIOUS
<1> HIDE DEF t
<1>2. Sieve(s, gone) \in Seq(Seq(X)) /\ Len(Sieve(s, gone)) = Len(s)
  <2>1. Sieve(s, gone) \in Seq(Seq(X \ gone))
    BY SieveIs
  <2>2. Len(Sieve(s, gone)) = Len(s)
    BY <2>1 DEF Sieve
  <2>3. \A r \in Seq(X \ gone) : r \in Seq(X)
    OBVIOUS
  <2>4. \A r \in Seq(Seq(X \ gone)) : r \in Seq(Seq(X))
    BY <2>3
  <2> QED
    BY <2>1, <2>2, <2>4
<1>3. Kept1(e, gone) \in Seq(X)
  BY DEF Kept1
<1>4. Sieve(t, gone) = Append(Sieve(s, gone), Kept1(e, gone))
  <2>1. /\ DOMAIN Append(Sieve(s, gone), Kept1(e, gone)) = 1 .. Len(s) + 1
        /\ \A i \in 1 .. Len(s) :
             Append(Sieve(s, gone), Kept1(e, gone))[i] = Sieve(s, gone)[i]
        /\ Append(Sieve(s, gone), Kept1(e, gone))[Len(s) + 1] = Kept1(e, gone)
    BY <1>2, <1>3, AppendProperties
  <2>2. \A i \in 1 .. Len(s) : Sieve(s, gone)[i] = Kept1(s[i], gone)
    BY DEF Sieve
  <2>3. Sieve(t, gone) = [i \in 1 .. Len(s) + 1 |-> Kept1(t[i], gone)]
    BY <1>1 DEF Sieve
  <2> DEFINE f == Append(Sieve(s, gone), Kept1(e, gone))
  <2>4. f = [i \in DOMAIN f |-> f[i]]
    <3>1. f \in Seq(Seq(X))
      BY <1>2, <1>3
    <3> HIDE DEF f
    <3> QED
      BY <3>1
  <2>5. \A i \in 1 .. Len(s) + 1 : f[i] = Kept1(t[i], gone)
    <3>1. \A i \in 1 .. Len(s) : f[i] = Kept1(t[i], gone)
      BY <1>1, <2>1, <2>2
    <3>2. f[Len(s) + 1] = Kept1(t[Len(s) + 1], gone)
      BY <1>1, <2>1
    <3>3. \A i \in 1 .. Len(s) + 1 : i \in 1 .. Len(s) \/ i = Len(s) + 1
      BY <1>1
    <3> HIDE DEF f
    <3> QED
      BY <3>1, <3>2, <3>3
  <2>6. DOMAIN f = 1 .. Len(s) + 1
    BY <2>1
  <2> HIDE DEF f
  <2>7. Sieve(t, gone) = f
    BY <2>3, <2>4, <2>5, <2>6
  <2> QED
    BY <2>7 DEF f
<1>5. Without(t, gone) = Without(s, gone) \o Kept1(e, gone)
  <2>1. Without(t, gone) = FlattenSeq(Append(Sieve(s, gone), Kept1(e, gone)))
    BY <1>1, <1>4, SieveIs
  <2>2. Without(s, gone) = FlattenSeq(Sieve(s, gone))
    BY SieveIs
  <2> QED
    BY <1>2, <1>3, <2>1, <2>2, FlattenAppend
<1>6. Without(s, gone) \in Seq(X)
  BY WithoutType
<1>7. CASE e \in gone
  <2>1. Kept1(e, gone) = <<>>
    BY <1>7 DEF Kept1
  <2> QED
    BY <1>5, <1>6, <1>7, <2>1, ConcatEmptySeq DEF t
<1>8. CASE e \notin gone
  <2>1. Kept1(e, gone) = <<e>>
    BY <1>8 DEF Kept1
  <2>2. Append(Without(s, gone), e) = Without(s, gone) \o <<e>>
    BY <1>6, AppendIsConcat
  <2> QED
    BY <1>5, <1>8, <2>1, <2>2 DEF t
<1> QED
  BY <1>7, <1>8

(* Exactly the elements that are not gone remain, in their order.          *)
LEMMA WithoutOccurs ==
  ASSUME NEW X, NEW gone
  PROVE  \A s \in Seq(X) : \A x : Occurs(x, Without(s, gone)) <=> Occurs(x, s) /\ x \notin gone
<1> DEFINE S == {s \in Seq(X) :
                   \A x \in X : Occurs(x, Without(s, gone)) <=> Occurs(x, s) /\ x \notin gone}
<1>1. <<>> \in S
  BY WithoutEmpty DEF Occurs
<1>2. ASSUME NEW s \in Seq(X), NEW e \in X, s \in S PROVE Append(s, e) \in S
  <2>1. ASSUME NEW x \in X
        PROVE  Occurs(x, Without(Append(s, e), gone)) <=> Occurs(x, Append(s, e)) /\ x \notin gone
    <3>1. Occurs(x, Append(s, e)) <=> Occurs(x, s) \/ x = e
      BY AppendOccurs
    <3>2. Occurs(x, Append(Without(s, gone), e)) <=> Occurs(x, Without(s, gone)) \/ x = e
      BY WithoutType, AppendOccurs
    <3>3. Occurs(x, Without(s, gone)) <=> Occurs(x, s) /\ x \notin gone
      BY <1>2
    <3>4. CASE e \in gone
      <4>1. Without(Append(s, e), gone) = Without(s, gone)
        BY <3>4, WithoutAppend
      <4> QED
        BY <3>1, <3>3, <3>4, <4>1, Zenon
    <3>5. CASE e \notin gone
      <4>1. Without(Append(s, e), gone) = Append(Without(s, gone), e)
        BY <3>5, WithoutAppend
      <4> QED
        BY <3>1, <3>2, <3>3, <3>5, <4>1, Zenon
    <3> QED
      BY <3>4, <3>5
  <2>2. Append(s, e) \in Seq(X)
    OBVIOUS
  <2> QED
    BY <2>1, <2>2
<1>3. \A s \in Seq(X) : s \in S
  <2> HIDE DEF S
  <2> QED
    BY <1>1, <1>2, SequenceInduction
<1>4. ASSUME NEW s \in Seq(X), NEW x
      PROVE  Occurs(x, Without(s, gone)) <=> Occurs(x, s) /\ x \notin gone
  <2>1. Without(s, gone) \in Seq(X)
    BY WithoutType
  <2>2. \A t \in Seq(X) : Occurs(x, t) => x \in X
    BY DEF Occurs
  <2>3. CASE x \in X
    BY <1>3, <2>3
  <2>4. CASE x \notin X
    BY <2>1, <2>2, <2>4
  <2> QED
    BY <2>3, <2>4
<1> QED
  BY <1>4

LEMMA WithoutIncreasing ==
  ASSUME NEW gone
  PROVE  \A s \in Seq(Nat) : Increasing(s) => Increasing(Without(s, gone))
<1> DEFINE S == {s \in Seq(Nat) : Increasing(s) => Increasing(Without(s, gone))}
<1>1. <<>> \in S
  BY WithoutEmpty DEF Increasing
<1>2. ASSUME NEW s \in Seq(Nat), NEW e \in Nat, s \in S, Increasing(Append(s, e))
      PROVE  Increasing(Without(Append(s, e), gone))
  <2>1. /\ DOMAIN s = 1 .. Len(s) /\ DOMAIN Append(s, e) = 1 .. Len(s) + 1
        /\ Len(s) \in Nat
        /\ \A i \in 1 .. Len(s) : Append(s, e)[i] = s[i] /\ s[i] \in Nat
        /\ Append(s, e)[Len(s) + 1] = e
    OBVIOUS
  <2>2. Increasing(s) /\ \A x \in Nat : Occurs(x, s) => x < e
    <3>1. \A i, j \in 1 .. Len(s) + 1 : i < j => Append(s, e)[i] < Append(s, e)[j]
      BY <1>2, <2>1 DEF Increasing
    <3>2. \A i \in 1 .. Len(s) : i < Len(s) + 1 /\ i \in 1 .. Len(s) + 1
                               /\ Len(s) + 1 \in 1 .. Len(s) + 1
      BY <2>1
    <3>3. \A i \in 1 .. Len(s) : s[i] < e
      BY <2>1, <3>1, <3>2
    <3>4. \A i, j \in 1 .. Len(s) : i < j => s[i] < s[j]
      BY <2>1, <3>1, <3>2
    <3> QED
      BY <2>1, <3>3, <3>4 DEF Increasing, Occurs
  <2>3. Increasing(Without(s, gone))
    BY <1>2, <2>2
  <2>4. Without(s, gone) \in Seq(Nat)
        /\ \A x \in Nat : Occurs(x, Without(s, gone)) => x < e
    BY <2>2, WithoutType, WithoutOccurs
  <2>5. Increasing(Append(Without(s, gone), e))
    BY <2>3, <2>4, AppendIncreasing
  <2>6. \/ Without(Append(s, e), gone) = Without(s, gone)
        \/ Without(Append(s, e), gone) = Append(Without(s, gone), e)
    BY WithoutAppend
  <2> QED
    BY <2>3, <2>5, <2>6
<1>3. \A s \in Seq(Nat) : s \in S
  <2>1. \A s \in Seq(Nat), e \in Nat : s \in S => Append(s, e) \in S
    <3>1. \A s \in Seq(Nat), e \in Nat : Append(s, e) \in Seq(Nat)
      OBVIOUS
    <3> QED
      BY <1>2, <3>1
  <2> HIDE DEF S
  <2> QED
    BY <1>1, <2>1, SequenceInduction
<1> QED
  BY <1>3

(* Only what occurs matters of what is gone.                               *)
LEMMA WithoutMatters ==
  ASSUME NEW X, NEW g, NEW h
  PROVE  \A s \in Seq(X) :
           (\A x \in X : Occurs(x, s) => (x \in g <=> x \in h)) => Without(s, g) = Without(s, h)
<1> DEFINE Alike(s) == \A x \in X : Occurs(x, s) => (x \in g <=> x \in h)
           S == {s \in Seq(X) : Alike(s) => Without(s, g) = Without(s, h)}
<1>1. <<>> \in S
  BY WithoutEmpty
<1>2. ASSUME NEW s \in Seq(X), NEW e \in X, s \in S, Alike(Append(s, e))
      PROVE  Without(Append(s, e), g) = Without(Append(s, e), h)
  <2>1. \A x \in X : Occurs(x, Append(s, e)) <=> Occurs(x, s) \/ x = e
    BY AppendOccurs
  <2>2. Alike(s) /\ (e \in g <=> e \in h)
    BY <1>2, <2>1, Zenon
  <2>3. Without(s, g) = Without(s, h)
    BY <1>2, <2>2
  <2> QED
    BY <2>2, <2>3, WithoutAppend
<1>3. \A s \in Seq(X), e \in X : s \in S => Append(s, e) \in S
  <2>1. \A s \in Seq(X), e \in X : Append(s, e) \in Seq(X)
    OBVIOUS
  <2> HIDE DEF Alike
  <2> QED
    BY <1>2, <2>1
<1> HIDE DEF S
<1>4. \A s \in Seq(X) : s \in S
  BY <1>1, <1>3, SequenceInduction
<1> QED
  BY <1>4 DEF S

(* A concatenation is filtered part by part, and two filters are one.      *)
LEMMA WithoutConcat ==
  ASSUME NEW X, NEW gone, NEW s \in Seq(X)
  PROVE  \A t \in Seq(X) : Without(s \o t, gone) = Without(s, gone) \o Without(t, gone)
<1> DEFINE S == {t \in Seq(X) : Without(s \o t, gone) = Without(s, gone) \o Without(t, gone)}
<1>0. Without(s, gone) \in Seq(X)
  BY WithoutType
<1>1. <<>> \in S
  <2>1. s \o <<>> = s /\ Without(s, gone) \o <<>> = Without(s, gone)
    BY <1>0, ConcatEmptySeq
  <2>2. <<>> \in Seq(X)
    OBVIOUS
  <2> QED
    BY <2>1, <2>2, WithoutEmpty
<1>2. ASSUME NEW t \in Seq(X), NEW e \in X, t \in S PROVE Append(t, e) \in S
  <2>1. /\ s \o Append(t, e) = Append(s \o t, e) /\ s \o t \in Seq(X)
        /\ Append(t, e) \in Seq(X)
    OBVIOUS
  <2>2. Without(s \o t, gone) = Without(s, gone) \o Without(t, gone)
    BY <1>2
  <2>3. Without(t, gone) \in Seq(X)
    BY WithoutType
  <2>4. CASE e \in gone
    <3>1. /\ Without(Append(s \o t, e), gone) = Without(s \o t, gone)
          /\ Without(Append(t, e), gone) = Without(t, gone)
      BY <2>1, <2>4, WithoutAppend
    <3> QED
      BY <2>1, <2>2, <3>1
  <2>5. CASE e \notin gone
    <3>1. /\ Without(Append(s \o t, e), gone) = Append(Without(s \o t, gone), e)
          /\ Without(Append(t, e), gone) = Append(Without(t, gone), e)
      BY <2>1, <2>5, WithoutAppend, ZenonT(60)
    <3>2. \A u, v \in Seq(X) : u \o Append(v, e) = Append(u \o v, e)
      OBVIOUS
    <3>3. Without(s, gone) \o Append(Without(t, gone), e) =
            Append(Without(s, gone) \o Without(t, gone), e)
      BY <1>0, <2>3, <3>2
    <3> QED
      BY <2>1, <2>2, <3>1, <3>3
  <2> QED
    BY <2>4, <2>5
<1>3. \A t \in Seq(X), e \in X : t \in S => Append(t, e) \in S
  BY <1>2
<1> HIDE DEF S
<1>4. \A t \in Seq(X) : t \in S
  BY <1>1, <1>3, SequenceInduction
<1> QED
  BY <1>4 DEF S

LEMMA WithoutBoth ==
  ASSUME NEW X, NEW g, NEW h
  PROVE  \A s \in Seq(X) : Without(Without(s, g), h) = Without(s, g \cup h)
<1> DEFINE S == {s \in Seq(X) : Without(Without(s, g), h) = Without(s, g \cup h)}
<1>1. <<>> \in S
  BY WithoutEmpty
<1>2. ASSUME NEW s \in Seq(X), NEW e \in X, s \in S PROVE Append(s, e) \in S
  <2>1. Append(s, e) \in Seq(X)
    OBVIOUS
  <2>2. Without(Without(s, g), h) = Without(s, g \cup h)
    BY <1>2
  <2>3. Without(s, g) \in Seq(X)
    BY WithoutType
  <2>4. CASE e \in g
    <3>1. Without(Append(s, e), g) = Without(s, g)
      BY <2>4, WithoutAppend
    <3>2. e \in g \cup h
      BY <2>4
    <3>3. Without(Append(s, e), g \cup h) = Without(s, g \cup h)
      BY <3>2, WithoutAppend
    <3> QED
      BY <2>1, <2>2, <3>1, <3>3
  <2>5. CASE e \notin g
    <3>1. Without(Append(s, e), g) = Append(Without(s, g), e)
      BY <2>5, WithoutAppend
    <3>2. Without(Append(Without(s, g), e), h) =
            IF e \in h THEN Without(Without(s, g), h) ELSE Append(Without(Without(s, g), h), e)
      BY <2>3, WithoutAppend
    <3>3. Without(Append(s, e), g \cup h) =
            IF e \in g \cup h THEN Without(s, g \cup h) ELSE Append(Without(s, g \cup h), e)
      BY WithoutAppend
    <3>4. e \in g \cup h <=> e \in h
      BY <2>5
    <3> QED
      BY <2>1, <2>2, <3>1, <3>2, <3>3, <3>4
  <2> QED
    BY <2>4, <2>5
<1>3. \A s \in Seq(X), e \in X : s \in S => Append(s, e) \in S
  BY <1>2
<1> HIDE DEF S
<1>4. \A s \in Seq(X) : s \in S
  BY <1>1, <1>3, SequenceInduction
<1> QED
  BY <1>4 DEF S

LEMMA WithoutAll ==
  ASSUME NEW gone, NEW s \in Seq(gone)
  PROVE  Without(s, gone) = <<>>
<1>1. Without(s, gone) \in Seq(gone \ gone)
  BY WithoutType
<1>2. gone \ gone = {}
  OBVIOUS
<1>3. \A t \in Seq({}) : t = <<>>
  OBVIOUS
<1> QED
  BY <1>1, <1>2, <1>3
=============================================================================
