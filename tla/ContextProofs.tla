---------------------------- MODULE ContextProofs ----------------------------
(***************************************************************************)
(* Machine-checked proofs about ContextAssembly: every section is shed no  *)
(* further than its allowance asks and in the order of its drop rule, and  *)
(* its allowance is what the sections of higher priority left of the pool. *)
(***************************************************************************)
EXTENDS ContextAssembly, Induction, FiniteSetTheorems

Views == [goal : Seq(Line), board : Seq(Line), health : Nat,
          retrievals : Seq(Line), directives : Seq(Line), claimed : Seq(Line),
          activity : Seq(Line), outcomes : Seq(Line), digest : Seq(Line),
          events : Seq(Line)]

(* Induction up to a bound.                                                *)
LEMMA UpTo ==
  ASSUME NEW L \in Nat, NEW S, 0 \in S, \A n \in 1 .. L : n - 1 \in S => n \in S
  PROVE  \A n \in 0 .. L : n \in S
<1> DEFINE Good == {n \in Nat : n <= L => n \in S}
<1>1. 0 \in Good
  OBVIOUS
<1>2. ASSUME NEW n \in Nat, n \in Good PROVE n + 1 \in Good
  <2>1. CASE n + 1 <= L
    <3>1. n + 1 \in 1 .. L /\ (n + 1) - 1 = n /\ n \in S
      BY <1>2, <2>1
    <3> QED
      BY <3>1
  <2> QED
    BY <2>1
<1> HIDE DEF Good
<1>3. \A n \in Nat : n \in Good
  BY <1>1, <1>2, SetInduction
<1> QED
  BY <1>3 DEF Good

----------------------------------------------------------------------------
(* Iteration over a sequence: a run of the loop is the function of its      *)
(* results, which h takes from the place and the result before it.          *)
Loops(f, L, x0, h) ==
  f[0] = x0 /\ \A n \in 1 .. L : f[n] = h[<<n, f[n - 1]>>]

LEMMA LoopExists ==
  ASSUME NEW L \in Nat, NEW X, NEW x0 \in X, NEW h \in [(1 .. L) \X X -> X]
  PROVE  \E f \in [0 .. L -> X] : Loops(f, L, x0, h)
<1> DEFINE State == Nat \X X
           step == [p \in State |->
                      <<p[1] + 1, IF p[1] + 1 \in 1 .. L THEN h[<<p[1] + 1, p[2]>>]
                                  ELSE p[2]>>]
<1>1. step \in [State -> State]
  <2>1. ASSUME NEW p \in State PROVE step[p] \in State
    <3>1. p[1] + 1 \in Nat /\ p[2] \in X
      OBVIOUS
    <3>2. p[1] + 1 \in 1 .. L => h[<<p[1] + 1, p[2]>>] \in X
      BY <3>1
    <3> QED
      BY <3>1, <3>2
  <2> QED
    BY <2>1
<1>2. <<0, x0>> \in State
  OBVIOUS
<1> HIDE DEF step
<1>3. PICK g : Iterates(g, State, <<0, x0>>, step)
  <2> HIDE DEF State
  <2> QED
    BY <1>1, <1>2, Iteration
<1>4. /\ g \in [Nat -> State] /\ g[0] = <<0, x0>>
      /\ \A n \in Nat : n # 0 => g[n] = step[g[n - 1]]
  BY <1>3 DEF Iterates
<1> DEFINE Counted == {n \in Nat : g[n][1] = n}
<1>5. \A n \in Nat : n \in Counted
  <2>1. 0 \in Counted
    BY <1>4
  <2>2. ASSUME NEW n \in Nat, n \in Counted PROVE n + 1 \in Counted
    <3>0. n + 1 \in Nat /\ n + 1 # 0 /\ (n + 1) - 1 = n
      OBVIOUS
    <3>1. g[n + 1] = step[g[n]] /\ g[n] \in State
      <4> HIDE DEF State
      <4> QED
        BY <1>4, <3>0
    <3>2. g[n + 1][1] = g[n][1] + 1
      BY <3>1 DEF step
    <3> QED
      BY <2>2, <3>2
  <2> HIDE DEF Counted
  <2> QED
    BY <2>1, <2>2, SetInduction
<1> DEFINE f == [n \in 0 .. L |-> g[n][2]]
<1>6. \A n \in 0 .. L : f[n] = g[n][2] /\ g[n] \in State
  BY <1>4
<1>7. f \in [0 .. L -> X]
  <2>1. \A n \in 0 .. L : g[n][2] \in X
    BY <1>6
  <2> QED
    BY <2>1
<1>8. f[0] = x0
  <2>1. g[0][2] = x0
    BY <1>4
  <2> QED
    BY <2>1
<1>9. ASSUME NEW n \in 1 .. L PROVE f[n] = h[<<n, f[n - 1]>>]
  <2>1. n \in Nat /\ n # 0 /\ n - 1 \in Nat /\ n - 1 \in 0 .. L /\ n \in 0 .. L
        /\ (n - 1) + 1 = n
    OBVIOUS
  <2>2. g[n] = step[g[n - 1]] /\ g[n - 1] \in State /\ g[n - 1][1] = n - 1
    <3> HIDE DEF State
    <3> QED
      BY <1>4, <1>5, <2>1
  <2>3. \A p \in State : p[1] + 1 \in 1 .. L =>
          step[p][2] = h[<<p[1] + 1, p[2]>>]
    BY DEF step
  <2>4. g[n - 1][1] + 1 = n
    BY <2>1, <2>2
  <2>5. step[g[n - 1]][2] = h[<<n, g[n - 1][2]>>]
    <3> HIDE DEF State
    <3> QED
      BY <2>2, <2>3, <2>4
  <2>6. f[n - 1] = g[n - 1][2] /\ f[n] = g[n][2]
    BY <2>1, <1>6
  <2> QED
    BY <2>2, <2>5, <2>6
<1> QED
  BY <1>7, <1>8, <1>9 DEF Loops

----------------------------------------------------------------------------
(* The cost of lines is the sum of their costs.                             *)
Sums(f, s) ==
  /\ f \in [0 .. Len(s) -> Nat]
  /\ f[0] = 0
  /\ \A n \in 1 .. Len(s) : f[n] = f[n - 1] + s[n].cost

LEMMA OnlyOne == ASSUME NEW x PROVE Only({x}) = x
BY DEF Only

LEMMA CostIs ==
  ASSUME NEW s \in Seq(Line)
  PROVE  \E f : Sums(f, s) /\ Cost(s) = f[Len(s)]
<1> DEFINE L == Len(s)
           Then(f, n) == Only({x + y.cost : x \in {f[n - 1]}, y \in {s[n]}})
           Made(f) == f = [n \in 0 .. L |-> IF n = 0 THEN 0 ELSE Then(f, n)]
           c == CHOOSE f : Made(f)
           h == [p \in (1 .. L) \X Nat |-> p[2] + s[p[1]].cost]
<1>1. Cost(s) = c[L]
  BY DEF Cost, Iterate
<1>2. L \in Nat /\ \A n \in 1 .. L : s[n].cost \in Nat
  <2>1. \A n \in 1 .. L : s[n] \in Line
    OBVIOUS
  <2> QED
    BY <2>1 DEF Line
<1>3. \A f, n : Then(f, n) = f[n - 1] + s[n].cost
  <2> HIDE DEF Then
  <2> SUFFICES ASSUME NEW f, NEW n PROVE Then(f, n) = f[n - 1] + s[n].cost
    OBVIOUS
  <2> DEFINE Results == {x + y.cost : x \in {f[n - 1]}, y \in {s[n]}}
  <2>1. Results = {f[n - 1] + s[n].cost}
    OBVIOUS
  <2>2. Then(f, n) = Only(Results)
    BY DEF Then
  <2> HIDE DEF Results
  <2> QED
    BY <2>1, <2>2, OnlyOne
<1> HIDE DEF Then
<1>4. PICK f \in [0 .. L -> Nat] : Loops(f, L, 0, h)
  <2>1. ASSUME NEW q \in (1 .. L) \X Nat PROVE q[2] + s[q[1]].cost \in Nat
    <3>1. q[1] \in 1 .. L /\ q[2] \in Nat
      OBVIOUS
    <3> QED
      BY <1>2, <3>1
  <2>2. h \in [(1 .. L) \X Nat -> Nat]
    BY <2>1
  <2> HIDE DEF h, L
  <2> QED
    BY <1>2, <2>2, LoopExists
<1>5. Made(f)
  <2>1. ASSUME NEW n \in 1 .. L PROVE f[n] = f[n - 1] + s[n].cost
    <3>1. n - 1 \in 0 .. L /\ f[n - 1] \in Nat
      OBVIOUS
    <3>2. h[<<n, f[n - 1]>>] = f[n - 1] + s[n].cost
      BY <3>1
    <3> HIDE DEF h
    <3> QED
      BY <1>4, <3>2 DEF Loops
  <2>2. f[0] = 0
    BY <1>4 DEF Loops
  <2>3. \A n \in 0 .. L : f[n] = IF n = 0 THEN 0 ELSE Then(f, n)
    BY <1>3, <2>1, <2>2
  <2>4. f = [n \in 0 .. L |-> f[n]]
    OBVIOUS
  <2> QED
    BY <2>3, <2>4
<1>6. Made(c)
  <2> HIDE DEF Made
  <2> QED
    BY <1>5, Zenon
<1> HIDE DEF c
<1>7. c[0] = 0 /\ \A n \in 1 .. L : c[n] = c[n - 1] + s[n].cost
  <2> HIDE DEF L
  <2>1. \A n \in 0 .. L : c[n] = IF n = 0 THEN 0 ELSE Then(c, n)
    BY <1>6
  <2>2. 0 \in 0 .. L /\ \A n \in 1 .. L : n \in 0 .. L /\ n # 0
    BY <1>2
  <2> HIDE DEF Made
  <2> QED
    BY <1>3, <2>1, <2>2
<1>8. c \in [0 .. L -> Nat]
  <2> DEFINE Good == {n \in 0 .. L : c[n] \in Nat}
  <2>1. 0 \in Good
    BY <1>7
  <2>2. ASSUME NEW n \in 1 .. L, n - 1 \in Good PROVE n \in Good
    <3>1. c[n - 1] \in Nat /\ s[n].cost \in Nat /\ n \in 0 .. L
      BY <1>2, <2>2
    <3> QED
      BY <1>7, <3>1
  <2>3. \A n \in 0 .. L : n \in Good
    <3> HIDE DEF Good, L
    <3> QED
      BY <1>2, <2>1, <2>2, UpTo
  <2>4. c = [n \in 0 .. L |-> c[n]]
    BY <1>6
  <2> QED
    BY <2>3, <2>4
<1> QED
  BY <1>1, <1>7, <1>8 DEF Sums

----------------------------------------------------------------------------
(* A shedding loop goes down a ladder B of remainders, B[0] all the lines,  *)
(* and settles on the first that will do.                                   *)
Settles(x, B, L, fit) ==
  \E k \in 0 .. L : /\ x = B[k] /\ B[k] \in fit
                    /\ \A j \in 0 .. L : j < k => B[j] \notin fit

Rungs(B, L) == {B[k] : k \in 0 .. L}

Descends(f, B, L, g) ==
  /\ f \in [0 .. L -> Rungs(B, L)]
  /\ f[0] = B[0] /\ \A n \in 1 .. L : f[n] = g[f[n - 1]]

LEMMA DescentExists ==
  ASSUME NEW L \in Nat, NEW B, NEW g,
         \A k \in 0 .. L : g[B[k]] \in Rungs(B, L)
  PROVE  \E f : Descends(f, B, L, g)
<1> DEFINE X == Rungs(B, L)
           h == [p \in (1 .. L) \X X |-> g[p[2]]]
<1>1. \A x \in X : g[x] \in X
  BY DEF Rungs
<1>2. B[0] \in X
  BY DEF Rungs
<1> HIDE DEF X
<1>3. h \in [(1 .. L) \X X -> X]
  <2>1. ASSUME NEW q \in (1 .. L) \X X PROVE g[q[2]] \in X
    <3>1. q[2] \in X
      OBVIOUS
    <3> QED
      BY <1>1, <3>1
  <2> QED
    BY <2>1
<1>4. PICK f \in [0 .. L -> X] : Loops(f, L, B[0], h)
  <2> HIDE DEF h
  <2> QED
    BY <1>2, <1>3, LoopExists
<1>5. ASSUME NEW n \in 1 .. L PROVE f[n] = g[f[n - 1]]
  <2>1. n - 1 \in 0 .. L /\ f[n - 1] \in X
    OBVIOUS
  <2>2. h[<<n, f[n - 1]>>] = g[f[n - 1]]
    BY <2>1
  <2> HIDE DEF h
  <2> QED
    BY <1>4, <2>2 DEF Loops
<1>6. f[0] = B[0]
  BY <1>4 DEF Loops
<1> QED
  BY <1>5, <1>6 DEF X, Descends

LEMMA DescentSettles ==
  ASSUME NEW L \in Nat, NEW B, NEW fit, NEW c, c[0] = B[0], B[L] \in fit,
         \A n \in 1 .. L : \A k \in 0 .. L : c[n - 1] = B[k] =>
           c[n] = IF B[k] \in fit THEN B[k] ELSE B[k + 1]
  PROVE  Settles(c[L], B, L, fit)
<1> DEFINE Good == {n \in 0 .. L : \E k \in 0 .. n :
                      /\ c[n] = B[k]
                      /\ \A j \in 0 .. L : j < k => B[j] \notin fit
                      /\ B[k] \in fit \/ k = n}
<1>1. 0 \in Good
  OBVIOUS
<1>2. ASSUME NEW n \in 1 .. L, n - 1 \in Good PROVE n \in Good
  <2>1. PICK k \in 0 .. n - 1 :
          /\ c[n - 1] = B[k]
          /\ \A j \in 0 .. L : j < k => B[j] \notin fit
          /\ B[k] \in fit \/ k = n - 1
    BY <1>2
  <2>2. k \in 0 .. L /\ k \in 0 .. n /\ n \in 0 .. L
    OBVIOUS
  <2>3. CASE B[k] \in fit
    BY <2>1, <2>2, <2>3
  <2>4. CASE B[k] \notin fit
    <3>1. k + 1 = n /\ c[n] = B[n]
      BY <2>1, <2>2, <2>4
    <3>2. \A j \in 0 .. L : j < n => B[j] \notin fit
      BY <2>1, <2>4, <3>1
    <3> QED
      BY <2>2, <3>1, <3>2
  <2> QED
    BY <2>3, <2>4
<1>3. L \in Good
  <2>1. \A n \in 0 .. L : n \in Good
    <3> HIDE DEF Good
    <3> QED
      BY <1>1, <1>2, UpTo
  <2> QED
    BY <2>1
<1> QED
  BY <1>3 DEF Settles

----------------------------------------------------------------------------
(* The ladders of the rules that shed from one end.                         *)
Shorter(s) == [k \in 0 .. Len(s) |-> SubSeq(s, 1, Len(s) - k)]
Later(s) == [k \in 0 .. Len(s) |-> SubSeq(s, k + 1, Len(s))]

LEMMA ShorterRungs ==
  ASSUME NEW s \in Seq(Line), NEW k \in 0 .. Len(s)
  PROVE  /\ Shorter(s)[k] \in Seq(Line) /\ Len(Shorter(s)[k]) = Len(s) - k
         /\ k # Len(s) => /\ k + 1 \in 0 .. Len(s)
                          /\ RemoveAt(Shorter(s)[k], Newest(Shorter(s)[k])) = Shorter(s)[k + 1]
<1>1. Shorter(s)[k] = SubSeq(s, 1, Len(s) - k)
  BY DEF Shorter
<1> DEFINE m == Len(s) - k
           t == SubSeq(s, 1, m)
<1>2. m \in 0 .. Len(s) /\ t \in Seq(Line) /\ Len(t) = m /\ \A i \in 1 .. m : t[i] = s[i]
  OBVIOUS
<1>3. ASSUME k # Len(s) PROVE k + 1 \in 0 .. Len(s) /\ RemoveAt(t, Len(t)) = Shorter(s)[k + 1]
  <2>1. k + 1 \in 0 .. Len(s) /\ m - 1 \in 0 .. Len(s) /\ Len(s) - (k + 1) = m - 1
    BY <1>3
  <2>2. SubSeq(t, m + 1, m) = <<>>
    BY <1>2
  <2>3. SubSeq(t, 1, m - 1) = SubSeq(s, 1, m - 1)
    <3> HIDE DEF t, m
    <3> QED
      BY <1>2, <2>1
  <2>4. SubSeq(t, 1, m - 1) \in Seq(Line)
    BY <1>2, <2>1
  <2>5. SubSeq(t, 1, m - 1) \o <<>> = SubSeq(t, 1, m - 1)
    BY <2>4, ConcatEmptySeq
  <2>6. Shorter(s)[k + 1] = SubSeq(s, 1, m - 1)
    BY <2>1 DEF Shorter
  <2> HIDE DEF t, m
  <2> QED
    BY <1>2, <2>1, <2>2, <2>3, <2>5, <2>6 DEF RemoveAt
<1> HIDE DEF m
<1> QED
  BY <1>1, <1>2, <1>3 DEF Newest, m

LEMMA LaterRungs ==
  ASSUME NEW s \in Seq(Line), NEW k \in 0 .. Len(s)
  PROVE  /\ Later(s)[k] \in Seq(Line) /\ Len(Later(s)[k]) = Len(s) - k
         /\ k # Len(s) => /\ k + 1 \in 0 .. Len(s)
                          /\ RemoveAt(Later(s)[k], Oldest(Later(s)[k])) = Later(s)[k + 1]
<1> DEFINE L == Len(s)
           t == SubSeq(s, k + 1, L)
<1>1. Later(s)[k] = t
  BY DEF Later
<1>2. L \in Nat /\ t \in Seq(Line) /\ Len(t) = L - k /\ \A i \in 1 .. L - k : t[i] = s[k + i]
  OBVIOUS
<1>3. ASSUME k # L PROVE k + 1 \in 0 .. L /\ RemoveAt(t, 1) = Later(s)[k + 1]
  <2>1. k + 1 \in 0 .. L
    BY <1>3
  <2>2. SubSeq(t, 1, 0) = <<>>
    BY <1>2
  <2>3. SubSeq(t, 2, L - k) = SubSeq(s, k + 2, L)
    <3> HIDE DEF t, L
    <3>1. SubSeq(t, 2, L - k) = [i \in 1 .. (L - k) - 1 |-> t[i + 1]]
      BY <1>2, <2>1
    <3>2. SubSeq(s, k + 2, L) = [i \in 1 .. (L - k) - 1 |-> s[i + k + 1]]
      BY <1>2, <2>1 DEF L
    <3>3. \A i \in 1 .. (L - k) - 1 : t[i + 1] = s[i + k + 1]
      BY <1>2, <2>1
    <3> QED
      BY <3>1, <3>2, <3>3
  <2>4. SubSeq(t, 2, L - k) \in Seq(Line)
    BY <1>2, <2>1
  <2>5. <<>> \o SubSeq(t, 2, L - k) = SubSeq(t, 2, L - k)
    BY <2>4, ConcatEmptySeq
  <2>6. Later(s)[k + 1] = SubSeq(s, k + 2, L)
    BY <2>1 DEF Later
  <2> HIDE DEF t, L
  <2> QED
    BY <1>2, <2>1, <2>2, <2>3, <2>5, <2>6 DEF RemoveAt
<1> QED
  BY <1>1, <1>2, <1>3 DEF Oldest

(* Each section that sheds settles on a rung of its ladder.                 *)
LEMMA RetrievalsShed ==
  ASSUME NEW s \in Seq(Line), NEW a
  PROVE  Settles(ShedRetrievals(s, a), Shorter(s), Len(s),
                 {t \in Seq(Line) : t = <<>> \/ Cost(t) <= a})
<1> DEFINE L == Len(s)
           B == Shorter(s)
           Will(x) == x = <<>> \/ Cost(x) <= a
           fit == {t \in Seq(Line) : Will(t)}
           Left(x) == IF Will(x) THEN x ELSE RemoveAt(x, Newest(x))
           Then(f, n) == Only({Left(x) : x \in {f[n - 1]}, y \in {s[n]}})
           Made(f) == f = [n \in 0 .. L |-> IF n = 0 THEN s ELSE Then(f, n)]
           c == CHOOSE f : Made(f)
           g == [x \in Rungs(B, L) |-> Left(x)]
<1>1. ShedRetrievals(s, a) = c[L]
  BY DEF ShedRetrievals, Shed, Iterate
<1>2. L \in Nat /\ B[0] = s
  BY DEF Shorter
<1>3. \A f, n : Then(f, n) = Left(f[n - 1])
  <2> HIDE DEF Then, Left
  <2> SUFFICES ASSUME NEW f, NEW n PROVE Then(f, n) = Left(f[n - 1])
    OBVIOUS
  <2> DEFINE Results == {Left(x) : x \in {f[n - 1]}, y \in {s[n]}}
  <2>1. Results = {Left(f[n - 1])}
    OBVIOUS
  <2>2. Then(f, n) = Only(Results)
    BY DEF Then
  <2> HIDE DEF Results
  <2> QED
    BY <2>1, <2>2, OnlyOne
<1> HIDE DEF Then
<1>4. Will(B[L])
  <2>1. B[L] = SubSeq(s, 1, 0)
    BY <1>2 DEF Shorter
  <2>2. SubSeq(s, 1, 0) = <<>>
    OBVIOUS
  <2> QED
    BY <2>1, <2>2
<1>5. ASSUME NEW k \in 0 .. L
      PROVE  /\ B[k] \in Seq(Line) /\ (Will(B[k]) <=> B[k] \in fit)
             /\ Left(B[k]) = IF B[k] \in fit THEN B[k] ELSE B[k + 1]
             /\ Left(B[k]) \in Rungs(B, L) /\ B[k] \in Rungs(B, L)
  <2>1. B[k] \in Seq(Line)
    BY ShorterRungs
  <2>2. ~Will(B[k]) => k + 1 \in 0 .. L /\ RemoveAt(B[k], Newest(B[k])) = B[k + 1]
    <3> HIDE DEF Will, B
    <3>1. ~Will(B[k]) => k # L
      BY <1>4
    <3> QED
      BY <3>1, ShorterRungs DEF B
  <2> HIDE DEF Will, B, L
  <2> QED
    BY <2>1, <2>2 DEF Rungs
<1> HIDE DEF Left, Will, B
<1>6. PICK f \in [0 .. L -> Rungs(B, L)] :
        f[0] = B[0] /\ \A n \in 1 .. L : f[n] = g[f[n - 1]]
  <2>1. \A k \in 0 .. L : g[B[k]] \in Rungs(B, L)
    BY <1>5
  <2>2. \E f : Descends(f, B, L, g)
    <3> HIDE DEF g, L
    <3> QED
      BY <1>2, <2>1, DescentExists
  <2> QED
    BY <2>2 DEF Descends
<1>7. Made(f)
  <2>1. \A n \in 1 .. L : f[n] = Left(f[n - 1])
    <3>1. \A n \in 1 .. L : f[n - 1] \in Rungs(B, L)
      OBVIOUS
    <3> QED
      BY <1>6, <3>1
  <2>2. \A n \in 0 .. L : f[n] = IF n = 0 THEN s ELSE Then(f, n)
    BY <1>2, <1>3, <1>6, <2>1
  <2>3. f = [n \in 0 .. L |-> f[n]]
    OBVIOUS
  <2> QED
    BY <2>2, <2>3
<1>8. Made(c)
  <2> HIDE DEF Made
  <2> QED
    BY <1>7, Zenon
<1> HIDE DEF c
<1>9. c[0] = B[0] /\ \A n \in 1 .. L : c[n] = Left(c[n - 1])
  BY <1>2, <1>3, <1>8
<1>10. \A n \in 1 .. L : \A k \in 0 .. L : c[n - 1] = B[k] =>
         c[n] = IF B[k] \in fit THEN B[k] ELSE B[k + 1]
  <2> HIDE DEF fit
  <2> QED
    BY <1>5, <1>9
<1>11. B[L] \in fit
  BY <1>2, <1>4, <1>5
<1>12. Settles(c[L], B, L, fit)
  <2> HIDE DEF fit, L
  <2> QED
    BY <1>2, <1>9, <1>10, <1>11, DescentSettles
<1> QED
  BY <1>1, <1>12 DEF B, Will

LEMMA DigestShed ==
  ASSUME NEW s \in Seq(Line), NEW a
  PROVE  Settles(ShedDigest(s, a), Shorter(s), Len(s),
                 {t \in Seq(Line) : Len(t) <= 1 \/ Cost(t) <= a})
<1> DEFINE L == Len(s)
           B == Shorter(s)
           Will(x) == Len(x) <= 1 \/ Cost(x) <= a
           fit == {t \in Seq(Line) : Will(t)}
           Left(x) == IF Will(x) THEN x ELSE RemoveAt(x, Newest(x))
           Then(f, n) == Only({Left(x) : x \in {f[n - 1]}, y \in {s[n]}})
           Made(f) == f = [n \in 0 .. L |-> IF n = 0 THEN s ELSE Then(f, n)]
           c == CHOOSE f : Made(f)
           g == [x \in Rungs(B, L) |-> Left(x)]
<1>1. ShedDigest(s, a) = c[L]
  BY DEF ShedDigest, Shed, Iterate
<1>2. L \in Nat /\ B[0] = s
  BY DEF Shorter
<1>3. \A f, n : Then(f, n) = Left(f[n - 1])
  <2> HIDE DEF Then, Left
  <2> SUFFICES ASSUME NEW f, NEW n PROVE Then(f, n) = Left(f[n - 1])
    OBVIOUS
  <2> DEFINE Results == {Left(x) : x \in {f[n - 1]}, y \in {s[n]}}
  <2>1. Results = {Left(f[n - 1])}
    OBVIOUS
  <2>2. Then(f, n) = Only(Results)
    BY DEF Then
  <2> HIDE DEF Results
  <2> QED
    BY <2>1, <2>2, OnlyOne
<1> HIDE DEF Then
<1>4. Will(B[L])
  <2>1. Len(B[L]) = 0
    <3>1. L \in 0 .. L
      BY <1>2
    <3> QED
      BY <3>1, ShorterRungs
  <2> QED
    BY <2>1
<1>5. ASSUME NEW k \in 0 .. L
      PROVE  /\ B[k] \in Seq(Line) /\ (Will(B[k]) <=> B[k] \in fit)
             /\ Left(B[k]) = IF B[k] \in fit THEN B[k] ELSE B[k + 1]
             /\ Left(B[k]) \in Rungs(B, L) /\ B[k] \in Rungs(B, L)
  <2>1. B[k] \in Seq(Line)
    BY ShorterRungs
  <2>2. ~Will(B[k]) => k + 1 \in 0 .. L /\ RemoveAt(B[k], Newest(B[k])) = B[k + 1]
    <3> HIDE DEF Will, B
    <3>1. ~Will(B[k]) => k # L
      BY <1>4
    <3> QED
      BY <3>1, ShorterRungs DEF B
  <2> HIDE DEF Will, B, L
  <2> QED
    BY <2>1, <2>2 DEF Rungs
<1> HIDE DEF Left, Will, B
<1>6. PICK f \in [0 .. L -> Rungs(B, L)] :
        f[0] = B[0] /\ \A n \in 1 .. L : f[n] = g[f[n - 1]]
  <2>1. \A k \in 0 .. L : g[B[k]] \in Rungs(B, L)
    BY <1>5
  <2>2. \E f : Descends(f, B, L, g)
    <3> HIDE DEF g, L
    <3> QED
      BY <1>2, <2>1, DescentExists
  <2> QED
    BY <2>2 DEF Descends
<1>7. Made(f)
  <2>1. \A n \in 1 .. L : f[n] = Left(f[n - 1])
    <3>1. \A n \in 1 .. L : f[n - 1] \in Rungs(B, L)
      OBVIOUS
    <3> QED
      BY <1>6, <3>1
  <2>2. \A n \in 0 .. L : f[n] = IF n = 0 THEN s ELSE Then(f, n)
    BY <1>2, <1>3, <1>6, <2>1
  <2>3. f = [n \in 0 .. L |-> f[n]]
    OBVIOUS
  <2> QED
    BY <2>2, <2>3
<1>8. Made(c)
  <2> HIDE DEF Made
  <2> QED
    BY <1>7, Zenon
<1> HIDE DEF c
<1>9. c[0] = B[0] /\ \A n \in 1 .. L : c[n] = Left(c[n - 1])
  BY <1>2, <1>3, <1>8
<1>10. \A n \in 1 .. L : \A k \in 0 .. L : c[n - 1] = B[k] =>
         c[n] = IF B[k] \in fit THEN B[k] ELSE B[k + 1]
  <2> HIDE DEF fit
  <2> QED
    BY <1>5, <1>9
<1>11. B[L] \in fit
  BY <1>2, <1>4, <1>5
<1>12. Settles(c[L], B, L, fit)
  <2> HIDE DEF fit, L
  <2> QED
    BY <1>2, <1>9, <1>10, <1>11, DescentSettles
<1> QED
  BY <1>1, <1>12 DEF B, Will

LEMMA WindowShed ==
  ASSUME NEW s \in Seq(Line), NEW a
  PROVE  Settles(ShedWindow(s, a), Later(s), Len(s),
                 {t \in Seq(Line) : Len(t) <= 1 \/ Cost(t) <= a})
<1> DEFINE L == Len(s)
           B == Later(s)
           Will(x) == Len(x) <= 1 \/ Cost(x) <= a
           fit == {t \in Seq(Line) : Will(t)}
           Left(x) == IF Will(x) THEN x ELSE RemoveAt(x, Oldest(x))
           Then(f, n) == Only({Left(x) : x \in {f[n - 1]}, y \in {s[n]}})
           Made(f) == f = [n \in 0 .. L |-> IF n = 0 THEN s ELSE Then(f, n)]
           c == CHOOSE f : Made(f)
           g == [x \in Rungs(B, L) |-> Left(x)]
<1>1. ShedWindow(s, a) = c[L]
  BY DEF ShedWindow, Shed, Iterate
<1>2. L \in Nat /\ B[0] = s
  BY DEF Later
<1>3. \A f, n : Then(f, n) = Left(f[n - 1])
  <2> HIDE DEF Then, Left
  <2> SUFFICES ASSUME NEW f, NEW n PROVE Then(f, n) = Left(f[n - 1])
    OBVIOUS
  <2> DEFINE Results == {Left(x) : x \in {f[n - 1]}, y \in {s[n]}}
  <2>1. Results = {Left(f[n - 1])}
    OBVIOUS
  <2>2. Then(f, n) = Only(Results)
    BY DEF Then
  <2> HIDE DEF Results
  <2> QED
    BY <2>1, <2>2, OnlyOne
<1> HIDE DEF Then
<1>4. Will(B[L])
  <2>1. Len(B[L]) = 0
    <3>1. L \in 0 .. L
      BY <1>2
    <3> QED
      BY <3>1, LaterRungs
  <2> QED
    BY <2>1
<1>5. ASSUME NEW k \in 0 .. L
      PROVE  /\ B[k] \in Seq(Line) /\ (Will(B[k]) <=> B[k] \in fit)
             /\ Left(B[k]) = IF B[k] \in fit THEN B[k] ELSE B[k + 1]
             /\ Left(B[k]) \in Rungs(B, L) /\ B[k] \in Rungs(B, L)
  <2>1. B[k] \in Seq(Line)
    BY LaterRungs
  <2>2. ~Will(B[k]) => k + 1 \in 0 .. L /\ RemoveAt(B[k], Oldest(B[k])) = B[k + 1]
    <3> HIDE DEF Will, B
    <3>1. ~Will(B[k]) => k # L
      BY <1>4
    <3> QED
      BY <3>1, LaterRungs DEF B
  <2> HIDE DEF Will, B, L
  <2> QED
    BY <2>1, <2>2 DEF Rungs
<1> HIDE DEF Left, Will, B
<1>6. PICK f \in [0 .. L -> Rungs(B, L)] :
        f[0] = B[0] /\ \A n \in 1 .. L : f[n] = g[f[n - 1]]
  <2>1. \A k \in 0 .. L : g[B[k]] \in Rungs(B, L)
    BY <1>5
  <2>2. \E f : Descends(f, B, L, g)
    <3> HIDE DEF g, L
    <3> QED
      BY <1>2, <2>1, DescentExists
  <2> QED
    BY <2>2 DEF Descends
<1>7. Made(f)
  <2>1. \A n \in 1 .. L : f[n] = Left(f[n - 1])
    <3>1. \A n \in 1 .. L : f[n - 1] \in Rungs(B, L)
      OBVIOUS
    <3> QED
      BY <1>6, <3>1
  <2>2. \A n \in 0 .. L : f[n] = IF n = 0 THEN s ELSE Then(f, n)
    BY <1>2, <1>3, <1>6, <2>1
  <2>3. f = [n \in 0 .. L |-> f[n]]
    OBVIOUS
  <2> QED
    BY <2>2, <2>3
<1>8. Made(c)
  <2> HIDE DEF Made
  <2> QED
    BY <1>7, Zenon
<1> HIDE DEF c
<1>9. c[0] = B[0] /\ \A n \in 1 .. L : c[n] = Left(c[n - 1])
  BY <1>2, <1>3, <1>8
<1>10. \A n \in 1 .. L : \A k \in 0 .. L : c[n - 1] = B[k] =>
         c[n] = IF B[k] \in fit THEN B[k] ELSE B[k + 1]
  <2> HIDE DEF fit
  <2> QED
    BY <1>5, <1>9
<1>11. B[L] \in fit
  BY <1>2, <1>4, <1>5
<1>12. Settles(c[L], B, L, fit)
  <2> HIDE DEF fit, L
  <2> QED
    BY <1>2, <1>9, <1>10, <1>11, DescentSettles
<1> QED
  BY <1>1, <1>12 DEF B, Will

----------------------------------------------------------------------------
(* Removing one element of a sequence.                                      *)
LEMMA RemoveAtIs ==
  ASSUME NEW X, NEW s \in Seq(X), NEW p \in 1 .. Len(s)
  PROVE  /\ RemoveAt(s, p) \in Seq(X) /\ Len(RemoveAt(s, p)) = Len(s) - 1
         /\ \A n \in 1 .. Len(s) - 1 :
              RemoveAt(s, p)[n] = IF n < p THEN s[n] ELSE s[n + 1]
<1> DEFINE a == SubSeq(s, 1, p - 1)
           b == SubSeq(s, p + 1, Len(s))
<1>1. a \in Seq(X) /\ Len(a) = p - 1 /\ \A n \in 1 .. p - 1 : a[n] = s[n]
  OBVIOUS
<1>2. b \in Seq(X) /\ Len(b) = Len(s) - p /\ \A n \in 1 .. Len(s) - p : b[n] = s[p + n]
  OBVIOUS
<1>3. RemoveAt(s, p) = a \o b
  BY DEF RemoveAt
<1>4. Len(s) \in Nat
  OBVIOUS
<1> HIDE DEF a, b
<1>5. a \o b \in Seq(X) /\ Len(a \o b) = Len(s) - 1
  <2>1. a \o b \in Seq(X) /\ Len(a \o b) = Len(a) + Len(b)
    BY <1>1, <1>2, ConcatProperties
  <2>2. p \in Nat
    OBVIOUS
  <2> QED
    BY <1>1, <1>2, <1>4, <2>1, <2>2
<1>6. ASSUME NEW n \in 1 .. Len(s) - 1 PROVE (a \o b)[n] = IF n < p THEN s[n] ELSE s[n + 1]
  <2>1. CASE n < p
    <3>1. n \in 1 .. Len(a)
      BY <1>1, <2>1
    <3> QED
      BY <1>1, <1>2, <2>1, <3>1
  <2>2. CASE ~(n < p)
    <3>1. n - (p - 1) \in 1 .. Len(s) - p /\ p + (n - (p - 1)) = n + 1
      BY <1>4, <2>2
    <3>2. (a \o b)[n] = b[n - (p - 1)]
      BY <1>1, <1>2, <1>4, <2>2, <3>1
    <3> QED
      BY <1>2, <2>2, <3>1, <3>2
  <2> QED
    BY <2>1, <2>2
<1> QED
  BY <1>3, <1>5, <1>6

----------------------------------------------------------------------------
(* Ranks in a set of places.                                                *)
LEMMA RankType ==
  ASSUME NEW L \in Nat, NEW T \in SUBSET (1 .. L), NEW i
  PROVE  /\ IsFiniteSet(T) /\ IsFiniteSet({j \in T : j <= i})
         /\ Rank(T, i) \in Nat /\ Cardinality(T) \in Nat /\ Rank(T, i) <= Cardinality(T)
         /\ Cardinality(T) <= L
<1>1. IsFiniteSet(1 .. L) /\ Cardinality(1 .. L) = L
  BY FS_Interval
<1>2. IsFiniteSet(T) /\ Cardinality(T) <= L
  BY <1>1, FS_Subset
<1>3. {j \in T : j <= i} \in SUBSET T
  OBVIOUS
<1> QED
  BY <1>2, <1>3, FS_Subset, FS_CardinalityType DEF Rank

(* The next place counts if it is in the set.                               *)
LEMMA RankNext ==
  ASSUME NEW L \in Nat, NEW T \in SUBSET (1 .. L), NEW i \in Nat
  PROVE  /\ Rank(T, 0) = 0
         /\ Rank(T, i + 1) = Rank(T, i) + (IF i + 1 \in T THEN 1 ELSE 0)
<1>0. \A j \in T : /\ j \in Nat /\ ~(j <= 0)
                   /\ j <= i + 1 <=> j <= i \/ j = i + 1
  OBVIOUS
<1>1. {j \in T : j <= 0} = {}
  BY <1>0
<1>2. Rank(T, i) \in Nat /\ IsFiniteSet({j \in T : j <= i})
  BY RankType
<1>3. CASE i + 1 \in T
  <2>1. {j \in T : j <= i + 1} = {j \in T : j <= i} \cup {i + 1}
    BY <1>0, <1>3, Zenon
  <2>2. i + 1 \notin {j \in T : j <= i}
    <3>1. ~(i + 1 <= i)
      OBVIOUS
    <3> QED
      BY <3>1
  <2>3. Cardinality({j \in T : j <= i} \cup {i + 1}) = Cardinality({j \in T : j <= i}) + 1
    BY <1>2, <2>2, FS_AddElement
  <2>4. Rank(T, i + 1) = Rank(T, i) + 1
    BY <2>1, <2>3 DEF Rank
  <2> QED
    BY <1>1, <1>3, <2>4, FS_EmptySet DEF Rank
<1>4. CASE i + 1 \notin T
  <2>1. {j \in T : j <= i + 1} = {j \in T : j <= i}
    <3>1. \A j \in T : j <= i + 1 <=> j <= i
      BY <1>0, <1>4
    <3> QED
      BY <3>1, Zenon
  <2> QED
    BY <1>1, <1>2, <1>4, <2>1, FS_EmptySet DEF Rank
<1> QED
  BY <1>3, <1>4

LEMMA RankGrows ==
  ASSUME NEW L \in Nat, NEW T \in SUBSET (1 .. L), NEW i \in Nat, NEW j \in T, i < j
  PROVE  Rank(T, i) < Rank(T, j)
<1> DEFINE U == {k \in T : k <= j}
<1>1. IsFiniteSet(U) /\ Cardinality(U) \in Nat /\ Rank(T, j) = Cardinality(U)
  BY RankType DEF Rank
<1>2. j \in U /\ j \in Nat
  OBVIOUS
<1>3. {k \in T : k <= i} \in SUBSET (U \ {j})
  <2>1. \A k \in T : k <= i => k <= j /\ k # j
    <3>1. \A k \in T : k \in Nat
      OBVIOUS
    <3> QED
      BY <1>2, <3>1
  <2> QED
    BY <2>1, Zenon
<1> HIDE DEF U
<1>4. IsFiniteSet(U \ {j}) /\ Cardinality(U \ {j}) = Cardinality(U) - 1
  BY <1>1, <1>2, FS_RemoveElement
<1>5. Rank(T, i) <= Cardinality(U \ {j})
  BY <1>3, <1>4, FS_Subset DEF Rank
<1>6. Rank(T, i) \in Nat
  BY RankType
<1> QED
  BY <1>1, <1>4, <1>5, <1>6

LEMMA RankOne ==
  ASSUME NEW L \in Nat, NEW T \in SUBSET (1 .. L)
  PROVE  /\ \A i \in T : Rank(T, i) \in 1 .. Cardinality(T)
         /\ \A i, j \in T : i < j <=> Rank(T, i) < Rank(T, j)
         /\ \A i, j \in T : Rank(T, i) = Rank(T, j) => i = j
<1>1. ASSUME NEW i \in T PROVE Rank(T, i) \in 1 .. Cardinality(T)
  <2>1. 0 < i /\ i \in Nat /\ 0 \in Nat
    OBVIOUS
  <2>2. Rank(T, 0) < Rank(T, i) /\ Rank(T, 0) = 0
    BY <2>1, RankGrows, RankNext
  <2>3. Rank(T, i) \in Nat /\ Rank(T, i) <= Cardinality(T) /\ Cardinality(T) \in Nat
    BY RankType
  <2> QED
    BY <2>2, <2>3
<1>2. ASSUME NEW i \in T, NEW j \in T PROVE i < j => Rank(T, i) < Rank(T, j)
  <2>1. i \in Nat
    OBVIOUS
  <2> QED
    BY <2>1, RankGrows
<1>3. \A i \in T : i \in Nat /\ Rank(T, i) \in Nat
  <2>1. \A i : Rank(T, i) \in Nat
    BY RankType
  <2> QED
    BY <2>1
<1> QED
  BY <1>1, <1>2, <1>3

LEMMA RankHit ==
  ASSUME NEW L \in Nat, NEW T \in SUBSET (1 .. L), NEW n \in 1 .. Cardinality(T)
  PROVE  \E i \in T : Rank(T, i) = n
<1> DEFINE Good == {m \in 0 .. L : n <= Rank(T, m) => \E i \in T : Rank(T, i) = n}
<1>1. 0 \in Good
  <2>1. Rank(T, 0) = 0
    BY RankNext
  <2>2. n \in Nat /\ n # 0
    BY RankType
  <2> QED
    BY <2>1, <2>2
<1>2. ASSUME NEW m \in 1 .. L, m - 1 \in Good PROVE m \in Good
  <2>1. m - 1 \in Nat /\ (m - 1) + 1 = m
    OBVIOUS
  <2>2. Rank(T, m) = Rank(T, m - 1) + (IF m \in T THEN 1 ELSE 0)
    <3> DEFINE k == m - 1
    <3>1. k \in Nat /\ k + 1 = m
      BY <2>1
    <3> HIDE DEF k, Good
    <3>2. Rank(T, k + 1) = Rank(T, k) + (IF k + 1 \in T THEN 1 ELSE 0)
      BY <3>1, RankNext, ZenonT(40)
    <3> QED
      BY <3>1, <3>2 DEF k
  <2>3. Rank(T, m) \in Nat /\ Rank(T, m - 1) \in Nat /\ n \in Nat
    <3>1. \A i : Rank(T, i) \in Nat
      BY RankType
    <3> QED
      BY <3>1
  <2>4. CASE n <= Rank(T, m - 1)
    BY <1>2, <2>4
  <2>5. CASE ~(n <= Rank(T, m - 1))
    <3>1. n <= Rank(T, m) => m \in T /\ Rank(T, m) = n
      BY <2>2, <2>3, <2>5
    <3> QED
      BY <3>1
  <2> QED
    BY <2>4, <2>5
<1>3. L \in Good
  <2>1. \A m \in 0 .. L : m \in Good
    <3> HIDE DEF Good
    <3> QED
      BY <1>1, <1>2, UpTo
  <2> QED
    BY <2>1
<1>4. Rank(T, L) = Cardinality(T)
  <2>1. {j \in T : j <= L} = T
    <3>1. \A j \in T : j <= L
      OBVIOUS
    <3> QED
      BY <3>1, Zenon
  <2> QED
    BY <2>1 DEF Rank
<1> QED
  <2>1. n <= Rank(T, L)
    BY <1>4, RankType
  <2> QED
    BY <1>3, <2>1

LEMMA RankWithout ==
  ASSUME NEW L \in Nat, NEW T \in SUBSET (1 .. L), NEW v \in T, NEW i \in Nat
  PROVE  /\ Cardinality(T \ {v}) = Cardinality(T) - 1
         /\ Rank(T \ {v}, i) = IF v <= i THEN Rank(T, i) - 1 ELSE Rank(T, i)
<1>1. IsFiniteSet(T) /\ IsFiniteSet({j \in T : j <= i})
  BY RankType
<1>2. {j \in T \ {v} : j <= i} = {j \in T : j <= i} \ {v}
  OBVIOUS
<1>3. v \in {j \in T : j <= i} <=> v <= i
  OBVIOUS
<1> QED
  BY <1>1, <1>2, <1>3, FS_RemoveElement DEF Rank

(* The lines at some places are in their order.                             *)
LEMMA LinesAtIs ==
  ASSUME NEW s \in Seq(Line), NEW T \in SUBSET (1 .. Len(s))
  PROVE  /\ LinesAt(s, T) \in Seq(Line) /\ Len(LinesAt(s, T)) = Cardinality(T)
         /\ \A i \in T : LinesAt(s, T)[Rank(T, i)] = s[i]
<1> DEFINE L == Len(s)
           N == Cardinality(T)
           at(n) == CHOOSE i \in T : Rank(T, i) = n
<1>1. L \in Nat /\ N \in Nat /\ \A i \in 1 .. L : s[i] \in Line
  <2>1. L \in Nat /\ \A i \in 1 .. L : s[i] \in Line
    OBVIOUS
  <2>2. N \in Nat
    BY <2>1, RankType
  <2> QED
    BY <2>1, <2>2
<1>2. \A n \in 1 .. N : at(n) \in T /\ Rank(T, at(n)) = n
  <2>1. \A n \in 1 .. N : \E i \in T : Rank(T, i) = n
    BY <1>1, RankHit
  <2> QED
    BY <2>1
<1>3. LinesAt(s, T) = [n \in 1 .. N |-> s[at(n)]]
  BY DEF LinesAt
<1>4. \A i \in T : Rank(T, i) \in 1 .. N
  <2> HIDE DEF N
  <2> QED
    BY <1>1, RankOne DEF N
<1>5. \A i \in T : at(Rank(T, i)) = i
  <2>1. \A i, j \in T : Rank(T, i) = Rank(T, j) => i = j
    BY <1>1, RankOne
  <2> HIDE DEF at, N
  <2> QED
    BY <1>2, <1>4, <2>1
<1> HIDE DEF at, N
<1>6. \A n \in 1 .. N : s[at(n)] \in Line
  BY <1>1, <1>2 DEF L
<1>7. LinesAt(s, T) \in Seq(Line) /\ Len(LinesAt(s, T)) = N
  BY <1>1, <1>3, <1>6
<1>8. \A i \in T : LinesAt(s, T)[Rank(T, i)] = s[i]
  BY <1>3, <1>4, <1>5
<1> QED
  BY <1>7, <1>8 DEF N

LEMMA LinesWithout ==
  ASSUME NEW s \in Seq(Line), NEW T \in SUBSET (1 .. Len(s)), NEW v \in T
  PROVE  RemoveAt(LinesAt(s, T), Rank(T, v)) = LinesAt(s, T \ {v})
<1> DEFINE L == Len(s)
           t == LinesAt(s, T)
           u == LinesAt(s, T \ {v})
           r == RemoveAt(t, Rank(T, v))
           N == Cardinality(T)
           p == Rank(T, v)
<1>1. L \in Nat /\ N \in Nat /\ p \in 1 .. N /\ (T \ {v}) \in SUBSET (1 .. L)
  <2>1. L \in Nat
    OBVIOUS
  <2> QED
    BY <2>1, RankType, RankOne
<1>2. t \in Seq(Line) /\ Len(t) = N /\ \A i \in T : t[Rank(T, i)] = s[i]
  BY LinesAtIs
<1>3. /\ u \in Seq(Line) /\ Len(u) = Cardinality(T \ {v})
      /\ \A i \in T \ {v} : u[Rank(T \ {v}, i)] = s[i]
  BY LinesAtIs
<1>4. Cardinality(T \ {v}) = N - 1
  <2>1. v \in Nat
    OBVIOUS
  <2> QED
    BY <1>1, <2>1, RankWithout
<1>5. /\ r \in Seq(Line) /\ Len(r) = N - 1
      /\ \A n \in 1 .. N - 1 : r[n] = IF n < p THEN t[n] ELSE t[n + 1]
  <2> HIDE DEF t, p, N
  <2> QED
    BY <1>1, <1>2, RemoveAtIs DEF p
<1>6. ASSUME NEW n \in 1 .. N - 1 PROVE r[n] = u[n]
  <2>1. PICK i \in T \ {v} : Rank(T \ {v}, i) = n
    <3> DEFINE U == T \ {v}
    <3>1. U \in SUBSET (1 .. L) /\ n \in 1 .. Cardinality(U)
      BY <1>1, <1>4
    <3> HIDE DEF U, L
    <3>2. \E i \in U : Rank(U, i) = n
      BY <1>1, <3>1, RankHit
    <3> QED
      BY <3>2 DEF U
  <2>2. i \in Nat /\ v \in Nat /\ i # v
    OBVIOUS
  <2>3. n = IF v <= i THEN Rank(T, i) - 1 ELSE Rank(T, i)
    BY <1>1, <2>1, <2>2, RankWithout
  <2>4. i < v <=> Rank(T, i) < p
    BY <1>1, RankOne
  <2>5. Rank(T, i) \in Nat /\ n \in Nat /\ p \in Nat /\ Rank(T, i) # p
    <3>1. \A j : Rank(T, j) \in Nat
      BY <1>1, RankType
    <3>2. Rank(T, i) = p => i = v
      BY <1>1, RankOne
    <3> QED
      BY <2>2, <3>1, <3>2
  <2>6. t[Rank(T, i)] = s[i] /\ u[n] = s[i]
    BY <1>2, <1>3, <2>1
  <2>7. r[n] = IF n < p THEN t[n] ELSE t[n + 1]
    BY <1>5
  <2> HIDE DEF r, t, u, p
  <2>8. CASE v <= i
    <3>1. ~(n < p) /\ n + 1 = Rank(T, i)
      BY <2>2, <2>3, <2>4, <2>5, <2>8
    <3> QED
      BY <2>6, <2>7, <3>1
  <2>9. CASE ~(v <= i)
    <3>1. n < p /\ n = Rank(T, i)
      BY <2>2, <2>3, <2>4, <2>5, <2>9
    <3> QED
      BY <2>6, <2>7, <3>1
  <2> QED
    BY <2>8, <2>9
<1>7. r = [n \in 1 .. N - 1 |-> r[n]] /\ u = [n \in 1 .. N - 1 |-> u[n]]
  <2>1. u \in Seq(Line) /\ Len(u) = N - 1 /\ r \in Seq(Line) /\ Len(r) = N - 1
    BY <1>3, <1>4, <1>5
  <2> HIDE DEF r, u, N
  <2> QED
    BY <2>1
<1> HIDE DEF r, u, N
<1>8. r = u
  BY <1>6, <1>7
<1> QED
  BY <1>8 DEF r, u, t

LEMMA LastOfIs ==
  ASSUME NEW L \in Nat, NEW T \in SUBSET (1 .. L), T # {}
  PROVE  LastOf(T) \in T /\ \A j \in T : j <= LastOf(T)
<1> DEFINE N == Cardinality(T)
<1>1. N \in 1 .. N
  <2>1. IsFiniteSet(T) /\ N \in Nat
    BY RankType
  <2>2. N # 0
    BY <2>1, FS_EmptySet
  <2> QED
    BY <2>1, <2>2
<1>2. PICK i \in T : Rank(T, i) = N
  BY <1>1, RankHit
<1>3. ASSUME NEW j \in T PROVE j <= i
  <2>1. Rank(T, j) \in Nat /\ Rank(T, j) <= N /\ N \in Nat
    BY RankType
  <2>2. i < j => Rank(T, i) < Rank(T, j)
    BY RankOne
  <2>3. i \in Nat /\ j \in Nat
    OBVIOUS
  <2> HIDE DEF N
  <2> QED
    BY <1>2, <2>1, <2>2, <2>3
<1> QED
  BY <1>3 DEF LastOf

(* The first of some places, less the last of these.                        *)
LEMMA FirstOfLess ==
  ASSUME NEW L \in Nat, NEW T \in SUBSET (1 .. L), NEW m \in 1 .. Cardinality(T)
  PROVE  /\ LastOf(FirstOf(T, m)) \in FirstOf(T, m)
         /\ FirstOf(T, m - 1) = FirstOf(T, m) \ {LastOf(FirstOf(T, m))}
<1> DEFINE F == FirstOf(T, m)
<1>1. PICK i \in T : Rank(T, i) = m
  BY RankHit
<1>2. \A j \in T : j \in Nat /\ Rank(T, j) \in Nat
  <2>1. \A j : Rank(T, j) \in Nat
    BY RankType
  <2> QED
    BY <2>1
<1>3. m \in Nat /\ i \in F /\ F \in SUBSET (1 .. L) /\ F # {}
  <2>1. Cardinality(T) \in Nat
    BY RankType
  <2>2. m \in Nat /\ m <= m
    BY <2>1
  <2> QED
    BY <1>1, <2>2 DEF FirstOf
<1>4. LastOf(F) \in F /\ \A j \in F : j <= LastOf(F)
  BY <1>3, LastOfIs
<1>5. LastOf(F) = i
  <2>1. LastOf(F) \in T /\ Rank(T, LastOf(F)) <= m
    BY <1>4 DEF FirstOf
  <2>2. i < LastOf(F) => Rank(T, i) < Rank(T, LastOf(F))
    BY <2>1, RankOne
  <2>3. i <= LastOf(F)
    BY <1>3, <1>4
  <2> DEFINE l == LastOf(F)
  <2>4. l \in Nat /\ i \in Nat /\ Rank(T, l) \in Nat /\ Rank(T, l) <= m /\ i <= l
    BY <1>2, <2>1, <2>3
  <2> HIDE DEF l
  <2> QED
    BY <1>1, <1>3, <2>2, <2>4 DEF l
<1>6. FirstOf(T, m - 1) = F \ {i}
  <2>1. ASSUME NEW j \in T PROVE Rank(T, j) <= m - 1 <=> Rank(T, j) <= m /\ j # i
    <3>1. Rank(T, j) = Rank(T, i) => j = i
      BY RankOne
    <3> QED
      BY <1>1, <1>2, <1>3, <3>1
  <2> QED
    BY <2>1 DEF FirstOf
<1> QED
  BY <1>4, <1>5, <1>6

LEMMA FirstOfAll ==
  ASSUME NEW L \in Nat, NEW T \in SUBSET (1 .. L), NEW m \in Nat
  PROVE  /\ FirstOf(T, 0) = {}
         /\ Cardinality(T) <= m => FirstOf(T, m) = T
<1>1. \A j \in T : Rank(T, j) \in 1 .. Cardinality(T)
  BY RankOne
<1>2. Cardinality(T) \in Nat
  BY RankType
<1>3. \A j \in T : ~(Rank(T, j) <= 0) /\ (Cardinality(T) <= m => Rank(T, j) <= m)
  BY <1>1, <1>2
<1> QED
  BY <1>3 DEF FirstOf

----------------------------------------------------------------------------
(* The ladder of the board: the open tasks with ever fewer terminal ones,   *)
(* then ever fewer open tasks.                                              *)
Terminals(s) == {i \in DOMAIN s : s[i].terminal}
Opens(s) == DOMAIN s \ Terminals(s)
Held(s, k) ==
  IF k < Cardinality(Terminals(s))
  THEN Opens(s) \cup FirstOf(Terminals(s), Cardinality(Terminals(s)) - k)
  ELSE FirstOf(Opens(s), Len(s) - k)
BoardLadder(s) == [k \in 0 .. Len(s) |-> LinesAt(s, Held(s, k))]

LEMMA TwoKinds ==
  ASSUME NEW s \in Seq(Line)
  PROVE  /\ Len(s) \in Nat
         /\ Terminals(s) \in SUBSET (1 .. Len(s)) /\ Opens(s) \in SUBSET (1 .. Len(s))
         /\ Terminals(s) \cap Opens(s) = {} /\ Terminals(s) \cup Opens(s) = 1 .. Len(s)
         /\ Cardinality(Terminals(s)) \in 0 .. Len(s)
         /\ Cardinality(Opens(s)) = Len(s) - Cardinality(Terminals(s))
<1>1. DOMAIN s = 1 .. Len(s) /\ Len(s) \in Nat
  OBVIOUS
<1> DEFINE L == Len(s)
           T == Terminals(s)
<1>2. T \in SUBSET (1 .. L) /\ Opens(s) = (1 .. L) \ T
  BY <1>1 DEF Terminals, Opens
<1> HIDE DEF T
<1>3. Cardinality(T) \in Nat /\ Cardinality(T) <= L
  <2>1. L \in Nat
    BY <1>1
  <2> HIDE DEF L
  <2> QED
    BY <1>2, <2>1, RankType
<1>4. IsFiniteSet(1 .. L) /\ Cardinality(1 .. L) = L
  <2>1. L \in Nat
    BY <1>1
  <2> HIDE DEF L
  <2> QED
    BY <2>1, FS_Interval
<1>5. (1 .. L) \cap T = T
  BY <1>2
<1>6. Cardinality((1 .. L) \ T) = L - Cardinality(T)
  <2> DEFINE All == 1 .. L
  <2>1. IsFiniteSet(All) /\ Cardinality(All) = L /\ All \cap T = T
    BY <1>4, <1>5
  <2> HIDE DEF All, L
  <2>2. Cardinality(All \ T) = Cardinality(All) - Cardinality(All \cap T)
    BY <2>1, FS_Difference
  <2> QED
    BY <2>1, <2>2 DEF All
<1> QED
  BY <1>1, <1>2, <1>3, <1>6 DEF T

(* The board sheds the last terminal task it shows, or its last task.       *)
LEMMA LastTerminalIs ==
  ASSUME NEW s \in Seq(Line), NEW H \in SUBSET (1 .. Len(s)), H # {}
  PROVE  LET shown == H \cap Terminals(s)
             v == IF shown = {} THEN LastOf(H) ELSE LastOf(shown)
         IN  v \in H /\ LastTerminal(LinesAt(s, H)) = Rank(H, v)
<1> DEFINE L == Len(s)
           t == LinesAt(s, H)
           N == Cardinality(H)
           shown == H \cap Terminals(s)
           P == {n \in DOMAIN t : t[n].terminal}
<1>1. L \in Nat /\ shown \in SUBSET (1 .. L)
  <2>1. L \in Nat
    OBVIOUS
  <2>2. shown \subseteq H
    OBVIOUS
  <2> HIDE DEF shown
  <2> QED
    BY <2>1, <2>2
<1>2. t \in Seq(Line) /\ Len(t) = N /\ \A i \in H : t[Rank(H, i)] = s[i]
  BY LinesAtIs
<1>3. DOMAIN t = 1 .. N /\ N \in Nat
  BY <1>2
<1>4. /\ \A i \in H : Rank(H, i) \in 1 .. N
      /\ \A i, j \in H : i < j <=> Rank(H, i) < Rank(H, j)
      /\ \A i, j \in H : Rank(H, i) = Rank(H, j) => i = j
  BY <1>1, RankOne
<1>5. \A n \in 1 .. N : \E i \in H : Rank(H, i) = n
  BY <1>1, RankHit
<1>6. \A i \in H : i \in shown <=> s[i].terminal
  BY DEF Terminals
<1>7. LastTerminal(t) = IF P = {} THEN Len(t) ELSE LastOf(P)
  BY DEF LastTerminal
<1> HIDE DEF t, N, shown, L
<1>8. \A i \in H : Rank(H, i) \in P <=> i \in shown
  BY <1>2, <1>3, <1>4, <1>6
<1>9. CASE shown = {}
  <2>1. P = {}
    BY <1>3, <1>5, <1>8, <1>9
  <2>2. LastOf(H) \in H /\ \A j \in H : j <= LastOf(H)
    BY <1>1, LastOfIs DEF L
  <2> DEFINE v == LastOf(H)
  <2>3. Rank(H, v) = N
    <3>1. PICK i \in H : Rank(H, i) = N
      <4>1. N \in 1 .. N
        <5>1. PICK j \in H : TRUE
          OBVIOUS
        <5>2. Rank(H, j) \in 1 .. N
          BY <1>4
        <5> QED
          BY <1>3, <5>2
      <4> QED
        BY <1>5, <4>1
    <3>2. i <= v /\ i \in Nat /\ v \in Nat /\ v \in H
      <4>1. \A j \in H : j \in Nat
        OBVIOUS
      <4> QED
        BY <2>2, <4>1
    <3>3. Rank(H, v) \in Nat /\ Rank(H, v) <= N
      BY <1>3, <1>4, <3>2
    <3> HIDE DEF v
    <3>4. i < v => N < Rank(H, v)
      BY <1>4, <3>1, <3>2
    <3> QED
      BY <1>3, <3>1, <3>2, <3>3, <3>4
  <2> QED
    BY <1>2, <1>7, <1>9, <2>1, <2>2, <2>3 DEF t, shown
<1>10. CASE shown # {}
  <2> DEFINE v == LastOf(shown)
             p == LastOf(P)
  <2>1. v \in shown /\ \A j \in shown : j <= v
    BY <1>1, <1>10, LastOfIs
  <2>2. v \in H /\ \A j \in shown : j \in H /\ j \in Nat
    BY <1>1, <2>1 DEF shown
  <2>3. Rank(H, v) \in P
    BY <1>8, <2>1, <2>2
  <2>4. P \in SUBSET (1 .. N)
    BY <1>3
  <2>5. p \in P /\ \A n \in P : n <= p
    <3> HIDE DEF P
    <3> QED
      BY <1>3, <2>3, <2>4, LastOfIs
  <2>6. PICK i \in H : Rank(H, i) = p
    BY <1>5, <2>4, <2>5
  <2>7. i \in shown /\ i <= v /\ i \in Nat /\ v \in Nat
    BY <1>8, <2>1, <2>2, <2>5, <2>6
  <2>8. Rank(H, v) <= p /\ p \in Nat /\ Rank(H, v) \in Nat
    BY <2>3, <2>4, <2>5
  <2>9. i = v
    <3> HIDE DEF v, p, P
    <3>1. i < v => Rank(H, i) < Rank(H, v)
      BY <1>4, <2>2, <2>6
    <3> QED
      BY <2>6, <2>7, <2>8, <3>1
  <2> QED
    BY <1>7, <1>10, <2>2, <2>3, <2>6, <2>9 DEF t, shown
<1> QED
  BY <1>9, <1>10

LEMMA HeldLess ==
  ASSUME NEW s \in Seq(Line), NEW k \in 0 .. Len(s), k # Len(s)
  PROVE  \E v \in Held(s, k) :
           /\ Held(s, k) \in SUBSET (1 .. Len(s))
           /\ Held(s, k + 1) = Held(s, k) \ {v}
           /\ LastTerminal(LinesAt(s, Held(s, k))) = Rank(Held(s, k), v)
<1> DEFINE L == Len(s)
           T == Terminals(s)
           O == Opens(s)
           H == Held(s, k)
           N == Cardinality(T)
<1>1. /\ L \in Nat /\ T \in SUBSET (1 .. L) /\ O \in SUBSET (1 .. L) /\ T \cap O = {}
      /\ N \in 0 .. L /\ Cardinality(O) = L - N
  BY TwoKinds
<1>2. H = IF k < N THEN O \cup FirstOf(T, N - k) ELSE FirstOf(O, L - k)
  BY DEF Held
<1>3. Held(s, k + 1) = IF k + 1 < N THEN O \cup FirstOf(T, N - (k + 1))
                       ELSE FirstOf(O, L - (k + 1))
  BY DEF Held
<1>4. \A m : FirstOf(T, m) \subseteq T /\ FirstOf(O, m) \subseteq O
  BY DEF FirstOf
<1>5. H \in SUBSET (1 .. L)
  BY <1>1, <1>2, <1>4
<1> HIDE DEF T, O, H, N, L
<1>6. CASE k < N
  <2> DEFINE m == N - k
             F == FirstOf(T, m)
             v == LastOf(F)
  <2>1. m \in 1 .. N /\ m - 1 = N - (k + 1) /\ m - 1 \in Nat
    BY <1>1, <1>6 DEF L
  <2>2. v \in F /\ FirstOf(T, m - 1) = F \ {v}
    <3> HIDE DEF m
    <3> QED
      BY <1>1, <2>1, FirstOfLess DEF N
  <2>3. H = O \cup F
    BY <1>2, <1>6
  <2>4. H \cap T = F /\ F # {} /\ H # {} /\ v \in H
    BY <1>1, <1>4, <2>2, <2>3
  <2>5. Held(s, k + 1) = H \ {v}
    <3>1. H \ {v} = O \cup FirstOf(T, m - 1)
      BY <1>1, <1>4, <2>2, <2>3
    <3>2. CASE k + 1 < N
      BY <1>3, <2>1, <3>1, <3>2
    <3>3. CASE ~(k + 1 < N)
      <4>1. k + 1 = N /\ m - 1 = 0
        BY <1>1, <1>6, <2>1, <3>3 DEF L
      <4>2. FirstOf(T, 0) = {}
        BY <1>1, FirstOfAll
      <4>3. Cardinality(O) <= L - (k + 1) /\ L - (k + 1) \in Nat
        BY <1>1, <4>1
      <4>4. FirstOf(O, L - (k + 1)) = O
        BY <1>1, <4>3, FirstOfAll
      <4> QED
        BY <1>3, <3>1, <3>3, <4>1, <4>2, <4>4
    <3> QED
      BY <3>2, <3>3
  <2>6. LastTerminal(LinesAt(s, H)) = Rank(H, v)
    <3> HIDE DEF v, F
    <3> QED
      BY <1>5, <2>4, LastTerminalIs DEF L, T, v
  <2> QED
    BY <1>5, <2>4, <2>5, <2>6 DEF H, L
<1>7. CASE ~(k < N)
  <2> DEFINE m == L - k
             v == LastOf(H)
  <2>1. m \in 1 .. Cardinality(O) /\ m - 1 = L - (k + 1) /\ ~(k + 1 < N)
    BY <1>1, <1>7 DEF L
  <2>2. H = FirstOf(O, m)
    BY <1>2, <1>7
  <2>3. v \in H /\ FirstOf(O, m - 1) = H \ {v}
    <3> HIDE DEF m
    <3> QED
      BY <1>1, <2>1, <2>2, FirstOfLess
  <2>4. H \cap T = {} /\ H # {}
    BY <1>1, <1>4, <2>2, <2>3
  <2>5. Held(s, k + 1) = H \ {v}
    BY <1>3, <2>1, <2>3
  <2>6. LastTerminal(LinesAt(s, H)) = Rank(H, v)
    BY <1>5, <2>4, LastTerminalIs DEF L, T
  <2> QED
    BY <1>5, <2>3, <2>5, <2>6 DEF H, L
<1> QED
  BY <1>6, <1>7

LEMMA HeldSize ==
  ASSUME NEW s \in Seq(Line)
  PROVE  /\ Held(s, 0) = 1 .. Len(s)
         /\ \A k \in 0 .. Len(s) : /\ Held(s, k) \in SUBSET (1 .. Len(s))
                                  /\ Cardinality(Held(s, k)) = Len(s) - k
<1> DEFINE L == Len(s)
           T == Terminals(s)
           O == Opens(s)
           N == Cardinality(T)
           Good == {k \in 0 .. L : Cardinality(Held(s, k)) = L - k}
<1>1. /\ L \in Nat /\ T \in SUBSET (1 .. L) /\ O \in SUBSET (1 .. L) /\ T \cup O = 1 .. L
      /\ N \in 0 .. L /\ Cardinality(O) = L - N
  BY TwoKinds
<1>2. Held(s, 0) = 1 .. L
  <2>1. Held(s, 0) = IF 0 < N THEN O \cup FirstOf(T, N - 0) ELSE FirstOf(O, L - 0)
    BY DEF Held
  <2>2. FirstOf(T, N) = T /\ N \in Nat
    <3>1. N \in Nat /\ N <= N
      BY <1>1
    <3> QED
      BY <1>1, <3>1, FirstOfAll
  <2>3. FirstOf(O, L) = O
    <3>1. L \in Nat /\ Cardinality(O) <= L
      BY <1>1
    <3> QED
      BY <1>1, <3>1, FirstOfAll
  <2>4. ~(0 < N) => T = {}
    <3>1. IsFiniteSet(T)
      BY <1>1, RankType
    <3> QED
      BY <2>2, <3>1, FS_EmptySet
  <2>5. N - 0 = N /\ L - 0 = L
    BY <1>1
  <2> HIDE DEF T, O, N, L
  <2> QED
    BY <1>1, <2>1, <2>2, <2>3, <2>4, <2>5
<1>3. \A k \in 0 .. L : Held(s, k) \in SUBSET (1 .. L)
  BY <1>1 DEF Held, FirstOf
<1>4. 0 \in Good
  <2>1. Cardinality(1 .. L) = L
    <3> HIDE DEF L
    <3> QED
      BY <1>1, FS_Interval
  <2> QED
    BY <1>1, <1>2, <2>1
<1>5. ASSUME NEW k \in 1 .. L, k - 1 \in Good PROVE k \in Good
  <2> DEFINE m == k - 1
  <2>1. m \in 0 .. L /\ m # L /\ m + 1 = k /\ Cardinality(Held(s, m)) = L - m
    BY <1>1, <1>5
  <2> HIDE DEF m
  <2>2. PICK v \in Held(s, m) : Held(s, m + 1) = Held(s, m) \ {v}
    BY <2>1, HeldLess
  <2>3. IsFiniteSet(Held(s, m))
    <3>1. Held(s, m) \in SUBSET (1 .. L)
      BY <1>3, <2>1
    <3> HIDE DEF L
    <3> QED
      BY <1>1, <3>1, RankType
  <2>4. Cardinality(Held(s, m) \ {v}) = Cardinality(Held(s, m)) - 1
    BY <2>3, FS_RemoveElement
  <2>5. Cardinality(Held(s, k)) = (L - m) - 1
    BY <2>1, <2>2, <2>4
  <2>6. (L - m) - 1 = L - k /\ k \in 0 .. L
    BY <1>1, <2>1
  <2> QED
    BY <2>5, <2>6
<1>6. \A k \in 0 .. L : k \in Good
  <2> HIDE DEF Good, L
  <2> QED
    BY <1>1, <1>4, <1>5, UpTo
<1> QED
  BY <1>2, <1>3, <1>6

LEMMA BoardStart == ASSUME NEW s \in Seq(Line) PROVE BoardLadder(s)[0] = s
<1> DEFINE L == Len(s)
           All == 1 .. L
           t == LinesAt(s, All)
<1>1. L \in Nat /\ s = [i \in 1 .. L |-> s[i]]
  OBVIOUS
<1>2. BoardLadder(s)[0] = t
  BY <1>1, HeldSize DEF BoardLadder
<1>3. \A i \in All : Rank(All, i) = i
  <2>1. ASSUME NEW i \in 1 .. L PROVE {j \in 1 .. L : j <= i} = 1 .. i /\ Cardinality(1 .. i) = i
    <3>1. i \in Nat /\ i # 0 /\ \A j : j \in 1 .. L /\ j <= i <=> j \in 1 .. i
      BY <1>1
    <3>2. Cardinality(1 .. i) = i
      BY <3>1, FS_Interval
    <3> QED
      BY <3>1, <3>2
  <2> QED
    BY <2>1 DEF Rank
<1>4. Cardinality(All) = L /\ All \in SUBSET (1 .. L)
  BY <1>1, FS_Interval
<1>5. t \in Seq(Line) /\ Len(t) = L /\ \A i \in All : t[Rank(All, i)] = s[i]
  BY <1>4, LinesAtIs
<1> HIDE DEF t
<1>6. t = [i \in 1 .. L |-> t[i]]
  <2> HIDE DEF L
  <2> QED
    BY <1>5
<1>7. \A i \in 1 .. L : t[i] = s[i]
  BY <1>3, <1>5
<1> HIDE DEF L
<1>8. t = s
  BY <1>1, <1>6, <1>7
<1> QED
  BY <1>2, <1>8

LEMMA BoardRungs ==
  ASSUME NEW s \in Seq(Line), NEW k \in 0 .. Len(s)
  PROVE  /\ BoardLadder(s)[k] \in Seq(Line) /\ Len(BoardLadder(s)[k]) = Len(s) - k
         /\ k # Len(s) =>
              /\ k + 1 \in 0 .. Len(s)
              /\ RemoveAt(BoardLadder(s)[k], LastTerminal(BoardLadder(s)[k]))
                   = BoardLadder(s)[k + 1]
<1>1. BoardLadder(s)[k] = LinesAt(s, Held(s, k))
  BY DEF BoardLadder
<1>2. Held(s, k) \in SUBSET (1 .. Len(s)) /\ Cardinality(Held(s, k)) = Len(s) - k
  BY HeldSize
<1>3. LinesAt(s, Held(s, k)) \in Seq(Line) /\ Len(LinesAt(s, Held(s, k))) = Len(s) - k
  BY <1>2, LinesAtIs
<1>4. ASSUME k # Len(s)
      PROVE  /\ k + 1 \in 0 .. Len(s)
             /\ RemoveAt(LinesAt(s, Held(s, k)), LastTerminal(LinesAt(s, Held(s, k))))
                  = BoardLadder(s)[k + 1]
  <2>1. k + 1 \in 0 .. Len(s)
    BY <1>4
  <2>2. BoardLadder(s)[k + 1] = LinesAt(s, Held(s, k + 1))
    BY <2>1 DEF BoardLadder
  <2>3. PICK v \in Held(s, k) :
          /\ Held(s, k + 1) = Held(s, k) \ {v}
          /\ LastTerminal(LinesAt(s, Held(s, k))) = Rank(Held(s, k), v)
    BY <1>4, HeldLess
  <2>4. RemoveAt(LinesAt(s, Held(s, k)), Rank(Held(s, k), v)) = LinesAt(s, Held(s, k) \ {v})
    BY <1>2, LinesWithout
  <2> QED
    BY <2>1, <2>2, <2>3, <2>4
<1> QED
  BY <1>1, <1>3, <1>4

(* What the drop rule may leave of the board is what is on the ladder.      *)
LEMMA BoardRemainsIs ==
  ASSUME NEW s \in Seq(Line)
  PROVE  BoardRemains(s) = Rungs(BoardLadder(s), Len(s))
<1> DEFINE L == Len(s)
           T == Terminals(s)
           O == Opens(s)
           N == Cardinality(T)
           B == BoardLadder(s)
<1>1. /\ L \in Nat /\ T \in SUBSET (1 .. L) /\ O \in SUBSET (1 .. L)
      /\ N \in 0 .. L /\ Cardinality(O) = L - N
  BY TwoKinds
<1>2. BoardRemains(s) = {LinesAt(s, O \cup FirstOf(T, k)) : k \in 0 .. L}
                          \cup {LinesAt(s, FirstOf(O, k)) : k \in 0 .. L}
  BY DEF BoardRemains, Terminals, Opens
<1>3. \A k \in 0 .. L : B[k] = LinesAt(s, IF k < N THEN O \cup FirstOf(T, N - k)
                                          ELSE FirstOf(O, L - k))
  BY DEF BoardLadder, Held
<1>4. \A m \in Nat : /\ FirstOf(T, 0) = {} /\ (N <= m => FirstOf(T, m) = T)
                     /\ (Cardinality(O) <= m => FirstOf(O, m) = O)
  BY <1>1, FirstOfAll
<1>5. FirstOf(O, L - N) = O
  <2>1. L - N \in Nat /\ Cardinality(O) <= L - N
    BY <1>1
  <2> QED
    BY <1>4, <2>1
<1>6. FirstOf(T, N) = T
  BY <1>1, <1>4
<1> HIDE DEF T, O, N, B, L
<1>7. ASSUME NEW k \in 0 .. L PROVE B[k] \in BoardRemains(s)
  <2>1. N - k \in 0 .. L \/ ~(k < N)
    BY <1>1
  <2>2. L - k \in 0 .. L
    BY <1>1
  <2> QED
    BY <1>2, <1>3, <2>1, <2>2
<1>8. ASSUME NEW k \in 0 .. L PROVE \E j \in 0 .. L : LinesAt(s, FirstOf(O, k)) = B[j]
  <2>1. CASE k <= L - N
    <3>1. L - k \in 0 .. L /\ ~(L - k < N) /\ L - (L - k) = k
      BY <1>1, <2>1
    <3> QED
      BY <1>3, <3>1
  <2>2. CASE ~(k <= L - N)
    <3>1. FirstOf(O, k) = O
      BY <1>1, <1>4, <2>2
    <3>2. N \in 0 .. L /\ ~(N < N)
      BY <1>1
    <3> QED
      BY <1>3, <1>5, <3>1, <3>2
  <2> QED
    BY <2>1, <2>2
<1>9. ASSUME NEW k \in 0 .. L PROVE \E j \in 0 .. L : LinesAt(s, O \cup FirstOf(T, k)) = B[j]
  <2>1. CASE k = 0
    <3>1. O \cup FirstOf(T, k) = FirstOf(O, L - N) /\ L - N \in 0 .. L
      BY <1>1, <1>4, <1>5, <2>1
    <3> QED
      BY <1>8, <3>1
  <2>2. CASE k # 0 /\ k <= N
    <3>1. N - k \in 0 .. L /\ N - k < N /\ N - (N - k) = k
      BY <1>1, <2>2
    <3> QED
      BY <1>3, <3>1
  <2>3. CASE k # 0 /\ ~(k <= N)
    <3>1. FirstOf(T, k) = T
      BY <1>1, <1>4, <2>3
    <3>2. CASE N = 0
      <4>1. FirstOf(T, k) = {} /\ LinesAt(s, O \cup FirstOf(T, k)) = LinesAt(s, FirstOf(O, L - N))
        BY <1>4, <1>5, <1>6, <3>1, <3>2
      <4>2. L - N \in 0 .. L
        BY <1>1
      <4> QED
        BY <1>8, <4>1, <4>2
    <3>3. CASE N # 0
      <4>1. 0 \in 0 .. L /\ 0 < N /\ N - 0 = N
        BY <1>1, <3>3
      <4> QED
        BY <1>3, <1>6, <3>1, <4>1
    <3> QED
      BY <3>2, <3>3
  <2> QED
    BY <2>1, <2>2, <2>3
<1>10. BoardRemains(s) = {B[k] : k \in 0 .. L}
  BY <1>2, <1>7, <1>8, <1>9
<1> QED
  BY <1>10 DEF Rungs, B, L

LEMMA BoardShed ==
  ASSUME NEW s \in Seq(Line), NEW a, NEW h
  PROVE  Settles(ShedBoard(s, h, a), BoardLadder(s), Len(s),
                 {t \in Seq(Line) : t = <<>> \/ Cost(t) + h <= a})
<1> DEFINE L == Len(s)
           B == BoardLadder(s)
           Will(x) == x = <<>> \/ Cost(x) + h <= a
           fit == {t \in Seq(Line) : Will(t)}
           Left(x) == IF Will(x) THEN x ELSE RemoveAt(x, LastTerminal(x))
           Then(f, n) == Only({Left(x) : x \in {f[n - 1]}, y \in {s[n]}})
           Made(f) == f = [n \in 0 .. L |-> IF n = 0 THEN s ELSE Then(f, n)]
           c == CHOOSE f : Made(f)
           g == [x \in Rungs(B, L) |-> Left(x)]
<1>1. ShedBoard(s, h, a) = c[L]
  BY DEF ShedBoard, Shed, Iterate
<1>2. L \in Nat /\ B[0] = s
  BY BoardStart
<1>3. \A f, n : Then(f, n) = Left(f[n - 1])
  <2> HIDE DEF Then, Left
  <2> SUFFICES ASSUME NEW f, NEW n PROVE Then(f, n) = Left(f[n - 1])
    OBVIOUS
  <2> DEFINE Results == {Left(x) : x \in {f[n - 1]}, y \in {s[n]}}
  <2>1. Results = {Left(f[n - 1])}
    OBVIOUS
  <2>2. Then(f, n) = Only(Results)
    BY DEF Then
  <2> HIDE DEF Results
  <2> QED
    BY <2>1, <2>2, OnlyOne
<1> HIDE DEF Then
<1>4. Will(B[L])
  <2>1. Len(B[L]) = 0 /\ B[L] \in Seq(Line)
    <3>1. L \in 0 .. L /\ L - L = 0
      BY <1>2
    <3> QED
      BY <3>1, BoardRungs
  <2>2. B[L] = <<>>
    <3> HIDE DEF B
    <3> QED
      BY <2>1
  <2> QED
    BY <2>2
<1>5. ASSUME NEW k \in 0 .. L
      PROVE  /\ B[k] \in Seq(Line) /\ (Will(B[k]) <=> B[k] \in fit)
             /\ Left(B[k]) = IF B[k] \in fit THEN B[k] ELSE B[k + 1]
             /\ Left(B[k]) \in Rungs(B, L) /\ B[k] \in Rungs(B, L)
  <2>1. B[k] \in Seq(Line)
    BY BoardRungs
  <2>2. ~Will(B[k]) => k + 1 \in 0 .. L /\ RemoveAt(B[k], LastTerminal(B[k])) = B[k + 1]
    <3> HIDE DEF Will, B
    <3>1. ~Will(B[k]) => k # L
      BY <1>4
    <3> QED
      BY <3>1, BoardRungs DEF B
  <2> HIDE DEF Will, B, L
  <2> QED
    BY <2>1, <2>2 DEF Rungs
<1> HIDE DEF Left, Will, B
<1>6. PICK f \in [0 .. L -> Rungs(B, L)] :
        f[0] = B[0] /\ \A n \in 1 .. L : f[n] = g[f[n - 1]]
  <2>1. \A k \in 0 .. L : g[B[k]] \in Rungs(B, L)
    BY <1>5
  <2>2. \E f : Descends(f, B, L, g)
    <3> HIDE DEF g, L
    <3> QED
      BY <1>2, <2>1, DescentExists
  <2> QED
    BY <2>2 DEF Descends
<1>7. Made(f)
  <2>1. \A n \in 1 .. L : f[n] = Left(f[n - 1])
    <3>1. \A n \in 1 .. L : f[n - 1] \in Rungs(B, L)
      OBVIOUS
    <3> QED
      BY <1>6, <3>1
  <2>2. \A n \in 0 .. L : f[n] = IF n = 0 THEN s ELSE Then(f, n)
    BY <1>2, <1>3, <1>6, <2>1
  <2>3. f = [n \in 0 .. L |-> f[n]]
    OBVIOUS
  <2> QED
    BY <2>2, <2>3
<1>8. Made(c)
  <2> HIDE DEF Made
  <2> QED
    BY <1>7, Zenon
<1> HIDE DEF c
<1>9. c[0] = B[0] /\ \A n \in 1 .. L : c[n] = Left(c[n - 1])
  BY <1>2, <1>3, <1>8
<1>10. \A n \in 1 .. L : \A k \in 0 .. L : c[n - 1] = B[k] =>
         c[n] = IF B[k] \in fit THEN B[k] ELSE B[k + 1]
  <2> HIDE DEF fit
  <2> QED
    BY <1>5, <1>9
<1>11. B[L] \in fit
  BY <1>2, <1>4, <1>5
<1>12. Settles(c[L], B, L, fit)
  <2> HIDE DEF fit, L
  <2> QED
    BY <1>2, <1>9, <1>10, <1>11, DescentSettles
<1> QED
  BY <1>1, <1>12 DEF B, Will

----------------------------------------------------------------------------
(* What the first lines of a sequence cost.                                 *)
LEMMA PrefixCosts ==
  ASSUME NEW s \in Seq(Line)
  PROVE  \E f \in [0 .. Len(s) -> Nat] :
           /\ \A m \in 0 .. Len(s) : Cost(SubSeq(s, 1, m)) = f[m]
           /\ \A m \in 1 .. Len(s) : f[m] = f[m - 1] + s[m].cost
           /\ \A i, j \in 0 .. Len(s) : i <= j => f[i] <= f[j]
<1> DEFINE L == Len(s)
<1>1. PICK f : Sums(f, s)
  BY CostIs
<1>2. /\ f \in [0 .. L -> Nat] /\ f[0] = 0 /\ L \in Nat
      /\ \A m \in 1 .. L : f[m] = f[m - 1] + s[m].cost /\ s[m].cost \in Nat
  <2>1. \A m \in 1 .. L : s[m] \in Line
    OBVIOUS
  <2>2. \A m \in 1 .. L : s[m].cost \in Nat
    BY <2>1 DEF Line
  <2>3. L \in Nat
    OBVIOUS
  <2> QED
    BY <1>1, <2>2, <2>3 DEF Sums
<1>3. ASSUME NEW m \in 0 .. L PROVE Cost(SubSeq(s, 1, m)) = f[m]
  <2> DEFINE t == SubSeq(s, 1, m)
  <2>1. t \in Seq(Line) /\ Len(t) = m /\ \A i \in 1 .. m : t[i] = s[i]
    OBVIOUS
  <2> HIDE DEF t
  <2>2. PICK e : Sums(e, t) /\ Cost(t) = e[m]
    BY <2>1, CostIs
  <2>3. e[0] = 0 /\ \A i \in 1 .. m : e[i] = e[i - 1] + s[i].cost
    BY <2>1, <2>2 DEF Sums
  <2> DEFINE Good == {i \in 0 .. m : e[i] = f[i]}
  <2>4. 0 \in Good
    BY <1>2, <2>3
  <2>5. ASSUME NEW i \in 1 .. m, i - 1 \in Good PROVE i \in Good
    <3>1. i \in 1 .. L /\ i \in 0 .. m
      BY <1>2
    <3>2. e[i - 1] = f[i - 1]
      BY <2>5
    <3>3. e[i] = f[i]
      BY <1>2, <2>3, <3>1, <3>2
    <3> QED
      BY <3>1, <3>3
  <2>6. m \in Good
    <3>1. \A i \in 0 .. m : i \in Good
      <4>1. m \in Nat
        BY <1>2
      <4> HIDE DEF Good
      <4> QED
        BY <4>1, <2>4, <2>5, UpTo
    <3>2. m \in 0 .. m
      BY <1>2
    <3> QED
      BY <3>1, <3>2
  <2> QED
    BY <2>2, <2>6 DEF t
<1>4. ASSUME NEW i \in 0 .. L PROVE \A j \in 0 .. L : i <= j => f[i] <= f[j]
  <2> DEFINE Good == {j \in 0 .. L : i <= j => f[i] <= f[j]}
  <2>0. f[i] \in Nat
    BY <1>2
  <2>1. 0 \in Good
    <3>1. i <= 0 => i = 0
      BY <1>2
    <3> QED
      BY <1>2, <3>1
  <2>2. ASSUME NEW j \in 1 .. L, j - 1 \in Good PROVE j \in Good
    <3>1. j - 1 \in 0 .. L /\ j \in 0 .. L
      BY <1>2
    <3>2. f[j] = f[j - 1] + s[j].cost /\ s[j].cost \in Nat /\ f[j - 1] \in Nat /\ f[j] \in Nat
      BY <1>2, <3>1
    <3>3. i <= j => i = j \/ i <= j - 1
      BY <3>1
    <3>4. i <= j - 1 => f[i] <= f[j - 1]
      BY <2>2
    <3>5. i <= j => f[i] <= f[j]
      <4> DEFINE x == f[i]
                 y == f[j - 1]
                 z == f[j]
                 w == s[j].cost
      <4>1. x \in Nat /\ y \in Nat /\ z \in Nat /\ w \in Nat /\ z = y + w
        BY <2>0, <3>2
      <4>2. i <= j - 1 => x <= y
        BY <3>4
      <4>3. i = j => x = z
        OBVIOUS
      <4> HIDE DEF x, y, z, w
      <4>4. i <= j => x <= z
        BY <3>3, <4>1, <4>2, <4>3
      <4> QED
        BY <4>4 DEF x, z
    <3> QED
      BY <3>1, <3>5
  <2>3. \A j \in 0 .. L : j \in Good
    <3> HIDE DEF Good, L
    <3> QED
      BY <1>2, <2>1, <2>2, UpTo
  <2> QED
    BY <2>3
<1> QED
  BY <1>2, <1>3, <1>4

(* Fresh messages are the longest prefix that fits, and one at least.       *)
LEMMA TakenIs ==
  ASSUME NEW s \in Seq(Line), NEW a \in Nat, NEW f \in [0 .. Len(s) -> Nat],
         \A m \in 0 .. Len(s) : Cost(SubSeq(s, 1, m)) = f[m],
         \A m \in 1 .. Len(s) : f[m] = f[m - 1] + s[m].cost
  PROVE  \E m \in 0 .. Len(s) : /\ Taken(s, a) = SubSeq(s, 1, m)
                                /\ m = 0 => Len(s) = 0
                                /\ m > 1 => f[m] <= a
                                /\ m # Len(s) => ~(f[m + 1] <= a)
<1> DEFINE L == Len(s)
           X == [kept : Seq(Line), more : BOOLEAN]
           start == [kept |-> <<>>, more |-> TRUE]
           Takes(t, y) == t.more /\ (t.kept = <<>> \/ Cost(t.kept) + y.cost <= a)
           Turn(t, y) == IF Takes(t, y) THEN [t EXCEPT !.kept = Append(@, y)]
                         ELSE [t EXCEPT !.more = FALSE]
           Then(e, n) == Only({Turn(t, y) : t \in {e[n - 1]}, y \in {s[n]}})
           Made(e) == e = [n \in 0 .. L |-> IF n = 0 THEN start ELSE Then(e, n)]
           c == CHOOSE e : Made(e)
           h == [p \in (1 .. L) \X X |-> Turn(p[2], s[p[1]])]
<1>1. Taken(s, a) = c[L].kept
  BY DEF Taken, Iterate
<1>2. L \in Nat /\ start \in X /\ \A n \in 1 .. L : s[n] \in Line
  OBVIOUS
<1>3. \A e, n : Then(e, n) = Turn(e[n - 1], s[n])
  <2> HIDE DEF Then, Turn
  <2> SUFFICES ASSUME NEW e, NEW n PROVE Then(e, n) = Turn(e[n - 1], s[n])
    OBVIOUS
  <2> DEFINE Results == {Turn(t, y) : t \in {e[n - 1]}, y \in {s[n]}}
  <2>1. Results = {Turn(e[n - 1], s[n])}
    OBVIOUS
  <2>2. Then(e, n) = Only(Results)
    BY DEF Then
  <2> HIDE DEF Results
  <2> QED
    BY <2>1, <2>2, OnlyOne
<1>4. ASSUME NEW t \in X, NEW y \in Line
      PROVE  /\ Turn(t, y) \in X
             /\ Takes(t, y) => Turn(t, y) = [kept |-> Append(t.kept, y), more |-> TRUE]
             /\ ~Takes(t, y) => Turn(t, y) = [kept |-> t.kept, more |-> FALSE]
  <2> HIDE DEF Takes
  <2>1. t.kept \in Seq(Line) /\ Append(t.kept, y) \in Seq(Line) /\ t.more \in BOOLEAN
    OBVIOUS
  <2>2. CASE Takes(t, y)
    <3>1. t.more = TRUE
      BY <2>1, <2>2 DEF Takes
    <3> QED
      BY <2>1, <2>2, <3>1
  <2>3. CASE ~Takes(t, y)
    BY <2>1, <2>3
  <2> QED
    BY <2>2, <2>3
<1> HIDE DEF Then, Turn, Takes, X, start
<1>5. PICK e \in [0 .. L -> X] : Loops(e, L, start, h)
  <2>1. ASSUME NEW q \in (1 .. L) \X X PROVE Turn(q[2], s[q[1]]) \in X
    <3>1. q[1] \in 1 .. L /\ q[2] \in X
      OBVIOUS
    <3> QED
      BY <1>2, <1>4, <3>1
  <2>2. h \in [(1 .. L) \X X -> X]
    BY <2>1
  <2> HIDE DEF h, L
  <2> QED
    BY <1>2, <2>2, LoopExists
<1>6. Made(e)
  <2>1. ASSUME NEW n \in 1 .. L PROVE e[n] = Turn(e[n - 1], s[n])
    <3>1. n - 1 \in 0 .. L /\ e[n - 1] \in X
      OBVIOUS
    <3>2. h[<<n, e[n - 1]>>] = Turn(e[n - 1], s[n])
      BY <3>1
    <3> HIDE DEF h
    <3> QED
      BY <1>5, <3>2 DEF Loops
  <2>2. e[0] = start
    BY <1>5 DEF Loops
  <2>3. \A n \in 0 .. L : e[n] = IF n = 0 THEN start ELSE Then(e, n)
    BY <1>3, <2>1, <2>2
  <2>4. e = [n \in 0 .. L |-> e[n]]
    OBVIOUS
  <2> QED
    BY <2>3, <2>4
<1>7. Made(c)
  <2> HIDE DEF Made
  <2> QED
    BY <1>6, Zenon
<1> HIDE DEF c
<1>8. c[0] = start /\ \A n \in 1 .. L : c[n] = Turn(c[n - 1], s[n])
  BY <1>2, <1>3, <1>7
<1> DEFINE Shown(n, m, t) ==
             /\ t.kept = SubSeq(s, 1, m) /\ t \in X
             /\ m = 0 => n = 0
             /\ m > 1 => f[m] <= a
             /\ m # n => t.more = FALSE /\ ~(f[m + 1] <= a)
             /\ m = n => t.more = TRUE
           Good == {n \in 0 .. L : \E m \in 0 .. n : Shown(n, m, c[n])}
<1>9. 0 \in Good
  <2>1. SubSeq(s, 1, 0) = <<>>
    OBVIOUS
  <2>2. Shown(0, 0, start)
    BY <1>2, <2>1 DEF start
  <2>3. 0 \in 0 .. L /\ 0 \in 0 .. 0
    BY <1>2
  <2> HIDE DEF Shown
  <2> QED
    BY <1>8, <2>2, <2>3
<1>10. ASSUME NEW n \in 1 .. L, n - 1 \in Good PROVE n \in Good
  <2> DEFINE t == c[n - 1]
             y == s[n]
  <2>1. PICK m \in 0 .. n - 1 : Shown(n - 1, m, t)
    BY <1>10
  <2>2. /\ n \in 0 .. L /\ m \in 0 .. L /\ m \in Nat /\ n \in Nat /\ m \in 0 .. n /\ n \in 0 .. n
        /\ y \in Line /\ c[n] = Turn(t, y) /\ n - 1 \in 0 .. L /\ n # 0 /\ t \in X
    <3> HIDE DEF L, X, Turn, Good
    <3>1. /\ n \in 0 .. L /\ m \in 0 .. L /\ m \in Nat /\ n \in Nat /\ m \in 0 .. n
          /\ n \in 0 .. n /\ n - 1 \in 0 .. L /\ n # 0
      <4>1. L \in Nat
        BY <1>2
      <4> HIDE DEF y
      <4> QED
        BY <4>1, SMTT(30)
    <3>2. y \in Line /\ c[n] = Turn(t, y)
      BY <1>2, <1>8
    <3>3. t \in X
      BY <2>1
    <3> QED
      BY <3>1, <3>2, <3>3
  <2> HIDE DEF t
  <2>3. CASE Takes(t, y)
    <3>1. m = n - 1 /\ t.more = TRUE
      BY <2>1, <2>3, Zenon DEF Takes
    <3>2. c[n] = [kept |-> Append(t.kept, y), more |-> TRUE] /\ c[n] \in X
      BY <1>4, <2>2, <2>3
    <3>3. Append(SubSeq(s, 1, n - 1), s[n]) = SubSeq(s, 1, n)
      OBVIOUS
    <3>4. n > 1 => f[n] <= a
      <4> SUFFICES ASSUME n > 1 PROVE f[n] <= a
        OBVIOUS
      <4>1. Len(SubSeq(s, 1, n - 1)) = n - 1
        OBVIOUS
      <4>2. t.kept = SubSeq(s, 1, n - 1) /\ t.kept # <<>>
        <5>1. t.kept = SubSeq(s, 1, n - 1)
          BY <2>1, <3>1
        <5>2. Len(t.kept) # 0
          BY <2>2, <4>1, <5>1
        <5>3. Len(<<>>) = 0
          OBVIOUS
        <5>4. t.kept # <<>>
          BY <5>2, <5>3, Zenon
        <5> QED
          BY <5>1, <5>4
      <4>3. Cost(t.kept) + y.cost <= a /\ Cost(t.kept) = f[n - 1]
        BY <2>2, <2>3, <4>2 DEF Takes
      <4> QED
        BY <4>3
    <3>5. Shown(n, n, c[n])
      BY <2>1, <2>2, <3>1, <3>2, <3>3, <3>4
    <3> HIDE DEF Shown
    <3> QED
      BY <2>2, <3>5
  <2>4. CASE ~Takes(t, y)
    <3>1. c[n] = [kept |-> t.kept, more |-> FALSE] /\ c[n] \in X
      BY <1>4, <2>2, <2>4
    <3>2. CASE m = n - 1
      <4>1. t.more = TRUE /\ t.kept = SubSeq(s, 1, n - 1) /\ m + 1 = n /\ m # n
        BY <2>1, <2>2, <3>2
      <4>2. t.kept # <<>> /\ ~(Cost(t.kept) + y.cost <= a)
        BY <2>4, <4>1 DEF Takes
      <4>3. m # 0
        <5>1. SubSeq(s, 1, 0) = <<>>
          OBVIOUS
        <5> QED
          BY <2>1, <4>2, <5>1
      <4>4. ~(f[n] <= a)
        BY <2>2, <4>1, <4>2
      <4>5. Shown(n, m, c[n])
        BY <2>1, <2>2, <3>1, <4>1, <4>3, <4>4
      <4> HIDE DEF Shown
      <4> QED
        BY <2>2, <4>5
    <3>3. CASE m # n - 1
      <4>1. m # 0 /\ m # n /\ ~(f[m + 1] <= a)
        BY <2>1, <2>2, <3>3
      <4>2. Shown(n, m, c[n])
        BY <2>1, <2>2, <3>1, <4>1
      <4> HIDE DEF Shown
      <4> QED
        BY <2>2, <4>2
    <3> QED
      BY <3>2, <3>3
  <2> QED
    BY <2>3, <2>4
<1>11. L \in Good
  <2>1. \A n \in 0 .. L : n \in Good
    <3> HIDE DEF Good, L
    <3> QED
      BY <1>2, <1>9, <1>10, UpTo
  <2>2. L \in 0 .. L
    BY <1>2
  <2> HIDE DEF Good
  <2> QED
    BY <2>1, <2>2
<1> QED
  BY <1>1, <1>11

LEMMA CostType == ASSUME NEW s \in Seq(Line) PROVE Cost(s) \in Nat
<1>1. PICK f : Sums(f, s) /\ Cost(s) = f[Len(s)]
  BY CostIs
<1>2. Len(s) \in 0 .. Len(s)
  OBVIOUS
<1> QED
  BY <1>1, <1>2 DEF Sums

----------------------------------------------------------------------------
(* What ShedsMinimally says of one section: kept is the longest remainder   *)
(* that fits, or the shortest if none does.                                 *)
Least(remains, kept, h, a) ==
  /\ kept \in remains
  /\ Cost(kept) + h <= a =>
       \A r \in remains : Cost(r) + h <= a => Len(r) <= Len(kept)
  /\ ~(Cost(kept) + h <= a) =>
       \A r \in remains : Len(kept) <= Len(r) /\ ~(Cost(r) + h <= a)

(* The rungs down to the last few lines a section always shows.             *)
RungsDownTo(B, L, few) == {B[k] : k \in {j \in 0 .. L : few <= L - j \/ j = 0}}

LEMMA SettledIsLeast ==
  ASSUME NEW L \in Nat, NEW B, NEW few \in Nat, NEW fit, NEW x, NEW h, NEW a,
         Settles(x, B, L, fit), \A k \in 0 .. L : Len(B[k]) = L - k,
         \A k \in 0 .. L : B[k] \in fit <=> Len(B[k]) <= few \/ Cost(B[k]) + h <= a
  PROVE  Least(RungsDownTo(B, L, few), x, h, a)
<1> DEFINE Fits(r) == Cost(r) + h <= a
           Low == {j \in 0 .. L : few <= L - j \/ j = 0}
<1>1. PICK k \in 0 .. L : /\ x = B[k] /\ B[k] \in fit
                         /\ \A j \in 0 .. L : j < k => B[j] \notin fit
  BY DEF Settles
<1>2. k \in Low
  <2>1. CASE k = 0
    BY <2>1
  <2>2. CASE k # 0
    <3> DEFINE j == k - 1
    <3>1. j \in 0 .. L /\ j < k /\ L - j = (L - k) + 1 /\ L - k \in Nat
      BY <2>2
    <3> HIDE DEF j
    <3>2. ~(L - j <= few)
      BY <1>1, <3>1
    <3> QED
      BY <3>1, <3>2
  <2> QED
    BY <2>1, <2>2
<1>3. \A j \in 0 .. L : /\ Fits(B[j]) => B[j] \in fit
                        /\ B[j] \in fit => Fits(B[j]) \/ L - j <= few
  OBVIOUS
<1> HIDE DEF Fits
<1>4. ASSUME Fits(x), NEW j \in Low, Fits(B[j]) PROVE Len(B[j]) <= Len(x)
  <2>1. j \in 0 .. L /\ ~(j < k)
    BY <1>1, <1>3, <1>4
  <2>2. Len(B[j]) = L - j /\ Len(x) = L - k
    BY <1>1, <2>1
  <2>3. L - j <= L - k
    BY <2>1
  <2> QED
    BY <2>2, <2>3
<1>5. ASSUME ~Fits(x), NEW j \in Low PROVE Len(x) <= Len(B[j]) /\ ~Fits(B[j])
  <2>1. L - k <= few
    BY <1>1, <1>3, <1>5
  <2>2. j \in 0 .. L /\ (few <= L - j \/ j = 0)
    OBVIOUS
  <2>3. j <= k
    BY <2>1, <2>2
  <2>4. L - k <= L - j
    BY <2>2, <2>3
  <2>5. Len(x) = L - k /\ Len(B[j]) = L - j
    BY <1>1, <2>2
  <2>6. ~Fits(B[j])
    <3>1. CASE j = k
      BY <1>1, <1>5, <3>1
    <3>2. CASE j # k
      <4>1. j < k
        BY <2>2, <2>3, <3>2
      <4> QED
        BY <1>1, <1>3, <2>2, <4>1
    <3> QED
      BY <3>1, <3>2
  <2> QED
    BY <2>4, <2>5, <2>6
<1>6. RungsDownTo(B, L, few) = {B[j] : j \in Low}
  BY DEF RungsDownTo
<1> HIDE DEF Low
<1>7. /\ x \in RungsDownTo(B, L, few)
      /\ Fits(x) => \A r \in RungsDownTo(B, L, few) : Fits(r) => Len(r) <= Len(x)
      /\ ~Fits(x) => \A r \in RungsDownTo(B, L, few) : Len(x) <= Len(r) /\ ~Fits(r)
  BY <1>1, <1>2, <1>4, <1>5, <1>6
<1> QED
  BY <1>7 DEF Least, Fits

(* Prefixes and suffixes are the rungs of their ladders.                    *)
LEMMA PrefixRungs ==
  ASSUME NEW s \in Seq(Line)
  PROVE  /\ Prefixes(s) = RungsDownTo(Shorter(s), Len(s), 0)
         /\ (IF s = <<>> THEN {<<>>} ELSE AtLeastOne(Prefixes(s)))
              = RungsDownTo(Shorter(s), Len(s), 1)
<1> DEFINE L == Len(s)
           B == Shorter(s)
<1>1. L \in Nat /\ (s = <<>> <=> L = 0)
  OBVIOUS
<1>2. \A k \in 0 .. L : B[k] = SubSeq(s, 1, L - k)
  BY DEF Shorter
<1>3. \A k \in 0 .. L : B[k] \in Seq(Line) /\ Len(B[k]) = L - k
  BY ShorterRungs
<1>4. \A k \in 0 .. L : B[k] = <<>> <=> k = L
  <2>1. \A k \in 0 .. L : B[k] = <<>> <=> Len(B[k]) = 0
    BY <1>3
  <2>2. \A k \in 0 .. L : L - k = 0 <=> k = L
    BY <1>1
  <2> HIDE DEF B, L
  <2> QED
    BY <1>3, <2>1, <2>2
<1>5. Prefixes(s) = {B[k] : k \in 0 .. L}
  <2>1. Prefixes(s) = {SubSeq(s, 1, l) : l \in 0 .. L}
    BY DEF Prefixes
  <2>2. \A k \in 0 .. L : L - k \in 0 .. L /\ L - (L - k) = k
    BY <1>1
  <2> HIDE DEF B, L
  <2>3. \A l \in 0 .. L : SubSeq(s, 1, l) = B[L - l]
    BY <1>2, <2>2
  <2> QED
    BY <1>2, <2>1, <2>2, <2>3
<1> HIDE DEF B, L
<1>6. {j \in 0 .. L : 0 <= L - j \/ j = 0} = 0 .. L
  BY <1>1
<1>7. CASE L = 0
  <2>1. {j \in 0 .. L : 1 <= L - j \/ j = 0} = {0} /\ B[0] = <<>> /\ s = <<>>
    BY <1>1, <1>4, <1>7
  <2> QED
    BY <1>5, <1>6, <2>1 DEF RungsDownTo, B, L
<1>8. CASE L # 0
  <2>1. {j \in 0 .. L : 1 <= L - j \/ j = 0} = {j \in 0 .. L : j # L} /\ s # <<>>
    BY <1>1, <1>8
  <2>2. AtLeastOne(Prefixes(s)) = {B[k] : k \in {j \in 0 .. L : j # L}}
    BY <1>4, <1>5 DEF AtLeastOne
  <2> QED
    BY <1>5, <1>6, <2>1, <2>2 DEF RungsDownTo, B, L
<1> QED
  BY <1>7, <1>8

LEMMA SuffixRungs ==
  ASSUME NEW s \in Seq(Line)
  PROVE  (IF s = <<>> THEN {<<>>} ELSE AtLeastOne(Suffixes(s)))
           = RungsDownTo(Later(s), Len(s), 1)
<1> DEFINE L == Len(s)
           B == Later(s)
<1>1. L \in Nat /\ (s = <<>> <=> L = 0)
  OBVIOUS
<1>2. \A k \in 0 .. L : B[k] = SubSeq(s, k + 1, L)
  BY DEF Later
<1>3. \A k \in 0 .. L : B[k] \in Seq(Line) /\ Len(B[k]) = L - k
  BY LaterRungs
<1>4. \A k \in 0 .. L : B[k] = <<>> <=> k = L
  <2>1. \A k \in 0 .. L : B[k] = <<>> <=> Len(B[k]) = 0
    BY <1>3
  <2>2. \A k \in 0 .. L : L - k = 0 <=> k = L
    BY <1>1
  <2> HIDE DEF B, L
  <2> QED
    BY <1>3, <2>1, <2>2
<1>5. AtLeastOne(Suffixes(s)) = {B[k] : k \in {j \in 0 .. L : j # L}}
  <2>1. Suffixes(s) = {SubSeq(s, l, L) : l \in 1 .. L} \cup {<<>>}
    BY DEF Suffixes
  <2>2. \A l \in 1 .. L : l - 1 \in 0 .. L /\ l - 1 # L /\ (l - 1) + 1 = l
    BY <1>1
  <2>3. \A k \in 0 .. L : k # L => k + 1 \in 1 .. L
    BY <1>1
  <2> HIDE DEF B, L
  <2>4. \A l \in 1 .. L : SubSeq(s, l, L) = B[l - 1]
    BY <1>2, <2>2
  <2>5. \A r : r \in AtLeastOne(Suffixes(s)) <=> \E k \in 0 .. L : k # L /\ r = B[k]
    <3>1. ASSUME NEW r, r \in AtLeastOne(Suffixes(s))
          PROVE  \E k \in 0 .. L : k # L /\ r = B[k]
      <4>1. PICK l \in 1 .. L : r = SubSeq(s, l, L)
        BY <2>1, <3>1 DEF AtLeastOne
      <4> QED
        BY <2>2, <2>4, <4>1
    <3>2. ASSUME NEW k \in 0 .. L, k # L PROVE B[k] \in AtLeastOne(Suffixes(s))
      BY <1>2, <1>4, <2>1, <2>3, <3>2 DEF AtLeastOne
    <3> QED
      BY <3>1, <3>2
  <2> QED
    BY <2>5
<1> HIDE DEF B, L
<1>6. CASE L = 0
  <2>1. {j \in 0 .. L : 1 <= L - j \/ j = 0} = {0} /\ B[0] = <<>> /\ s = <<>>
    BY <1>1, <1>4, <1>6
  <2> QED
    BY <2>1 DEF RungsDownTo, B, L
<1>7. CASE L # 0
  <2>1. {j \in 0 .. L : 1 <= L - j \/ j = 0} = {j \in 0 .. L : j # L} /\ s # <<>>
    BY <1>1, <1>7
  <2> QED
    BY <1>5, <2>1 DEF RungsDownTo, B, L
<1> QED
  BY <1>6, <1>7

----------------------------------------------------------------------------
(* Fresh messages, as a remainder among the prefixes with a line at least.  *)
LEMMA TakenIsLeast ==
  ASSUME NEW s \in Seq(Line), NEW a \in Nat
  PROVE  /\ Least(RungsDownTo(Shorter(s), Len(s), 1), Taken(s, a), 0, a)
         /\ \E m \in 0 .. Len(s) : Taken(s, a) = SubSeq(s, 1, m)
<1> DEFINE L == Len(s)
           x == Taken(s, a)
<1>0. L \in Nat
  OBVIOUS
<1>1. PICK f \in [0 .. L -> Nat] :
        /\ \A m \in 0 .. L : Cost(SubSeq(s, 1, m)) = f[m]
        /\ \A m \in 1 .. L : f[m] = f[m - 1] + s[m].cost
        /\ \A i, j \in 0 .. L : i <= j => f[i] <= f[j]
  BY PrefixCosts
<1>2. PICK m \in 0 .. L :
        /\ x = SubSeq(s, 1, m)
        /\ m = 0 => L = 0
        /\ m > 1 => f[m] <= a
        /\ m # L => ~(f[m + 1] <= a)
  BY <1>1, TakenIs
<1>3. \A l \in 0 .. L : Len(SubSeq(s, 1, l)) = l /\ Cost(SubSeq(s, 1, l)) + 0 = f[l]
                        /\ f[l] \in Nat
  BY <1>1
<1> DEFINE Low == {l \in 0 .. L : 1 <= l \/ l = L}
           remains == {SubSeq(s, 1, l) : l \in Low}
<1>4. RungsDownTo(Shorter(s), L, 1) = remains
  <2>1. \A k \in 0 .. L : Shorter(s)[k] = SubSeq(s, 1, L - k)
    BY DEF Shorter
  <2>2. \A l \in 0 .. L : L - l \in 0 .. L /\ L - (L - l) = l
    BY <1>0
  <2>3. \A k \in 0 .. L : (1 <= L - k \/ k = 0) <=> L - k \in Low
    BY <1>0
  <2>4. \A l \in Low : l \in 0 .. L
    OBVIOUS
  <2> HIDE DEF L, Low
  <2>5. ASSUME NEW r \in RungsDownTo(Shorter(s), L, 1) PROVE r \in remains
    BY <2>1, <2>3 DEF RungsDownTo
  <2>6. ASSUME NEW l \in Low PROVE SubSeq(s, 1, l) \in RungsDownTo(Shorter(s), L, 1)
    <3>1. L - l \in 0 .. L /\ L - (L - l) = l /\ l \in 0 .. L
      BY <2>2, <2>4
    <3>2. SubSeq(s, 1, l) = Shorter(s)[L - l] /\ (1 <= L - (L - l) \/ L - l = 0)
      BY <2>1, <2>3, <3>1
    <3> QED
      BY <3>1, <3>2 DEF RungsDownTo
  <2> QED
    BY <2>5, <2>6
<1>5. m \in Low
  BY <1>0, <1>2
<1>6. ASSUME f[m] <= a, NEW l \in Low, f[l] <= a PROVE l <= m
  <2>1. l \in 0 .. L
    OBVIOUS
  <2>2. SUFFICES ASSUME ~(l <= m) PROVE FALSE
    OBVIOUS
  <2>3. m # L /\ m + 1 \in 0 .. L /\ m + 1 <= l
    BY <2>1, <2>2, <1>0
  <2>4. f[m + 1] <= f[l] /\ f[m + 1] \in Nat /\ f[l] \in Nat
    BY <1>1, <2>1, <2>3
  <2>5. ~(f[m + 1] <= a)
    BY <1>2, <2>3
  <2> HIDE DEF L, Low
  <2> QED
    BY <1>6, <2>4, <2>5
<1>7. ASSUME ~(f[m] <= a), NEW l \in Low PROVE m <= l /\ ~(f[l] <= a)
  <2>1. l \in 0 .. L /\ (1 <= l \/ l = L) /\ ~(m > 1)
    BY <1>2, <1>7
  <2>2. m <= l
    BY <1>0, <2>1
  <2>3. f[m] <= f[l] /\ f[m] \in Nat /\ f[l] \in Nat
    BY <1>1, <2>1, <2>2
  <2> HIDE DEF L, Low
  <2> QED
    BY <1>7, <2>2, <2>3
<1>8. \A r \in remains : \E l \in Low : r = SubSeq(s, 1, l) /\ Len(r) = l /\ Cost(r) + 0 = f[l]
  BY <1>3
<1>9. x \in remains /\ Len(x) = m /\ Cost(x) + 0 = f[m]
  BY <1>2, <1>3, <1>5
<1>10. Least(remains, x, 0, a)
  <2> HIDE DEF remains, x, Low, L
  <2>1. f[m] <= a => \A r \in remains : Cost(r) + 0 <= a => Len(r) <= m
    BY <1>6, <1>8
  <2>2. ~(f[m] <= a) => \A r \in remains : m <= Len(r) /\ ~(Cost(r) + 0 <= a)
    BY <1>7, <1>8
  <2> QED
    BY <1>9, <2>1, <2>2 DEF Least
<1> QED
  BY <1>2, <1>4, <1>10

Kinds == {"goal", "board", "retrievals", "messages", "directives", "claimed",
          "activity", "outcomes", "digest", "events"}

LEMMA SettledKept ==
  ASSUME NEW x, NEW B, NEW L \in Nat, NEW fit \in SUBSET Seq(Line), Settles(x, B, L, fit)
  PROVE  x \in Seq(Line)
BY DEF Settles

(* Whatever its kind, a section is shed as its drop rule and allowance ask. *)
LEMMA KeptLeast ==
  ASSUME NEW kind \in Kinds, NEW v \in Views, NEW a \in Nat, mailbox \in Seq(Line)
  PROVE  /\ Kept(kind, a, v) \in Seq(Line)
         /\ Least(Remains(kind, Lines(kind, v)), Kept(kind, a, v),
                  IF kind = "board" THEN v.health ELSE 0, a)
<1> DEFINE s == Lines(kind, v)
           L == Len(s)
           x == Kept(kind, a, v)
<1>1. s \in Seq(Line) /\ v.health \in Nat
  BY DEF Kinds, Lines, Views
<1>2. /\ L \in Nat
      /\ \A r \in Seq(Line) : Len(r) <= 0 <=> r = <<>>
      /\ \A r \in Seq(Line) : Cost(r) + 0 = Cost(r)
  <2>1. \A r \in Seq(Line) : Len(r) <= 0 <=> r = <<>>
    OBVIOUS
  <2>2. ASSUME NEW r \in Seq(Line) PROVE Cost(r) + 0 = Cost(r)
    <3>1. Cost(r) \in Nat
      BY CostType
    <3> QED
      BY <3>1
  <2> HIDE DEF s
  <2> QED
    BY <1>1, <2>1, <2>2
<1> HIDE DEF s, L
<1>3. CASE kind \in Never
  <2>1. x = s /\ Remains(kind, s) = {s} /\ kind # "board"
    BY <1>3 DEF Kept, Remains, Never, s
  <2> HIDE DEF x
  <2>2. Cost(s) + 0 <= a \/ ~(Cost(s) + 0 <= a)
    OBVIOUS
  <2>3. Len(s) <= Len(s)
    BY <1>1
  <2>4. Least({s}, s, 0, a)
    BY <2>3 DEF Least
  <2> QED
    BY <1>1, <2>1, <2>4 DEF x, s
<1>4. CASE kind = "board"
  <2> DEFINE h == v.health
             fit == {t \in Seq(Line) : t = <<>> \/ Cost(t) + h <= a}
             B == BoardLadder(s)
  <2>1. x = ShedBoard(s, h, a)
        /\ Remains(kind, s) = BoardRemains(s)
    BY <1>4 DEF Kept, Remains, Never, s
  <2>2. Settles(x, B, L, fit)
    BY <1>1, <2>1, BoardShed DEF L
  <2>3. \A k \in 0 .. L : B[k] \in Seq(Line) /\ Len(B[k]) = L - k
    BY <1>1, BoardRungs DEF L
  <2> HIDE DEF x, h, B
  <2>4. \A k \in 0 .. L : B[k] \in fit <=> Len(B[k]) <= 0 \/ Cost(B[k]) + h <= a
    BY <1>2, <2>3
  <2> HIDE DEF fit
  <2>5. Least(RungsDownTo(B, L, 0), x, h, a)
    BY <1>2, <2>2, <2>3, <2>4, SettledIsLeast
  <2>6. RungsDownTo(B, L, 0) = BoardRemains(s)
    <3>1. BoardRemains(s) = Rungs(B, L)
      BY <1>1, BoardRemainsIs DEF B, L
    <3>2. {j \in 0 .. L : 0 <= L - j \/ j = 0} = 0 .. L
      BY <1>2
    <3> QED
      BY <3>1, <3>2 DEF Rungs, RungsDownTo
  <2>7. x \in Seq(Line)
    <3>1. fit \in SUBSET Seq(Line)
      BY DEF fit
    <3> QED
      BY <1>2, <2>2, <3>1, SettledKept
  <2> QED
    BY <1>4, <2>1, <2>5, <2>6, <2>7 DEF x, s, h
<1>5. CASE kind = "retrievals"
  <2> DEFINE fit == {t \in Seq(Line) : t = <<>> \/ Cost(t) <= a}
             B == Shorter(s)
  <2>1. x = ShedRetrievals(s, a)
        /\ Remains(kind, s) = Prefixes(s) /\ kind # "board"
    BY <1>5 DEF Kept, Remains, Never, s
  <2>2. Settles(x, B, L, fit)
    BY <1>1, <2>1, RetrievalsShed DEF L
  <2>3. \A k \in 0 .. L : B[k] \in Seq(Line) /\ Len(B[k]) = L - k
    BY <1>1, ShorterRungs DEF L
  <2>4. RungsDownTo(B, L, 0) = Prefixes(s)
    BY <1>1, PrefixRungs DEF L
  <2> HIDE DEF x, B
  <2>5. \A k \in 0 .. L : B[k] \in fit <=> Len(B[k]) <= 0 \/ Cost(B[k]) + 0 <= a
    BY <1>2, <2>3
  <2>6. x \in Seq(Line)
    <3>1. fit \in SUBSET Seq(Line)
      OBVIOUS
    <3> HIDE DEF fit
    <3> QED
      BY <1>2, <2>2, <3>1, SettledKept
  <2> HIDE DEF fit
  <2>7. Least(RungsDownTo(B, L, 0), x, 0, a)
    BY <1>2, <2>2, <2>3, <2>5, SettledIsLeast
  <2> QED
    BY <2>1, <2>4, <2>6, <2>7 DEF x, s
<1>6. CASE kind = "digest"
  <2> DEFINE fit == {t \in Seq(Line) : Len(t) <= 1 \/ Cost(t) <= a}
             B == Shorter(s)
  <2>1. x = ShedDigest(s, a) /\ kind # "board"
        /\ Remains(kind, s) = IF s = <<>> THEN {<<>>} ELSE AtLeastOne(Prefixes(s))
    BY <1>6 DEF Kept, Remains, Never, s
  <2>2. Settles(x, B, L, fit)
    BY <1>1, <2>1, DigestShed DEF L
  <2>3. \A k \in 0 .. L : B[k] \in Seq(Line) /\ Len(B[k]) = L - k
    BY <1>1, ShorterRungs DEF L
  <2>4. RungsDownTo(B, L, 1) = Remains(kind, s)
    BY <1>1, <2>1, PrefixRungs DEF L
  <2> HIDE DEF x, B
  <2>5. \A k \in 0 .. L : B[k] \in fit <=> Len(B[k]) <= 1 \/ Cost(B[k]) + 0 <= a
    BY <1>2, <2>3
  <2>6. x \in Seq(Line)
    <3>1. fit \in SUBSET Seq(Line)
      OBVIOUS
    <3> HIDE DEF fit
    <3> QED
      BY <1>2, <2>2, <3>1, SettledKept
  <2> HIDE DEF fit
  <2>7. Least(RungsDownTo(B, L, 1), x, 0, a)
    BY <1>2, <2>2, <2>3, <2>5, SettledIsLeast
  <2> QED
    BY <2>1, <2>4, <2>6, <2>7 DEF x, s
<1>7. CASE kind \in {"activity", "events"}
  <2> DEFINE fit == {t \in Seq(Line) : Len(t) <= 1 \/ Cost(t) <= a}
             B == Later(s)
  <2>1. x = ShedWindow(s, a) /\ kind # "board"
        /\ Remains(kind, s) = IF s = <<>> THEN {<<>>} ELSE AtLeastOne(Suffixes(s))
    BY <1>7 DEF Kept, Remains, Never, s
  <2>2. Settles(x, B, L, fit)
    BY <1>1, <2>1, WindowShed DEF L
  <2>3. \A k \in 0 .. L : B[k] \in Seq(Line) /\ Len(B[k]) = L - k
    BY <1>1, LaterRungs DEF L
  <2>4. RungsDownTo(B, L, 1) = Remains(kind, s)
    BY <1>1, <2>1, SuffixRungs DEF L
  <2> HIDE DEF x, B
  <2>5. \A k \in 0 .. L : B[k] \in fit <=> Len(B[k]) <= 1 \/ Cost(B[k]) + 0 <= a
    BY <1>2, <2>3
  <2>6. x \in Seq(Line)
    <3>1. fit \in SUBSET Seq(Line)
      OBVIOUS
    <3> HIDE DEF fit
    <3> QED
      BY <1>2, <2>2, <3>1, SettledKept
  <2> HIDE DEF fit
  <2>7. Least(RungsDownTo(B, L, 1), x, 0, a)
    BY <1>2, <2>2, <2>3, <2>5, SettledIsLeast
  <2> QED
    BY <2>1, <2>4, <2>6, <2>7 DEF x, s
<1>8. CASE kind = "messages"
  <2>1. x = Taken(s, a) /\ kind # "board"
        /\ Remains(kind, s) = IF s = <<>> THEN {<<>>} ELSE AtLeastOne(Prefixes(s))
    BY <1>8 DEF Kept, Remains, Never, s
  <2>2. RungsDownTo(Shorter(s), L, 1) = Remains(kind, s)
    BY <1>1, <2>1, PrefixRungs DEF L
  <2> HIDE DEF x
  <2>3. Least(RungsDownTo(Shorter(s), L, 1), x, 0, a)
        /\ \E m \in 0 .. L : x = SubSeq(s, 1, m)
    BY <1>1, <2>1, TakenIsLeast DEF L
  <2>4. \A m \in 0 .. L : SubSeq(s, 1, m) \in Seq(Line)
    BY <1>1 DEF L
  <2> QED
    BY <2>1, <2>2, <2>3, <2>4 DEF x, s
<1>9. \/ kind \in Never \/ kind = "board" \/ kind = "retrievals" \/ kind = "digest"
      \/ kind \in {"activity", "events"} \/ kind = "messages"
  BY DEF Kinds, Never
<1> QED
  BY <1>3, <1>4, <1>5, <1>6, <1>7, <1>8, <1>9

(* The messages a prompt shows are the oldest of the mailbox.               *)
LEMMA MessagesKept ==
  ASSUME NEW v, NEW a \in Nat, mailbox \in Seq(Line)
  PROVE  \E m \in 0 .. Len(mailbox) : Kept("messages", a, v) = SubSeq(mailbox, 1, m)
<1>1. Kept("messages", a, v) = Taken(mailbox, a)
  BY DEF Kept, Lines, Never
<1> QED
  BY <1>1, TakenIsLeast

----------------------------------------------------------------------------
(* The sections of a role's policy, each of a priority of its own.          *)
Sections == [kind : Kinds, budget : Nat, priority : Nat]

InOrder(policy, o) ==
  /\ o \in [1 .. Len(policy) -> 1 .. Len(policy)]
  /\ \A m \in 1 .. Len(policy) : policy[o[m]].priority = m - 1
  /\ \A i \in 1 .. Len(policy) : o[policy[i].priority + 1] = i
                                 /\ policy[i].priority \in 0 .. Len(policy) - 1

LEMMA PolicyIs ==
  ASSUME NEW r \in {"orchestrator", "team", "meta"}
  PROVE  Policy(r) \in Seq(Sections) /\ Len(Policy(r)) \in 4 .. 6
         /\ \E o : InOrder(Policy(r), o)
<1>1. CASE r = "orchestrator"
  <2> DEFINE o == <<1, 5, 2, 4, 3>>
             policy == <<Section("goal", 200, 0), Section("board", 800, 2),
                         Section("retrievals", 600, 4), Section("messages", 800, 3),
                         Section("directives", 400, 1)>>
  <2>1. Policy(r) = policy
    BY <1>1 DEF Policy
  <2>2. Len(policy) = 5 /\ policy \in Seq(Sections)
    <3>1. \A i \in 1 .. 5 : policy[i] \in Sections
      BY DEF Section, Sections, Kinds
    <3>2. Len(policy) = 5 /\ policy \in Seq({policy[i] : i \in 1 .. 5})
      OBVIOUS
    <3> HIDE DEF policy
    <3>3. \A i \in 1 .. Len(policy) : policy[i] \in Sections
      BY <3>1, <3>2
    <3>4. policy = [i \in 1 .. Len(policy) |-> policy[i]] /\ Len(policy) \in Nat
      BY <3>2
    <3> QED
      BY <3>2, <3>3, <3>4
  <2>3. /\ policy[1].priority = 0 /\ policy[2].priority = 2 /\ policy[3].priority = 4
        /\ policy[4].priority = 3 /\ policy[5].priority = 1
    BY DEF Section
  <2> HIDE DEF policy
  <2>4. InOrder(policy, o)
    <3>1. o \in [1 .. 5 -> 1 .. 5]
      OBVIOUS
    <3>2. \A m \in 1 .. 5 : policy[o[m]].priority = m - 1
      BY <2>3
    <3>3. \A i \in 1 .. 5 : o[policy[i].priority + 1] = i /\ policy[i].priority \in 0 .. 4
      BY <2>3
    <3>4. Len(policy) = 5
      BY <2>2
    <3> HIDE DEF o
    <3> QED
      BY <3>1, <3>2, <3>3, <3>4 DEF InOrder
  <2> QED
    BY <2>1, <2>2, <2>4
<1>2. CASE r = "team"
  <2> DEFINE o == <<1, 3, 4, 2, 6, 5>>
             policy == <<Section("goal", 200, 0), Section("board", 800, 3),
                         Section("claimed", 100, 1), Section("activity", 400, 2),
                         Section("retrievals", 600, 5), Section("messages", 800, 4)>>
  <2>1. Policy(r) = policy
    BY <1>2 DEF Policy
  <2>2. Len(policy) = 6 /\ policy \in Seq(Sections)
    <3>1. \A i \in 1 .. 6 : policy[i] \in Sections
      BY DEF Section, Sections, Kinds
    <3>2. Len(policy) = 6 /\ policy \in Seq({policy[i] : i \in 1 .. 6})
      OBVIOUS
    <3> HIDE DEF policy
    <3>3. \A i \in 1 .. Len(policy) : policy[i] \in Sections
      BY <3>1, <3>2
    <3>4. policy = [i \in 1 .. Len(policy) |-> policy[i]] /\ Len(policy) \in Nat
      BY <3>2
    <3> QED
      BY <3>2, <3>3, <3>4
  <2>3. /\ policy[1].priority = 0 /\ policy[2].priority = 3 /\ policy[3].priority = 1
        /\ policy[4].priority = 2 /\ policy[5].priority = 5 /\ policy[6].priority = 4
    BY DEF Section
  <2> HIDE DEF policy
  <2>4. InOrder(policy, o)
    <3>1. o \in [1 .. 6 -> 1 .. 6]
      OBVIOUS
    <3>2. \A m \in 1 .. 6 : policy[o[m]].priority = m - 1
      BY <2>3
    <3>3. \A i \in 1 .. 6 : o[policy[i].priority + 1] = i /\ policy[i].priority \in 0 .. 5
      BY <2>3
    <3>4. Len(policy) = 6
      BY <2>2
    <3> HIDE DEF o
    <3> QED
      BY <3>1, <3>2, <3>3, <3>4 DEF InOrder
  <2> QED
    BY <2>1, <2>2, <2>4
<1>3. CASE r = "meta"
  <2> DEFINE o == <<1, 3, 2, 4>>
             policy == <<Section("goal", 200, 0), Section("digest", 800, 2),
                         Section("outcomes", 400, 1), Section("events", 400, 3)>>
  <2>1. Policy(r) = policy
    BY <1>3 DEF Policy
  <2>2. Len(policy) = 4 /\ policy \in Seq(Sections)
    <3>1. \A i \in 1 .. 4 : policy[i] \in Sections
      BY DEF Section, Sections, Kinds
    <3>2. Len(policy) = 4 /\ policy \in Seq({policy[i] : i \in 1 .. 4})
      OBVIOUS
    <3> HIDE DEF policy
    <3>3. \A i \in 1 .. Len(policy) : policy[i] \in Sections
      BY <3>1, <3>2
    <3>4. policy = [i \in 1 .. Len(policy) |-> policy[i]] /\ Len(policy) \in Nat
      BY <3>2
    <3> QED
      BY <3>2, <3>3, <3>4
  <2>3. /\ policy[1].priority = 0 /\ policy[2].priority = 2 /\ policy[3].priority = 1
        /\ policy[4].priority = 3
    BY DEF Section
  <2> HIDE DEF policy
  <2>4. InOrder(policy, o)
    <3>1. o \in [1 .. 4 -> 1 .. 4]
      OBVIOUS
    <3>2. \A m \in 1 .. 4 : policy[o[m]].priority = m - 1
      BY <2>3
    <3>3. \A i \in 1 .. 4 : o[policy[i].priority + 1] = i /\ policy[i].priority \in 0 .. 3
      BY <2>3
    <3>4. Len(policy) = 4
      BY <2>2
    <3> HIDE DEF o
    <3> QED
      BY <3>1, <3>2, <3>3, <3>4 DEF InOrder
  <2> QED
    BY <2>1, <2>2, <2>4
<1> QED
  BY <1>1, <1>2, <1>3

(* The allocation pass follows the priorities.                              *)
LEMMA AllocationOrderIs ==
  ASSUME NEW policy \in Seq(Sections), NEW o, InOrder(policy, o)
  PROVE  AllocationOrder(policy) = o
<1> DEFINE N == Len(policy)
           p(i) == policy[i].priority
           Ahead(i) == {j \in 1 .. N : \/ p(j) < p(i)
                                       \/ p(j) = p(i) /\ j < i}
<1>1. N \in Nat /\ DOMAIN policy = 1 .. N
  OBVIOUS
<1>2. /\ o \in [1 .. N -> 1 .. N]
      /\ \A m \in 1 .. N : p(o[m]) = m - 1
      /\ \A i \in 1 .. N : o[p(i) + 1] = i /\ p(i) \in 0 .. N - 1
  BY DEF InOrder
<1> HIDE DEF N, p
<1>3. ASSUME NEW i \in 1 .. N PROVE Cardinality(Ahead(i)) = p(i)
  <2> DEFINE f == [k \in 1 .. p(i) |-> o[k]]
  <2>1. p(i) \in Nat /\ \A k \in 1 .. p(i) : k \in 1 .. N /\ k - 1 < p(i)
    <3> DEFINE q == p(i)
    <3>1. q \in 0 .. N - 1
      BY <1>2
    <3> HIDE DEF q
    <3>2. q \in Nat /\ \A k \in 1 .. q : k \in 1 .. N /\ k - 1 < q
      BY <1>1, <3>1
    <3> QED
      BY <3>2 DEF q
  <2>2. \A k \in 1 .. p(i) : o[k] \in Ahead(i)
    BY <1>2, <2>1
  <2>3. \A j \in Ahead(i) : j \in 1 .. N /\ p(j) < p(i)
    <3>1. ASSUME NEW j \in Ahead(i), ~(p(j) < p(i)) PROVE FALSE
      <4>1. p(j) = p(i) /\ j < i /\ j \in 1 .. N
        BY <3>1
      <4>2. j = i
        BY <1>2, <4>1
      <4> QED
        BY <1>1, <4>1, <4>2
    <3> QED
      BY <3>1
  <2> HIDE DEF Ahead
  <2>4. \A j \in Ahead(i) : p(j) + 1 \in 1 .. p(i) /\ f[p(j) + 1] = j
    BY <1>2, <2>1, <2>3
  <2>5. f \in [1 .. p(i) -> Ahead(i)]
    BY <2>2
  <2>6. \A a, b \in 1 .. p(i) : f[a] = f[b] => a = b
    <3>1. ASSUME NEW a \in 1 .. p(i), NEW b \in 1 .. p(i), o[a] = o[b] PROVE a = b
      <4>1. p(o[a]) = a - 1 /\ p(o[b]) = b - 1
        BY <1>2, <2>1
      <4> QED
        BY <2>1, <3>1, <4>1
    <3> QED
      BY <3>1
  <2>7. f \in Bijection(1 .. p(i), Ahead(i))
    <3>1. \A j \in Ahead(i) : \E k \in 1 .. p(i) : f[k] = j
      BY <2>4
    <3> DEFINE P == 1 .. p(i)
    <3> HIDE DEF f, P
    <3>2. f \in Injection(P, Ahead(i))
      BY <2>5, <2>6 DEF Injection, IsInjective, P
    <3>3. f \in Surjection(P, Ahead(i))
      BY <2>5, <3>1 DEF Surjection, P
    <3> QED
      BY <3>2, <3>3 DEF Bijection, P
  <2>8. IsFiniteSet(1 .. p(i)) /\ Cardinality(1 .. p(i)) = p(i)
    BY <2>1, FS_Interval
  <2>9. ExistsBijection(1 .. p(i), Ahead(i))
    BY <2>7 DEF ExistsBijection
  <2> QED
    BY <2>8, <2>9, FS_Bijection
<1>4. AllocationOrder(policy) = [n \in 1 .. N |-> CHOOSE i \in 1 .. N : Cardinality(Ahead(i)) = n - 1]
  BY <1>1 DEF AllocationOrder, p
<1> HIDE DEF Ahead
<1>5. ASSUME NEW n \in 1 .. N
      PROVE  (CHOOSE i \in 1 .. N : Cardinality(Ahead(i)) = n - 1) = o[n]
  <2>1. o[n] \in 1 .. N /\ p(o[n]) = n - 1
    BY <1>2
  <2>2. \A i \in 1 .. N : Cardinality(Ahead(i)) = n - 1 => i = o[n]
    <3>1. ASSUME NEW i \in 1 .. N, p(i) = n - 1 PROVE i = o[n]
      <4>1. o[p(i) + 1] = i /\ (n - 1) + 1 = n
        BY <1>2
      <4> QED
        BY <3>1, <4>1
    <3> QED
      BY <1>3, <3>1
  <2>3. Cardinality(Ahead(o[n])) = n - 1
    BY <1>3, <2>1
  <2> QED
    BY <2>1, <2>2, <2>3
<1>6. o = [n \in 1 .. N |-> o[n]]
  BY <1>2
<1> QED
  BY <1>4, <1>5, <1>6

(* What rendering a section makes of it.                                    *)
Shown == [kind : Kinds, kept : Seq(Line), allowed : Nat, dropped : Int, used : Nat]

LEMMA RenderIs ==
  ASSUME NEW sec \in Sections, NEW a \in Nat, NEW v \in Views, mailbox \in Seq(Line)
  PROVE  /\ Render(sec, a, v) \in Shown
         /\ Render(sec, a, v).kind = sec.kind
         /\ Render(sec, a, v).kept = Kept(sec.kind, a, v)
         /\ Render(sec, a, v).allowed = a
<1> DEFINE kind == sec.kind
           kept == Kept(kind, a, v)
           lost == Len(Lines(kind, v)) - Len(kept)
           dropped == IF kind = "events" THEN 0 ELSE lost
           note == IF kind \in {"activity", "messages"} /\ dropped > 0 THEN Marker
                   ELSE IF kept = <<>> THEN Placeholder(kind) ELSE 0
           health == IF kind = "board" THEN v.health ELSE 0
<1>1. Render(sec, a, v) = [kind |-> kind, kept |-> kept, allowed |-> a,
                           dropped |-> dropped, used |-> Cost(kept) + note + health]
  BY DEF Render
<1>2. kind \in Kinds /\ kept \in Seq(Line) /\ health \in Nat /\ Lines(kind, v) \in Seq(Line)
  <2>1. kind \in Kinds
    BY DEF Sections
  <2>2. kept \in Seq(Line)
    BY <2>1, KeptLeast
  <2>3. v.health \in Nat /\ Lines(kind, v) \in Seq(Line)
    BY <2>1 DEF Kinds, Lines, Views
  <2> QED
    BY <2>1, <2>2, <2>3
<1>3. Cost(kept) \in Nat
  BY <1>2, CostType
<1>4. note \in Nat
  BY DEF Marker, Placeholder
<1>5. dropped \in Int
  <2>1. Len(kept) \in Nat /\ Len(Lines(kind, v)) \in Nat
    BY <1>2
  <2> HIDE DEF kept
  <2> QED
    BY <2>1
<1> HIDE DEF kind, kept, dropped, note, health
<1>6. Cost(kept) + note + health \in Nat
  BY <1>2, <1>3, <1>4
<1> QED
  BY <1>1, <1>2, <1>5, <1>6 DEF Shown, kind, kept

(* A step of the allocation pass.                                           *)
Allowance(budget, left) == IF left = NoPool THEN budget ELSE Lesser(budget, left)
LeftOver(left, used) == IF left = NoPool THEN NoPool ELSE left - Lesser(left, used)
PassState(N) == [left : Nat \cup {NoPool}, out : [1 .. N -> Sections \cup Shown]]

LEMMA AllocateIs ==
  ASSUME NEW policy \in Seq(Sections), NEW v \in Views, mailbox \in Seq(Line),
         NEW pass \in PassState(Len(policy)), NEW i \in 1 .. Len(policy), NEW a, NEW shown,
         a = Allowance(policy[i].budget, pass.left), shown = Render(policy[i], a, v)
  PROVE  /\ a \in Nat /\ shown \in Shown
         /\ Allocate(policy, v, pass, i) \in PassState(Len(policy))
         /\ Allocate(policy, v, pass, i).left = LeftOver(pass.left, shown.used)
         /\ Allocate(policy, v, pass, i).out = [pass.out EXCEPT ![i] = shown]
<1>1. policy[i] \in Sections /\ policy[i].budget \in Nat
  <2>1. policy[i] \in Sections
    OBVIOUS
  <2> QED
    BY <2>1 DEF Sections
<1>2. pass.left \in Nat \cup {NoPool} /\ pass.out \in [1 .. Len(policy) -> Sections \cup Shown]
  BY DEF PassState
<1>3. a \in Nat
  BY <1>1, <1>2 DEF Allowance, Lesser
<1>4. shown \in Shown /\ shown.used \in Nat
  <2>1. shown \in Shown
    BY <1>1, <1>3, RenderIs
  <2> QED
    BY <2>1 DEF Shown
<1>5. LeftOver(pass.left, shown.used) \in Nat \cup {NoPool}
  BY <1>2, <1>4 DEF LeftOver, Lesser
<1>6. [pass.out EXCEPT ![i] = shown] \in [1 .. Len(policy) -> Sections \cup Shown]
  BY <1>2, <1>4
<1>7. Allocate(policy, v, pass, i) =
        [left |-> LeftOver(pass.left, shown.used), out |-> [pass.out EXCEPT ![i] = shown]]
  BY DEF Allocate, Allowance, LeftOver
<1> QED
  BY <1>3, <1>4, <1>5, <1>6, <1>7 DEF PassState

(* The states of the allocation pass, section after section.                *)
Passes(c, policy, o, p, v) ==
  /\ c \in [0 .. Len(policy) -> PassState(Len(policy))]
  /\ c[0] = [left |-> p, out |-> policy]
  /\ \A n \in 1 .. Len(policy) : c[n] = Allocate(policy, v, c[n - 1], o[n])

LEMMA AssembleIs ==
  ASSUME NEW r \in {"orchestrator", "team", "meta"}, NEW p \in Nat \cup {NoPool},
         NEW v \in Views, mailbox \in Seq(Line), NEW o, InOrder(Policy(r), o)
  PROVE  \E c : Passes(c, Policy(r), o, p, v) /\ Assemble(r, p, v) = c[Len(Policy(r))].out
<1> DEFINE policy == Policy(r)
           N == Len(policy)
           X == PassState(N)
           start == [left |-> p, out |-> policy]
           seq == AllocationOrder(policy)
           Then(f, n) == Only({Allocate(policy, v, x, y) : x \in {f[n - 1]}, y \in {seq[n]}})
           Made(f) == f = [n \in 0 .. Len(seq) |-> IF n = 0 THEN start ELSE Then(f, n)]
           c == CHOOSE f : Made(f)
           h == [q \in (1 .. N) \X X |-> Allocate(policy, v, q[2], o[q[1]])]
<1>1. Assemble(r, p, v) = c[Len(seq)].out
  BY DEF Assemble, Iterate
<1>2. policy \in Seq(Sections) /\ N \in Nat /\ o \in [1 .. N -> 1 .. N]
  BY PolicyIs DEF InOrder
<1>3. seq = o /\ Len(seq) = N
  <2>1. seq = o
    BY <1>2, AllocationOrderIs
  <2>2. Len(o) = N
    <3> HIDE DEF N
    <3>1. o \in Seq(1 .. N) /\ DOMAIN o = 1 .. N
      BY <1>2
    <3> QED
      BY <1>2, <3>1
  <2> QED
    BY <2>1, <2>2
<1>4. \A f, n : Then(f, n) = Allocate(policy, v, f[n - 1], o[n])
  <2> HIDE DEF Then, policy, seq
  <2> SUFFICES ASSUME NEW f, NEW n
               PROVE  Then(f, n) = Allocate(policy, v, f[n - 1], o[n])
    OBVIOUS
  <2> DEFINE Results == {Allocate(policy, v, x, y) : x \in {f[n - 1]}, y \in {seq[n]}}
  <2>1. Results = {Allocate(policy, v, f[n - 1], o[n])}
    BY <1>3
  <2>2. Then(f, n) = Only(Results)
    BY DEF Then
  <2> HIDE DEF Results
  <2> QED
    BY <2>1, <2>2, OnlyOne
<1>5. start \in X
  <2>1. policy \in [1 .. N -> Sections \cup Shown]
    BY <1>2
  <2> HIDE DEF policy, N
  <2> QED
    BY <2>1 DEF PassState
<1>6. ASSUME NEW x \in X, NEW i \in 1 .. N PROVE Allocate(policy, v, x, i) \in X
  BY <1>2, <1>6, AllocateIs
<1> HIDE DEF Then, policy, seq, X, N, start
<1>7. PICK e \in [0 .. N -> X] : Loops(e, N, start, h)
  <2>1. ASSUME NEW q \in (1 .. N) \X X PROVE Allocate(policy, v, q[2], o[q[1]]) \in X
    <3>1. q[1] \in 1 .. N /\ q[2] \in X
      OBVIOUS
    <3> QED
      BY <1>2, <1>6, <3>1
  <2>2. h \in [(1 .. N) \X X -> X]
    BY <2>1
  <2> HIDE DEF h
  <2> QED
    BY <1>2, <1>5, <2>2, LoopExists
<1>8. Made(e)
  <2>1. ASSUME NEW n \in 1 .. N PROVE e[n] = Allocate(policy, v, e[n - 1], o[n])
    <3>1. n - 1 \in 0 .. N /\ e[n - 1] \in X
      BY <1>2
    <3>2. h[<<n, e[n - 1]>>] = Allocate(policy, v, e[n - 1], o[n])
      BY <3>1
    <3> HIDE DEF h
    <3> QED
      BY <1>7, <3>2 DEF Loops
  <2>2. e[0] = start
    BY <1>7 DEF Loops
  <2>3. \A n \in 0 .. N : e[n] = IF n = 0 THEN start ELSE Then(e, n)
    <3>1. \A n \in 0 .. N : n = 0 \/ n \in 1 .. N
      BY <1>2
    <3>2. \A n : Then(e, n) = Allocate(policy, v, e[n - 1], o[n])
      BY <1>4
    <3> HIDE DEF Made, h, c
    <3> QED
      BY <2>1, <2>2, <3>1, <3>2
  <2>4. e = [n \in 0 .. N |-> e[n]]
    OBVIOUS
  <2> QED
    BY <1>3, <2>3, <2>4
<1>9. Made(c)
  <2> HIDE DEF Made
  <2> QED
    BY <1>8, Zenon
<1> HIDE DEF c
<1>10. c[0] = start /\ \A n \in 1 .. N : c[n] = Allocate(policy, v, c[n - 1], o[n])
  <2>1. \A n \in 0 .. N : c[n] = IF n = 0 THEN start ELSE Then(c, n)
    BY <1>3, <1>9
  <2>2. \A n : Then(c, n) = Allocate(policy, v, c[n - 1], o[n])
    BY <1>4
  <2>3. 0 \in 0 .. N /\ \A n \in 1 .. N : n \in 0 .. N /\ n # 0
    BY <1>2
  <2> HIDE DEF Made, h
  <2> QED
    BY <2>1, <2>2, <2>3
<1>11. c \in [0 .. N -> X]
  <2> DEFINE Good == {n \in 0 .. N : c[n] \in X}
  <2>1. 0 \in Good
    BY <1>2, <1>5, <1>10
  <2>2. ASSUME NEW n \in 1 .. N, n - 1 \in Good PROVE n \in Good
    <3>1. o[n] \in 1 .. N /\ n \in 0 .. N
      BY <1>2
    <3> QED
      BY <1>6, <1>10, <2>2, <3>1
  <2>3. \A n \in 0 .. N : n \in Good
    <3> HIDE DEF Good
    <3> QED
      BY <1>2, <2>1, <2>2, UpTo
  <2>4. c = [n \in 0 .. N |-> c[n]]
    BY <1>3, <1>9
  <2> QED
    BY <2>3, <2>4
<1>12. Passes(c, policy, o, p, v)
  BY <1>10, <1>11 DEF Passes, N, X, start
<1> QED
  BY <1>1, <1>3, <1>12 DEF policy, N

(* A prompt Q in the terms of its sections: left[m] is what the first m of  *)
(* the pass left of the pool.                                               *)
Allocated(Q, left, policy, o, p, v) ==
  LET N == Len(policy) IN
  /\ Q \in [1 .. N -> Shown] /\ left \in [0 .. N -> Nat \cup {NoPool}] /\ left[0] = p
  /\ \A m \in 1 .. N :
       /\ Q[o[m]] = Render(policy[o[m]], Allowance(policy[o[m]].budget, left[m - 1]), v)
       /\ Allowance(policy[o[m]].budget, left[m - 1]) \in Nat
       /\ left[m] = LeftOver(left[m - 1], Q[o[m]].used)

LEMMA PassesAllocate ==
  ASSUME NEW policy \in Seq(Sections), NEW v \in Views, mailbox \in Seq(Line),
         NEW p \in Nat \cup {NoPool}, NEW o, InOrder(policy, o),
         NEW c, Passes(c, policy, o, p, v)
  PROVE  \E left : Allocated(c[Len(policy)].out, left, policy, o, p, v)
<1> DEFINE N == Len(policy)
           left == [n \in 0 .. N |-> c[n].left]
           allowed(m) == Allowance(policy[o[m]].budget, c[m - 1].left)
           shown(m) == Render(policy[o[m]], allowed(m), v)
<1>1. N \in Nat
  OBVIOUS
<1>2. /\ o \in [1 .. N -> 1 .. N]
      /\ \A m \in 1 .. N : policy[o[m]].priority = m - 1
      /\ \A i \in 1 .. N : o[policy[i].priority + 1] = i /\ policy[i].priority \in 0 .. N - 1
  BY DEF InOrder
<1>3. /\ c \in [0 .. N -> PassState(N)]
      /\ c[0] = [left |-> p, out |-> policy]
      /\ \A n \in 1 .. N : c[n] = Allocate(policy, v, c[n - 1], o[n])
  BY DEF Passes
<1>4. \A n \in 0 .. N : c[n].left \in Nat \cup {NoPool}
                        /\ c[n].out \in [1 .. N -> Sections \cup Shown]
  <2> HIDE DEF N
  <2>1. \A n \in 0 .. N : c[n] \in PassState(N)
    BY <1>3
  <2> QED
    BY <2>1 DEF PassState
<1> HIDE DEF N
<1>5. ASSUME NEW m \in 1 .. N
      PROVE  /\ allowed(m) \in Nat /\ shown(m) \in Shown
             /\ c[m].left = LeftOver(c[m - 1].left, shown(m).used)
             /\ c[m].out = [c[m - 1].out EXCEPT ![o[m]] = shown(m)]
  <2> DEFINE x == c[m - 1]
             i == o[m]
             a == allowed(m)
             s == shown(m)
  <2>1. m - 1 \in 0 .. N /\ i \in 1 .. N
    BY <1>1, <1>2
  <2>2. x \in PassState(N) /\ c[m] = Allocate(policy, v, x, i)
    BY <1>3, <2>1
  <2>3. x \in PassState(Len(policy)) /\ i \in 1 .. Len(policy)
    BY <2>1, <2>2 DEF N
  <2>4. a = Allowance(policy[i].budget, x.left) /\ s = Render(policy[i], a, v)
    OBVIOUS
  <2>5. a \in Nat /\ s \in Shown /\ c[m].left = LeftOver(x.left, s.used)
        /\ c[m].out = [x.out EXCEPT ![i] = s]
    <3> HIDE DEF x, i, a, s
    <3> QED
      BY <2>2, <2>3, <2>4, AllocateIs
  <2> QED
    BY <2>5
<1> HIDE DEF allowed, shown
<1> DEFINE Good == {n \in 0 .. N : \A m \in 1 .. n : c[n].out[o[m]] = shown(m)}
<1>6. 0 \in Good
  BY <1>1
<1>7. ASSUME NEW n \in 1 .. N, n - 1 \in Good PROVE n \in Good
  <2>1. c[n].out = [c[n - 1].out EXCEPT ![o[n]] = shown(n)]
    BY <1>5
  <2>2. n \in 0 .. N /\ n - 1 \in 0 .. N /\ o[n] \in 1 .. N
    BY <1>1, <1>2
  <2>3. ASSUME NEW m \in 1 .. n PROVE c[n].out[o[m]] = shown(m)
    <3>1. m \in 1 .. N /\ o[m] \in 1 .. N
      BY <1>1, <1>2
    <3>2. CASE m = n
      BY <1>4, <2>1, <2>2, <3>2
    <3>3. CASE m # n
      <4>1. m \in 1 .. n - 1 /\ m - 1 # n - 1
        BY <1>1, <3>3
      <4>2. o[m] # o[n]
        BY <1>2, <3>1, <4>1
      <4>3. c[n - 1].out[o[m]] = shown(m)
        BY <1>7, <4>1
      <4> QED
        BY <1>4, <2>1, <2>2, <3>1, <4>2, <4>3
    <3> QED
      BY <3>2, <3>3
  <2> QED
    BY <2>2, <2>3
<1>8. \A m \in 1 .. N : c[N].out[o[m]] = shown(m)
  <2>1. \A n \in 0 .. N : n \in Good
    <3> HIDE DEF Good
    <3> QED
      BY <1>1, <1>6, <1>7, UpTo
  <2>2. N \in 0 .. N
    BY <1>1
  <2> QED
    BY <2>1, <2>2
<1> DEFINE Q == c[N].out
<1>9. Q \in [1 .. N -> Shown]
  <2>1. N \in 0 .. N
    BY <1>1
  <2>2. Q \in [1 .. N -> Sections \cup Shown]
    BY <1>4, <2>1
  <2>3. ASSUME NEW i \in 1 .. N PROVE Q[i] \in Shown
    <3>1. policy[i].priority \in 0 .. N - 1 /\ o[policy[i].priority + 1] = i
      BY <1>2
    <3>2. policy[i].priority + 1 \in 1 .. N
      BY <1>1, <3>1
    <3> QED
      BY <1>5, <1>8, <3>1, <3>2
  <2> HIDE DEF Q
  <2> QED
    BY <2>2, <2>3
<1>10. left \in [0 .. N -> Nat \cup {NoPool}] /\ left[0] = p
  <2>1. 0 \in 0 .. N /\ c[0].left = p
    BY <1>1, <1>3
  <2> QED
    BY <1>4, <2>1
<1>11. ASSUME NEW m \in 1 .. N
       PROVE  /\ Q[o[m]] = Render(policy[o[m]], Allowance(policy[o[m]].budget, left[m - 1]), v)
              /\ Allowance(policy[o[m]].budget, left[m - 1]) \in Nat
              /\ left[m] = LeftOver(left[m - 1], Q[o[m]].used)
  <2>1. m \in 0 .. N /\ m - 1 \in 0 .. N
    BY <1>1
  <2>2. left[m] = c[m].left /\ left[m - 1] = c[m - 1].left
    BY <2>1
  <2>3. Q[o[m]] = shown(m)
    BY <1>8
  <2> HIDE DEF left, Q
  <2> QED
    BY <1>5, <2>2, <2>3 DEF shown, allowed
<1>12. Allocated(Q, left, policy, o, p, v)
  <2> HIDE DEF left, Q
  <2> QED
    BY <1>9, <1>10, <1>11 DEF Allocated, N
<1> QED
  BY <1>12 DEF N

----------------------------------------------------------------------------
(* Sums over the places of a prompt.                                        *)
Adds(g, Q, S, N) ==
  /\ g \in [0 .. N -> Nat]
  /\ g[0] = 0
  /\ \A n \in 1 .. N : g[n] = IF n \in S THEN g[n - 1] + Q[n].used ELSE g[n - 1]

LEMMA UsedByIs ==
  ASSUME NEW N \in Nat, NEW Q \in [1 .. N -> Shown], NEW S
  PROVE  \E g : Adds(g, Q, S, N) /\ UsedBy(Q, S) = g[N]
<1> DEFINE seq == [j \in DOMAIN Q |-> j]
           Add(x, j) == IF j \in S THEN x + Q[j].used ELSE x
           Then(f, n) == Only({Add(x, j) : x \in {f[n - 1]}, j \in {seq[n]}})
           Made(f) == f = [n \in 0 .. Len(seq) |-> IF n = 0 THEN 0 ELSE Then(f, n)]
           c == CHOOSE f : Made(f)
           h == [q \in (1 .. N) \X Nat |-> Add(q[2], q[1])]
<1>1. UsedBy(Q, S) = c[Len(seq)]
  BY DEF UsedBy, Iterate
<1>2. Len(seq) = N /\ \A n \in 1 .. N : seq[n] = n
  <2>1. seq = [j \in 1 .. N |-> j]
    OBVIOUS
  <2>2. [j \in 1 .. N |-> j] \in Seq(1 .. N) /\ DOMAIN [j \in 1 .. N |-> j] = 1 .. N
    OBVIOUS
  <2> HIDE DEF seq
  <2> QED
    BY <2>1, <2>2
<1>3. \A n \in 1 .. N : Q[n].used \in Nat
  <2>1. \A n \in 1 .. N : Q[n] \in Shown
    OBVIOUS
  <2> QED
    BY <2>1 DEF Shown
<1>4. \A f : \A n \in 1 .. N : Then(f, n) = Add(f[n - 1], n)
  <2> HIDE DEF Then, Add, seq
  <2> SUFFICES ASSUME NEW f, NEW n \in 1 .. N PROVE Then(f, n) = Add(f[n - 1], n)
    OBVIOUS
  <2> DEFINE Results == {Add(x, j) : x \in {f[n - 1]}, j \in {seq[n]}}
  <2>1. Results = {Add(f[n - 1], n)}
    BY <1>2
  <2>2. Then(f, n) = Only(Results)
    BY DEF Then
  <2> HIDE DEF Results
  <2> QED
    BY <2>1, <2>2, OnlyOne
<1>5. \A x \in Nat : \A n \in 1 .. N : Add(x, n) \in Nat
  BY <1>3
<1> HIDE DEF Then, seq, Add
<1>6. PICK e \in [0 .. N -> Nat] : Loops(e, N, 0, h)
  <2>1. h \in [(1 .. N) \X Nat -> Nat]
    BY <1>5
  <2> HIDE DEF h
  <2> QED
    BY <2>1, LoopExists
<1>7. ASSUME NEW n \in 1 .. N PROVE e[n] = Add(e[n - 1], n)
  <2>1. n - 1 \in 0 .. N /\ e[n - 1] \in Nat
    OBVIOUS
  <2>2. h[<<n, e[n - 1]>>] = Add(e[n - 1], n)
    BY <2>1
  <2> HIDE DEF h
  <2> QED
    BY <1>6, <2>2 DEF Loops
<1>8. Made(e)
  <2>1. e[0] = 0
    BY <1>6 DEF Loops
  <2>2. \A n \in 0 .. N : n = 0 \/ n \in 1 .. N
    OBVIOUS
  <2>3. \A n \in 1 .. N : Then(e, n) = Add(e[n - 1], n)
    BY <1>4
  <2>4. e = [n \in 0 .. N |-> e[n]]
    OBVIOUS
  <2>5. \A n \in 0 .. N : e[n] = IF n = 0 THEN 0 ELSE Then(e, n)
    <3> HIDE DEF Made, h, c
    <3> QED
      BY <1>7, <2>1, <2>2, <2>3
  <2> QED
    BY <1>2, <2>4, <2>5
<1>9. Made(c)
  <2> HIDE DEF Made
  <2> QED
    BY <1>8, Zenon
<1> HIDE DEF c
<1>10. c[0] = 0 /\ \A n \in 1 .. N : c[n] = Add(c[n - 1], n)
  <2>1. \A n \in 0 .. N : c[n] = IF n = 0 THEN 0 ELSE Then(c, n)
    BY <1>2, <1>9
  <2>2. \A n \in 1 .. N : Then(c, n) = Add(c[n - 1], n)
    BY <1>4
  <2>3. 0 \in 0 .. N /\ \A n \in 1 .. N : n \in 0 .. N /\ n # 0
    OBVIOUS
  <2> HIDE DEF Made, h
  <2> QED
    BY <2>1, <2>2, <2>3
<1>11. c \in [0 .. N -> Nat]
  <2> DEFINE Good == {n \in 0 .. N : c[n] \in Nat}
  <2>1. 0 \in Good
    BY <1>10
  <2>2. ASSUME NEW n \in 1 .. N, n - 1 \in Good PROVE n \in Good
    <3>1. c[n - 1] \in Nat /\ n \in 0 .. N
      BY <2>2
    <3>2. Add(c[n - 1], n) \in Nat
      BY <1>5, <3>1
    <3> QED
      BY <1>10, <3>1, <3>2
  <2>3. \A n \in 0 .. N : n \in Good
    <3> HIDE DEF Good
    <3> QED
      BY <2>1, <2>2, UpTo
  <2>4. c = [n \in 0 .. N |-> c[n]]
    BY <1>2, <1>9
  <2> QED
    BY <2>3, <2>4
<1>12. Adds(c, Q, S, N)
  BY <1>10, <1>11 DEF Adds, Add
<1> QED
  BY <1>1, <1>2, <1>12

(* No place uses nothing, and one place more adds what it used.             *)
LEMMA UsedByNone ==
  ASSUME NEW N \in Nat, NEW Q \in [1 .. N -> Shown]
  PROVE  UsedBy(Q, {}) = 0
<1>1. PICK g : Adds(g, Q, {}, N) /\ UsedBy(Q, {}) = g[N]
  BY UsedByIs
<1> DEFINE Good == {n \in 0 .. N : g[n] = 0}
<1>2. 0 \in Good
  BY <1>1 DEF Adds
<1>3. ASSUME NEW n \in 1 .. N, n - 1 \in Good PROVE n \in Good
  BY <1>1, <1>3 DEF Adds
<1>4. \A n \in 0 .. N : n \in Good
  <2> HIDE DEF Good
  <2> QED
    BY <1>2, <1>3, UpTo
<1>5. N \in 0 .. N
  OBVIOUS
<1> QED
  BY <1>1, <1>4, <1>5

LEMMA UsedByOneMore ==
  ASSUME NEW N \in Nat, NEW Q \in [1 .. N -> Shown], NEW S, NEW i \in 1 .. N, i \notin S
  PROVE  /\ UsedBy(Q, S) \in Nat /\ Q[i].used \in Nat
         /\ UsedBy(Q, S \cup {i}) = UsedBy(Q, S) + Q[i].used
<1> DEFINE R == S \cup {i}
           u == Q[i].used
<1>1. PICK g : Adds(g, Q, S, N) /\ UsedBy(Q, S) = g[N]
  BY UsedByIs
<1>2. PICK e : Adds(e, Q, R, N) /\ UsedBy(Q, R) = e[N]
  BY UsedByIs
<1>3. \A n \in 1 .. N : Q[n].used \in Nat
  <2>1. \A n \in 1 .. N : Q[n] \in Shown
    OBVIOUS
  <2> QED
    BY <2>1 DEF Shown
<1>4. /\ g \in [0 .. N -> Nat] /\ g[0] = 0
      /\ \A n \in 1 .. N : g[n] = IF n \in S THEN g[n - 1] + Q[n].used ELSE g[n - 1]
  BY <1>1 DEF Adds
<1>5. /\ e \in [0 .. N -> Nat] /\ e[0] = 0
      /\ \A n \in 1 .. N : e[n] = IF n \in R THEN e[n - 1] + Q[n].used ELSE e[n - 1]
  BY <1>2 DEF Adds
<1> DEFINE Good == {n \in 0 .. N : e[n] = IF i <= n THEN g[n] + u ELSE g[n]}
<1>6. 0 \in Good
  BY <1>4, <1>5
<1>7. ASSUME NEW n \in 1 .. N, n - 1 \in Good PROVE n \in Good
  <2>1. /\ n \in 0 .. N /\ n - 1 \in 0 .. N
        /\ e[n - 1] = IF i <= n - 1 THEN g[n - 1] + u ELSE g[n - 1]
    BY <1>7
  <2>2. g[n - 1] \in Nat /\ u \in Nat /\ Q[n].used \in Nat
    BY <1>3, <1>4, <2>1
  <2> DEFINE w == Q[n].used
             x == g[n - 1]
             y == g[n]
             z == e[n]
  <2>3. CASE n = i
    <3>1. n \in R /\ n \notin S /\ i <= n /\ ~(i <= n - 1)
      BY <2>3
    <3>2. z = x + u /\ y = x
      BY <1>4, <1>5, <2>1, <2>3, <3>1
    <3>3. z = IF i <= n THEN y + u ELSE y
      BY <3>1, <3>2
    <3> QED
      BY <2>1, <3>3
  <2>4. CASE n # i
    <3>1. (n \in R <=> n \in S) /\ (i <= n <=> i <= n - 1)
      BY <2>4
    <3>2. y = IF n \in S THEN x + w ELSE x
      BY <1>4
    <3>3. z = IF n \in S THEN e[n - 1] + w ELSE e[n - 1]
      BY <1>5, <3>1
    <3>4. e[n - 1] = IF i <= n THEN x + u ELSE x
      BY <2>1, <3>1
    <3> DEFINE t == e[n - 1]
    <3>5. w \in Nat /\ x \in Nat /\ u \in Nat
      BY <2>2
    <3> HIDE DEF t, u, w, x, y, z
    <3>6. z = IF i <= n THEN y + u ELSE y
      <4>1. t = (IF i <= n THEN x + u ELSE x) /\ z = IF n \in S THEN t + w ELSE t
        BY <3>3, <3>4 DEF t
      <4> QED
        BY <3>2, <3>5, <4>1
    <3> QED
      BY <2>1, <3>6 DEF y, z
  <2> QED
    BY <2>3, <2>4
<1>8. \A n \in 0 .. N : n \in Good
  <2> HIDE DEF Good, R
  <2> QED
    BY <1>6, <1>7, UpTo
<1>9. N \in 0 .. N /\ i <= N
  OBVIOUS
<1>10. e[N] = g[N] + u
  BY <1>8, <1>9
<1>11. g[N] \in Nat
  BY <1>4, <1>9
<1> QED
  BY <1>1, <1>2, <1>3, <1>10, <1>11

(* What the first sections of the pass used is what is missing of the pool. *)
FirstOnes(o, m) == {o[k] : k \in 1 .. m}

Spends(Q, left, N, o, p) ==
  \A m \in 0 .. N :
    /\ UsedBy(Q, FirstOnes(o, m)) \in Nat
    /\ left[m] = IF p = NoPool THEN NoPool
                 ELSE IF UsedBy(Q, FirstOnes(o, m)) >= p THEN 0
                      ELSE p - UsedBy(Q, FirstOnes(o, m))

LEMMA LeftIs ==
  ASSUME NEW policy \in Seq(Sections), NEW o, InOrder(policy, o), NEW v,
         NEW p \in Nat \cup {NoPool}, NEW Q, NEW left, Allocated(Q, left, policy, o, p, v)
  PROVE  Spends(Q, left, Len(policy), o, p)
<1> DEFINE N == Len(policy)
           used(m) == UsedBy(Q, FirstOnes(o, m))
           Good == {m \in 0 .. N : /\ used(m) \in Nat
                                   /\ left[m] = IF p = NoPool THEN NoPool
                                                ELSE IF used(m) >= p THEN 0 ELSE p - used(m)}
<1>1. N \in Nat
  OBVIOUS
<1>2. /\ o \in [1 .. N -> 1 .. N] /\ \A m \in 1 .. N : policy[o[m]].priority = m - 1
  BY DEF InOrder
<1>3. /\ Q \in [1 .. N -> Shown] /\ left[0] = p
      /\ \A m \in 1 .. N : left[m] = LeftOver(left[m - 1], Q[o[m]].used)
  BY DEF Allocated
<1> HIDE DEF N, used
<1>4. 0 \in Good
  <2>1. used(0) = 0
    <3>1. FirstOnes(o, 0) = {}
      BY DEF FirstOnes
    <3> QED
      BY <1>1, <1>3, <3>1, UsedByNone DEF used
  <2>2. p # NoPool => p \in Nat
    OBVIOUS
  <2>3. left[0] = IF p = NoPool THEN NoPool ELSE IF used(0) >= p THEN 0 ELSE p - used(0)
    BY <1>3, <2>1, <2>2
  <2> QED
    BY <1>1, <2>1, <2>3
<1>5. ASSUME NEW m \in 1 .. N, m - 1 \in Good PROVE m \in Good
  <2> DEFINE u == Q[o[m]].used
             x == used(m - 1)
             y == used(m)
  <2>1. m \in 0 .. N /\ o[m] \in 1 .. N
    BY <1>1, <1>2
  <2>2. o[m] \notin FirstOnes(o, m - 1)
    <3>1. ASSUME NEW k \in 1 .. m - 1, o[k] = o[m] PROVE FALSE
      <4>1. k \in 1 .. N /\ k - 1 # m - 1
        BY <1>1
      <4>2. policy[o[k]].priority = k - 1 /\ policy[o[m]].priority = m - 1
        BY <1>2, <4>1
      <4> QED
        BY <3>1, <4>1, <4>2
    <3> QED
      BY <3>1 DEF FirstOnes
  <2>3. FirstOnes(o, m) = FirstOnes(o, m - 1) \cup {o[m]}
    <3>1. \A k : k \in 1 .. m <=> k \in 1 .. m - 1 \/ k = m
      BY <1>1
    <3> QED
      BY <3>1 DEF FirstOnes
  <2>4. x \in Nat /\ u \in Nat /\ y = x + u
    <3> DEFINE S == FirstOnes(o, m - 1)
               i == o[m]
    <3>1. i \in 1 .. N /\ i \notin S /\ Q \in [1 .. N -> Shown]
      <4> HIDE DEF x, y, u
      <4> QED
        BY <1>3, <2>1, <2>2
    <3>2. x = UsedBy(Q, S) /\ y = UsedBy(Q, S \cup {i})
      BY <2>3 DEF used
    <3> HIDE DEF S, i, x, y
    <3>3. UsedBy(Q, S) \in Nat /\ Q[i].used \in Nat
          /\ UsedBy(Q, S \cup {i}) = UsedBy(Q, S) + Q[i].used
      BY <1>1, <3>1, UsedByOneMore, ZenonT(90)
    <3> QED
      BY <3>2, <3>3 DEF i
  <2>5. left[m - 1] = IF p = NoPool THEN NoPool ELSE IF x >= p THEN 0 ELSE p - x
    BY <1>5
  <2>6. left[m] = LeftOver(left[m - 1], u)
    BY <1>3
  <2> HIDE DEF x, y, u
  <2>7. NoPool \notin Nat /\ y \in Nat
    BY <2>4, ContextConstants
  <2>8. CASE p = NoPool
    BY <2>1, <2>5, <2>6, <2>7, <2>8 DEF LeftOver, y
  <2>9. CASE p # NoPool
    <3>1. p \in Nat
      BY <2>9
    <3>2. left[m - 1] \in Nat /\ left[m - 1] = IF x >= p THEN 0 ELSE p - x
      BY <2>4, <2>5, <2>9, <3>1
    <3>3. left[m] = left[m - 1] - Lesser(left[m - 1], u)
      BY <2>6, <2>7, <3>2 DEF LeftOver
    <3> DEFINE b == left[m - 1]
               d == left[m]
    <3>4. b \in Nat /\ b = (IF x >= p THEN 0 ELSE p - x) /\ d = b - IF b < u THEN b ELSE u
      BY <3>2, <3>3 DEF Lesser
    <3> HIDE DEF b, d
    <3>5. d = IF y >= p THEN 0 ELSE p - y
      BY <2>4, <3>1, <3>4
    <3> QED
      BY <2>1, <2>7, <2>9, <3>5 DEF d, y
  <2> QED
    BY <2>8, <2>9
<1>6. \A m \in 0 .. N : m \in Good
  <2> HIDE DEF Good
  <2> QED
    BY <1>1, <1>4, <1>5, UpTo
<1> QED
  BY <1>6 DEF N, used, Spends

----------------------------------------------------------------------------
(* Everything the properties ask of a prompt Q.                             *)
AheadOf(policy, Q, i) == {j \in DOMAIN Q : policy[j].priority < policy[i].priority}

AllowedIs(policy, Q, p, i) ==
  LET used == UsedBy(Q, AheadOf(policy, Q, i))
      left == IF p = NoPool \/ used >= p THEN 0 ELSE p - used
  IN Q[i].allowed = IF p = NoPool THEN policy[i].budget
                    ELSE Lesser(policy[i].budget, left)

LEMMA AssembledIs ==
  ASSUME NEW r \in {"orchestrator", "team", "meta"}, NEW p \in Nat \cup {NoPool},
         NEW v \in Views, mailbox \in Seq(Line)
  PROVE  /\ Assemble(r, p, v) \in [1 .. Len(Policy(r)) -> Shown]
         /\ \A i \in 1 .. Len(Policy(r)) :
              /\ Assemble(r, p, v)[i].kind = Policy(r)[i].kind
              /\ Assemble(r, p, v)[i].kept =
                   Kept(Policy(r)[i].kind, Assemble(r, p, v)[i].allowed, v)
              /\ AllowedIs(Policy(r), Assemble(r, p, v), p, i)
<1> DEFINE policy == Policy(r)
           N == Len(policy)
           Q == Assemble(r, p, v)
<1>1. policy \in Seq(Sections) /\ N \in Nat
  BY PolicyIs
<1>2. PICK o : InOrder(policy, o)
  BY PolicyIs
<1>3. PICK c : Passes(c, policy, o, p, v) /\ Q = c[N].out
  BY <1>2, AssembleIs
<1> HIDE DEF Q, policy
<1>4. PICK left : Allocated(Q, left, policy, o, p, v)
  BY <1>1, <1>2, <1>3, PassesAllocate DEF N
<1>5. /\ o \in [1 .. N -> 1 .. N]
      /\ \A m \in 1 .. N : policy[o[m]].priority = m - 1
      /\ \A i \in 1 .. N : o[policy[i].priority + 1] = i /\ policy[i].priority \in 0 .. N - 1
  BY <1>2 DEF InOrder
<1>6. Q \in [1 .. N -> Shown]
  BY <1>4 DEF Allocated
<1>7. \A m \in 0 .. N :
        /\ UsedBy(Q, FirstOnes(o, m)) \in Nat
        /\ left[m] = IF p = NoPool THEN NoPool
                     ELSE IF UsedBy(Q, FirstOnes(o, m)) >= p THEN 0
                          ELSE p - UsedBy(Q, FirstOnes(o, m))
  <2>1. Spends(Q, left, N, o, p)
    BY <1>1, <1>2, <1>4, LeftIs DEF N
  <2> QED
    BY <2>1 DEF Spends
<1>8. ASSUME NEW i \in 1 .. N
      PROVE  /\ Q[i].kind = policy[i].kind
             /\ Q[i].kept = Kept(policy[i].kind, Q[i].allowed, v)
             /\ AllowedIs(policy, Q, p, i)
  <2> DEFINE m == policy[i].priority + 1
             a == Allowance(policy[i].budget, left[m - 1])
             used == UsedBy(Q, FirstOnes(o, m - 1))
  <2>1. o[m] = i /\ policy[i].priority \in 0 .. N - 1
    BY <1>5
  <2>2. m \in 1 .. N /\ m - 1 = policy[i].priority /\ m - 1 \in 0 .. N
    BY <1>1, <2>1
  <2> HIDE DEF m
  <2>3. Q[i] = Render(policy[i], a, v) /\ a \in Nat
    BY <1>4, <2>1, <2>2 DEF Allocated, N
  <2>4. policy[i] \in Sections
    BY <1>1
  <2>5. Q[i].kind = policy[i].kind /\ Q[i].kept = Kept(policy[i].kind, a, v) /\ Q[i].allowed = a
    BY <2>3, <2>4, RenderIs
  <2>6. AheadOf(policy, Q, i) = FirstOnes(o, m - 1)
    <3>1. DOMAIN Q = 1 .. N
      BY <1>6
    <3>2. ASSUME NEW j \in 1 .. N, policy[j].priority < policy[i].priority
          PROVE  j \in FirstOnes(o, m - 1)
      <4> DEFINE k == policy[j].priority
      <4>1. k \in 0 .. N - 1 /\ o[k + 1] = j /\ k < m - 1
        BY <1>5, <2>2, <3>2
      <4> HIDE DEF k
      <4>2. k + 1 \in 1 .. m - 1
        BY <1>1, <2>2, <4>1
      <4> QED
        BY <4>1, <4>2 DEF FirstOnes
    <3>3. ASSUME NEW k \in 1 .. m - 1
          PROVE  o[k] \in 1 .. N /\ policy[o[k]].priority < policy[i].priority
      <4>1. k \in 1 .. N /\ k - 1 < m - 1
        BY <1>1, <2>2
      <4> QED
        BY <1>5, <2>2, <4>1
    <3> QED
      BY <3>1, <3>2, <3>3 DEF AheadOf, FirstOnes
  <2>7. used \in Nat
        /\ left[m - 1] = IF p = NoPool THEN NoPool ELSE IF used >= p THEN 0 ELSE p - used
    BY <1>7, <2>2
  <2> HIDE DEF used
  <2>8. a = IF p = NoPool THEN policy[i].budget
            ELSE Lesser(policy[i].budget, IF p = NoPool \/ used >= p THEN 0 ELSE p - used)
    <3>1. CASE p = NoPool
      BY <2>7, <3>1 DEF Allowance
    <3>2. CASE p # NoPool
      <4>1. p \in Nat /\ left[m - 1] = IF used >= p THEN 0 ELSE p - used
        BY <2>7, <3>2
      <4>2. left[m - 1] \in Nat
        BY <2>7, <4>1
      <4>3. left[m - 1] # NoPool
        BY <4>2, ContextConstants
      <4> QED
        BY <3>2, <4>1, <4>3 DEF Allowance
    <3> QED
      BY <3>1, <3>2
  <2>9. AllowedIs(policy, Q, p, i)
    BY <2>5, <2>6, <2>8 DEF AllowedIs, used
  <2> QED
    BY <2>5, <2>9
<1> QED
  BY <1>6, <1>8 DEF Q, policy, N

----------------------------------------------------------------------------
(* What a prompt drains is what its one section of messages shows.          *)
Drains(g, Q, N) ==
  /\ g[0] = 0
  /\ \A n \in 1 .. N : g[n] = IF Q[n].kind = "messages" THEN Len(Q[n].kept) ELSE g[n - 1]

LEMMA DrainedIs ==
  ASSUME NEW N \in Nat, NEW Q \in [1 .. N -> Shown]
  PROVE  \E g : Drains(g, Q, N) /\ Drained(Q) = g[N]
<1> DEFINE Take(x, s) == IF s.kind = "messages" THEN Len(s.kept) ELSE x
           Then(f, n) == Only({Take(x, s) : x \in {f[n - 1]}, s \in {Q[n]}})
           Made(f) == f = [n \in 0 .. Len(Q) |-> IF n = 0 THEN 0 ELSE Then(f, n)]
           c == CHOOSE f : Made(f)
           h == [q \in (1 .. N) \X Nat |-> Take(q[2], Q[q[1]])]
<1>1. Drained(Q) = c[Len(Q)]
  BY DEF Drained, Iterate
<1>2. Len(Q) = N
  <2>1. Q \in Seq(Shown) /\ DOMAIN Q = 1 .. N
    OBVIOUS
  <2> QED
    BY <2>1
<1>3. \A x \in Nat : \A n \in 1 .. N : Take(x, Q[n]) \in Nat
  <2>1. \A n \in 1 .. N : Q[n] \in Shown
    OBVIOUS
  <2>2. \A n \in 1 .. N : Q[n].kept \in Seq(Line)
    BY <2>1 DEF Shown
  <2>3. \A s \in Seq(Line) : Len(s) \in Nat
    OBVIOUS
  <2> QED
    BY <2>2, <2>3
<1>4. \A f, n : Then(f, n) = Take(f[n - 1], Q[n])
  <2> HIDE DEF Then, Take
  <2> SUFFICES ASSUME NEW f, NEW n PROVE Then(f, n) = Take(f[n - 1], Q[n])
    OBVIOUS
  <2> DEFINE Results == {Take(x, s) : x \in {f[n - 1]}, s \in {Q[n]}}
  <2>1. Results = {Take(f[n - 1], Q[n])}
    OBVIOUS
  <2>2. Then(f, n) = Only(Results)
    BY DEF Then
  <2> HIDE DEF Results
  <2> QED
    BY <2>1, <2>2, OnlyOne
<1> HIDE DEF Then, Take
<1>5. PICK e \in [0 .. N -> Nat] : Loops(e, N, 0, h)
  <2>1. h \in [(1 .. N) \X Nat -> Nat]
    BY <1>3
  <2> HIDE DEF h
  <2> QED
    BY <2>1, LoopExists
<1>6. ASSUME NEW n \in 1 .. N PROVE e[n] = Take(e[n - 1], Q[n])
  <2>1. n - 1 \in 0 .. N /\ e[n - 1] \in Nat
    OBVIOUS
  <2>2. h[<<n, e[n - 1]>>] = Take(e[n - 1], Q[n])
    BY <2>1
  <2> HIDE DEF h
  <2> QED
    BY <1>5, <2>2 DEF Loops
<1>7. Made(e)
  <2>1. e[0] = 0
    BY <1>5 DEF Loops
  <2>2. \A n \in 0 .. N : n = 0 \/ n \in 1 .. N
    OBVIOUS
  <2>3. \A n : Then(e, n) = Take(e[n - 1], Q[n])
    BY <1>4
  <2>4. e = [n \in 0 .. N |-> e[n]]
    OBVIOUS
  <2>5. \A n \in 0 .. N : e[n] = IF n = 0 THEN 0 ELSE Then(e, n)
    <3> HIDE DEF Made, h, c
    <3> QED
      BY <1>6, <2>1, <2>2, <2>3
  <2> QED
    BY <1>2, <2>4, <2>5
<1>8. Made(c)
  <2> HIDE DEF Made
  <2> QED
    BY <1>7, Zenon
<1> HIDE DEF c
<1>9. c[0] = 0 /\ \A n \in 1 .. N : c[n] = Take(c[n - 1], Q[n])
  <2>1. \A n \in 0 .. N : c[n] = IF n = 0 THEN 0 ELSE Then(c, n)
    BY <1>2, <1>8
  <2>2. \A n : Then(c, n) = Take(c[n - 1], Q[n])
    BY <1>4
  <2>3. 0 \in 0 .. N /\ \A n \in 1 .. N : n \in 0 .. N /\ n # 0
    OBVIOUS
  <2> HIDE DEF Made, h
  <2> QED
    BY <2>1, <2>2, <2>3
<1>10. Drains(c, Q, N)
  BY <1>9 DEF Drains, Take
<1> QED
  BY <1>1, <1>2, <1>10

LEMMA DrainedNone ==
  ASSUME NEW N \in Nat, NEW Q \in [1 .. N -> Shown],
         \A j \in 1 .. N : Q[j].kind # "messages"
  PROVE  Drained(Q) = 0
<1>1. PICK g : Drains(g, Q, N) /\ Drained(Q) = g[N]
  BY DrainedIs
<1> DEFINE Good == {n \in 0 .. N : g[n] = 0}
<1>2. 0 \in Good
  BY <1>1 DEF Drains
<1>3. ASSUME NEW n \in 1 .. N, n - 1 \in Good PROVE n \in Good
  BY <1>1, <1>3 DEF Drains
<1>4. \A n \in 0 .. N : n \in Good
  <2> HIDE DEF Good
  <2> QED
    BY <1>2, <1>3, UpTo
<1>5. N \in 0 .. N
  OBVIOUS
<1> QED
  BY <1>1, <1>4, <1>5

LEMMA DrainedOnce ==
  ASSUME NEW N \in Nat, NEW Q \in [1 .. N -> Shown], NEW i \in 1 .. N,
         Q[i].kind = "messages", \A j \in 1 .. N : Q[j].kind = "messages" => j = i
  PROVE  Drained(Q) = Len(Q[i].kept)
<1>1. PICK g : Drains(g, Q, N) /\ Drained(Q) = g[N]
  BY DrainedIs
<1> DEFINE Good == {n \in 0 .. N : i <= n => g[n] = Len(Q[i].kept)}
<1>2. 0 \in Good
  OBVIOUS
<1>3. ASSUME NEW n \in 1 .. N, n - 1 \in Good PROVE n \in Good
  <2>1. n \in 0 .. N /\ (i <= n => n = i \/ i <= n - 1)
    OBVIOUS
  <2>2. g[n] = IF Q[n].kind = "messages" THEN Len(Q[n].kept) ELSE g[n - 1]
    BY <1>1 DEF Drains
  <2>3. i <= n - 1 => g[n - 1] = Len(Q[i].kept)
    BY <1>3
  <2> QED
    BY <2>1, <2>2, <2>3
<1>4. \A n \in 0 .. N : n \in Good
  <2> HIDE DEF Good
  <2> QED
    BY <1>2, <1>3, UpTo
<1>5. N \in 0 .. N /\ i <= N
  OBVIOUS
<1> QED
  BY <1>1, <1>4, <1>5

LEMMA NoMailForMetas ==
  ASSUME NEW i \in 1 .. Len(Policy("meta"))
  PROVE  Policy("meta")[i].kind # "messages"
<1> DEFINE policy == <<Section("goal", 200, 0), Section("digest", 800, 2),
                       Section("outcomes", 400, 1), Section("events", 400, 3)>>
<1>1. Policy("meta") = policy
  BY DEF Policy
<1>2. /\ Len(policy) = 4 /\ policy[1].kind = "goal" /\ policy[2].kind = "digest"
      /\ policy[3].kind = "outcomes" /\ policy[4].kind = "events"
  BY DEF Section
<1> HIDE DEF policy
<1> QED
  BY <1>1, <1>2

LEMMA OneMailSection ==
  ASSUME NEW r \in {"orchestrator", "team", "meta"},
         NEW i \in 1 .. Len(Policy(r)), NEW j \in 1 .. Len(Policy(r)),
         Policy(r)[i].kind = "messages", Policy(r)[j].kind = "messages"
  PROVE  i = j
<1>1. CASE r = "orchestrator"
  <2> DEFINE policy == <<Section("goal", 200, 0), Section("board", 800, 2),
                         Section("retrievals", 600, 4), Section("messages", 800, 3),
                         Section("directives", 400, 1)>>
  <2>1. Policy(r) = policy
    BY <1>1 DEF Policy
  <2>2. /\ Len(policy) = 5 /\ policy[1].kind = "goal" /\ policy[2].kind = "board"
        /\ policy[3].kind = "retrievals" /\ policy[5].kind = "directives"
    BY DEF Section
  <2> HIDE DEF policy
  <2>3. \A k \in 1 .. 5 : policy[k].kind = "messages" => k = 4
    BY <2>2
  <2> QED
    BY <2>1, <2>2, <2>3
<1>2. CASE r = "team"
  <2> DEFINE policy == <<Section("goal", 200, 0), Section("board", 800, 3),
                         Section("claimed", 100, 1), Section("activity", 400, 2),
                         Section("retrievals", 600, 5), Section("messages", 800, 4)>>
  <2>1. Policy(r) = policy
    BY <1>2 DEF Policy
  <2>2. /\ Len(policy) = 6 /\ policy[1].kind = "goal" /\ policy[2].kind = "board"
        /\ policy[3].kind = "claimed" /\ policy[4].kind = "activity"
        /\ policy[5].kind = "retrievals"
    BY DEF Section
  <2> HIDE DEF policy
  <2>3. \A k \in 1 .. 6 : policy[k].kind = "messages" => k = 6
    BY <2>2
  <2> QED
    BY <2>1, <2>2, <2>3
<1>3. CASE r = "meta"
  BY <1>3, NoMailForMetas
<1> QED
  BY <1>1, <1>2, <1>3

(* So a turn drains no more than the mailbox holds, and what it shows.      *)
LEMMA DrainedIsShown ==
  ASSUME NEW r \in {"orchestrator", "team", "meta"}, NEW p \in Nat \cup {NoPool},
         NEW v \in Views, mailbox \in Seq(Line), NEW Q, Q = Assemble(r, p, v)
  PROVE  /\ Drained(Q) \in 0 .. Len(mailbox)
         /\ \A i \in DOMAIN Q : Q[i].kind = "messages" =>
              Q[i].kept = SubSeq(mailbox, 1, Drained(Q))
         /\ r = "meta" => Drained(Q) = 0
<1> DEFINE policy == Policy(r)
           N == Len(policy)
<1>1. /\ Q \in [1 .. N -> Shown] /\ N \in Nat
      /\ \A i \in 1 .. N : Q[i].kind = policy[i].kind
                           /\ Q[i].kept = Kept(policy[i].kind, Q[i].allowed, v)
  <2>1. N \in Nat
    BY PolicyIs
  <2>2. /\ Assemble(r, p, v) \in [1 .. Len(Policy(r)) -> Shown]
        /\ \A i \in 1 .. Len(Policy(r)) :
             /\ Assemble(r, p, v)[i].kind = Policy(r)[i].kind
             /\ Assemble(r, p, v)[i].kept =
                  Kept(Policy(r)[i].kind, Assemble(r, p, v)[i].allowed, v)
    <3> HIDE DEF policy, N
    <3> QED
      BY AssembledIs
  <2> QED
    BY <2>1, <2>2
<1>2. \A i, j \in 1 .. N : Q[i].kind = "messages" /\ Q[j].kind = "messages" => i = j
  BY <1>1, OneMailSection
<1>a. r = "meta" => \A i \in 1 .. N : Q[i].kind # "messages"
  BY <1>1, NoMailForMetas
<1> HIDE DEF policy, N
<1>3. CASE \A i \in 1 .. N : Q[i].kind # "messages"
  <2>1. Drained(Q) = 0 /\ Len(mailbox) \in Nat
    BY <1>1, <1>3, DrainedNone
  <2>2. DOMAIN Q = 1 .. N
    BY <1>1
  <2> QED
    BY <1>3, <2>1, <2>2
<1>4. ASSUME NEW i \in 1 .. N, Q[i].kind = "messages"
      PROVE  /\ Drained(Q) \in 0 .. Len(mailbox)
             /\ \A j \in DOMAIN Q : Q[j].kind = "messages" =>
                  Q[j].kept = SubSeq(mailbox, 1, Drained(Q))
             /\ r # "meta"
  <2>1. Q[i].allowed \in Nat
    <3>1. Q[i] \in Shown
      BY <1>1
    <3> QED
      BY <3>1 DEF Shown
  <2>2. PICK m \in 0 .. Len(mailbox) : Q[i].kept = SubSeq(mailbox, 1, m)
    <3> DEFINE a == Q[i].allowed
    <3>1. Q[i].kept = Kept("messages", a, v)
      BY <1>1, <1>4
    <3> HIDE DEF a
    <3>2. \E m \in 0 .. Len(mailbox) : Kept("messages", a, v) = SubSeq(mailbox, 1, m)
      BY <2>1, MessagesKept DEF a
    <3> QED
      BY <3>1, <3>2
  <2>3. Drained(Q) = Len(Q[i].kept)
    BY <1>1, <1>2, <1>4, DrainedOnce
  <2>4. Len(SubSeq(mailbox, 1, m)) = m
    OBVIOUS
  <2>5. DOMAIN Q = 1 .. N
    BY <1>1
  <2> QED
    BY <1>2, <1>a, <1>4, <2>2, <2>3, <2>4, <2>5
<1> QED
  BY <1>3, <1>4

----------------------------------------------------------------------------
(* Between turns and at every prompt: what was delivered and what is still  *)
(* queued make up the mailbox the run started with.                         *)
ContextType ==
  /\ role \in {"orchestrator", "team", "meta"} /\ pool \in Nat \cup {NoPool}
  /\ view \in Views /\ mailbox \in Seq(Line) /\ delivered \in Seq(Line)
  /\ queued = delivered \o mailbox

ContextInv == ContextType /\ ShedsMinimally /\ AllowanceIsWhatIsLeft /\ MailIsShown

LEMMA ViewsIs == View \subseteq Views
BY ContextConstants DEF Views

LEMMA ContextInit == Init => ContextInv
<1> SUFFICES ASSUME Init PROVE ContextInv
  OBVIOUS
<1>1. ContextType
  <2>1. mailbox \in Seq(Line) /\ view \in Views
    BY ViewsIs, ContextConstants DEF Init
  <2>2. queued = delivered \o mailbox
    BY <2>1, ConcatEmptySeq DEF Init
  <2> QED
    BY <2>1, <2>2, ContextConstants DEF Init, ContextType
<1>2. DOMAIN prompt = {}
  BY DEF Init
<1> QED
  <2>1. queued = delivered \o mailbox /\ delivered = <<>>
    BY <1>1 DEF Init, ContextType
  <2> QED
    BY <1>1, <1>2, <2>1 DEF ContextInv, ShedsMinimally, AllowanceIsWhatIsLeft, MailIsShown

(* Taking the first lines of a mailbox leaves the rest of what was queued.  *)
LEMMA Drain ==
  ASSUME NEW before \in Seq(Line), NEW mail \in Seq(Line), NEW n \in 0 .. Len(mail)
  PROVE  /\ SubSeq(mail, 1, n) \in Seq(Line) /\ SubSeq(mail, n + 1, Len(mail)) \in Seq(Line)
         /\ SubSeq(mail, 1, n) \o SubSeq(mail, n + 1, Len(mail)) = mail
         /\ (before \o SubSeq(mail, 1, n)) \o SubSeq(mail, n + 1, Len(mail)) = before \o mail
         /\ SubSeq(before \o mail, Len(before \o SubSeq(mail, 1, n)) + 1, Len(before \o mail))
              = SubSeq(mail, n + 1, Len(mail))
<1> DEFINE a == SubSeq(mail, 1, n)
           b == SubSeq(mail, n + 1, Len(mail))
           L == Len(mail)
           K == Len(before)
<1>1. L \in Nat /\ K \in Nat /\ n \in Nat /\ n <= L
  OBVIOUS
<1>2. a \in Seq(Line) /\ Len(a) = n /\ \A i \in 1 .. n : a[i] = mail[i]
  OBVIOUS
<1>3. b \in Seq(Line) /\ Len(b) = L - n /\ \A i \in 1 .. L - n : b[i] = mail[n + i]
  <2>1. b \in Seq(Line) /\ Len(b) = L - n
    OBVIOUS
  <2>2. \A i \in 1 .. L - n : b[i] = mail[n + i]
    OBVIOUS
  <2> QED
    BY <2>1, <2>2
<1> HIDE DEF a, b
<1>4. a \o b = mail
  <2>1. a \o b \in Seq(Line) /\ Len(a \o b) = L
    <3>1. a \o b \in Seq(Line) /\ Len(a \o b) = Len(a) + Len(b)
      <4>1. a \in Seq(Line) /\ b \in Seq(Line)
        BY <1>2, <1>3
      <4> QED
        BY <4>1, SMTT(30)
    <3> HIDE DEF L
    <3> QED
      BY <1>1, <1>2, <1>3, <3>1
  <2>2. ASSUME NEW i \in 1 .. L PROVE (a \o b)[i] = mail[i]
    <3>1. CASE i <= n
      BY <1>2, <1>3, <3>1
    <3>2. CASE ~(i <= n)
      <4>1. i - n \in 1 .. L - n /\ n + (i - n) = i
        BY <1>1, <3>2
      <4>2. (a \o b)[i] = b[i - n]
        BY <1>1, <1>2, <1>3, <3>2
      <4> QED
        BY <1>3, <4>1, <4>2
    <3> QED
      BY <3>1, <3>2
  <2>3. DOMAIN (a \o b) = 1 .. L /\ DOMAIN mail = 1 .. L
    BY <2>1
  <2> DEFINE ab == a \o b
  <2>4. ab = [i \in 1 .. L |-> ab[i]] /\ mail = [i \in 1 .. L |-> mail[i]]
    <3> HIDE DEF ab
    <3>1. ab \in Seq(Line) /\ DOMAIN ab = 1 .. L
      BY <2>1, <2>3 DEF ab
    <3> HIDE DEF L
    <3>2. \A q \in Seq(Line) : q = [i \in DOMAIN q |-> q[i]]
      OBVIOUS
    <3>3. ab = [i \in DOMAIN ab |-> ab[i]] /\ mail = [i \in DOMAIN mail |-> mail[i]]
      BY <3>1, <3>2
    <3> QED
      BY <2>3, <3>1, <3>3, Zenon
  <2>5. \A i \in 1 .. L : ab[i] = mail[i]
    BY <2>2
  <2> HIDE DEF ab, L
  <2> QED
    BY <2>4, <2>5 DEF ab
<1>5. (before \o a) \o b = before \o mail
  <2>1. (before \o a) \o b = before \o (a \o b)
    <3>1. before \in Seq(Line) /\ a \in Seq(Line) /\ b \in Seq(Line)
      BY <1>2, <1>3
    <3> QED
      BY <3>1, ConcatAssociative, SMTT(30)
  <2> QED
    BY <1>4, <2>1
<1>6. SubSeq(before \o mail, Len(before \o a) + 1, Len(before \o mail)) = b
  <2> DEFINE all == before \o mail
             t == SubSeq(all, K + n + 1, K + L)
  <2>1. all \in Seq(Line) /\ Len(all) = K + L /\ Len(before \o a) = K + n
        /\ \A i \in 1 .. L : all[K + i] = mail[i]
    BY <1>1, <1>2
  <2>2. t = [i \in 1 .. L - n |-> all[K + n + i]]
    <3> HIDE DEF all, K, L
    <3>1. t \in Seq(Line) /\ Len(t) = L - n /\ \A i \in 1 .. L - n : t[i] = all[K + n + i]
      BY <1>1, <2>1
    <3> HIDE DEF t
    <3>2. t = [i \in 1 .. L - n |-> t[i]]
      BY <3>1
    <3> QED
      BY <3>1, <3>2
  <2>3. \A i \in 1 .. L - n : all[K + n + i] = b[i]
    <3>1. \A i \in 1 .. L - n : n + i \in 1 .. L /\ K + (n + i) = K + n + i
      BY <1>1
    <3> HIDE DEF all
    <3> QED
      BY <1>3, <2>1, <3>1
  <2>4. b = [i \in 1 .. L - n |-> b[i]]
    BY <1>1, <1>3
  <2> HIDE DEF all
  <2>5. t = b
    BY <2>2, <2>3, <2>4
  <2> QED
    BY <2>1, <2>5 DEF all
<1> QED
  BY <1>2, <1>3, <1>4, <1>5, <1>6 DEF a, b

(* The properties, in terms of the state and not of the variables.          *)
SectionLeast(s, q, d, v) ==
  Least(Remains(s.kind, IF s.kind = "messages" THEN s.kept \o SubSeq(q, Len(d) + 1, Len(q))
                        ELSE v[s.kind]),
        s.kept, IF s.kind = "board" THEN v.health ELSE 0, s.allowed)

LEMMA PropertiesAre ==
  /\ ShedsMinimally <=> \A i \in DOMAIN prompt : SectionLeast(prompt[i], queued, delivered, view)
  /\ AllowanceIsWhatIsLeft <=> \A i \in DOMAIN prompt : AllowedIs(Policy(role), prompt, pool, i)
<1> DEFINE lines(s) == IF s.kind = "messages" THEN MailBefore(s.kept) ELSE view[s.kind]
           health(s) == IF s.kind = "board" THEN view.health ELSE 0
           Some(s) == \E remains \in {Remains(s.kind, lines(s))} :
                        Least(remains, s.kept, health(s), s.allowed)
<1>1. ShedsMinimally <=> \A i \in DOMAIN prompt : Some(prompt[i])
  BY Zenon DEF ShedsMinimally, Least
<1>2. ShedsMinimally <=> \A i \in DOMAIN prompt : SectionLeast(prompt[i], queued, delivered, view)
  <2>1. \A s : Some(s) <=> Least(Remains(s.kind, lines(s)), s.kept, health(s), s.allowed)
    <3> HIDE DEF lines, health
    <3> QED
      BY Zenon
  <2>2. \A s : SectionLeast(s, queued, delivered, view) <=>
                 Least(Remains(s.kind, lines(s)), s.kept, health(s), s.allowed)
    BY Zenon DEF SectionLeast, MailBefore
  <2> HIDE DEF Some, lines, health
  <2> QED
    BY <1>1, <2>1, <2>2, Zenon
<1>3. AllowanceIsWhatIsLeft <=> \A i \in DOMAIN prompt : AllowedIs(Policy(role), prompt, pool, i)
  BY DEF AllowanceIsWhatIsLeft, AllowedIs, AheadOf
<1> QED
  BY <1>2, <1>3

LEMMA TailIs ==
  ASSUME NEW before \in Seq(Line), NEW a \in Seq(Line)
  PROVE  /\ Len(a) <= Len(before \o a)
         /\ a = SubSeq(before \o a, Len(before \o a) - Len(a) + 1, Len(before \o a))
<1> DEFINE all == before \o a
           K == Len(before)
           n == Len(a)
           t == SubSeq(all, K + 1, K + n)
<1>1. /\ all \in Seq(Line) /\ K \in Nat /\ n \in Nat /\ Len(all) = K + n
      /\ \A i \in 1 .. n : all[K + i] = a[i]
  OBVIOUS
<1> HIDE DEF all, K
<1>2. n <= Len(all) /\ Len(all) - n = K
  BY <1>1
<1>3. a = [i \in 1 .. n |-> a[i]]
  OBVIOUS
<1> HIDE DEF n
<1>4. t \in Seq(Line) /\ Len(t) = n /\ \A i \in 1 .. n : t[i] = all[K + i]
  BY <1>1
<1>5. t = a
  <2> HIDE DEF t
  <2>1. t = [i \in 1 .. n |-> t[i]]
    BY <1>4
  <2> QED
    BY <1>1, <1>3, <1>4, <2>1
<1> QED
  BY <1>1, <1>2, <1>5 DEF all, n

LEMMA PropertiesAreNext ==
  /\ ShedsMinimally' <=> \A i \in DOMAIN prompt' : SectionLeast(prompt'[i], queued', delivered', view')
  /\ AllowanceIsWhatIsLeft' <=> \A i \in DOMAIN prompt' : AllowedIs(Policy(role'), prompt', pool', i)
<1> DEFINE Sheddings == \A i \in DOMAIN prompt : SectionLeast(prompt[i], queued, delivered, view)
           Allowings == \A i \in DOMAIN prompt : AllowedIs(Policy(role), prompt, pool, i)
<1>1. (ShedsMinimally <=> Sheddings) /\ (AllowanceIsWhatIsLeft <=> Allowings)
  BY PropertiesAre
<1>2. (ShedsMinimally' <=> Sheddings') /\ (AllowanceIsWhatIsLeft' <=> Allowings')
  <2> HIDE DEF Sheddings, Allowings
  <2> QED
    BY <1>1, PTL
<1> QED
  BY <1>2

LEMMA StartTurnKeeps == ContextInv /\ StartTurn => ContextInv'
<1> SUFFICES ASSUME ContextInv, StartTurn PROVE ContextInv'
  OBVIOUS
<1> DEFINE Q == Assemble(role, pool, view)
           n == Drained(Q)
           N == Len(Policy(role))
<1>1. /\ role \in {"orchestrator", "team", "meta"} /\ pool \in Nat \cup {NoPool}
      /\ view \in Views /\ mailbox \in Seq(Line) /\ delivered \in Seq(Line)
      /\ queued = delivered \o mailbox
  BY DEF ContextInv, ContextType
<1>2. /\ prompt' = Q
      /\ delivered' = delivered \o SubSeq(mailbox, 1, n)
      /\ mailbox' = SubSeq(mailbox, n + 1, Len(mailbox))
      /\ role' = role /\ pool' = pool /\ view' = view /\ queued' = queued
  BY DEF StartTurn
<1>3. /\ Q \in [1 .. N -> Shown]
      /\ \A i \in 1 .. N : /\ Q[i].kind = Policy(role)[i].kind
                           /\ Q[i].kept = Kept(Policy(role)[i].kind, Q[i].allowed, view)
                           /\ AllowedIs(Policy(role), Q, pool, i)
  BY <1>1, AssembledIs
<1>4. /\ n \in 0 .. Len(mailbox)
      /\ \A i \in DOMAIN Q : Q[i].kind = "messages" => Q[i].kept = SubSeq(mailbox, 1, n)
  BY <1>1, DrainedIsShown
<1> HIDE DEF Q, n, N
<1>5. ContextType'
  <2>1. /\ SubSeq(mailbox, 1, n) \in Seq(Line) /\ SubSeq(mailbox, n + 1, Len(mailbox)) \in Seq(Line)
        /\ (delivered \o SubSeq(mailbox, 1, n)) \o SubSeq(mailbox, n + 1, Len(mailbox))
             = delivered \o mailbox
    BY <1>1, <1>4, Drain
  <2>2. delivered \o SubSeq(mailbox, 1, n) \in Seq(Line)
    BY <1>1, <2>1
  <2> QED
    BY <1>1, <1>2, <2>1, <2>2 DEF ContextType
<1>6. ASSUME NEW i \in 1 .. N PROVE SectionLeast(Q[i], queued', delivered', view)
  <2> DEFINE kind == Q[i].kind
             kept == Q[i].kept
             rest == SubSeq(queued', Len(delivered') + 1, Len(queued'))
             lines == IF kind = "messages" THEN kept \o rest ELSE view[kind]
  <2>1. kind \in Kinds /\ Q[i].allowed \in Nat /\ kept = Kept(kind, Q[i].allowed, view)
    <3>1. Q[i] \in Shown /\ kind = Policy(role)[i].kind
      BY <1>3
    <3> QED
      BY <1>3, <3>1 DEF Shown
  <2>2. Least(Remains(kind, Lines(kind, view)), kept,
              IF kind = "board" THEN view.health ELSE 0, Q[i].allowed)
    BY <1>1, <2>1, KeptLeast
  <2>3. kind = "messages" => kept \o rest = mailbox
    <3> SUFFICES ASSUME kind = "messages" PROVE kept \o rest = mailbox
      OBVIOUS
    <3>1. kept = SubSeq(mailbox, 1, n)
      BY <1>3, <1>4
    <3>2. rest = SubSeq(mailbox, n + 1, Len(mailbox))
      BY <1>1, <1>2, <1>4, Drain
    <3>3. SubSeq(mailbox, 1, n) \o SubSeq(mailbox, n + 1, Len(mailbox)) = mailbox
      BY <1>1, <1>4, Drain
    <3> HIDE DEF rest, kept
    <3> QED
      BY <3>1, <3>2, <3>3
  <2> HIDE DEF rest, kept
  <2>4. Lines(kind, view) = lines
    BY <2>3 DEF Lines
  <2> HIDE DEF lines
  <2>5. Least(Remains(kind, lines), kept, IF kind = "board" THEN view.health ELSE 0, Q[i].allowed)
    BY <2>2, <2>4
  <2> QED
    BY <2>5 DEF SectionLeast, lines, kept, rest
<1>7. DOMAIN Q = 1 .. N
  BY <1>3
<1>8. ShedsMinimally' /\ AllowanceIsWhatIsLeft'
  BY <1>2, <1>3, <1>6, <1>7, PropertiesAreNext
<1>9. MailIsShown'
  <2> DEFINE took == SubSeq(mailbox, 1, n)
             now == delivered \o took
  <2>1. took \in Seq(Line) /\ Len(took) = n
    BY <1>1, <1>4
  <2>2. Len(took) <= Len(now) /\ took = SubSeq(now, Len(now) - Len(took) + 1, Len(now))
    BY <1>1, <2>1, TailIs
  <2>3. role = "meta" => now = <<>>
    <3> SUFFICES ASSUME role = "meta" PROVE now = <<>>
      OBVIOUS
    <3>1. n = 0 /\ delivered = <<>>
      BY <1>1, DrainedIsShown DEF ContextInv, MailIsShown, n, Q
    <3>2. took = <<>>
      BY <2>1, <3>1
    <3> QED
      BY <3>1, <3>2, ConcatEmptySeq
  <2>4. \A i \in DOMAIN Q : Q[i].kind = "messages" => Q[i].kept = took
    BY <1>4
  <2>5. queued' = delivered' \o mailbox' /\ delivered' = now /\ role' = role /\ prompt' = Q
    BY <1>2, <1>5 DEF ContextType
  <2> HIDE DEF took, now
  <2> QED
    BY <2>2, <2>3, <2>4, <2>5 DEF MailIsShown
<1> QED
  BY <1>5, <1>8, <1>9 DEF ContextInv

LEMMA OthersKeep == ContextInv /\ (EndTurn \/ UNCHANGED contextVars) => ContextInv'
<1>1. ASSUME ContextInv, EndTurn PROVE ContextInv'
  <2>1. DOMAIN prompt' = {} /\ view' \in Views
    BY <1>1, ViewsIs DEF EndTurn
  <2>2. ContextType'
    BY <1>1, <2>1 DEF ContextInv, ContextType, EndTurn
  <2>3. MailIsShown'
    BY <1>1, <2>1 DEF ContextInv, MailIsShown, EndTurn
  <2> QED
    BY <2>1, <2>2, <2>3 DEF ContextInv, ShedsMinimally, AllowanceIsWhatIsLeft
<1>2. ASSUME ContextInv, UNCHANGED contextVars PROVE ContextInv'
  <2>1. ContextType'
    BY <1>2 DEF ContextInv, ContextType, contextVars
  <2>2. ShedsMinimally' /\ AllowanceIsWhatIsLeft'
    BY <1>2, PropertiesAre, PropertiesAreNext DEF ContextInv, contextVars
  <2>3. MailIsShown'
    BY <1>2 DEF ContextInv, MailIsShown, contextVars
  <2> QED
    BY <2>1, <2>2, <2>3 DEF ContextInv
<1> QED
  BY <1>1, <1>2

THEOREM ContextInvariant == Spec => []ContextInv
<1>1. ContextInv /\ [Next]_contextVars => ContextInv'
  BY StartTurnKeeps, OthersKeep DEF Next
<1> QED
  BY <1>1, ContextInit, PTL DEF Spec

(* Whatever the role, the pool, the world and the mailbox, no section of a  *)
(* prompt loses a line its allowance had room for, and those it loses go in *)
(* the order of its drop rule (render_section): on the board the terminal   *)
(* tasks before the others, of the messages the newest.                     *)
THEOREM Sheds == Spec => []ShedsMinimally
BY ContextInvariant, PTL DEF ContextInv

(* A section's allowance is its budget, or what the sections of higher      *)
(* priority left of the pool when that is less (assemble).                  *)
THEOREM Allowances == Spec => []AllowanceIsWhatIsLeft
BY ContextInvariant, PTL DEF ContextInv

(* A turn takes out of the mailbox exactly what its prompt shows, from the  *)
(* front (turn_body, Mailboxes::drain): carry-over neither loses, repeats   *)
(* nor reorders a message.                                                  *)
THEOREM CarriesOver == Spec => []MailIsShown
BY ContextInvariant, PTL DEF ContextInv
=============================================================================
