---------------------------- MODULE PromptProofs ----------------------------
(***************************************************************************)
(* For any documents, limits and requests: the best documents are the ones *)
(* sent, and the model is shown what the caller said, once and in order.   *)
(*                                                                         *)
(* What a loop computes is proved by induction on its rounds.  Each loop   *)
(* (a sum of sizes, the always-documents, the picks, the joined texts) is  *)
(* a recursive function; LoopExists says that it is defined, and a lemma   *)
(* about each says what it returns.                                        *)
(***************************************************************************)
EXTENDS PromptPath, FiniteSetTheorems, SequenceTheorems, WellFoundedInduction, TLAPS

(***************************************************************************)
(* Induction.  The library's induction theorems are about an operator; a   *)
(* set of numbers in its place makes the same argument first-order.        *)
(***************************************************************************)
\* A set of natural numbers has a least one.
LEMMA LeastNumber ==
    ASSUME NEW T, T \subseteq Nat, T # {}
    PROVE  \E x \in T : \A y \in T : x <= y
  <1> DEFINE R == {ss \in Nat \X Nat : ss[1] < ss[2]}
  <1>1. IsWellFoundedOn(R, Nat)
    BY NatLessThanWellFounded DEF OpToRel
  <1>2. \A x, y \in Nat : x < y => <<x, y>> \in R
    OBVIOUS
  <1> HIDE DEF R
  <1>3. PICK x \in T : \A y \in T : ~(<<y, x>> \in R)
    BY <1>1, WFMin
  <1>4. \A y \in T : x <= y
    <2> SUFFICES ASSUME NEW y \in T PROVE x <= y
      OBVIOUS
    <2>1. x \in Nat /\ y \in Nat /\ ~(<<y, x>> \in R)
      BY <1>3
    <2>2. ~(y < x)
      BY <1>2, <2>1
    <2> QED BY <2>1, <2>2
  <1> QED BY <1>4

\* Induction up to n: a set that has 0 and, with i - 1, has i.
LEMMA InductionUpTo ==
    ASSUME NEW n \in Nat, NEW S, 0 \in S, \A i \in 1..n : i - 1 \in S => i \in S
    PROVE  \A i \in 0..n : i \in S
  <1> DEFINE T == (0..n) \ S
  <1>1. SUFFICES ASSUME T # {} PROVE FALSE
    OBVIOUS
  <1>2. T \subseteq Nat
    OBVIOUS
  <1>3. PICK x \in T : \A y \in T : x <= y
    BY <1>1, <1>2, LeastNumber
  <1>4. x \in 1..n /\ x - 1 \in 0..n /\ ~(x <= x - 1)
    BY <1>3
  <1> QED BY <1>3, <1>4

\* f is the loop of n steps on values of S that starts at c.
Loop(f, n, S, c, step) ==
    f \in [0..n -> S] /\ f[0] = c /\ \A i \in 1..n : f[i] = step[i][f[i - 1]]

\* There is such a loop: a recursive function on 0..n is defined.
LEMMA LoopExists ==
    ASSUME NEW n \in Nat, NEW S, NEW c \in S, NEW step \in [1..n -> [S -> S]]
    PROVE  \E f : Loop(f, n, S, c, step)
  <1> DEFINE D == {m \in 0..n : \E f : Loop(f, m, S, c, step)}
  <1>1. 0 \in D
    <2>1. Loop([i \in 0..0 |-> c], 0, S, c, step)
      BY DEF Loop
    <2>2. 0 \in 0..n
      OBVIOUS
    <2> QED BY <2>1, <2>2
  <1>2. ASSUME NEW m \in 1..n, m - 1 \in D PROVE m \in D
    <2>1. PICK f : Loop(f, m - 1, S, c, step)
      BY <1>2
    <2> DEFINE g == [i \in 0..m |-> IF i = m THEN step[m][f[m - 1]] ELSE f[i]]
    <2>2. f[m - 1] \in S /\ step[m] \in [S -> S]
      BY <2>1 DEF Loop
    <2>3. step[m][f[m - 1]] \in S
      BY <2>2
    <2>4. g \in [0..m -> S]
      BY <2>1, <2>3 DEF Loop
    <2>5. g[0] = c /\ g[m] = step[m][g[m - 1]]
      BY <2>1 DEF Loop
    <2>6. ASSUME NEW i \in 1..m PROVE g[i] = step[i][g[i - 1]]
      <3>1. CASE i = m
        BY <2>5, <3>1
      <3>2. CASE i # m
        <4>1. i \in 1..(m - 1) /\ g[i] = f[i] /\ g[i - 1] = f[i - 1]
          BY <3>2
        <4> QED BY <2>1, <4>1 DEF Loop
      <3> QED BY <3>1, <3>2
    <2>7. Loop(g, m, S, c, step)
      BY <2>4, <2>5, <2>6 DEF Loop
    <2>8. m \in 0..n
      OBVIOUS
    <2> HIDE DEF g
    <2> QED BY <2>7, <2>8
  <1>3. n \in D
    <2> HIDE DEF D
    <2>1. \A i \in 0..n : i \in D
      BY <1>1, <1>2, InductionUpTo
    <2> QED BY <2>1
  <1> QED BY <1>3

(***************************************************************************)
(* Joining texts                                                           *)
(***************************************************************************)
\* g joins the texts of s, one after the other.
Joins(g, s, P) ==
    /\ g \in [0..Len(s) -> Seq(P)]
    /\ g[0] = <<>>
    /\ \A i \in 1..Len(s) : g[i] = g[i - 1] \o s[i]

\* What such a joining says of each text.
LEMMA JoinsFacts ==
    ASSUME NEW P, NEW s \in Seq(Seq(P)), NEW g, Joins(g, s, P)
    PROVE  /\ Len(s) \in Nat /\ g[0] = <<>>
           /\ \A i \in 0..Len(s) : g[i] \in Seq(P)
           /\ \A i \in 1..Len(s) :
                 /\ g[i] = g[i - 1] \o s[i]
                 /\ s[i] \in Seq(P) /\ g[i] \in Seq(P) /\ g[i - 1] \in Seq(P)
  <1> DEFINE S == Seq(P)
             n == Len(s)
  <1>1. n \in Nat /\ \A i \in 1..n : s[i] \in S
    OBVIOUS
  <1>2. g \in [0..n -> S] /\ g[0] = <<>> /\ \A i \in 1..n : g[i] = g[i - 1] \o s[i]
    BY DEF Joins
  <1> HIDE DEF S, n
  <1>3. \A i \in 1..n : i \in 0..n /\ i - 1 \in 0..n
    BY <1>1
  <1>4. \A i \in 0..n : g[i] \in S
    BY <1>2
  <1> QED BY <1>1, <1>2, <1>3, <1>4 DEF S, n

\* There is one for every sequence of texts.
LEMMA JoinsExists ==
    ASSUME NEW P, NEW s \in Seq(Seq(P))
    PROVE  \E g : Joins(g, s, P)
  <1> DEFINE n == Len(s)
             S == Seq(P)
             c == <<>>
             step == [i \in 1..n |-> [v \in S |-> v \o s[i]]]
  <1>1. n \in Nat /\ c \in S /\ step \in [1..n -> [S -> S]]
    OBVIOUS
  <1> HIDE DEF S, c, n
  <1>2. ASSUME NEW f, Loop(f, n, S, c, step) PROVE Joins(f, s, P)
    <2>1. f \in [0..n -> S] /\ f[0] = c /\ \A i \in 1..n : f[i] = step[i][f[i - 1]]
      BY <1>2 DEF Loop
    <2>2. ASSUME NEW i \in 1..n PROVE f[i] = f[i - 1] \o s[i]
      <3>1. i - 1 \in 0..n
        BY <1>1
      <3>2. f[i - 1] \in S
        BY <2>1, <3>1
      <3>3. step[i] = [v \in S |-> v \o s[i]] /\ f[i] = step[i][f[i - 1]]
        BY <2>1
      <3> QED BY <3>2, <3>3
    <2> QED BY <2>1, <2>2 DEF Joins, S, c, n
  <1> HIDE DEF step
  <1>3. \E f : Loop(f, n, S, c, step)
    BY <1>1, LoopExists
  <1> QED BY <1>2, <1>3

\* FlattenSeq is the last of them.
LEMMA FlattenJoins ==
    ASSUME NEW P, NEW s \in Seq(Seq(P)), NEW g, Joins(g, s, P)
    PROVE  Sq!FlattenSeq(s) = g[Len(s)]
  <1> DEFINE n == Len(s)
             Body(f) == [i \in 1..n |-> IF i = 1 THEN s[i] ELSE f[i - 1] \o s[i]]
             F == CHOOSE f : f = Body(f)
             h == [i \in 1..n |-> g[i]]
  <1>0. n \in Nat /\ (n = 0 <=> s = <<>>)
    OBVIOUS
  <1>1. CASE n = 0
    BY <1>0, <1>1 DEF Sq!FlattenSeq, Joins
  <1>2. CASE n # 0
    <2>0. \A i \in 1..n : g[i] = IF i = 1 THEN s[i] ELSE g[i - 1] \o s[i]
      <3> SUFFICES ASSUME NEW i \in 1..n
                   PROVE  g[i] = IF i = 1 THEN s[i] ELSE g[i - 1] \o s[i]
        OBVIOUS
      <3>1. g[i] = g[i - 1] \o s[i] /\ g[0] = <<>> /\ s[i] \in Seq(P)
        BY JoinsFacts
      <3>2. <<>> \o s[i] = s[i]
        BY <3>1, ConcatEmptySeq
      <3>3. i = 1 => g[i - 1] = <<>>
        BY <3>1
      <3> QED BY <3>1, <3>2, <3>3
    <2>1. ASSUME NEW i \in 1..n PROVE h[i] = Body(h)[i]
      <3>1. i # 1 => i - 1 \in 1..n
        BY <1>0
      <3>2. h[i] = g[i] /\ (i # 1 => h[i - 1] = g[i - 1])
        BY <3>1
      <3>3. Body(h)[i] = IF i = 1 THEN s[i] ELSE h[i - 1] \o s[i]
        OBVIOUS
      <3> QED BY <2>0, <3>2, <3>3
    <2>2. h = Body(h)
      BY <2>1
    <2>3. F = Body(F)
      <3> HIDE DEF Body
      <3> QED BY <2>2
    <2>4. Sq!FlattenSeq(s) = F[n]
      BY <1>2 DEF Sq!FlattenSeq
    <2> HIDE DEF F
    <2> DEFINE D == {i \in 0..n : i = 0 \/ F[i] = g[i]}
    <2>5. 0 \in D
      BY <1>0
    <2>6. ASSUME NEW i \in 1..n, i - 1 \in D PROVE i \in D
      <3>1. F[i] = IF i = 1 THEN s[i] ELSE F[i - 1] \o s[i]
        BY <2>3
      <3>2. g[i] = IF i = 1 THEN s[i] ELSE g[i - 1] \o s[i]
        BY <2>0
      <3>3. i # 1 => F[i - 1] = g[i - 1]
        BY <2>6
      <3>4. F[i] = g[i]
        BY <3>1, <3>2, <3>3
      <3> QED BY <3>4
    <2>7. n \in D
      <3> HIDE DEF D
      <3>1. \A i \in 0..n : i \in D
        BY <1>0, <2>5, <2>6, InductionUpTo
      <3> QED BY <1>0, <3>1
    <2> QED BY <1>2, <2>4, <2>7
  <1> QED BY <1>1, <1>2

\* The joined texts are a text.
LEMMA FlattenType ==
    ASSUME NEW P, NEW s \in Seq(Seq(P))
    PROVE  Sq!FlattenSeq(s) \in Seq(P)
  <1>1. PICK g : Joins(g, s, P)
    BY JoinsExists
  <1>2. Sq!FlattenSeq(s) = g[Len(s)]
    BY <1>1, FlattenJoins
  <1>3. Len(s) \in Nat /\ g \in [0..Len(s) -> Seq(P)]
    BY <1>1 DEF Joins
  <1> QED BY <1>2, <1>3

\* One more text at the end.
LEMMA FlattenAppend ==
    ASSUME NEW P, NEW s \in Seq(Seq(P)), NEW x \in Seq(P)
    PROVE  Sq!FlattenSeq(Append(s, x)) = Sq!FlattenSeq(s) \o x
  <1> DEFINE n == Len(s)
             t == Append(s, x)
  <1>0. n \in Nat /\ t \in Seq(Seq(P)) /\ Len(t) = n + 1 /\ t[n + 1] = x /\ \A i \in 1..n : t[i] = s[i]
    OBVIOUS
  <1>n. n \in Nat /\ n \in 0..n
    OBVIOUS
  <1>1. PICK g : Joins(g, s, P)
    BY JoinsExists
  <1> HIDE DEF t
  <1>2. PICK f : Joins(f, t, P)
    BY <1>0, JoinsExists
  <1>3. Sq!FlattenSeq(s) = g[n] /\ Sq!FlattenSeq(t) = f[n + 1]
    BY <1>0, <1>1, <1>2, FlattenJoins
  <1> DEFINE D == {i \in 0..n : f[i] = g[i]}
  <1>4. 0 \in D
    BY <1>0, <1>1, <1>2 DEF Joins
  <1>5. ASSUME NEW i \in 1..n, i - 1 \in D PROVE i \in D
    <2>1. f[i] = f[i - 1] \o t[i] /\ g[i] = g[i - 1] \o s[i] /\ t[i] = s[i]
      <3>1. i \in 1..Len(t)
        BY <1>0
      <3> QED BY <1>0, <1>1, <1>2, <3>1, JoinsFacts
    <2>2. f[i - 1] = g[i - 1]
      BY <1>5
    <2>3. f[i] = g[i]
      BY <2>1, <2>2
    <2> QED BY <2>3
  <1>6. n \in D
    <2> HIDE DEF D, n
    <2>1. \A i \in 0..n : i \in D
      BY <1>n, <1>4, <1>5, InductionUpTo
    <2> QED BY <1>n, <2>1
  <1>7. f[n + 1] = f[n] \o x
    <2>1. n + 1 \in 1..Len(t) /\ (n + 1) - 1 = n
      BY <1>0
    <2>2. \A i \in 1..Len(t) : f[i] = f[i - 1] \o t[i]
      BY <1>0, <1>2, JoinsFacts
    <2>3. f[n + 1] = f[(n + 1) - 1] \o t[n + 1]
      BY <2>1, <2>2
    <2> QED BY <1>0, <2>1, <2>3
  <1> QED BY <1>3, <1>6, <1>7 DEF t

\* Three texts are joined in either order.
LEMMA JoinThree ==
    ASSUME NEW P, NEW a \in Seq(P), NEW b \in Seq(P), NEW c \in Seq(P)
    PROVE  (a \o b) \o c = a \o (b \o c)
  BY ConcatAssociative

\* One more text in front.
LEMMA FlattenCons ==
    ASSUME NEW P, NEW s \in Seq(Seq(P)), NEW x \in Seq(P)
    PROVE  Sq!FlattenSeq(<<x>> \o s) = x \o Sq!FlattenSeq(s)
  <1> DEFINE n == Len(s)
             t == <<x>> \o s
  <1>0. n \in Nat /\ t \in Seq(Seq(P)) /\ Len(t) = n + 1 /\ t[1] = x /\ \A i \in 1..n : t[i + 1] = s[i]
    OBVIOUS
  <1>n. n \in Nat /\ n \in 0..n
    OBVIOUS
  <1>1. PICK g : Joins(g, s, P)
    BY JoinsExists
  <1> HIDE DEF t
  <1>2. PICK f : Joins(f, t, P)
    BY <1>0, JoinsExists
  <1>3. Sq!FlattenSeq(s) = g[n] /\ Sq!FlattenSeq(t) = f[n + 1]
    BY <1>0, <1>1, <1>2, FlattenJoins
  <1> DEFINE D == {i \in 0..n : f[i + 1] = x \o g[i]}
  <1>4. 0 \in D
    <2>1. 1 \in 1..Len(t) /\ 1 - 1 = 0
      BY <1>0
    <2>2. f[0] = <<>> /\ g[0] = <<>> /\ \A i \in 1..Len(t) : f[i] = f[i - 1] \o t[i]
      BY <1>0, <1>1, <1>2, JoinsFacts
    <2>3. f[1] = f[0] \o t[1]
      BY <2>1, <2>2
    <2>4. f[1] = x /\ x \o g[0] = x
      BY <1>0, <2>2, <2>3, ConcatEmptySeq
    <2> QED BY <1>0, <2>4
  <1>5. ASSUME NEW i \in 1..n, i - 1 \in D PROVE i \in D
    <2>1. /\ f[i + 1] = f[i] \o t[i + 1] /\ g[i] = g[i - 1] \o s[i] /\ t[i + 1] = s[i]
          /\ g[i - 1] \in Seq(P) /\ s[i] \in Seq(P)
      <3>1. i + 1 \in 1..Len(t) /\ (i + 1) - 1 = i
        BY <1>0
      <3>2. \A k \in 1..Len(t) : f[k] = f[k - 1] \o t[k]
        BY <1>0, <1>2, JoinsFacts
      <3>3. f[i + 1] = f[(i + 1) - 1] \o t[i + 1]
        BY <3>1, <3>2
      <3>4. g[i] = g[i - 1] \o s[i] /\ g[i - 1] \in Seq(P) /\ s[i] \in Seq(P)
        BY <1>1, JoinsFacts
      <3> QED BY <1>0, <3>1, <3>3, <3>4
    <2>2. f[i] = x \o g[i - 1]
      <3>1. f[(i - 1) + 1] = x \o g[i - 1] /\ (i - 1) + 1 = i
        BY <1>5
      <3> QED BY <3>1
    <2>3. (x \o g[i - 1]) \o s[i] = x \o (g[i - 1] \o s[i])
      <3> DEFINE a == g[i - 1]
                 b == s[i]
      <3>1. a \in Seq(P) /\ b \in Seq(P)
        BY <2>1
      <3> HIDE DEF a, b
      <3>2. (x \o a) \o b = x \o (a \o b)
        BY <3>1, JoinThree
      <3> QED BY <3>2 DEF a, b
    <2>4. f[i + 1] = x \o g[i]
      BY <2>1, <2>2, <2>3
    <2> QED BY <2>4
  <1>6. n \in D
    <2> HIDE DEF D, n
    <2>1. \A i \in 0..n : i \in D
      BY <1>n, <1>4, <1>5, InductionUpTo
    <2> QED BY <1>n, <2>1
  <1> QED BY <1>3, <1>6 DEF t

(***************************************************************************)
(* The sources of a question                                               *)
(***************************************************************************)
\* What is known of a document.
LEMMA DocumentFacts ==
    ASSUME NEW ds \in Seq(Documents)
    PROVE  /\ Len(ds) \in Nat /\ DOMAIN ds = 1..Len(ds)
           /\ \A i \in DOMAIN ds : /\ ds[i].always \in BOOLEAN
                                   /\ ds[i].size \in Nat /\ ds[i].score \in Nat
  <1>1. \A i \in DOMAIN ds : ds[i] \in Documents
    OBVIOUS
  <1>2. \A d \in Documents : d.always \in BOOLEAN /\ d.size \in Nat /\ d.score \in Nat
    BY PromptAssumption DEF Documents
  <1> QED BY <1>1, <1>2

\* u is the running total of the picks p.
RunsOver(u, ds, p) ==
    u[0] = 0 /\ \A i \in 1..Len(p) : u[i] = u[i - 1] + ds[p[i]].size

\* SizeOf is a running total.
LEMMA SizeOfLoop ==
    ASSUME NEW ds \in Seq(Documents), NEW p \in Seq(DOMAIN ds)
    PROVE  \E u : RunsOver(u, ds, p) /\ SizeOf(ds, p) = u[Len(p)]
  <1> DEFINE n == Len(p)
             S == Nat
             c == 0
             step == [i \in 1..n |-> [v \in S |-> v + ds[p[i]].size]]
             Body(f) == [i \in 0..n |-> IF i = 0 THEN 0 ELSE f[i - 1] + ds[p[i]].size]
             used == CHOOSE f : f = Body(f)
  <1>1. n \in Nat /\ c \in S /\ \A i \in 1..n : ds[p[i]].size \in Nat
    <2>1. n \in Nat /\ \A i \in 1..n : p[i] \in DOMAIN ds
      OBVIOUS
    <2> QED BY <2>1, DocumentFacts
  <1>2. step \in [1..n -> [S -> S]]
    BY <1>1
  <1>3. \E f : Loop(f, n, S, c, step)
    <2> HIDE DEF n, S, c, step
    <2> QED BY <1>1, <1>2, LoopExists
  <1>4. PICK f : Loop(f, n, S, c, step)
    BY <1>3
  <1>5. f = Body(f)
    <2>1. f \in [0..n -> Nat] /\ f[0] = 0 /\ \A i \in 1..n : f[i] = step[i][f[i - 1]]
      BY <1>4 DEF Loop
    <2>2. ASSUME NEW i \in 1..n PROVE f[i] = f[i - 1] + ds[p[i]].size
      <3>1. i - 1 \in 0..n
        BY <1>1
      <3>2. f[i - 1] \in Nat
        BY <2>1, <3>1
      <3>3. step[i] = [v \in Nat |-> v + ds[p[i]].size]
        OBVIOUS
      <3> QED BY <2>1, <3>2, <3>3
    <2> QED BY <2>1, <2>2
  <1>6. used = Body(used)
    <2> HIDE DEF Body
    <2> QED BY <1>5
  <1>7. SizeOf(ds, p) = used[n]
    BY DEF SizeOf
  <1> HIDE DEF used
  <1>8. used[0] = 0 /\ \A i \in 1..n : used[i] = used[i - 1] + ds[p[i]].size
    <2> HIDE DEF n
    <2>1. \A i \in 0..n : used[i] = IF i = 0 THEN 0 ELSE used[i - 1] + ds[p[i]].size
      BY <1>6
    <2>2. 0 \in 0..n /\ \A i \in 1..n : i \in 0..n /\ i # 0
      BY <1>1
    <2> QED BY <2>1, <2>2
  <1>9. RunsOver(used, ds, p)
    BY <1>8 DEF RunsOver
  <1> QED BY <1>7, <1>9

\* u is the running total of the documents of S.
RunsThrough(u, ds, S) ==
    u[0] = 0 /\ \A i \in 1..Len(ds) : u[i] = u[i - 1] + IF i \in S THEN ds[i].size ELSE 0

\* TotalSize is a running total over all documents.
LEMMA TotalSizeLoop ==
    ASSUME NEW ds \in Seq(Documents), NEW S
    PROVE  \E u : RunsThrough(u, ds, S) /\ TotalSize(ds, S) = u[Len(ds)]
  <1> DEFINE n == Len(ds)
             V == Nat
             c == 0
             step == [i \in 1..n |-> [v \in V |-> v + IF i \in S THEN ds[i].size ELSE 0]]
             Body(f) == [i \in 0..n |-> IF i = 0 THEN 0
                                        ELSE f[i - 1] + IF i \in S THEN ds[i].size ELSE 0]
             total == CHOOSE f : f = Body(f)
  <1>1. n \in Nat /\ c \in V /\ \A i \in 1..n : ds[i].size \in Nat
    BY DocumentFacts
  <1>2. step \in [1..n -> [V -> V]]
    BY <1>1
  <1>3. \E f : Loop(f, n, V, c, step)
    <2> HIDE DEF n, V, c, step
    <2> QED BY <1>1, <1>2, LoopExists
  <1>4. PICK f : Loop(f, n, V, c, step)
    BY <1>3
  <1>5. f = Body(f)
    <2>1. f \in [0..n -> Nat] /\ f[0] = 0 /\ \A i \in 1..n : f[i] = step[i][f[i - 1]]
      BY <1>4 DEF Loop
    <2>2. ASSUME NEW i \in 1..n PROVE f[i] = f[i - 1] + IF i \in S THEN ds[i].size ELSE 0
      <3>1. /\ f[i - 1] \in Nat
            /\ step[i] = [v \in Nat |-> v + IF i \in S THEN ds[i].size ELSE 0]
        BY <2>1
      <3> QED BY <2>1, <3>1
    <2> QED BY <2>1, <2>2
  <1>6. total = Body(total)
    <2> HIDE DEF Body
    <2> QED BY <1>5
  <1>7. TotalSize(ds, S) = total[n]
    BY DEF TotalSize
  <1> HIDE DEF total
  <1>8. /\ total[0] = 0
        /\ \A i \in 1..n : total[i] = total[i - 1] + IF i \in S THEN ds[i].size ELSE 0
    BY <1>1, <1>6
  <1>9. RunsThrough(total, ds, S)
    BY <1>8 DEF RunsThrough
  <1> QED BY <1>7, <1>9

\* The size of one more pick.
LEMMA SizeOfAppend ==
    ASSUME NEW ds \in Seq(Documents), NEW p \in Seq(DOMAIN ds), NEW x \in DOMAIN ds
    PROVE  /\ SizeOf(ds, p) \in Nat
           /\ SizeOf(ds, Append(p, x)) = SizeOf(ds, p) + ds[x].size
  <1> DEFINE n == Len(p)
             q == Append(p, x)
  <1>0. /\ n \in Nat /\ q \in Seq(DOMAIN ds) /\ Len(q) = n + 1 /\ q[n + 1] = x
        /\ \A i \in 1..n : q[i] = p[i] /\ p[i] \in DOMAIN ds
    OBVIOUS
  <1> HIDE DEF q
  <1>s. \A i \in 1..n : ds[p[i]].size \in Nat
    BY <1>0, DocumentFacts
  <1>u. PICK u : RunsOver(u, ds, p) /\ SizeOf(ds, p) = u[n]
    BY SizeOfLoop
  <1>1. u[0] = 0 /\ \A i \in 1..n : u[i] = u[i - 1] + ds[p[i]].size
    BY <1>u DEF RunsOver
  <1>v. PICK v : RunsOver(v, ds, q) /\ SizeOf(ds, q) = v[Len(q)]
    BY <1>0, SizeOfLoop
  <1>2. v[0] = 0 /\ \A i \in 1..(n + 1) : v[i] = v[i - 1] + ds[q[i]].size
    BY <1>0, <1>v DEF RunsOver
  <1> DEFINE D == {i \in 0..n : u[i] \in Nat /\ v[i] = u[i]}
  <1>3. 0 \in D
    BY <1>0, <1>1, <1>2
  <1>4. ASSUME NEW i \in 1..n, i - 1 \in D PROVE i \in D
    <2>1. u[i] = u[i - 1] + ds[p[i]].size /\ v[i] = v[i - 1] + ds[p[i]].size
      <3>1. i \in 1..(n + 1) /\ q[i] = p[i]
        BY <1>0
      <3>2. v[i] = v[i - 1] + ds[q[i]].size
        BY <1>2, <3>1
      <3> QED BY <1>1, <3>1, <3>2
    <2> QED BY <1>4, <1>s, <2>1
  <1>5. n \in D
    <2> HIDE DEF D
    <2>1. \A i \in 0..n : i \in D
      BY <1>0, <1>3, <1>4, InductionUpTo
    <2> QED BY <1>0, <2>1
  <1>6. v[n + 1] = v[n] + ds[x].size
    <2>1. n + 1 \in 1..(n + 1) /\ (n + 1) - 1 = n
      BY <1>0
    <2> QED BY <1>0, <1>2, <2>1
  <1> QED BY <1>0, <1>u, <1>v, <1>5, <1>6 DEF q

\* The size of one more document.
LEMMA TotalSizeAdd ==
    ASSUME NEW ds \in Seq(Documents), NEW S, NEW x \in DOMAIN ds, x \notin S
    PROVE  TotalSize(ds, S \cup {x}) = TotalSize(ds, S) + ds[x].size
  <1> DEFINE n == Len(ds)
             T == S \cup {x}
  <1>0. n \in Nat /\ x \in 1..n /\ \A i \in 1..n : ds[i].size \in Nat
    BY DocumentFacts
  <1>a. \A i \in 1..n : i \in T <=> i \in S \/ i = x
    OBVIOUS
  <1> HIDE DEF T
  <1>u. PICK u : RunsThrough(u, ds, S) /\ TotalSize(ds, S) = u[n]
    BY TotalSizeLoop
  <1>1. u[0] = 0 /\ \A i \in 1..n : u[i] = u[i - 1] + IF i \in S THEN ds[i].size ELSE 0
    BY <1>u DEF RunsThrough
  <1>v. PICK v : RunsThrough(v, ds, T) /\ TotalSize(ds, T) = v[n]
    BY TotalSizeLoop
  <1>2. v[0] = 0 /\ \A i \in 1..n : v[i] = v[i - 1] + IF i \in T THEN ds[i].size ELSE 0
    BY <1>v DEF RunsThrough
  <1> DEFINE D == {i \in 0..n : /\ u[i] \in Nat
                                /\ v[i] = u[i] + IF x <= i THEN ds[x].size ELSE 0}
  <1>3. 0 \in D
    BY <1>0, <1>1, <1>2
  <1>4. ASSUME NEW i \in 1..n, i - 1 \in D PROVE i \in D
    <2>1. /\ u[i] = u[i - 1] + IF i \in S THEN ds[i].size ELSE 0
          /\ v[i] = v[i - 1] + IF i \in T THEN ds[i].size ELSE 0
          /\ u[i - 1] \in Nat /\ v[i - 1] = u[i - 1] + IF x <= i - 1 THEN ds[x].size ELSE 0
          /\ ds[i].size \in Nat /\ ds[x].size \in Nat
      BY <1>0, <1>1, <1>2, <1>4
    <2>2. CASE i = x
      BY <1>a, <2>1, <2>2
    <2>3. CASE i # x
      <3>1. (i \in T <=> i \in S) /\ (x <= i - 1 <=> x <= i)
        BY <1>0, <1>a, <2>3
      <3> QED BY <2>1, <3>1
    <2> QED BY <2>2, <2>3
  <1>5. n \in D
    <2> HIDE DEF D
    <2>1. \A i \in 0..n : i \in D
      BY <1>0, <1>3, <1>4, InductionUpTo
    <2> QED BY <1>0, <2>1
  <1> QED BY <1>0, <1>u, <1>v, <1>5 DEF T

\* Nothing has no size.
LEMMA SizesOfNothing ==
    ASSUME NEW ds \in Seq(Documents)
    PROVE  SizeOf(ds, <<>>) = 0 /\ TotalSize(ds, {}) = 0
  <1>1. SizeOf(ds, <<>>) = 0
    <2>1. <<>> \in Seq(DOMAIN ds) /\ Len(<<>>) = 0
      OBVIOUS
    <2>2. PICK u : RunsOver(u, ds, <<>>) /\ SizeOf(ds, <<>>) = u[Len(<<>>)]
      BY <2>1, SizeOfLoop
    <2> QED BY <2>1, <2>2 DEF RunsOver
  <1>2. TotalSize(ds, {}) = 0
    <2> DEFINE n == Len(ds)
    <2>0. n \in Nat
      OBVIOUS
    <2>1. PICK u : RunsThrough(u, ds, {}) /\ TotalSize(ds, {}) = u[n]
      BY TotalSizeLoop
    <2>2. u[0] = 0 /\ \A i \in 1..n : u[i] = u[i - 1] + 0
      BY <2>1 DEF RunsThrough
    <2> DEFINE D == {i \in 0..n : u[i] = 0}
    <2>3. 0 \in D
      BY <2>0, <2>2
    <2>4. ASSUME NEW i \in 1..n, i - 1 \in D PROVE i \in D
      BY <2>2, <2>4
    <2>5. n \in D
      <3> HIDE DEF D
      <3>1. \A i \in 0..n : i \in D
        BY <2>0, <2>3, <2>4, InductionUpTo
      <3> QED BY <2>0, <3>1
    <2> QED BY <2>1, <2>5
  <1> QED BY <1>1, <1>2

\* The picks are the documents of S, each once.
Lists(ds, p, S) ==
    /\ p \in Seq(DOMAIN ds)
    /\ Sq!Range(p) = S
    /\ IsFiniteSet(S) /\ Len(p) = Cardinality(S)
    /\ SizeOf(ds, p) = TotalSize(ds, S)

\* No picks list no documents.
LEMMA ListsNothing ==
    ASSUME NEW ds \in Seq(Documents)
    PROVE  Lists(ds, <<>>, {})
  <1>1. <<>> \in Seq(DOMAIN ds) /\ Len(<<>>) = 0 /\ Sq!Range(<<>>) = {}
    BY DEF Sq!Range
  <1> QED BY <1>1, SizesOfNothing, FS_EmptySet DEF Lists

\* A new pick adds its document.
LEMMA ListsAppend ==
    ASSUME NEW ds \in Seq(Documents), NEW p, NEW S, Lists(ds, p, S),
           NEW x \in DOMAIN ds, x \notin S
    PROVE  Lists(ds, Append(p, x), S \cup {x})
  <1>0. p \in Seq(DOMAIN ds) /\ Sq!Range(p) = S /\ IsFiniteSet(S) /\ Len(p) = Cardinality(S)
    BY DEF Lists
  <1>1. Append(p, x) \in Seq(DOMAIN ds) /\ Len(Append(p, x)) = Len(p) + 1
    BY <1>0
  <1>2. Sq!Range(Append(p, x)) = S \cup {x}
    <2>1. /\ DOMAIN p = 1..Len(p) /\ Len(p) \in Nat
          /\ DOMAIN Append(p, x) = 1..(Len(p) + 1) /\ Append(p, x)[Len(p) + 1] = x
          /\ \A i \in 1..Len(p) : Append(p, x)[i] = p[i]
      BY <1>0
    <2>2. S = {p[i] : i \in 1..Len(p)}
      BY <1>0, <2>1 DEF Sq!Range
    <2> HIDE DEF Lists
    <2> DEFINE q == Append(p, x)
    <2>3. Sq!Range(q) = {q[i] : i \in 1..(Len(p) + 1)}
      BY <2>1 DEF Sq!Range
    <2> HIDE DEF q
    <2>4. q[Len(p) + 1] = x /\ \A i \in 1..Len(p) : q[i] = p[i]
      BY <2>1 DEF q
    <2>5. ASSUME NEW y PROVE y \in {q[i] : i \in 1..(Len(p) + 1)} <=> y \in S \cup {x}
      <3>1. ASSUME NEW i \in 1..(Len(p) + 1), y = q[i] PROVE y \in S \cup {x}
        <4>1. i = Len(p) + 1 \/ i \in 1..Len(p)
          BY <2>1
        <4> QED BY <2>2, <2>4, <3>1, <4>1
      <3>2. ASSUME NEW i \in 1..Len(p), y = p[i] PROVE y \in {q[k] : k \in 1..(Len(p) + 1)}
        <4>1. i \in 1..(Len(p) + 1)
          BY <2>1
        <4> QED BY <2>4, <3>2, <4>1
      <3>3. Len(p) + 1 \in 1..(Len(p) + 1)
        BY <2>1
      <3> QED BY <2>2, <2>4, <3>1, <3>2, <3>3
    <2> QED BY <2>3, <2>5 DEF q
  <1>3. IsFiniteSet(S \cup {x}) /\ Cardinality(S \cup {x}) = Cardinality(S) + 1
    BY <1>0, FS_AddElement
  <1>4. SizeOf(ds, Append(p, x)) = TotalSize(ds, S \cup {x})
    <2>1. SizeOf(ds, Append(p, x)) = SizeOf(ds, p) + ds[x].size
      BY <1>0, SizeOfAppend
    <2>2. TotalSize(ds, S \cup {x}) = TotalSize(ds, S) + ds[x].size
      BY TotalSizeAdd
    <2> QED BY <2>1, <2>2 DEF Lists
  <1> QED BY <1>0, <1>1, <1>2, <1>3, <1>4 DEF Lists

\* out is the loop over the documents that collects the always-documents.
Collects(out, ds) ==
    /\ out[0] = <<>>
    /\ \A i \in 1..Len(ds) : out[i] = IF ds[i].always THEN Append(out[i - 1], i) ELSE out[i - 1]

\* AlwaysDocs is what the loop has collected at the end.
LEMMA AlwaysDocsLoop ==
    ASSUME NEW ds \in Seq(Documents)
    PROVE  \E out : Collects(out, ds) /\ AlwaysDocs(ds) = out[Len(ds)]
  <1> DEFINE n == Len(ds)
             V == Seq(1..n)
             c == <<>>
             step == [i \in 1..n |-> [v \in V |-> IF ds[i].always THEN Append(v, i) ELSE v]]
             Body(f) == [i \in 0..n |-> IF i = 0 THEN <<>>
                                        ELSE IF ds[i].always THEN Append(f[i - 1], i) ELSE f[i - 1]]
             out == CHOOSE f : f = Body(f)
  <1>1. n \in Nat /\ c \in V
    OBVIOUS
  <1>2. step \in [1..n -> [V -> V]]
    <2>1. \A i \in 1..n : \A v \in V : Append(v, i) \in V
      OBVIOUS
    <2>2. \A i \in 1..n : \A v \in V : (IF ds[i].always THEN Append(v, i) ELSE v) \in V
      BY <2>1
    <2> HIDE DEF V, n
    <2> QED BY <2>2
  <1>3. \E f : Loop(f, n, V, c, step)
    <2> HIDE DEF n, V, c, step
    <2> QED BY <1>1, <1>2, LoopExists
  <1>4. PICK f : Loop(f, n, V, c, step)
    BY <1>3
  <1>5. f = Body(f)
    <2> HIDE DEF V, n
    <2>1. f \in [0..n -> V] /\ f[0] = <<>> /\ \A i \in 1..n : f[i] = step[i][f[i - 1]]
      BY <1>4 DEF Loop
    <2>2. ASSUME NEW i \in 1..n
          PROVE  f[i] = IF ds[i].always THEN Append(f[i - 1], i) ELSE f[i - 1]
      <3>1. i - 1 \in 0..n
        BY <1>1
      <3>2. f[i - 1] \in V
        BY <2>1, <3>1
      <3>3. step[i] = [v \in V |-> IF ds[i].always THEN Append(v, i) ELSE v]
        OBVIOUS
      <3> QED BY <2>1, <3>2, <3>3
    <2>3. ASSUME NEW i \in 0..n
          PROVE  f[i] = IF i = 0 THEN <<>>
                        ELSE IF ds[i].always THEN Append(f[i - 1], i) ELSE f[i - 1]
      <3>1. CASE i = 0
        BY <2>1, <3>1
      <3>2. CASE i # 0
        <4>1. i \in 1..n
          BY <1>1, <3>2
        <4> QED BY <2>2, <3>2, <4>1
      <3> QED BY <3>1, <3>2
    <2>4. f = [i \in 0..n |-> f[i]]
      BY <2>1
    <2> QED BY <2>3, <2>4
  <1>6. out = Body(out)
    <2> HIDE DEF Body
    <2> QED BY <1>5
  <1>7. AlwaysDocs(ds) = out[n]
    BY DEF AlwaysDocs
  <1> HIDE DEF out, n
  <1>8. /\ out[0] = <<>>
        /\ \A i \in 1..n : out[i] = IF ds[i].always THEN Append(out[i - 1], i) ELSE out[i - 1]
    <2>1. \A i \in 0..n : out[i] = IF i = 0 THEN <<>>
                           ELSE IF ds[i].always THEN Append(out[i - 1], i) ELSE out[i - 1]
      BY <1>6
    <2>2. 0 \in 0..n /\ \A i \in 1..n : i \in 0..n /\ i # 0
      BY <1>1
    <2> QED BY <2>1, <2>2
  <1>9. Collects(out, ds)
    BY <1>8 DEF Collects, n
  <1> QED BY <1>7, <1>9 DEF n

AlwaysSet(ds) == {i \in DOMAIN ds : ds[i].always}

\* AlwaysDocs are the always-documents.
LEMMA AlwaysDocsListed ==
    ASSUME NEW ds \in Seq(Documents)
    PROVE  Lists(ds, AlwaysDocs(ds), AlwaysSet(ds))
  <1> DEFINE n == Len(ds)
             T(k) == {i \in 1..k : ds[i].always}
  <1>0. n \in Nat /\ DOMAIN ds = 1..n
    OBVIOUS
  <1>1. PICK out : Collects(out, ds) /\ AlwaysDocs(ds) = out[n]
    BY AlwaysDocsLoop
  <1> DEFINE D == {k \in 0..n : Lists(ds, out[k], T(k))}
  <1>2. 0 \in D
    <2>1. T(0) = {} /\ out[0] = <<>> /\ 0 \in 0..n
      BY <1>0, <1>1 DEF Collects
    <2>2. Lists(ds, out[0], T(0))
      BY <2>1, ListsNothing
    <2> QED BY <2>1, <2>2
  <1>3. ASSUME NEW k \in 1..n, k - 1 \in D PROVE k \in D
    <2>1. out[k] = IF ds[k].always THEN Append(out[k - 1], k) ELSE out[k - 1]
      BY <1>1 DEF Collects
    <2>2. k \notin T(k - 1) /\ T(k) = IF ds[k].always THEN T(k - 1) \cup {k} ELSE T(k - 1)
      OBVIOUS
    <2>3. Lists(ds, out[k - 1], T(k - 1)) /\ k \in DOMAIN ds /\ k \in 0..n
      BY <1>0, <1>3
    <2> HIDE DEF T
    <2>4. Lists(ds, out[k], T(k))
      <3>1. CASE ds[k].always
        <4>1. Lists(ds, Append(out[k - 1], k), T(k - 1) \cup {k})
          BY <2>2, <2>3, ListsAppend
        <4> QED BY <2>1, <2>2, <3>1, <4>1
      <3>2. CASE ~ds[k].always
        BY <2>1, <2>2, <2>3, <3>2
      <3> QED BY <3>1, <3>2
    <2> QED BY <2>3, <2>4
  <1>4. n \in D
    <2> HIDE DEF D
    <2>1. \A k \in 0..n : k \in D
      BY <1>0, <1>2, <1>3, InductionUpTo
    <2> QED BY <1>0, <2>1
  <1>5. T(n) = AlwaysSet(ds)
    BY <1>0 DEF AlwaysSet
  <1> QED BY <1>1, <1>4, <1>5

\* Before orders the documents.
LEMMA BeforeOrders ==
    ASSUME NEW ds \in Seq(Documents), NEW i \in DOMAIN ds, NEW j \in DOMAIN ds
    PROVE  /\ ~Before(ds, i, i)
           /\ i # j => Before(ds, i, j) \/ Before(ds, j, i)
           /\ \A k \in DOMAIN ds : Before(ds, k, i) /\ Before(ds, i, j) => Before(ds, k, j)
  <1>1. DOMAIN ds \subseteq Int /\ \A k \in DOMAIN ds : ds[k].score \in Nat
    BY DocumentFacts
  <1> QED BY <1>1 DEF Before

\* A scored document has a place, which tells what is before it.
LEMMA PlaceFacts ==
    ASSUME NEW ds \in Seq(Documents)
    PROVE  /\ IsFiniteSet(Scored(ds)) /\ Cardinality(Scored(ds)) \in Nat
           /\ \A i \in Scored(ds) : Place(ds, i) \in 1..Cardinality(Scored(ds))
           /\ \A i, j \in Scored(ds) : Before(ds, i, j) <=> Place(ds, i) < Place(ds, j)
           /\ \A i, j \in Scored(ds) : Place(ds, i) = Place(ds, j) => i = j
  <1> DEFINE S == Scored(ds)
             B(i) == {j \in S : Before(ds, j, i)}
  <1>1. S \subseteq DOMAIN ds /\ IsFiniteSet(S) /\ Cardinality(S) \in Nat
    <2>1. Len(ds) \in Nat /\ DOMAIN ds = 1..Len(ds)
      BY DocumentFacts
    <2>2. IsFiniteSet(DOMAIN ds)
      BY <2>1, FS_Interval
    <2>3. S \in SUBSET DOMAIN ds
      BY DEF Scored
    <2> QED BY <2>2, <2>3, FS_Subset, FS_CardinalityType
  <1> HIDE DEF S
  <1>2. ASSUME NEW i \in S
        PROVE  /\ B(i) \in SUBSET S /\ i \notin B(i) /\ IsFiniteSet(B(i))
               /\ Cardinality(B(i)) \in Nat /\ Cardinality(B(i)) + 1 <= Cardinality(S)
    <2>1. B(i) \in SUBSET S /\ i \notin B(i)
      BY <1>1, BeforeOrders
    <2> HIDE DEF B
    <2>2. IsFiniteSet(B(i)) /\ Cardinality(B(i)) \in Nat
      BY <1>1, <2>1, FS_Subset, FS_CardinalityType
    <2>3. B(i) \cup {i} \in SUBSET S /\ Cardinality(B(i) \cup {i}) = Cardinality(B(i)) + 1
      BY <2>1, <2>2, FS_AddElement
    <2>4. Cardinality(B(i) \cup {i}) <= Cardinality(S)
      BY <1>1, <2>3, FS_Subset
    <2> QED BY <2>1, <2>2, <2>3, <2>4
  <1>3. \A i \in S : Place(ds, i) = Cardinality(B(i)) + 1
    BY DEF Place, S
  <1>4. ASSUME NEW i \in S, NEW j \in S, Before(ds, i, j) PROVE Place(ds, i) < Place(ds, j)
    <2>1. B(i) \cup {i} \in SUBSET B(j)
      BY <1>1, <1>4, BeforeOrders
    <2> HIDE DEF B
    <2>2. IsFiniteSet(B(i)) /\ IsFiniteSet(B(j)) /\ i \notin B(i)
          /\ Cardinality(B(i)) \in Nat /\ Cardinality(B(j)) \in Nat
      BY <1>2
    <2>3. Cardinality(B(i) \cup {i}) = Cardinality(B(i)) + 1
      BY <2>2, FS_AddElement
    <2>4. Cardinality(B(i) \cup {i}) <= Cardinality(B(j))
      BY <2>1, <2>2, FS_Subset
    <2> QED BY <1>3, <2>2, <2>3, <2>4
  <1>5. \A i \in S : Place(ds, i) \in 1..Cardinality(S)
    <2> HIDE DEF B
    <2> QED BY <1>1, <1>2, <1>3
  <1>6. ASSUME NEW i \in S, NEW j \in S
        PROVE  /\ Before(ds, i, j) <=> Place(ds, i) < Place(ds, j)
               /\ Place(ds, i) = Place(ds, j) => i = j
    <2>1. Place(ds, i) \in Int /\ Place(ds, j) \in Int
      BY <1>5
    <2>2. i # j => Before(ds, i, j) \/ Before(ds, j, i)
      BY <1>1, BeforeOrders
    <2>3. Before(ds, i, j) => Place(ds, i) < Place(ds, j)
      BY <1>4
    <2>4. Before(ds, j, i) => Place(ds, j) < Place(ds, i)
      BY <1>4
    <2> QED BY <2>1, <2>2, <2>3, <2>4
  <1> QED BY <1>1, <1>5, <1>6 DEF S

\* Ranked lists the scored documents by place.
LEMMA RankedFacts ==
    ASSUME NEW ds \in Seq(Documents)
    PROVE  /\ Len(Ranked(ds)) = Cardinality(Scored(ds)) /\ Len(Ranked(ds)) \in Nat
           /\ \A n \in 1..Len(Ranked(ds)) :
                 Ranked(ds)[n] \in Scored(ds) /\ Place(ds, Ranked(ds)[n]) = n
           /\ \A i \in Scored(ds) :
                 Place(ds, i) \in 1..Len(Ranked(ds)) /\ Ranked(ds)[Place(ds, i)] = i
  <1> DEFINE S == Scored(ds)
             m == Cardinality(S)
             pl == [i \in S |-> Place(ds, i)]
  <1>1. IsFiniteSet(S) /\ m \in Nat /\ \A i \in S : Place(ds, i) \in 1..m
    BY PlaceFacts
  <1>2. \A i, j \in S : Place(ds, i) = Place(ds, j) => i = j
    BY PlaceFacts
  <1> HIDE DEF S, m
  <1>3. pl \in Injection(S, 1..m)
    BY <1>1, <1>2 DEF Injection, IsInjective
  <1>4. IsFiniteSet(1..m) /\ Cardinality(1..m) = m
    BY <1>1, FS_Interval
  <1>5. pl \in Surjection(S, 1..m)
    <2> HIDE DEF pl
    <2> QED BY <1>3, <1>4, FS_Injection DEF m
  <1>6. \A n \in 1..m : \E i \in S : Place(ds, i) = n
    BY <1>5 DEF Surjection
  <1>7. Ranked(ds) = [n \in 1..m |-> CHOOSE i \in S : Place(ds, i) = n]
    BY DEF Ranked, S, m
  <1>8. Len(Ranked(ds)) = m
    BY <1>1, <1>7
  <1>9. ASSUME NEW n \in 1..m PROVE Ranked(ds)[n] \in S /\ Place(ds, Ranked(ds)[n]) = n
    <2>1. Ranked(ds)[n] = CHOOSE i \in S : Place(ds, i) = n
      BY <1>7
    <2> QED BY <1>6, <2>1
  <1>10. ASSUME NEW i \in S PROVE Ranked(ds)[Place(ds, i)] = i
    <2>1. Place(ds, i) \in 1..m
      BY <1>1
    <2>2. Ranked(ds)[Place(ds, i)] \in S /\ Place(ds, Ranked(ds)[Place(ds, i)]) = Place(ds, i)
      BY <1>9, <2>1
    <2> QED BY <1>2, <2>2
  <1> QED BY <1>1, <1>8, <1>9, <1>10 DEF S, m

\* out is the loop over the ranking that picks what fits.
Picks(out, ds) ==
    /\ out[0] = AlwaysDocs(ds)
    /\ \A k \in 1..Len(Ranked(ds)) :
          out[k] = IF Fits(ds, out[k - 1], Ranked(ds)[k])
                   THEN Append(out[k - 1], Ranked(ds)[k])
                   ELSE out[k - 1]

\* Retrieve is what the loop has picked at the end.
LEMMA RetrieveLoop ==
    ASSUME NEW ds \in Seq(Documents)
    PROVE  \E out : Picks(out, ds) /\ Retrieve(ds) = out[Len(Ranked(ds))]
  <1> DEFINE r == Ranked(ds)
             n == Len(r)
             V == Seq(DOMAIN ds)
             c == AlwaysDocs(ds)
             fits(k, v) == Fits(ds, v, r[k])
             step == [k \in 1..n |-> [v \in V |-> IF fits(k, v) THEN Append(v, r[k]) ELSE v]]
             Body(f) == [k \in 0..n |-> IF k = 0 THEN c
                                        ELSE IF fits(k, f[k - 1]) THEN Append(f[k - 1], r[k])
                                        ELSE f[k - 1]]
             out == CHOOSE f : f = Body(f)
  <1>1. n \in Nat /\ c \in V
    BY RankedFacts, AlwaysDocsListed DEF Lists
  <1>7. Retrieve(ds) = out[n]
    BY DEF Retrieve
  <1>2. step \in [1..n -> [V -> V]]
    <2>1. \A k \in 1..n : r[k] \in DOMAIN ds
      BY RankedFacts DEF Scored
    <2> HIDE DEF n, r, c, fits
    <2>2. \A k \in 1..n : \A v \in V : Append(v, r[k]) \in V
      BY <2>1
    <2>3. \A k \in 1..n : \A v \in V : (IF fits(k, v) THEN Append(v, r[k]) ELSE v) \in V
      BY <2>2
    <2> HIDE DEF V
    <2> QED BY <2>3
  <1> HIDE DEF n, V, c, r, fits
  <1>3. \E f : Loop(f, n, V, c, step)
    <2> HIDE DEF step
    <2> QED BY <1>1, <1>2, LoopExists
  <1>4. PICK f : Loop(f, n, V, c, step)
    BY <1>3
  <1>5. f = Body(f)
    <2>1. f \in [0..n -> V] /\ f[0] = c /\ \A k \in 1..n : f[k] = step[k][f[k - 1]]
      BY <1>4 DEF Loop
    <2>2. ASSUME NEW k \in 1..n
          PROVE  f[k] = IF fits(k, f[k - 1]) THEN Append(f[k - 1], r[k]) ELSE f[k - 1]
      <3>1. k - 1 \in 0..n
        BY <1>1
      <3>2. f[k - 1] \in V
        BY <2>1, <3>1
      <3>3. step[k] = [v \in V |-> IF fits(k, v) THEN Append(v, r[k]) ELSE v]
        OBVIOUS
      <3> QED BY <2>1, <3>2, <3>3
    <2>3. ASSUME NEW k \in 0..n
          PROVE  f[k] = IF k = 0 THEN c
                        ELSE IF fits(k, f[k - 1]) THEN Append(f[k - 1], r[k]) ELSE f[k - 1]
      <3>1. CASE k = 0
        BY <2>1, <3>1
      <3>2. CASE k # 0
        <4>1. k \in 1..n
          BY <1>1, <3>2
        <4> QED BY <2>2, <3>2, <4>1
      <3> QED BY <3>1, <3>2
    <2>4. f = [k \in 0..n |-> f[k]]
      BY <2>1
    <2> QED BY <2>3, <2>4
  <1>6. out = Body(out)
    <2> HIDE DEF Body
    <2> QED BY <1>5
  <1> HIDE DEF out
  <1>8. /\ out[0] = c
        /\ \A k \in 1..n : out[k] = IF fits(k, out[k - 1]) THEN Append(out[k - 1], r[k])
                                    ELSE out[k - 1]
    <2>1. \A k \in 0..n : out[k] = IF k = 0 THEN c
                           ELSE IF fits(k, out[k - 1]) THEN Append(out[k - 1], r[k])
                           ELSE out[k - 1]
      BY <1>6
    <2>2. 0 \in 0..n /\ \A k \in 1..n : k \in 0..n /\ k # 0
      BY <1>1
    <2> QED BY <2>1, <2>2
  <1>9. Picks(out, ds)
    BY <1>8 DEF Picks, n, r, c, fits
  <1> QED BY <1>7, <1>9 DEF n, r

\* After k of the ranking: the always-documents and those of the first k that fitted
\* when their turn came.
Picked(out, ds, k) ==
    AlwaysSet(ds) \cup {i \in Scored(ds) : Place(ds, i) <= k /\ Fits(ds, out[Place(ds, i) - 1], i)}

\* Retrieve lists them, each once, at every turn.
LEMMA PicksListed ==
    ASSUME NEW ds \in Seq(Documents), NEW out, Picks(out, ds)
    PROVE  \A k \in 0..Len(Ranked(ds)) : Lists(ds, out[k], Picked(out, ds, k))
  <1> DEFINE n == Len(Ranked(ds))
             r == Ranked(ds)
             S == Scored(ds)
             D == {k \in 0..n : Lists(ds, out[k], Picked(out, ds, k))}
  <1>0. /\ n \in Nat
        /\ \A k \in 1..n : r[k] \in S /\ Place(ds, r[k]) = k
        /\ \A i \in S : Place(ds, i) \in 1..n /\ r[Place(ds, i)] = i
        /\ \A i \in S : i \in DOMAIN ds /\ i \notin AlwaysSet(ds)
    BY RankedFacts DEF Scored, AlwaysSet
  <1>1. 0 \in D
    <2>1. Picked(out, ds, 0) = AlwaysSet(ds)
      BY <1>0 DEF Picked
    <2>2. out[0] = AlwaysDocs(ds) /\ 0 \in 0..n
      BY <1>0 DEF Picks
    <2> QED BY <2>1, <2>2, AlwaysDocsListed
  <1>2. ASSUME NEW k \in 1..n, k - 1 \in D PROVE k \in D
    <2> DEFINE x == r[k]
    <2>1. x \in S /\ Place(ds, x) = k /\ \A i \in S : Place(ds, i) = k => i = x
      BY <1>0
    <2>2. out[k] = IF Fits(ds, out[k - 1], x) THEN Append(out[k - 1], x) ELSE out[k - 1]
      BY DEF Picks
    <2> HIDE DEF x
    <2>3. \A i \in S : Place(ds, i) <= k <=> Place(ds, i) <= k - 1 \/ i = x
      BY <1>0, <2>1
    <2>a. x \notin Picked(out, ds, k - 1)
      BY <1>0, <2>1 DEF Picked
    <2>4. Picked(out, ds, k) = IF Fits(ds, out[k - 1], x) THEN Picked(out, ds, k - 1) \cup {x}
                               ELSE Picked(out, ds, k - 1)
      <3> DEFINE F(i) == Fits(ds, out[Place(ds, i) - 1], i)
                 A == AlwaysSet(ds)
      <3>1. F(x) <=> Fits(ds, out[k - 1], x)
        BY <2>1
      <3>2. /\ Picked(out, ds, k) = A \cup {i \in S : Place(ds, i) <= k /\ F(i)}
            /\ Picked(out, ds, k - 1) = A \cup {i \in S : Place(ds, i) <= k - 1 /\ F(i)}
        BY DEF Picked
      <3> HIDE DEF F, A, S
      <3>3. {i \in S : Place(ds, i) <= k /\ F(i)} =
               IF F(x) THEN {i \in S : Place(ds, i) <= k - 1 /\ F(i)} \cup {x}
               ELSE {i \in S : Place(ds, i) <= k - 1 /\ F(i)}
        BY <2>1, <2>3
      <3> QED BY <3>1, <3>2, <3>3
    <2>5. Lists(ds, out[k - 1], Picked(out, ds, k - 1)) /\ k \in 0..n /\ x \in DOMAIN ds
      BY <1>0, <1>2, <2>1
    <2>6. Lists(ds, out[k], Picked(out, ds, k))
      <3>1. CASE Fits(ds, out[k - 1], x)
        <4>1. Lists(ds, Append(out[k - 1], x), Picked(out, ds, k - 1) \cup {x})
          BY <2>a, <2>5, ListsAppend
        <4> QED BY <2>2, <2>4, <3>1, <4>1
      <3>2. CASE ~Fits(ds, out[k - 1], x)
        BY <2>2, <2>4, <2>5, <3>2
      <3> QED BY <3>1, <3>2
    <2> QED BY <2>5, <2>6
  <1>3. \A k \in 0..n : k \in D
    <2> HIDE DEF D
    <2> QED BY <1>0, <1>1, <1>2, InductionUpTo
  <1> QED BY <1>3

\* The sources of a question are documents, and the best ones (BestSources, of any
\* documents).
LEMMA RetrieveBest ==
    ASSUME NEW ds \in Seq(Documents)
    PROVE  /\ Retrieve(ds) \in Seq(DOMAIN ds)
           /\ LET picked == Sq!Range(Retrieve(ds))
                  above(i) == {j \in picked : ds[j].always \/ Before(ds, j, i)}
              IN  \A i \in DOMAIN ds :
                     i \in picked <=>
                         \/ ds[i].always
                         \/ /\ ds[i].score > 0
                            /\ Cardinality(above(i)) < MaxSources
                            /\ TotalSize(ds, above(i)) + ds[i].size <= SourceBudget
  <1> DEFINE n == Len(Ranked(ds))
             S == Scored(ds)
             A == AlwaysSet(ds)
             picked == Sq!Range(Retrieve(ds))
             above(i) == {j \in picked : ds[j].always \/ Before(ds, j, i)}
  <1>1. PICK out : Picks(out, ds) /\ Retrieve(ds) = out[n]
    BY RetrieveLoop
  <1> DEFINE F(i) == Fits(ds, out[Place(ds, i) - 1], i)
  <1>2. n \in Nat /\ \A i \in S : Place(ds, i) \in 1..n
    BY RankedFacts
  <1>3. \A i, j \in S : Before(ds, j, i) <=> Place(ds, j) < Place(ds, i)
    BY PlaceFacts
  <1>4. \A i \in DOMAIN ds : (i \in A <=> ds[i].always) /\ (i \in S <=> ~ds[i].always /\ ds[i].score > 0)
    BY DEF AlwaysSet, Scored
  <1>5. S \subseteq DOMAIN ds /\ A \subseteq DOMAIN ds
    BY DEF AlwaysSet, Scored
  <1>6. \A k \in 0..n : Lists(ds, out[k], Picked(out, ds, k))
    BY <1>1, PicksListed
  <1>7. Lists(ds, Retrieve(ds), Picked(out, ds, n))
    BY <1>1, <1>2, <1>6
  <1>8. Retrieve(ds) \in Seq(DOMAIN ds) /\ picked = Picked(out, ds, n)
    BY <1>7 DEF Lists
  <1>9. picked = A \cup {i \in S : F(i)}
    <2>1. Picked(out, ds, n) = A \cup {i \in S : Place(ds, i) <= n /\ F(i)}
      BY DEF Picked
    <2>2. \A i \in S : Place(ds, i) <= n
      BY <1>2
    <2> HIDE DEF F, S, A, picked
    <2> QED BY <1>8, <2>1, <2>2
  <1>10. ASSUME NEW i \in S
         PROVE  F(i) <=> /\ Cardinality(above(i)) < MaxSources
                         /\ TotalSize(ds, above(i)) + ds[i].size <= SourceBudget
    <2> DEFINE k == Place(ds, i) - 1
    <2>1. k \in 0..n /\ \A j \in S : Place(ds, j) <= k <=> Place(ds, j) < Place(ds, i)
      BY <1>2
    <2>2. Picked(out, ds, k) = A \cup {j \in S : Place(ds, j) <= k /\ F(j)}
      BY DEF Picked
    <2>3. above(i) = Picked(out, ds, k)
      <3> HIDE DEF F, S, A, picked, k
      <3>1. above(i) = A \cup {j \in S : F(j) /\ Before(ds, j, i)}
        BY <1>4, <1>5, <1>9
      <3>2. \A j \in S : Before(ds, j, i) <=> Place(ds, j) <= k
        BY <1>3, <2>1
      <3> QED BY <2>2, <3>1, <3>2
    <2>4. Lists(ds, out[k], above(i))
      BY <1>6, <2>1, <2>3
    <2>5. Len(out[k]) = Cardinality(above(i)) /\ SizeOf(ds, out[k]) = TotalSize(ds, above(i))
      BY <2>4 DEF Lists
    <2>6. F(i) <=> Len(out[k]) < MaxSources /\ SizeOf(ds, out[k]) + ds[i].size <= SourceBudget
      BY DEF Fits
    <2> QED BY <2>5, <2>6
  <1> HIDE DEF F, S, A, picked, above
  <1>11. ASSUME NEW i \in DOMAIN ds
         PROVE  i \in picked <=>
                    \/ ds[i].always
                    \/ /\ ds[i].score > 0
                       /\ Cardinality(above(i)) < MaxSources
                       /\ TotalSize(ds, above(i)) + ds[i].size <= SourceBudget
    BY <1>4, <1>9, <1>10
  <1> QED BY <1>8, <1>11 DEF picked, above

\* What is picked beyond the always-documents fitted when it was added
\* (SourcesWithinBudget, of any documents).
LEMMA RetrieveWithinBudget ==
    ASSUME NEW ds \in Seq(Documents)
    PROVE  LET picked == Retrieve(ds)
           IN  \/ picked = AlwaysDocs(ds)
               \/ Len(picked) <= MaxSources /\ SizeOf(ds, picked) <= SourceBudget
  <1> DEFINE n == Len(Ranked(ds))
             Within(p) == Len(p) <= MaxSources /\ SizeOf(ds, p) <= SourceBudget
  <1>1. PICK out : Picks(out, ds) /\ Retrieve(ds) = out[n]
    BY RetrieveLoop
  <1>2. n \in Nat /\ n \in 0..n
    BY RankedFacts
  <1>3. \A k \in 0..n : out[k] \in Seq(DOMAIN ds)
    BY <1>1, PicksListed DEF Lists
  <1> DEFINE D == {k \in 0..n : out[k] = AlwaysDocs(ds) \/ Within(out[k])}
  <1>4. 0 \in D
    BY <1>1, <1>2 DEF Picks
  <1>5. ASSUME NEW k \in 1..n, k - 1 \in D PROVE k \in D
    <2> DEFINE x == Ranked(ds)[k]
               p == out[k - 1]
    <2>a. x \in Scored(ds)
      BY RankedFacts
    <2>b. k \in 0..n /\ k - 1 \in 0..n
      BY <1>2
    <2>1. x \in DOMAIN ds /\ k \in 0..n /\ k - 1 \in 0..n
      BY <2>a, <2>b DEF Scored
    <2>2. p \in Seq(DOMAIN ds)
      BY <1>3, <2>1
    <2>3. out[k] = IF Fits(ds, p, x) THEN Append(p, x) ELSE p
      BY <1>1 DEF Picks
    <2> HIDE DEF x, p
    <2>4. ASSUME Fits(ds, p, x) PROVE Within(Append(p, x))
      <3>1. Len(Append(p, x)) = Len(p) + 1 /\ Len(p) \in Nat
        BY <2>2
      <3>2. SizeOf(ds, Append(p, x)) = SizeOf(ds, p) + ds[x].size
        BY <2>1, <2>2, SizeOfAppend
      <3>3. Len(p) < MaxSources /\ SizeOf(ds, p) + ds[x].size <= SourceBudget
        BY <2>4 DEF Fits
      <3> QED BY <3>1, <3>2, <3>3, PromptAssumption
    <2> HIDE DEF Within
    <2>5. out[k] = AlwaysDocs(ds) \/ Within(out[k])
      BY <1>5, <2>3, <2>4 DEF p
    <2> QED BY <2>1, <2>5
  <1>6. n \in D
    <2> HIDE DEF D, n
    <2>1. \A k \in 0..n : k \in D
      BY <1>2, <1>4, <1>5, InductionUpTo
    <2> QED BY <1>2, <2>1
  <1> QED BY <1>1, <1>6

\* BestSources holds of every app's documents.
LEMMA DocsBestSources ==
    ASSUME docs \in Seq(Documents)
    PROVE  BestSources
  BY RetrieveBest DEF BestSources

(***************************************************************************)
(* The text of messages                                                    *)
(***************************************************************************)
Tags == {"system", "prompt", "vision", "tool", "turn", "source"}

Pieces == Tags \X Nat

WireRoles == Roles \cup {"tool", "prompt"}

Messages == [role : WireRoles, text : Seq(Pieces), image : BOOLEAN]

\* The texts of messages are texts.
LEMMA TextsOf ==
    ASSUME NEW msgs \in Seq(Messages)
    PROVE  [i \in DOMAIN msgs |-> msgs[i].text] \in Seq(Seq(Pieces))
  <1>1. \A m \in Messages : m.text \in Seq(Pieces)
    BY DEF Messages
  <1> DEFINE P == Seq(Pieces)
  <1> HIDE DEF P
  <1>2. \A i \in DOMAIN msgs : msgs[i].text \in P
    BY <1>1 DEF P
  <1> QED BY <1>2 DEF P

\* The text is one text, none of no messages, and grows at either end.
LEMMA TextFacts ==
    ASSUME NEW msgs \in Seq(Messages), NEW m \in Messages
    PROVE  /\ Text(msgs) \in Seq(Pieces) /\ m.text \in Seq(Pieces)
           /\ Text(<<>>) = <<>>
           /\ Text(<<m>> \o msgs) = m.text \o Text(msgs)
           /\ Text(Append(msgs, m)) = Text(msgs) \o m.text
  <1> DEFINE T(s) == [i \in DOMAIN s |-> s[i].text]
  <1>0. m.text \in Seq(Pieces)
    BY DEF Messages
  <1>1. T(msgs) \in Seq(Seq(Pieces))
    BY TextsOf
  <1>2. T(<<>>) = <<>>
    OBVIOUS
  <1>3. Sq!FlattenSeq(<<>>) = <<>>
    BY DEF Sq!FlattenSeq
  <1>4. T(<<m>> \o msgs) = <<m.text>> \o T(msgs)
    OBVIOUS
  <1>5. T(Append(msgs, m)) = Append(T(msgs), m.text)
    OBVIOUS
  <1>6. \A s : Text(s) = Sq!FlattenSeq(T(s))
    BY DEF Text
  <1> HIDE DEF T
  <1>7. /\ Sq!FlattenSeq(T(msgs)) \in Seq(Pieces)
        /\ Sq!FlattenSeq(<<m.text>> \o T(msgs)) = m.text \o Sq!FlattenSeq(T(msgs))
        /\ Sq!FlattenSeq(Append(T(msgs), m.text)) = Sq!FlattenSeq(T(msgs)) \o m.text
    BY <1>0, <1>1, FlattenType, FlattenCons, FlattenAppend
  <1> QED BY <1>0, <1>2, <1>3, <1>4, <1>5, <1>6, <1>7

\* The text of one message.
LEMMA TextOne ==
    ASSUME NEW m \in Messages
    PROVE  Text(<<m>>) = m.text
  <1>1. <<>> \in Seq(Messages) /\ Append(<<>>, m) = <<m>>
    OBVIOUS
  <1>2. Text(Append(<<>>, m)) = Text(<<>>) \o m.text /\ Text(<<>>) = <<>> /\ m.text \in Seq(Pieces)
    BY <1>1, TextFacts
  <1>3. <<>> \o m.text = m.text
    BY <1>2, ConcatEmptySeq
  <1> QED BY <1>1, <1>2, <1>3

\* A message has its role and its text, and no image.
LEMMA MessageType ==
    ASSUME NEW role \in WireRoles, NEW text \in Seq(Pieces)
    PROVE  /\ Message(role, text) \in Messages /\ Message(role, text).text = text
           /\ Message(role, text).role = role /\ ~Message(role, text).image
  BY DEF Message, Messages

(***************************************************************************)
(* The requests                                                            *)
(***************************************************************************)
RequestType ==
    [modality : {"text", "vision"}, system : Seq(Pieces), prompt : Seq(Pieces), messages : Seq(Messages),
     vision : {"none", "image", "undecodable"}, tools : BOOLEAN]

Plain(msgs) == \A i \in DOMAIN msgs : ~msgs[i].image

\* The pieces the module names.
LEMMA PieceTexts ==
    /\ <<>> \in Seq(Pieces) /\ <<SystemText>> \in Seq(Pieces) /\ <<PromptText>> \in Seq(Pieces)
    /\ <<VisionText>> \in Seq(Pieces) /\ <<ToolText>> \in Seq(Pieces)
  <1>1. {SystemText, PromptText, VisionText, ToolText} \subseteq Pieces
    BY DEF Pieces, Tags, SystemText, PromptText, VisionText, ToolText
  <1> QED BY <1>1

\* A client's messages are messages without images.
LEMMA ConversationTypes ==
    ASSUME NEW msgs \in Conversations
    PROVE  msgs \in Seq(Messages) /\ Plain(msgs)
  <1>1. PICK roles \in Sq!BoundedSeq(Roles, MaxTurns) :
            msgs = [i \in DOMAIN roles |-> Message(roles[i], << <<"turn", i>> >>)]
    BY DEF Conversations
  <1>2. PICK n \in Nat : roles \in [1..n -> Roles]
    BY PromptAssumption DEF Sq!BoundedSeq, Sq!SeqOf
  <1>3. ASSUME NEW i \in 1..n
        PROVE  /\ Message(roles[i], << <<"turn", i>> >>) \in Messages
               /\ ~Message(roles[i], << <<"turn", i>> >>).image
    <2>1. roles[i] \in WireRoles
      BY <1>2 DEF WireRoles
    <2>2. << <<"turn", i>> >> \in Seq(Pieces)
      <3>1. <<"turn", i>> \in Pieces
        BY DEF Pieces, Tags
      <3> QED BY <3>1
    <2> QED BY <2>1, <2>2, MessageType
  <1>4. msgs = [i \in 1..n |-> Message(roles[i], << <<"turn", i>> >>)]
    BY <1>1, <1>2
  <1> HIDE DEF Message
  <1>5. \A i \in 1..n : msgs[i] \in Messages /\ ~msgs[i].image
    BY <1>3, <1>4
  <1>6. DOMAIN msgs = 1..n
    BY <1>4
  <1> QED BY <1>4, <1>5, <1>6 DEF Plain

\* A client's request is a request.
LEMMA RequestTypes ==
    ASSUME NEW req \in Requests
    PROVE  req \in RequestType /\ Plain(req.messages)
  <1>1. req.messages \in Conversations
    BY DEF Requests
  <1>2. req.messages \in Seq(Messages) /\ Plain(req.messages)
    BY <1>1, ConversationTypes
  <1>3. req.system \in Seq(Pieces) /\ req.prompt \in Seq(Pieces)
    BY PieceTexts DEF Requests
  <1> QED BY <1>2, <1>3 DEF Requests, RequestType

\* An app's question is a valid request with a plain prompt.
LEMMA BuildRequestTypes ==
    ASSUME NEW ds \in Seq(Documents), NEW picked \in Seq(DOMAIN ds)
    PROVE  LET req == BuildRequest(picked)
           IN  /\ req \in RequestType /\ req.messages = <<>> /\ req.vision = "none"
               /\ ~req.tools /\ Valid(req)
  <1>1. SourceTexts(picked) \in Seq(Pieces)
    <2>1. \A i \in DOMAIN picked : picked[i] \in Nat
      BY DocumentFacts
    <2>2. \A i \in DOMAIN picked : <<"source", picked[i]>> \in Pieces
      BY <2>1 DEF Pieces, Tags
    <2>3. DOMAIN picked = 1..Len(picked) /\ Len(picked) \in Nat
      OBVIOUS
    <2> HIDE DEF Pieces
    <2> QED BY <2>2, <2>3 DEF SourceTexts
  <1>2. <<SystemText>> \o SourceTexts(picked) \in Seq(Pieces)
    BY <1>1, PieceTexts
  <1>3. <<>> \in Seq(Messages) /\ <<PromptText>> # <<>>
    OBVIOUS
  <1> DEFINE sys == <<SystemText>> \o SourceTexts(picked)
             req == BuildRequest(picked)
             prompt == <<PromptText>>
  <1>4. req = [NoRequest EXCEPT !.modality = "text", !.system = sys, !.prompt = prompt]
    BY DEF BuildRequest
  <1>4a. prompt \in Seq(Pieces) /\ prompt # <<>>
    BY <1>3, PieceTexts
  <1>5. sys \in Seq(Pieces)
    BY <1>2
  <1> HIDE DEF sys, req, prompt
  <1>6. /\ req = [modality |-> "text", system |-> sys, prompt |-> prompt,
                  messages |-> <<>>, vision |-> "none", tools |-> FALSE]
    BY <1>4 DEF NoRequest
  <1>7. req \in RequestType
    BY <1>3, <1>4a, <1>5, <1>6 DEF RequestType
  <1>8. Valid(req)
    BY <1>4a, <1>6 DEF Valid
  <1> QED BY <1>6, <1>7, <1>8 DEF req

(***************************************************************************)
(* What reaches the model                                                  *)
(***************************************************************************)
\* SaidIsShown, of what a model server is sent for a request.
Shows(w, req) ==
    LET after == {<<>>} \cup (IF req.tools THEN {<<ToolText>>} ELSE {})
        pictured == {i \in DOMAIN w.messages : w.messages[i].image}
    IN  /\ \E b \in Preambles(req, w), a \in after : Text(w.messages) = b \o Said(req) \o a
        /\ IF req.vision = "image"
           THEN /\ pictured = {Len(w.messages)}
                /\ w.messages[Len(w.messages)].role = "user"
           ELSE pictured = {}

\* The messages of a conversation, with the system prompt in front unless they
\* have one.
LEMMA TranslatedText ==
    ASSUME NEW msgs \in Seq(Messages), NEW system \in Seq(Pieces), Plain(msgs)
    PROVE  LET t == translateMessages(msgs, system)
           IN  /\ t \in Seq(Messages) /\ Plain(t)
               /\ (msgs # <<>> => t # <<>>)
               /\ Text(t) = (IF HasSystem(msgs) THEN <<>> ELSE system) \o Text(msgs)
  <1> DEFINE t == translateMessages(msgs, system)
             m == Message("system", system)
  <1>0. m \in Messages /\ m.text = system /\ ~m.image
    BY MessageType DEF WireRoles, Roles
  <1>1. Text(msgs) \in Seq(Pieces) /\ Text(<<m>> \o msgs) = system \o Text(msgs)
    BY <1>0, TextFacts
  <1>2. <<>> \o Text(msgs) = Text(msgs)
    BY <1>1, ConcatEmptySeq
  <1>3. CASE system # <<>> /\ ~HasSystem(msgs)
    <2>1. t = <<m>> \o msgs
      BY <1>3 DEF translateMessages
    <2> HIDE DEF t, m
    <2>2. t \in Seq(Messages) /\ t # <<>> /\ Plain(t)
      BY <1>0, <2>1 DEF Plain
    <2> QED BY <1>1, <1>3, <2>1, <2>2 DEF t
  <1>4. CASE ~(system # <<>> /\ ~HasSystem(msgs))
    <2>1. t = <<>> \o msgs
      BY <1>4 DEF translateMessages
    <2>2. t = msgs
      BY <2>1, ConcatEmptySeq
    <2>3. HasSystem(msgs) \/ system = <<>>
      BY <1>4
    <2> HIDE DEF t
    <2> QED BY <1>1, <1>2, <2>2, <2>3 DEF t
  <1> QED BY <1>3, <1>4

\* Messages of which none is an image, with the caller's text in them.
LEMMA ShowsPlain ==
    ASSUME NEW req, NEW w, req.vision # "image", Plain(w.messages),
           NEW b \in Preambles(req, w),
           NEW a \in {<<>>} \cup (IF req.tools THEN {<<ToolText>>} ELSE {}),
           Text(w.messages) = b \o Said(req) \o a
    PROVE  Shows(w, req)
  <1>1. {i \in DOMAIN w.messages : w.messages[i].image} = {}
    BY DEF Plain
  <1> QED BY <1>1 DEF Shows

\* A tier is sent the messages as they are.
LEMMA MessagesSent ==
    ASSUME NEW b, b.messages # <<>>, ~b.image, NEW f \in BOOLEAN
    PROVE  runComplete(b, f).messages = b.messages
  BY DEF runComplete, chatShape, toChatMessages

\* A conversation is shown, before and after its tools are called.
LEMMA ConversationShown ==
    ASSUME NEW req \in RequestType, Plain(req.messages), WellFormed(req), req.messages # <<>>,
           NEW f \in BOOLEAN
    PROVE  LET t == TranslateInferRequest(req)
           IN  /\ Shows(runComplete(t, f), req)
               /\ req.tools => Shows(runComplete(WithToolResults(t), f), req)
  <1> DEFINE t == TranslateInferRequest(req)
             u == WithToolResults(t)
             tm == translateMessages(req.messages, req.system)
             b == IF HasSystem(req.messages) THEN <<>> ELSE req.system
             said == Text(req.messages)
  <1>0. /\ req.messages \in Seq(Messages) /\ req.system \in Seq(Pieces)
        /\ req.prompt \in Seq(Pieces)
    BY DEF RequestType
  <1>1. req.vision = "none" /\ req.prompt = <<>>
    BY DEF WellFormed
  <1>2. b \in Seq(Pieces) /\ said \in Seq(Pieces)
    <2>1. Message("user", <<>>) \in Messages
      BY PieceTexts, MessageType DEF WireRoles, Roles
    <2>2. Text(req.messages) \in Seq(Pieces)
      BY <1>0, <2>1, TextFacts
    <2> QED BY <1>0, <2>2, PieceTexts
  <1>3. Said(req) = said
    <2>1. Said(req) = <<>> \o said
      BY <1>1 DEF Said
    <2> QED BY <1>2, <2>1, ConcatEmptySeq
  <1>4. tm \in Seq(Messages) /\ Plain(tm) /\ tm # <<>> /\ Text(tm) = b \o said
    BY <1>0, TranslatedText
  <1>5. t.messages = tm /\ ~t.image
    BY <1>1 DEF TranslateInferRequest
  <1>6. \A w : b \in Preambles(req, w)
    BY DEF Preambles
  <1> DEFINE m1 == Message("assistant", <<>>)
             m2 == Message("tool", <<ToolText>>)
             um == Append(Append(tm, m1), m2)
             tool == <<ToolText>>
  <1>7. /\ m1 \in Messages /\ m1.text = <<>> /\ ~m1.image
        /\ m2 \in Messages /\ m2.text = tool /\ ~m2.image
    <2>1. "assistant" \in WireRoles /\ "tool" \in WireRoles
      BY DEF WireRoles, Roles
    <2>2. <<>> \in Seq(Pieces) /\ <<ToolText>> \in Seq(Pieces)
      BY PieceTexts
    <2>3. m1 \in Messages /\ m1.text = <<>> /\ ~m1.image
      BY <2>1, <2>2, MessageType
    <2>4. m2 \in Messages /\ m2.text = tool /\ ~m2.image
      BY <2>1, <2>2, MessageType
    <2> QED BY <2>3, <2>4
  <1>8. u.messages = tm \o <<m1, m2>> /\ ~u.image
    <2>1. u = [t EXCEPT !.messages = t.messages \o <<m1, m2>>, !.tools = FALSE]
      BY DEF WithToolResults
    <2>2. t = [system |-> t.system, messages |-> t.messages, prompt |-> t.prompt,
               image |-> t.image, tools |-> t.tools]
      BY DEF TranslateInferRequest
    <2> HIDE DEF t, u, m1, m2
    <2>3. u.messages = t.messages \o <<m1, m2>> /\ u.image = t.image
      BY <2>1, <2>2
    <2> QED BY <1>5, <2>3
  <1>9. tool \in Seq(Pieces) /\ (req.tools => tool \in {<<>>} \cup (IF req.tools THEN {<<ToolText>>} ELSE {}))
    BY PieceTexts
  <1> HIDE DEF tm, b, said, m1, m2, t, u, tool
  <1>10. u.messages = um
    BY <1>4, <1>7, <1>8
  <1>11. um \in Seq(Messages) /\ um # <<>> /\ Plain(um)
    BY <1>4, <1>7 DEF Plain
  <1>12. Text(um) = b \o said \o tool
    <2>1. Append(tm, m1) \in Seq(Messages)
      BY <1>4, <1>7
    <2>2. Text(um) = Text(Append(tm, m1)) \o m2.text
      BY <1>7, <2>1, TextFacts
    <2>3. Text(Append(tm, m1)) = (b \o said) \o <<>>
      BY <1>4, <1>7, TextFacts
    <2>4. (b \o said) \o <<>> = b \o said
      BY <1>2
    <2> QED BY <1>7, <2>2, <2>3, <2>4
  <1>13. Shows(runComplete(t, f), req)
    <2>1. runComplete(t, f).messages = tm
      BY <1>4, <1>5, MessagesSent
    <2>2. b \o said = b \o Said(req) \o <<>>
      BY <1>2, <1>3
    <2> QED BY <1>1, <1>4, <1>6, <2>1, <2>2, ShowsPlain
  <1>14. ASSUME req.tools PROVE Shows(runComplete(u, f), req)
    <2>1. runComplete(u, f).messages = um
      BY <1>8, <1>10, <1>11, MessagesSent
    <2>2. Text(um) = b \o Said(req) \o tool
      BY <1>3, <1>12
    <2> HIDE DEF um
    <2> QED BY <1>1, <1>6, <1>9, <1>11, <1>14, <2>1, <2>2, ShowsPlain
  <1> QED BY <1>13, <1>14 DEF t, u

\* The system prompt, if there is one, and a message of the user.
UserTurn(system, prompt) ==
    (IF system # <<>> THEN <<Message("system", system)>> ELSE <<>>) \o <<Message("user", prompt)>>

\* Its text is the system prompt and what the user says; the user is last.
LEMMA UserTurnFacts ==
    ASSUME NEW system \in Seq(Pieces), NEW prompt \in Seq(Pieces)
    PROVE  LET s == UserTurn(system, prompt)
           IN  /\ s \in Seq(Messages) /\ s # <<>> /\ Plain(s)
               /\ s[Len(s)].role = "user"
               /\ Text(s) = system \o prompt
  <1> DEFINE s == UserTurn(system, prompt)
             m == Message("system", system)
             v == Message("user", prompt)
  <1>1. /\ m \in Messages /\ m.text = system /\ ~m.image
        /\ v \in Messages /\ v.text = prompt /\ v.role = "user" /\ ~v.image
    BY MessageType DEF WireRoles, Roles
  <1>2. s = IF system # <<>> THEN <<m>> \o <<v>> ELSE <<>> \o <<v>>
    BY DEF UserTurn
  <1> HIDE DEF s, m, v
  <1>3. Text(<<v>>) = prompt
    BY <1>1, TextOne
  <1>4. CASE system # <<>>
    <2>1. s = <<m>> \o <<v>> /\ <<v>> \in Seq(Messages)
      BY <1>1, <1>2, <1>4
    <2>2. s \in Seq(Messages) /\ s # <<>> /\ Plain(s) /\ s[Len(s)].role = "user"
      BY <1>1, <2>1 DEF Plain
    <2>3. Text(s) = system \o prompt
      BY <1>1, <1>3, <2>1, TextFacts
    <2> QED BY <2>2, <2>3 DEF s
  <1>5. CASE system = <<>>
    <2>1. s = <<v>>
      BY <1>2, <1>5
    <2>2. s \in Seq(Messages) /\ s # <<>> /\ Plain(s) /\ s[Len(s)].role = "user"
      BY <1>1, <2>1 DEF Plain
    <2>3. Text(s) = system \o prompt
      BY <1>3, <1>5, <2>1
    <2> QED BY <2>2, <2>3 DEF s
  <1> QED BY <1>4, <1>5

\* A plain prompt is shown: by the completion endpoint after its system prompt, by
\* a tier that forces the chat template after two of them.
LEMMA PromptShown ==
    ASSUME NEW req \in RequestType, WellFormed(req), Valid(req), req.messages = <<>>,
           req.vision = "none", NEW f \in BOOLEAN
    PROVE  Shows(runComplete(TranslateInferRequest(req), f), req)
  <1> DEFINE t == TranslateInferRequest(req)
             sys == req.system
             both == sys \o req.prompt
             w == runComplete(t, f)
             m == Message("prompt", both)
             shaped == UserTurn(sys, both)
  <1>0. sys \in Seq(Pieces) /\ req.prompt \in Seq(Pieces)
    BY DEF RequestType
  <1>1. req.prompt # <<>>
    BY DEF WellFormed, Valid
  <1>2. t.system = sys /\ t.messages = <<>> /\ ~t.image /\ t.prompt = both
    BY <1>1 DEF TranslateInferRequest
  <1>3. both \in Seq(Pieces)
    BY <1>0
  <1>4. m \in Messages /\ m.text = both /\ ~m.image
    BY <1>3, MessageType DEF WireRoles
  <1>5. /\ w.messages = IF f THEN shaped ELSE <<m>>
        /\ f => w.endpoint = "chat"
    <2>0. t = [system |-> t.system, messages |-> t.messages, prompt |-> t.prompt,
               image |-> t.image, tools |-> t.tools]
      BY DEF TranslateInferRequest
    <2>1. shaped # <<>>
      BY <1>0, <1>3, UserTurnFacts
    <2>2. chatShape(t, f) = IF f THEN [t EXCEPT !.messages = shaped] ELSE t
      BY <1>2 DEF chatShape, UserTurn
    <2> HIDE DEF t, m, shaped
    <2>3. chatShape(t, f).messages = (IF f THEN shaped ELSE <<>>) /\ ~chatShape(t, f).image
      BY <1>2, <2>0, <2>2
    <2>4. w.messages = IF chatShape(t, f).messages # <<>> THEN toChatMessages(chatShape(t, f))
                       ELSE <<Message("prompt", t.prompt)>>
      BY DEF runComplete
    <2>5. toChatMessages(chatShape(t, f)) = chatShape(t, f).messages
      BY <2>3 DEF toChatMessages
    <2>6. chatShape(t, f).messages # <<>> => w.endpoint = "chat"
      BY DEF runComplete
    <2> QED BY <1>2, <2>1, <2>3, <2>4, <2>5, <2>6 DEF m
  <1>6. /\ Said(req) = req.prompt
        /\ sys \in Preambles(req, w)
        /\ f => sys \o sys \in Preambles(req, w)
    <2>1. <<>> \in Seq(Messages)
      OBVIOUS
    <2>2. Text(<<>>) = <<>>
      BY <1>4, <2>1, TextFacts
    <2>3. Said(req) = req.prompt \o <<>>
      BY <2>2 DEF Said
    <2>4. ~HasSystem(req.messages)
      BY DEF HasSystem
    <2>5. f => Wrapped(req, w)
      BY <1>5 DEF Wrapped
    <2>6. Said(req) = req.prompt
      BY <1>0, <2>3, ConcatEmptySeq
    <2> HIDE DEF w
    <2>7. sys \in Preambles(req, w) /\ (f => sys \o sys \in Preambles(req, w))
      BY <2>4, <2>5 DEF Preambles
    <2> QED BY <2>6, <2>7
  <1>7. CASE f
    <2>1. Plain(w.messages) /\ Text(w.messages) = sys \o both
      BY <1>0, <1>3, <1>5, <1>7, UserTurnFacts
    <2>2. sys \o both = (sys \o sys) \o Said(req) \o <<>>
      <3> DEFINE p == req.prompt
      <3>1. both = sys \o p /\ Said(req) = p
        BY <1>6
      <3>a. p \in Seq(Pieces)
        BY <1>0
      <3> HIDE DEF sys, p
      <3>b. (sys \o sys) \o p = sys \o (sys \o p) /\ (sys \o sys) \o p \in Seq(Pieces)
        BY <1>0, <3>a
      <3>2. sys \o (sys \o p) = (sys \o sys) \o p \o <<>>
        BY <3>b, ConcatEmptySeq
      <3> HIDE DEF both
      <3> QED BY <3>1, <3>2
    <2> HIDE DEF sys, both, w
    <2> QED BY <1>6, <1>7, <2>1, <2>2, ShowsPlain DEF w
  <1>8. CASE ~f
    <2> HIDE DEF m, w, both
    <2>1. w.messages = <<m>>
      BY <1>5, <1>8
    <2>2. Plain(w.messages) /\ Text(w.messages) = both
      BY <1>4, <2>1, TextOne DEF Plain
    <2>3. both = sys \o Said(req) \o <<>>
      BY <1>0, <1>6 DEF both
    <2> HIDE DEF sys
    <2> QED BY <1>6, <2>2, <2>3, ShowsPlain DEF w
  <1> QED BY <1>7, <1>8

\* The picture of a vision request is with the user's turn, which is the last.
LEMMA PictureSent ==
    ASSUME NEW b, b.image, NEW s \in Seq(Messages), b.messages = s, s # <<>>, Plain(s),
           s[Len(s)].role = "user"
    PROVE  LET w == toChatMessages(b)
           IN  /\ DOMAIN w = DOMAIN s /\ Len(w) = Len(s)
               /\ {i \in DOMAIN w : w[i].image} = {Len(w)}
               /\ w[Len(w)].role = "user"
               /\ Text(w) = Text(s)
  <1> DEFINE n == Len(s)
             I == {i \in 1..Len(b.messages) : b.messages[i].role = "user"}
             last == Sq!SelectLastInSeq(b.messages, LAMBDA m : m.role = "user")
             w == toChatMessages(b)
  <1>1. n \in Nat /\ n # 0 /\ DOMAIN s = 1..n /\ \A i \in 1..n : s[i] \in Messages
    OBVIOUS
  <1>2. n \in I /\ I \subseteq 1..n
    BY <1>1
  <1>3. last = n
    <2>1. last = CHOOSE x \in I : \A y \in I : x >= y
      BY <1>2 DEF Sq!SelectLastInSeq, Sq!Max
    <2>2. \A y \in I : n >= y
      BY <1>1, <1>2
    <2>3. ASSUME NEW x \in I, \A y \in I : x >= y PROVE x = n
      <3> HIDE DEF I, n
      <3>1. x >= n /\ n >= x /\ x \in Int /\ n \in Int
        BY <1>1, <1>2, <2>2, <2>3
      <3> QED BY <3>1
    <2> HIDE DEF I, n
    <2> QED BY <1>2, <2>1, <2>2, <2>3
  <1>4. w = [s EXCEPT ![n].image = TRUE]
    <2>1. w = IF b.image /\ last > 0 THEN [b.messages EXCEPT ![last].image = TRUE] ELSE b.messages
      BY DEF toChatMessages
    <2> HIDE DEF last, w, n
    <2> QED BY <1>1, <1>3, <2>1
  <1> HIDE DEF w, last, I
  <1>5. DOMAIN w = 1..n /\ w[n] = [s[n] EXCEPT !.image = TRUE] /\ \A i \in 1..n : i # n => w[i] = s[i]
    <2>1. n \in 1..n
      BY <1>1
    <2> HIDE DEF n
    <2> QED BY <1>1, <1>4, <2>1
  <1>6. w[n].image /\ w[n].role = s[n].role /\ w[n].text = s[n].text
    BY <1>1, <1>5 DEF Messages
  <1>7. Len(w) = n
    <2>1. w = [i \in 1..n |-> w[i]]
      BY <1>4, <1>5
    <2> HIDE DEF n
    <2> QED BY <1>1, <2>1
  <1>8. [i \in DOMAIN w |-> w[i].text] = [i \in DOMAIN s |-> s[i].text]
    <2>1. \A i \in 1..n : w[i].text = s[i].text
      BY <1>5, <1>6
    <2> HIDE DEF n
    <2> QED BY <1>1, <1>5, <2>1
  <1>9. {i \in DOMAIN w : w[i].image} = {n}
    <2>1. \A i \in 1..n : w[i].image <=> i = n
      BY <1>1, <1>5, <1>6 DEF Plain
    <2>2. n \in 1..n
      BY <1>1
    <2> HIDE DEF n
    <2> QED BY <1>5, <2>1, <2>2
  <1>10. Text(w) = Text(s)
    BY <1>8 DEF Text
  <1> QED BY <1>1, <1>5, <1>6, <1>7, <1>9, <1>10 DEF w

\* A vision request is shown its picture and what is asked of it.
LEMMA PictureShown ==
    ASSUME NEW req \in RequestType, req.messages = <<>>,
           req.vision = "image", NEW f \in BOOLEAN
    PROVE  Shows(runComplete(TranslateInferRequest(req), f), req)
  <1> DEFINE t == TranslateInferRequest(req)
             sys == req.system
             said == <<VisionText>>
             w == runComplete(t, f)
             shaped == UserTurn(sys, said)
  <1>0. sys \in Seq(Pieces) /\ said \in Seq(Pieces)
    BY PieceTexts DEF RequestType
  <1>1. t.system = sys /\ t.messages = <<>> /\ t.image /\ t.prompt = said
    BY DEF TranslateInferRequest
  <1>2. shaped \in Seq(Messages) /\ shaped # <<>> /\ Plain(shaped)
        /\ shaped[Len(shaped)].role = "user" /\ Text(shaped) = sys \o said
    BY <1>0, UserTurnFacts
  <1>3. w.messages = toChatMessages(chatShape(t, f))
        /\ chatShape(t, f).messages = shaped /\ chatShape(t, f).image
    <2>0. t = [system |-> t.system, messages |-> t.messages, prompt |-> t.prompt,
               image |-> t.image, tools |-> t.tools]
      BY DEF TranslateInferRequest
    <2>2. chatShape(t, f) = [t EXCEPT !.messages = shaped]
      BY <1>1 DEF chatShape, UserTurn
    <2> HIDE DEF t, shaped
    <2>3. chatShape(t, f).messages = shaped /\ chatShape(t, f).image
      BY <1>1, <2>0, <2>2
    <2>4. w.messages = IF chatShape(t, f).messages # <<>> THEN toChatMessages(chatShape(t, f))
                       ELSE <<Message("prompt", t.prompt)>>
      BY DEF runComplete
    <2> QED BY <1>2, <2>3, <2>4
  <1> HIDE DEF shaped
  <1>4. /\ {i \in DOMAIN w.messages : w.messages[i].image} = {Len(w.messages)}
        /\ w.messages[Len(w.messages)].role = "user"
        /\ Text(w.messages) = Text(shaped)
    <2> HIDE DEF t, w
    <2> QED BY <1>2, <1>3, PictureSent
  <1>5. Said(req) = said /\ ~HasSystem(req.messages)
    BY DEF Said, HasSystem
  <1>6. sys \o said = sys \o said \o <<>>
    BY <1>0
  <1>7. \E b \in Preambles(req, w), a \in {<<>>} \cup (IF req.tools THEN {<<ToolText>>} ELSE {}) :
            Text(w.messages) = b \o Said(req) \o a
    <2>1. sys \in Preambles(req, w)
      BY <1>5 DEF Preambles
    <2> HIDE DEF w, sys, said
    <2> QED BY <1>2, <1>4, <1>5, <1>6, <2>1
  <1> HIDE DEF w
  <1>8. Shows(w, req)
    BY <1>4, <1>5, <1>7 DEF Shows
  <1> QED BY <1>8 DEF w

\* What the hosted model is sent of a question.
HostedWire(req) ==
    [endpoint |-> "hosted",
     messages |-> <<Message("system", req.system), Message("user", req.prompt)>>]

\* The hosted model is shown the rules, the sources and the question.
LEMMA HostedShown ==
    ASSUME NEW req \in RequestType, req.messages = <<>>, req.vision = "none"
    PROVE  Shows(HostedWire(req), req)
  <1> DEFINE sys == req.system
             p == req.prompt
             m == Message("system", sys)
             v == Message("user", p)
             w == HostedWire(req)
  <1>0. sys \in Seq(Pieces) /\ p \in Seq(Pieces)
    BY DEF RequestType
  <1>1. /\ m \in Messages /\ m.text = sys /\ ~m.image
        /\ v \in Messages /\ v.text = p /\ ~v.image
    BY <1>0, MessageType DEF WireRoles, Roles
  <1>2. w.messages = <<m, v>>
    BY DEF HostedWire
  <1>3. Said(req) = p \o Text(<<>>) /\ ~HasSystem(req.messages)
    BY DEF Said, HasSystem
  <1>4. sys \in Preambles(req, w)
    BY <1>3 DEF Preambles
  <1> HIDE DEF m, v, w, p, sys
  <1>5. <<m, v>> = Append(<<m>>, v) /\ <<m>> \in Seq(Messages) /\ <<>> \in Seq(Messages)
    BY <1>1
  <1>6. Text(<<m, v>>) = sys \o p /\ Text(<<>>) = <<>>
    BY <1>1, <1>5, TextFacts, TextOne
  <1>c. Said(req) = p
    BY <1>0, <1>3, <1>6, ConcatEmptySeq
  <1>d. sys \o p \in Seq(Pieces)
    BY <1>0
  <1>7. sys \o p = sys \o Said(req) \o <<>>
    BY <1>c, <1>d, ConcatEmptySeq
  <1>8. Plain(w.messages)
    BY <1>1, <1>2 DEF Plain
  <1>9. Shows(w, req)
    BY <1>2, <1>4, <1>6, <1>7, <1>8, ShowsPlain
  <1> QED BY <1>9 DEF w

(***************************************************************************)
(* The inductive invariant: what a tier or the hosted model was sent is a  *)
(* translation of the request, before or after its tools were called.      *)
(***************************************************************************)
Carried(req) ==
    {TranslateInferRequest(req)}
        \cup (IF req.tools THEN {WithToolResults(TranslateInferRequest(req))} ELSE {})

PromptIInv ==
    /\ stage \in {"idle", "accepted", "question", "refused", "sent", "answered"}
    /\ docs \in Seq(Documents)
    /\ stage \in {"accepted", "question", "sent", "answered"} =>
          asked \in RequestType /\ Plain(asked.messages) /\ Valid(asked)
    /\ stage \in {"question", "answered"} => asked.messages = <<>> /\ asked.vision = "none"
    /\ stage \in {"accepted", "question", "sent"} => backendReq \in Carried(asked)
    /\ stage \in {"idle", "accepted", "question", "refused"} => wire = NoWire
    /\ stage = "sent" => \E b \in Carried(asked), f \in BOOLEAN : wire = runComplete(b, f)
    /\ stage = "answered" => wire = HostedWire(asked)

\* What a tier is sent is not nothing.
LEMMA WireEndpoints ==
    /\ \A b, f : runComplete(b, f).endpoint \in {"chat", "completion"}
    /\ \A req : HostedWire(req).endpoint = "hosted"
    /\ NoWire.endpoint = "none"
  BY DEF runComplete, HostedWire, NoWire

\* The invariant implies the type invariant ...
LEMMA PromptTypes ==
    ASSUME PromptIInv
    PROVE  PromptTypeOK
  <1>1. /\ stage \in {"idle", "accepted", "question", "refused", "sent", "answered"}
        /\ \A i \in DOMAIN docs : docs[i] \in Documents
    BY DEF PromptIInv
  <1>2. CASE stage \in {"idle", "accepted", "question", "refused"}
    <2>1. wire = NoWire
      BY <1>2 DEF PromptIInv
    <2> QED BY <1>1, <1>2, <2>1, WireEndpoints DEF PromptTypeOK
  <1>3. CASE stage = "sent"
    <2>1. wire.endpoint \in {"chat", "completion"}
      BY <1>3, WireEndpoints DEF PromptIInv
    <2>2. wire # NoWire
      BY <2>1, WireEndpoints
    <2> QED BY <1>1, <1>3, <2>1, <2>2 DEF PromptTypeOK
  <1>4. CASE stage = "answered"
    <2>1. wire.endpoint = "hosted"
      BY <1>4, WireEndpoints DEF PromptIInv
    <2>2. wire # NoWire
      BY <2>1, WireEndpoints
    <2> QED BY <1>1, <1>4, <2>1, <2>2 DEF PromptTypeOK
  <1> QED BY <1>1, <1>2, <1>3, <1>4

\* ... and that what was said is shown.
LEMMA PromptShows ==
    ASSUME PromptIInv
    PROVE  SaidIsShown
  <1> SUFFICES ASSUME wire # NoWire, WellFormed(asked) PROVE Shows(wire, asked)
    BY DEF SaidIsShown, Shows
  <1>1. stage = "sent" \/ stage = "answered"
    BY DEF PromptIInv
  <1>2. asked \in RequestType /\ Plain(asked.messages) /\ Valid(asked)
    BY <1>1 DEF PromptIInv
  <1>3. CASE stage = "answered"
    BY <1>2, <1>3, HostedShown DEF PromptIInv
  <1>4. CASE stage = "sent"
    <2>1. PICK b \in Carried(asked), f \in BOOLEAN : wire = runComplete(b, f)
      BY <1>4 DEF PromptIInv
    <2>2. CASE asked.messages # <<>>
      <3>1. /\ Shows(runComplete(TranslateInferRequest(asked), f), asked)
            /\ asked.tools =>
                  Shows(runComplete(WithToolResults(TranslateInferRequest(asked)), f), asked)
        BY <1>2, <2>2, ConversationShown
      <3> QED BY <2>1, <3>1 DEF Carried
    <2>3. CASE asked.messages = <<>>
      <3>1. ~asked.tools
        BY <1>2, <2>3 DEF Valid
      <3>2. b = TranslateInferRequest(asked)
        BY <2>1, <3>1 DEF Carried
      <3>3. asked.vision = "none" \/ asked.vision = "image"
        BY DEF WellFormed
      <3>4. CASE asked.vision = "none"
        BY <1>2, <2>1, <2>3, <3>2, <3>4, PromptShown
      <3>5. CASE asked.vision = "image"
        BY <1>2, <2>1, <2>3, <3>2, <3>5, PictureShown
      <3> QED BY <3>3, <3>4, <3>5
    <2> QED BY <2>2, <2>3
  <1> QED BY <1>1, <1>3, <1>4

\* The invariant holds before the first request ...
LEMMA PromptInitIInv ==
    ASSUME PromptInit
    PROVE  PromptIInv
  BY DEF PromptInit, PromptIInv

\* A request that is accepted, or a question that is asked, starts the translation.
LEMMA PostIInv ==
    ASSUME PromptIInv, PostInfer \/ PostQuestion
    PROVE  PromptIInv'
  <1>1. CASE PostInfer
    <2>1. docs' = docs /\ wire' = wire /\ wire = NoWire /\ docs \in Seq(Documents)
      BY <1>1 DEF PostInfer, PromptIInv
    <2>2. CASE Valid(asked')
      <3>1. stage' = "accepted" /\ backendReq' = TranslateInferRequest(asked')
        BY <1>1, <2>2 DEF PostInfer
      <3>2. asked' \in RequestType /\ Plain(asked'.messages)
        BY <1>1, RequestTypes DEF PostInfer
      <3>3. backendReq' \in Carried(asked')
        BY <3>1 DEF Carried
      <3> QED BY <2>1, <2>2, <3>1, <3>2, <3>3 DEF PromptIInv
    <2>3. CASE ~Valid(asked')
      <3>1. stage' = "refused"
        BY <1>1, <2>3 DEF PostInfer
      <3> QED BY <2>1, <3>1 DEF PromptIInv
    <2> QED BY <2>2, <2>3
  <1>2. CASE PostQuestion
    <2>1. /\ docs' \in Sq!BoundedSeq(Documents, MaxDocs)
          /\ asked' = BuildRequest(Retrieve(docs'))
          /\ backendReq' = TranslateInferRequest(asked')
          /\ stage' = "question" /\ wire' = wire /\ wire = NoWire
      BY <1>2 DEF PostQuestion, PromptIInv
    <2>2. docs' \in Seq(Documents)
      <3>1. PICK n \in Nat : docs' \in [1..n -> Documents]
        BY <2>1, PromptAssumption DEF Sq!BoundedSeq, Sq!SeqOf
      <3> QED BY <3>1
    <2>3. Retrieve(docs') \in Seq(DOMAIN docs')
      BY <2>2, RetrieveBest
    <2>4. /\ asked' \in RequestType /\ asked'.messages = <<>> /\ asked'.vision = "none"
          /\ Valid(asked')
      BY <2>1, <2>2, <2>3, BuildRequestTypes
    <2>5. Plain(asked'.messages)
      BY <2>4 DEF Plain
    <2>6. backendReq' \in Carried(asked')
      BY <2>1 DEF Carried
    <2> QED BY <2>1, <2>2, <2>4, <2>5, <2>6 DEF PromptIInv
  <1> QED BY <1>1, <1>2

\* ... every step keeps it ...
LEMMA PromptNextIInv ==
    ASSUME PromptIInv, [PromptNext]_promptVars
    PROVE  PromptIInv'
  <1>1. CASE PostInfer \/ PostQuestion
    BY <1>1, PostIInv
  <1>2. CASE AnswerHosted
    BY <1>2 DEF AnswerHosted, PromptIInv, HostedWire
  <1>3. CASE Infer
    <2>1. /\ stage \in {"accepted", "question", "sent"} /\ stage' = "sent"
          /\ docs' = docs /\ asked' = asked /\ backendReq' = backendReq
      BY <1>3 DEF Infer
    <2>2. backendReq \in Carried(asked)
      BY <2>1 DEF PromptIInv
    <2>3. \E b \in Carried(asked'), f \in BOOLEAN : wire' = runComplete(b, f)
      BY <1>3, <2>1, <2>2 DEF Infer
    <2>4. asked \in RequestType /\ Plain(asked.messages) /\ Valid(asked) /\ docs \in Seq(Documents)
      BY <2>1 DEF PromptIInv
    <2> QED BY <2>1, <2>2, <2>3, <2>4 DEF PromptIInv
  <1>4. CASE ToolCalls
    <2> DEFINE t == TranslateInferRequest(asked)
    <2>1. /\ stage = "sent" /\ backendReq.tools /\ backendReq' = WithToolResults(backendReq)
          /\ stage' = stage /\ docs' = docs /\ asked' = asked /\ wire' = wire
      BY <1>4 DEF ToolCalls
    <2>2. t.tools = asked.tools /\ ~WithToolResults(t).tools
      BY DEF TranslateInferRequest, WithToolResults
    <2>3. backendReq \in Carried(asked)
      BY <2>1 DEF PromptIInv
    <2> HIDE DEF t
    <2>4. backendReq = t /\ asked.tools
      BY <2>1, <2>2, <2>3 DEF Carried, t
    <2>5. backendReq' \in Carried(asked')
      BY <2>1, <2>4 DEF Carried, t
    <2> QED BY <2>1, <2>5 DEF PromptIInv
  <1>5. CASE PromptDone
    BY <1>5 DEF PromptDone, PromptIInv
  <1>6. CASE UNCHANGED promptVars
    BY <1>6 DEF promptVars, PromptIInv
  <1> QED BY <1>1, <1>2, <1>3, <1>4, <1>5, <1>6 DEF PromptNext

\* ... and so it always holds.
LEMMA PromptInvariant == PromptSpec => []PromptIInv
  BY PromptInitIInv, PromptNextIInv, PTL DEF PromptSpec

\* The request path keeps its types (PromptTypeOK).
THEOREM PromptTypeCorrect == PromptSpec => []PromptTypeOK
  BY PromptInvariant, PromptTypes, PTL

\* Whatever serves a request, the model is shown what the caller said (SaidIsShown;
\* translateMessages, chatShape, toChatMessages, runWithTools).
THEOREM CallerIsShown == PromptSpec => []SaidIsShown
  BY PromptInvariant, PromptShows, PTL

\* The best documents are the ones sent (BestSources; Retrieve).
THEOREM QuestionHasBestSources == PromptSpec => []BestSources
  <1>1. PromptIInv => BestSources
    BY DocsBestSources DEF PromptIInv
  <1> QED BY <1>1, PromptInvariant, PTL

\* The sources of a question are within both limits, unless the always-documents
\* alone are more, and then nothing is added to them (retrieve.go, and what
\* apps_test.go asks of one file: "want <= %d sources and <= %d chars").
SourcesWithinBudget ==
    LET picked == Retrieve(docs)
    IN  \/ picked = AlwaysDocs(docs)
        \/ Len(picked) <= MaxSources /\ SizeOf(docs, picked) <= SourceBudget

\* Retrieve keeps to its limits for any documents (SourcesWithinBudget).
THEOREM QuestionWithinBudget == PromptSpec => []SourcesWithinBudget
  <1>1. PromptIInv => SourcesWithinBudget
    BY RetrieveWithinBudget DEF PromptIInv, SourcesWithinBudget
  <1> QED BY <1>1, PromptInvariant, PTL
=============================================================================
