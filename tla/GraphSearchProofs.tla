-------------------------- MODULE GraphSearchProofs --------------------------
(***************************************************************************)
(* Proofs about GraphSearch: every variable keeps its type, no path is     *)
(* handed over twice, a search that ends with room left in the container   *)
(* has found the class of every path of the graph, no path leads through   *)
(* an obstacle, and the distances from the obstacles are the true ones.    *)
(* The search itself is proved for any graph first, by lemmas about its    *)
(* stack; the functions of Obstacles, which compute one value from the     *)
(* other, by induction over an interval; the distances of Distances, as    *)
(* fractions, from the parabola that the squared distance is along a       *)
(* segment; that paths stay clear of polygons from the sides of the edges  *)
(* on which their ends lie.                                                *)
(***************************************************************************)
EXTENDS GraphSearch, TLAPS, SequenceTheorems, FiniteSetTheorems, WellFoundedInduction

-----------------------------------------------------------------------------
(* Values computed one from the other.                                     *)

\* A set of natural numbers has a least element.
LEMMA LeastNatural ==
  ASSUME NEW S \in SUBSET Nat, S # {}
  PROVE  \E m \in S : \A k \in S : m <= k
<1>1. PICK m \in S : \A k \in S : ~(<<k, m>> \in OpToRel(<, Nat))
  BY NatLessThanWellFounded, WFMin
<1>2. ASSUME NEW k \in S  PROVE m <= k
  <2>1. ~(k < m)
    BY <1>1 DEF OpToRel
  <2>. QED  BY <2>1
<1>. QED  BY <1>2

\* A set that contains the first number of an interval, and with a number the
\* next, is the whole interval.
LEMMA IntervalInduction ==
  ASSUME NEW n \in Nat, NEW P \in SUBSET (0 .. n), 0 \in P,
         \A k \in 1 .. n : k - 1 \in P => k \in P
  PROVE  P = 0 .. n
<1>. DEFINE T == (0 .. n) \ P
<1>1. SUFFICES ASSUME T # {}  PROVE FALSE
  BY <1>1
<1>2. PICK m \in T : \A k \in T : m <= k
  <2>1. T \in SUBSET Nat
    OBVIOUS
  <2>. QED  BY <1>1, <2>1, LeastNatural
<1>3. m \in 1 .. n /\ m - 1 \in 0 .. n
  BY <1>2
<1>4. m - 1 \in P
  BY <1>2, <1>3
<1>. QED  BY <1>2, <1>3, <1>4

\* Values computed one from the other by a function.
Chain(g, n, base, step) ==
  /\ g[0] = base
  /\ \A k \in 1 .. n : g[k] = step[<<k, g[k - 1]>>]

\* Such a chain exists, of any length.
LEMMA Recursion ==
  ASSUME NEW S, NEW n \in Nat, NEW base \in S, NEW step \in [(1 .. n) \X S -> S]
  PROVE  \E g \in [0 .. n -> S] : Chain(g, n, base, step)
<1>. DEFINE P == {m \in 0 .. n : \E g \in [0 .. m -> S] : Chain(g, m, base, step)}
<1>1. 0 \in P
  <2>. DEFINE g == [k \in 0 .. 0 |-> base]
  <2>1. g \in [0 .. 0 -> S] /\ Chain(g, 0, base, step)
    BY DEF Chain
  <2>. QED  BY <2>1
<1>2. ASSUME NEW m \in 1 .. n, m - 1 \in P  PROVE m \in P
  <2>2. PICK h \in [0 .. m - 1 -> S] : Chain(h, m - 1, base, step)
    BY <1>2
  <2>. DEFINE g == [k \in 0 .. m |-> IF k = m THEN step[<<m, h[m - 1]>>] ELSE h[k]]
  <2>3. h[m - 1] \in S /\ <<m, h[m - 1]>> \in (1 .. n) \X S
    OBVIOUS
  <2>5. g \in [0 .. m -> S]
    BY <2>3
  <2>6. g[0] = base
    BY <2>2 DEF Chain
  <2>7. ASSUME NEW k \in 1 .. m  PROVE g[k] = step[<<k, g[k - 1]>>]
    <3>1. k - 1 \in 0 .. m /\ k - 1 # m /\ k - 1 \in 0 .. m - 1
      OBVIOUS
    <3>2. g[k - 1] = h[k - 1]
      BY <3>1
    <3>3. CASE k = m
      <4>1. g[m] = step[<<m, h[m - 1]>>]
        OBVIOUS
      <4>2. g[m - 1] = h[m - 1]
        BY <3>2, <3>3
      <4>. HIDE DEF g
      <4>3. g[m] = step[<<m, g[m - 1]>>]
        BY <4>1, <4>2
      <4>. QED  BY <3>3, <4>3
    <3>4. CASE k # m
      <4>1. k \in 1 .. m - 1 /\ k \in 0 .. m
        BY <3>4
      <4>2. h[k] = step[<<k, h[k - 1]>>]
        BY <2>2, <4>1 DEF Chain
      <4>3. g[k] = h[k]
        BY <3>4, <4>1
      <4>. HIDE DEF g
      <4>. QED  BY <3>2, <4>2, <4>3
    <3>. QED  BY <3>3, <3>4
  <2>. HIDE DEF g
  <2>8. Chain(g, m, base, step)
    BY <2>6, <2>7 DEF Chain
  <2>. QED  BY <2>5, <2>8
<1>. HIDE DEF P
<1>3. P = 0 .. n
  <2>1. P \in SUBSET (0 .. n)
    BY DEF P
  <2>. QED  BY <1>1, <1>2, <2>1, IntervalInduction
<1>4. n \in P
  BY <1>3
<1>. QED  BY <1>4 DEF P

\* All of them are in a set if the first is and each brings the next.
LEMMA AllTyped ==
  ASSUME NEW S, NEW n \in Nat, NEW g, g[0] \in S, \A k \in 1 .. n : g[k - 1] \in S => g[k] \in S
  PROVE  \A k \in 0 .. n : g[k] \in S
<1>. DEFINE P == {k \in 0 .. n : g[k] \in S}
<1>1. P \in SUBSET (0 .. n) /\ 0 \in P
  OBVIOUS
<1>2. \A k \in 1 .. n : k - 1 \in P => k \in P
  OBVIOUS
<1>3. P = 0 .. n
  <2>. HIDE DEF P
  <2>. QED  BY <1>1, <1>2, IntervalInduction
<1>. QED  BY <1>3

-----------------------------------------------------------------------------
(* Sequences.                                                              *)

\* The last element of a sequence, and the sequence without it.
LEMMA FrontAndLast ==
  ASSUME NEW S, NEW s \in Seq(S), s # <<>>
  PROVE  /\ Front(s) \in Seq(S) /\ Len(Front(s)) = Len(s) - 1
         /\ \A i \in 1 .. Len(s) - 1 : Front(s)[i] = s[i]
         /\ Last(s) = s[Len(s)] /\ Last(s) \in S /\ Len(s) \in Nat \ {0}
<1>1. PICK n \in Nat \ {0} : n = Len(s)
  OBVIOUS
<1>2. \A i \in 1 .. n - 1 : s[i] \in S
  BY <1>1
<1>3. /\ SubSeq(s, 1, n - 1) \in Seq(S)
      /\ Len(SubSeq(s, 1, n - 1)) = IF 1 <= n - 1 THEN n - 1 - 1 + 1 ELSE 0
      /\ \A i \in 1 .. n - 1 - 1 + 1 : SubSeq(s, 1, n - 1)[i] = s[1 + i - 1]
  BY <1>2, SubSeqProperties
<1>4. n - 1 - 1 + 1 = n - 1 /\ \A i \in 1 .. n - 1 : 1 + i - 1 = i
  OBVIOUS
<1>5. Front(s) = SubSeq(s, 1, n - 1)
  BY <1>1 DEF Front
<1>6. Len(Front(s)) = n - 1
  BY <1>3, <1>5
<1>7. \A i \in 1 .. n - 1 : Front(s)[i] = s[i]
  BY <1>3, <1>4, <1>5
<1>8. Last(s) = s[n] /\ s[n] \in S
  BY <1>1 DEF Last
<1>. QED  BY <1>1, <1>3, <1>5, <1>6, <1>7, <1>8

\* A sequence with one more element.
LEMMA Appended ==
  ASSUME NEW S, NEW s \in Seq(S), NEW e \in S
  PROVE  /\ Append(s, e) \in Seq(S) /\ Len(Append(s, e)) = Len(s) + 1
         /\ \A i \in 1 .. Len(s) : Append(s, e)[i] = s[i]
         /\ Append(s, e)[Len(s) + 1] = e
         /\ Len(s) \in Nat
  OBVIOUS

\* A sequence with another last element.
LEMMA LastReplaced ==
  ASSUME NEW S, NEW s \in Seq(S), s # <<>>, NEW e \in S
  PROVE  LET t == [s EXCEPT ![Len(s)] = e] IN
         /\ t \in Seq(S) /\ Len(t) = Len(s)
         /\ \A i \in 1 .. Len(s) - 1 : t[i] = s[i]
         /\ t[Len(s)] = e
  OBVIOUS

-----------------------------------------------------------------------------
(* The search of a graph with vertices 1 .. g and edges E.                 *)

\* A path from the start to the goal that visits no vertex twice.
Path(p, g, E) ==
  /\ p \in Seq(1 .. g) /\ Len(p) > 1 /\ p[1] = 1 /\ p[Len(p)] = g
  /\ \A i \in 1 .. Len(p) - 1 : <<p[i], p[i + 1]>> \in E
  /\ \A i, j \in 1 .. Len(p) : p[i] = p[j] => i = j

Graph(g, E) ==
  /\ g \in Nat /\ g > 1 /\ E \subseteq (1 .. g) \X (1 .. g)
  /\ \A e \in E : e[1] # g

\* The calls on the stack: the vertices on the way to the current one, and for
\* each call the vertex it looks at next.
Stack(g, E, vis, fr) ==
  /\ vis \in Seq(1 .. g) /\ fr \in Seq(1 .. g)
  /\ Len(vis) > 0 /\ vis[1] = 1
  /\ Len(fr) = Len(vis) \/ Len(fr) = Len(vis) - 1
  /\ \A i \in 1 .. Len(vis) : vis[i] # g
  /\ \A i, j \in 1 .. Len(vis) : vis[i] = vis[j] => i = j
  /\ \A i \in 1 .. Len(vis) - 1 : <<vis[i], vis[i + 1]>> \in E /\ fr[i] = vis[i + 1] + 1

\* The vertices the current call still has to enter.
Left(g, E, vis, fr) ==
  {w \in 1 .. g - 1 : /\ fr[Len(fr)] <= w /\ <<vis[Len(vis)], w>> \in E
                      /\ \A i \in 1 .. Len(vis) : vis[i] # w}

\* The search has been past p: some call on the stack leads along the first
\* part of p, and has done with the vertex at which p goes on.  Only a call
\* that is looking for the goal has not done with the goal.
Passed(p, g, vis, fr, at) ==
  \E i \in 1 .. Len(fr) :
    /\ i < Len(p) /\ \A j \in 1 .. i : p[j] = vis[j]
    /\ \/ p[i + 1] = g /\ (i < Len(fr) \/ at # "goal")
       \/ p[i + 1] < fr[i] /\ (i < Len(vis) => p[i + 1] # vis[i + 1])

\* A path ends when it reaches the goal.
LEMMA GoalEnds ==
  ASSUME NEW g, NEW E, Graph(g, E), NEW p, Path(p, g, E), NEW i \in 1 .. Len(p)
  PROVE  p[i] = g => i = Len(p)
  BY DEF Graph, Path

\* The vertex after the i-th of a path.
LEMMA NextOnPath ==
  ASSUME NEW g, NEW E, Graph(g, E), NEW p, Path(p, g, E), NEW i \in Nat \ {0}, i < Len(p)
  PROVE  /\ i \in 1 .. Len(p) - 1 /\ i + 1 \in 1 .. Len(p) /\ Len(p) \in Nat
         /\ p[i + 1] \in 1 .. g
         /\ p[i + 1] # g => p[i + 1] \in 1 .. g - 1 /\ i + 1 < Len(p)
<1>1. p \in Seq(1 .. g) /\ Len(p) \in Nat /\ g \in Nat /\ p[Len(p)] = g
  BY DEF Path, Graph
<1>2. i \in 1 .. Len(p) - 1 /\ i + 1 \in 1 .. Len(p)
  BY <1>1
<1>3. p[i + 1] \in 1 .. g
  BY <1>1, <1>2, ElementOfSeq
<1>. QED  BY <1>1, <1>2, <1>3

\* A call begins: nothing more is passed.
LEMMA CallBegins ==
  ASSUME NEW g, NEW E, Graph(g, E), NEW vis, NEW fr, Stack(g, E, vis, fr),
         Len(fr) = Len(vis) - 1
  PROVE  /\ Stack(g, E, vis, Append(fr, 1))
         /\ \A p : Path(p, g, E) =>
              (Passed(p, g, vis, Append(fr, 1), "goal") <=> Passed(p, g, vis, fr, "recurse"))
<1>. DEFINE fr2 == Append(fr, 1)
<1>1. 1 \in 1 .. g
  BY DEF Graph
<1>2. /\ fr \in Seq(1 .. g) /\ fr2 \in Seq(1 .. g) /\ Len(fr2) = Len(fr) + 1 /\ Len(fr) \in Nat
      /\ \A i \in 1 .. Len(fr) : fr2[i] = fr[i]
      /\ fr2[Len(fr) + 1] = 1
  BY <1>1, Appended DEF Stack
<1>. HIDE DEF fr2
<1>3. Stack(g, E, vis, fr2)
  BY <1>2 DEF Stack
<1>4. ASSUME NEW p, Path(p, g, E), Passed(p, g, vis, fr2, "goal")
      PROVE  Passed(p, g, vis, fr, "recurse")
  <2>1. PICK i \in 1 .. Len(fr2) :
          /\ i < Len(p) /\ \A j \in 1 .. i : p[j] = vis[j]
          /\ \/ p[i + 1] = g /\ (i < Len(fr2) \/ "goal" # "goal")
             \/ p[i + 1] < fr2[i] /\ (i < Len(vis) => p[i + 1] # vis[i + 1])
    BY <1>4 DEF Passed
  <2>2. p[i + 1] \in 1 .. g
    BY <1>2, <1>4, <2>1, NextOnPath
  <2>3. i # Len(fr2)
    BY <1>2, <2>1, <2>2
  <2>4. i \in 1 .. Len(fr) /\ fr2[i] = fr[i]
    BY <1>2, <2>3
  <2>. QED  BY <2>1, <2>4 DEF Passed
<1>5. ASSUME NEW p, Path(p, g, E), Passed(p, g, vis, fr, "recurse")
      PROVE  Passed(p, g, vis, fr2, "goal")
  <2>1. PICK i \in 1 .. Len(fr) :
          /\ i < Len(p) /\ \A j \in 1 .. i : p[j] = vis[j]
          /\ \/ p[i + 1] = g /\ (i < Len(fr) \/ "recurse" # "goal")
             \/ p[i + 1] < fr[i] /\ (i < Len(vis) => p[i + 1] # vis[i + 1])
    BY <1>5 DEF Passed
  <2>2. i \in 1 .. Len(fr2) /\ i < Len(fr2) /\ fr2[i] = fr[i]
    BY <1>2
  <2>. QED  BY <2>1, <2>2 DEF Passed
<1>. QED  BY <1>3, <1>4, <1>5 DEF fr2

\* A call returns at once: the vertex it was for counts as passed.
LEMMA CallSkipped ==
  ASSUME NEW g, NEW E, Graph(g, E), NEW vis, NEW fr, Stack(g, E, vis, fr),
         Len(fr) = Len(vis) - 1, fr # <<>>
  PROVE  /\ Stack(g, E, Front(vis), fr) /\ Len(Front(vis)) = Len(fr)
         /\ \A p : Passed(p, g, vis, fr, "recurse") => Passed(p, g, Front(vis), fr, "recurse")
<1>. DEFINE vis2 == Front(vis)
<1>1. /\ vis \in Seq(1 .. g) /\ fr \in Seq(1 .. g) /\ Len(fr) \in Nat \ {0}
      /\ vis2 \in Seq(1 .. g) /\ Len(vis2) = Len(fr) /\ Len(vis) = Len(fr) + 1
      /\ \A i \in 1 .. Len(fr) : vis2[i] = vis[i]
  BY FrontAndLast DEF Stack
<1>. HIDE DEF vis2
<1>2. Stack(g, E, vis2, fr)
  BY <1>1 DEF Stack
<1>3. ASSUME NEW p, Passed(p, g, vis, fr, "recurse")  PROVE Passed(p, g, vis2, fr, "recurse")
  BY <1>1, <1>3 DEF Passed
<1>. QED  BY <1>1, <1>2, <1>3 DEF vis2

\* The call has looked for the goal: the path straight to it, if there is one,
\* is the one more that is passed.
LEMMA GoalSought ==
  ASSUME NEW g, NEW E, Graph(g, E), NEW vis, NEW fr, Stack(g, E, vis, fr),
         Len(fr) = Len(vis), fr[Len(fr)] = 1
  PROVE  /\ <<Last(vis), g>> \in E =>
              /\ Path(Append(vis, g), g, E)
              /\ ~Passed(Append(vis, g), g, vis, fr, "goal")
              /\ Passed(Append(vis, g), g, vis, fr, "recurse")
         /\ \A p : Passed(p, g, vis, fr, "goal") => Passed(p, g, vis, fr, "recurse")
         /\ \A p : Path(p, g, E) /\ Passed(p, g, vis, fr, "recurse") =>
              \/ Passed(p, g, vis, fr, "goal")
              \/ <<Last(vis), g>> \in E /\ p = Append(vis, g)
<1>. DEFINE q == Append(vis, g)
            n == Len(vis)
<1>1. /\ g \in Nat /\ g \in 1 .. g /\ vis \in Seq(1 .. g) /\ fr \in Seq(1 .. g)
      /\ n \in Nat \ {0} /\ Last(vis) = vis[n]
  <2>1. vis \in Seq(1 .. g) /\ fr \in Seq(1 .. g) /\ vis # <<>>
    BY DEF Stack
  <2>2. n \in Nat \ {0} /\ Last(vis) = vis[n]
    BY <2>1, FrontAndLast
  <2>3. g \in Nat /\ g \in 1 .. g
    BY DEF Graph
  <2>. QED  BY <2>1, <2>2, <2>3
<1>2. /\ q \in Seq(1 .. g) /\ Len(q) = n + 1 /\ q[n + 1] = g
      /\ \A i \in 1 .. n : q[i] = vis[i]
  BY <1>1, Appended
<1>. HIDE DEF q
<1>3. ASSUME <<Last(vis), g>> \in E
      PROVE  Path(q, g, E) /\ ~Passed(q, g, vis, fr, "goal") /\ Passed(q, g, vis, fr, "recurse")
  <2>1. \A i \in 1 .. Len(q) - 1 : <<q[i], q[i + 1]>> \in E
    <3>. SUFFICES ASSUME NEW i \in 1 .. n  PROVE <<q[i], q[i + 1]>> \in E
      BY <1>1, <1>2
    <3>1. CASE i = n
      BY <1>1, <1>2, <1>3, <3>1
    <3>2. CASE i # n
      <4>1. i \in 1 .. n - 1 /\ i + 1 \in 1 .. n
        BY <1>1, <3>2
      <4>. QED  BY <1>2, <4>1 DEF Stack
    <3>. QED  BY <3>1, <3>2
  <2>2. \A i, j \in 1 .. n + 1 : q[i] = q[j] => i = j
    <3>1. \A i \in 1 .. n : q[i] # g
      BY <1>1, <1>2 DEF Stack
    <3>2. \A i, j \in 1 .. n : q[i] = q[j] => i = j
      BY <1>1, <1>2 DEF Stack
    <3>3. \A i \in 1 .. n + 1 : i \in 1 .. n \/ i = n + 1
      BY <1>1
    <3>. QED  BY <1>2, <3>1, <3>2, <3>3
  <2>3. Path(q, g, E)
    BY <1>1, <1>2, <2>1, <2>2 DEF Path, Stack
  <2>4. Passed(q, g, vis, fr, "recurse")
    <3>1. n \in 1 .. Len(fr) /\ n < Len(q) /\ q[n + 1] = g /\ \A j \in 1 .. n : q[j] = vis[j]
      BY <1>1, <1>2
    <3>. QED  BY <3>1 DEF Passed
  <2>5. ASSUME Passed(q, g, vis, fr, "goal")  PROVE FALSE
    <3>1. PICK i \in 1 .. n :
            \/ q[i + 1] = g /\ (i < n \/ "goal" # "goal")
            \/ q[i + 1] < fr[i] /\ (i < Len(vis) => q[i + 1] # vis[i + 1])
      BY <2>5 DEF Passed
    <3>2. CASE i = n
      BY <1>1, <1>2, <3>1, <3>2 DEF Graph
    <3>3. CASE i # n
      <4>1. i + 1 \in 1 .. n /\ i < n
        BY <1>1, <3>3
      <4>2. q[i + 1] = vis[i + 1] /\ vis[i + 1] # g
        BY <1>1, <1>2, <4>1 DEF Stack
      <4>. QED  BY <3>1, <4>1, <4>2
    <3>. QED  BY <3>2, <3>3
  <2>. QED  BY <2>3, <2>4, <2>5
<1>4. ASSUME NEW p, Passed(p, g, vis, fr, "goal")  PROVE Passed(p, g, vis, fr, "recurse")
  BY <1>4 DEF Passed
<1>5. ASSUME NEW p, Path(p, g, E), Passed(p, g, vis, fr, "recurse"), ~Passed(p, g, vis, fr, "goal")
      PROVE  <<Last(vis), g>> \in E /\ p = q
  <2>1. PICK i \in 1 .. n :
          /\ i < Len(p) /\ \A j \in 1 .. i : p[j] = vis[j]
          /\ \/ p[i + 1] = g
             \/ p[i + 1] < fr[i] /\ (i < Len(vis) => p[i + 1] # vis[i + 1])
    BY <1>5 DEF Passed
  <2>2. p[i + 1] = g /\ ~(i < n)
    BY <1>5, <2>1 DEF Passed
  <2>3. i = n
    BY <1>1, <2>2
  <2>4. Len(p) \in Nat /\ i + 1 \in 1 .. Len(p) /\ p \in Seq(1 .. g)
    BY <1>5, <2>1 DEF Path
  <2>5. Len(p) = n + 1
    BY <1>5, <2>2, <2>3, <2>4, GoalEnds
  <2>6. <<p[n], p[n + 1]>> \in E
    BY <1>1, <1>5, <2>5 DEF Path
  <2>7. \A j \in 1 .. n + 1 : p[j] = q[j]
    BY <1>1, <1>2, <2>1, <2>2, <2>3
  <2>8. p = q
    BY <1>1, <1>2, <2>4, <2>5, <2>7
  <2>. QED  BY <1>1, <2>1, <2>2, <2>3, <2>6, <2>8
<1>. QED  BY <1>3, <1>4, <1>5 DEF q

\* The call goes on to the least vertex it still has to: only the paths over
\* vertices before that one are passed.
LEMMA VertexEntered ==
  ASSUME NEW g, NEW E, Graph(g, E), NEW vis, NEW fr, Stack(g, E, vis, fr),
         Len(fr) = Len(vis), NEW v \in Left(g, E, vis, fr),
         \A w \in Left(g, E, vis, fr) : v <= w,
         NEW vis2, vis2 = Append(vis, v),
         NEW fr2, fr2 = [fr EXCEPT ![Len(fr)] = v + 1]
  PROVE  /\ Stack(g, E, vis2, fr2)
         /\ \A p : Path(p, g, E) =>
              (Passed(p, g, vis2, fr2, "enter") <=> Passed(p, g, vis, fr, "recurse"))
<1>0. /\ v \in 1 .. g /\ fr[Len(fr)] <= v /\ v # g
      /\ <<vis[Len(vis)], v>> \in E /\ \A i \in 1 .. Len(vis) : vis[i] # v
      /\ \A w \in 1 .. g - 1 :
           /\ fr[Len(fr)] <= w /\ <<vis[Len(vis)], w>> \in E
           /\ \A i \in 1 .. Len(vis) : vis[i] # w
           => v <= w
  BY DEF Left, Graph
<1>1. PICK n \in Nat \ {0} : n = Len(vis) /\ n = Len(fr)
  BY DEF Stack
<1>2. g \in Nat /\ v + 1 \in 1 .. g /\ vis \in Seq(1 .. g) /\ fr \in Seq(1 .. g) /\ fr # <<>>
  BY <1>0, <1>1 DEF Graph, Stack
<1>3. /\ vis2 \in Seq(1 .. g) /\ Len(vis2) = n + 1 /\ vis2[n + 1] = v
      /\ \A i \in 1 .. n : vis2[i] = vis[i]
  BY <1>0, <1>1, <1>2, Appended
<1>4. /\ fr2 \in Seq(1 .. g) /\ Len(fr2) = n /\ fr2[n] = v + 1
      /\ \A i \in 1 .. n - 1 : fr2[i] = fr[i]
  BY <1>1, <1>2, LastReplaced
<1>5. \A i \in 1 .. n + 1 : i \in 1 .. n \/ i = n + 1
  OBVIOUS
<1>6. \A i \in 1 .. n : (i \in 1 .. n - 1 /\ i + 1 \in 1 .. n) \/ i = n
  OBVIOUS
<1>7. Stack(g, E, vis2, fr2)
  <2>1. \A i \in 1 .. n + 1 : vis2[i] # g
    BY <1>0, <1>1, <1>3, <1>5 DEF Stack
  <2>2. \A i, j \in 1 .. n + 1 : vis2[i] = vis2[j] => i = j
    <3>1. \A i, j \in 1 .. n : vis2[i] = vis2[j] => i = j
      BY <1>1, <1>3 DEF Stack
    <3>2. \A i \in 1 .. n : vis2[i] # v
      BY <1>0, <1>1, <1>3
    <3>. QED  BY <1>3, <1>5, <3>1, <3>2
  <2>3. \A i \in 1 .. n : <<vis2[i], vis2[i + 1]>> \in E /\ fr2[i] = vis2[i + 1] + 1
    <3>. SUFFICES ASSUME NEW i \in 1 .. n
                  PROVE  <<vis2[i], vis2[i + 1]>> \in E /\ fr2[i] = vis2[i + 1] + 1
      OBVIOUS
    <3>1. CASE i = n
      BY <1>0, <1>1, <1>3, <1>4, <3>1
    <3>2. CASE i # n
      <4>1. i \in 1 .. n - 1 /\ i + 1 \in 1 .. n
        BY <3>2
      <4>2. <<vis[i], vis[i + 1]>> \in E /\ fr[i] = vis[i + 1] + 1
        BY <1>1, <4>1 DEF Stack
      <4>. QED  BY <1>3, <1>4, <4>1, <4>2
    <3>. QED  BY <3>1, <3>2
  <2>4. vis2[1] = 1
    BY <1>1, <1>3 DEF Stack
  <2>. QED  BY <1>3, <1>4, <2>1, <2>2, <2>3, <2>4 DEF Stack
<1>8. ASSUME NEW p, Path(p, g, E), Passed(p, g, vis2, fr2, "enter")
      PROVE  Passed(p, g, vis, fr, "recurse")
  <2>1. PICK i \in 1 .. n :
          /\ i < Len(p) /\ \A j \in 1 .. i : p[j] = vis2[j]
          /\ \/ p[i + 1] = g
             \/ p[i + 1] < fr2[i] /\ (i < n + 1 => p[i + 1] # vis2[i + 1])
    BY <1>3, <1>4, <1>8 DEF Passed
  <2>2. \A j \in 1 .. i : p[j] = vis[j]
    BY <1>3, <2>1
  <2>3. CASE p[i + 1] = g
    BY <1>1, <2>1, <2>2, <2>3 DEF Passed
  <2>4. CASE p[i + 1] # g /\ i # n
    <3>1. i \in 1 .. n - 1 /\ i + 1 \in 1 .. n
      BY <2>4
    <3>2. p[i + 1] < fr[i] /\ p[i + 1] # vis[i + 1]
      BY <1>3, <1>4, <2>1, <2>4, <3>1
    <3>. QED  BY <1>1, <2>1, <2>2, <3>2 DEF Passed
  <2>5. CASE p[i + 1] # g /\ i = n
    <3>1. /\ p \in Seq(1 .. g) /\ Len(p) \in Nat
          /\ n \in 1 .. Len(p) - 1 /\ n + 1 \in 1 .. Len(p)
      BY <1>8, <2>1, <2>5, NextOnPath DEF Path
    <3>2. p[n + 1] \in 1 .. g - 1
      BY <1>8, <2>1, <2>5, NextOnPath
    <3>3. p[n + 1] < v
      BY <1>0, <1>2, <1>3, <1>4, <2>1, <2>5, <3>2
    <3>4. <<vis[n], p[n + 1]>> \in E
      BY <1>8, <2>2, <2>5, <3>1 DEF Path
    <3>5. \A k \in 1 .. n : vis[k] # p[n + 1]
      <4>. SUFFICES ASSUME NEW k \in 1 .. n, vis[k] = p[n + 1]  PROVE FALSE
        OBVIOUS
      <4>1. k \in 1 .. Len(p) /\ p[k] = p[n + 1]
        BY <2>2, <2>5, <3>1
      <4>2. k = n + 1
        BY <1>8, <3>1, <4>1 DEF Path
      <4>. QED  BY <4>2
    <3>6. fr[n] \in 1 .. g
      BY <1>1, <1>2
    <3>7. p[n + 1] < fr[n]
      <4>. DEFINE w == p[n + 1]
      <4>1. w \in 1 .. g - 1 /\ w < v /\ <<vis[Len(vis)], w>> \in E
        BY <1>1, <3>2, <3>3, <3>4
      <4>2. \A k \in 1 .. Len(vis) : vis[k] # w
        BY <1>1, <3>5
      <4>. HIDE DEF w
      <4>3. ~(fr[n] <= w)
        BY <1>0, <1>1, <1>2, <4>1, <4>2
      <4>4. w < fr[n]
        BY <1>2, <3>6, <4>1, <4>3
      <4>. QED  BY <4>4 DEF w
    <3>. QED  BY <1>1, <2>1, <2>2, <2>5, <3>7 DEF Passed
  <2>. QED  BY <2>3, <2>4, <2>5
<1>9. ASSUME NEW p, Path(p, g, E), Passed(p, g, vis, fr, "recurse")
      PROVE  Passed(p, g, vis2, fr2, "enter")
  <2>1. PICK i \in 1 .. n :
          /\ i < Len(p) /\ \A j \in 1 .. i : p[j] = vis[j]
          /\ \/ p[i + 1] = g
             \/ p[i + 1] < fr[i] /\ (i < n => p[i + 1] # vis[i + 1])
    BY <1>1, <1>9 DEF Passed
  <2>2. \A j \in 1 .. i : p[j] = vis2[j]
    BY <1>3, <2>1
  <2>3. CASE p[i + 1] = g
    BY <1>3, <1>4, <2>1, <2>2, <2>3 DEF Passed
  <2>4. CASE p[i + 1] # g /\ i # n
    <3>1. i \in 1 .. n - 1 /\ i + 1 \in 1 .. n
      BY <2>4
    <3>2. p[i + 1] < fr2[i] /\ p[i + 1] # vis2[i + 1]
      BY <1>3, <1>4, <2>1, <2>4, <3>1
    <3>. QED  BY <1>3, <1>4, <2>1, <2>2, <3>2 DEF Passed
  <2>5. CASE p[i + 1] # g /\ i = n
    <3>1. p[n + 1] \in 1 .. g /\ fr[n] \in 1 .. g
      BY <1>1, <1>2, <1>9, <2>1, <2>5, NextOnPath
    <3>2. p[n + 1] < fr[n] /\ fr[n] <= v
      BY <1>0, <1>1, <2>1, <2>5
    <3>3. p[n + 1] < v + 1 /\ p[n + 1] # v
      BY <1>0, <1>2, <3>1, <3>2
    <3>. QED  BY <1>3, <1>4, <2>1, <2>2, <2>5, <3>3 DEF Passed
  <2>. QED  BY <2>3, <2>4, <2>5
<1>10. \A p : Path(p, g, E) =>
         (Passed(p, g, vis2, fr2, "enter") <=> Passed(p, g, vis, fr, "recurse"))
  BY <1>8, <1>9
<1>. QED  BY <1>7, <1>10

\* Nothing is left for the call, and it returns: all paths over its vertex
\* are passed, as they were one by one.
LEMMA CallReturns ==
  ASSUME NEW g, NEW E, Graph(g, E), NEW vis, NEW fr, Stack(g, E, vis, fr),
         Len(fr) = Len(vis), Len(fr) # 1,
         Left(g, E, vis, fr) = {}
  PROVE  /\ Stack(g, E, Front(vis), Front(fr))
         /\ \A p : Path(p, g, E) =>
              (Passed(p, g, Front(vis), Front(fr), "recurse") <=> Passed(p, g, vis, fr, "recurse"))
<1>0. \A w \in 1 .. g - 1 :
         ~(/\ fr[Len(fr)] <= w /\ <<vis[Len(vis)], w>> \in E
           /\ \A i \in 1 .. Len(vis) : vis[i] # w)
  BY DEF Left
<1>. DEFINE vis2 == Front(vis)
            fr2 == Front(fr)
<1>1. PICK n \in Nat \ {0, 1} : n = Len(vis) /\ n = Len(fr)
  BY DEF Stack
<1>2. g \in Nat /\ vis \in Seq(1 .. g) /\ fr \in Seq(1 .. g) /\ vis # <<>> /\ fr # <<>>
  BY <1>1 DEF Graph, Stack
<1>3. /\ vis2 \in Seq(1 .. g) /\ Len(vis2) = n - 1 /\ \A i \in 1 .. n - 1 : vis2[i] = vis[i]
      /\ fr2 \in Seq(1 .. g) /\ Len(fr2) = n - 1 /\ \A i \in 1 .. n - 1 : fr2[i] = fr[i]
  BY <1>1, <1>2, FrontAndLast
<1>. HIDE DEF vis2, fr2
<1>4. Stack(g, E, vis2, fr2)
  <2>1. \A i \in 1 .. n - 2 : i \in 1 .. n - 1 /\ i + 1 \in 1 .. n - 1
    OBVIOUS
  <2>2. \A i \in 1 .. n - 2 : <<vis2[i], vis2[i + 1]>> \in E /\ fr2[i] = vis2[i + 1] + 1
    BY <1>1, <1>3, <2>1 DEF Stack
  <2>3. \A i \in 1 .. n - 1 : vis2[i] # g
    BY <1>1, <1>3 DEF Stack
  <2>4. \A i, j \in 1 .. n - 1 : vis2[i] = vis2[j] => i = j
    BY <1>1, <1>3 DEF Stack
  <2>5. vis2[1] = 1
    BY <1>1, <1>3 DEF Stack
  <2>6. n - 1 - 1 = n - 2 /\ n - 1 > 0
    OBVIOUS
  <2>. QED  BY <1>3, <2>2, <2>3, <2>4, <2>5, <2>6 DEF Stack
<1>5. /\ <<vis[n - 1], vis[n]>> \in E /\ fr[n - 1] = vis[n] + 1
      /\ vis[n] \in 1 .. g /\ vis[n] # g /\ n - 1 \in 1 .. n - 1
  BY <1>1, <1>2 DEF Stack
<1>6. ASSUME NEW p, Path(p, g, E), Passed(p, g, vis2, fr2, "recurse")
      PROVE  Passed(p, g, vis, fr, "recurse")
  <2>1. PICK i \in 1 .. n - 1 :
          /\ i < Len(p) /\ \A j \in 1 .. i : p[j] = vis2[j]
          /\ \/ p[i + 1] = g
             \/ p[i + 1] < fr2[i] /\ (i < n - 1 => p[i + 1] # vis2[i + 1])
    BY <1>3, <1>6 DEF Passed
  <2>2. /\ \A j \in 1 .. i : p[j] = vis[j]
        /\ i \in 1 .. n /\ fr2[i] = fr[i]
    BY <1>3, <2>1
  <2>3. CASE p[i + 1] = g
    BY <1>1, <2>1, <2>2, <2>3 DEF Passed
  <2>4. CASE p[i + 1] # g /\ p[i + 1] # vis[i + 1]
    <3>1. p[i + 1] < fr[i]
      BY <2>1, <2>2, <2>4
    <3>. QED  BY <1>1, <2>1, <2>2, <2>4, <3>1 DEF Passed
  <2>5. CASE p[i + 1] # g /\ p[i + 1] = vis[i + 1]
    <3>1. i = n - 1
      <4>1. ASSUME i < n - 1  PROVE FALSE
        BY <1>3, <2>1, <2>5, <4>1
      <4>. QED  BY <4>1
    <3>2. n < Len(p) /\ \A j \in 1 .. n : p[j] = vis[j]
      <4>1. i + 1 = n /\ i + 1 < Len(p)
        BY <1>6, <2>1, <2>5, <3>1, NextOnPath
      <4>2. \A j \in 1 .. n : j \in 1 .. i \/ j = i + 1
        BY <3>1
      <4>. QED  BY <2>2, <2>5, <4>1, <4>2
    <3>3. CASE p[n + 1] = g
      BY <1>1, <3>2, <3>3 DEF Passed
    <3>4. CASE p[n + 1] # g
      <4>. DEFINE w == p[n + 1]
      <4>1. w \in 1 .. g - 1 /\ n \in 1 .. Len(p) - 1 /\ n + 1 \in 1 .. Len(p) /\ Len(p) \in Nat
        BY <1>6, <3>2, <3>4, NextOnPath
      <4>2. <<vis[Len(vis)], w>> \in E
        BY <1>1, <1>6, <3>2, <4>1 DEF Path
      <4>3. \A k \in 1 .. Len(vis) : vis[k] # w
        <5>. SUFFICES ASSUME NEW k \in 1 .. n, vis[k] = w  PROVE FALSE
          BY <1>1
        <5>1. k \in 1 .. Len(p) /\ p[k] = p[n + 1]
          BY <3>2, <4>1
        <5>2. k = n + 1
          BY <1>6, <4>1, <5>1 DEF Path
        <5>. QED  BY <5>2
      <4>4. fr[n] \in 1 .. g
        BY <1>1, <1>2
      <4>. HIDE DEF w
      <4>5. ~(fr[n] <= w)
        BY <1>0, <1>1, <4>1, <4>2, <4>3
      <4>6. w < fr[n]
        BY <1>2, <4>1, <4>4, <4>5
      <4>. QED  BY <1>1, <3>2, <4>6 DEF Passed, w
    <3>. QED  BY <3>3, <3>4
  <2>. QED  BY <2>3, <2>4, <2>5
<1>7. ASSUME NEW p, Path(p, g, E), Passed(p, g, vis, fr, "recurse")
      PROVE  Passed(p, g, vis2, fr2, "recurse")
  <2>1. PICK i \in 1 .. n :
          /\ i < Len(p) /\ \A j \in 1 .. i : p[j] = vis[j]
          /\ \/ p[i + 1] = g
             \/ p[i + 1] < fr[i] /\ (i < n => p[i + 1] # vis[i + 1])
    BY <1>1, <1>7 DEF Passed
  <2>2. CASE i = n
    <3>1. p[n] = vis[n] /\ \A j \in 1 .. n - 1 : p[j] = vis2[j]
      BY <1>3, <2>1, <2>2
    <3>2. Len(p) \in Nat
      BY <1>7, <2>1, NextOnPath
    <3>3. n - 1 < Len(p) /\ n - 1 + 1 = n
      BY <2>1, <2>2, <3>2
    <3>4. p[n] < fr2[n - 1]
      BY <1>3, <1>5, <3>1
    <3>. QED  BY <1>3, <1>5, <3>1, <3>3, <3>4 DEF Passed
  <2>3. CASE i # n
    <3>1. /\ i \in 1 .. n - 1 /\ i < n /\ fr2[i] = fr[i]
          /\ \A j \in 1 .. i : p[j] = vis2[j]
      BY <1>3, <2>1, <2>3
    <3>2. i < n - 1 => vis2[i + 1] = vis[i + 1]
      BY <1>3, <3>1
    <3>. QED  BY <1>3, <2>1, <3>1, <3>2 DEF Passed
  <2>. QED  BY <2>2, <2>3
<1>. QED  BY <1>3, <1>4, <1>6, <1>7 DEF vis2, fr2

\* The first call has done with its last vertex: every path is passed.
LEMMA SearchEnds ==
  ASSUME NEW g, NEW E, Graph(g, E), NEW vis, NEW fr, Stack(g, E, vis, fr),
         Len(fr) = Len(vis), Len(fr) = 1,
         Left(g, E, vis, fr) = {},
         NEW p, Path(p, g, E)
  PROVE  Passed(p, g, vis, fr, "recurse")
<1>0. \A w \in 1 .. g - 1 :
         ~(/\ fr[Len(fr)] <= w /\ <<vis[Len(vis)], w>> \in E
           /\ \A i \in 1 .. Len(vis) : vis[i] # w)
  BY DEF Left
<1>1. /\ vis \in Seq(1 .. g) /\ fr \in Seq(1 .. g) /\ vis[1] = 1 /\ fr[1] \in 1 .. g
      /\ p[1] = 1 /\ 1 < Len(p) /\ Len(p) \in Nat
  <2>1. vis \in Seq(1 .. g) /\ fr \in Seq(1 .. g) /\ vis[1] = 1
    BY DEF Stack
  <2>2. 1 \in 1 .. Len(fr)
    OBVIOUS
  <2>3. fr[1] \in 1 .. g
    BY <2>1, <2>2, ElementOfSeq
  <2>4. p[1] = 1 /\ Len(p) > 1 /\ Len(p) \in Nat
    BY DEF Path
  <2>5. 1 < Len(p)
    BY <2>4
  <2>. QED  BY <2>1, <2>3, <2>4, <2>5
<1>2. p[1 + 1] \in 1 .. g /\ (p[1 + 1] # g => p[1 + 1] \in 1 .. g - 1)
      /\ 1 \in 1 .. Len(p) - 1 /\ 1 + 1 \in 1 .. Len(p)
  <2>1. PICK i \in Nat \ {0} : i = 1
    OBVIOUS
  <2>2. i < Len(p)
    BY <1>1, <2>1
  <2>3. p[i + 1] \in 1 .. g /\ (p[i + 1] # g => p[i + 1] \in 1 .. g - 1)
        /\ i \in 1 .. Len(p) - 1 /\ i + 1 \in 1 .. Len(p)
    BY <2>2, NextOnPath
  <2>. QED  BY <2>1, <2>3
<1>3. CASE p[1 + 1] = g
  BY <1>1, <1>3 DEF Passed
<1>4. CASE p[1 + 1] # g
  <2>. DEFINE w == p[1 + 1]
  <2>1. w \in 1 .. g - 1 /\ g \in Nat
    BY <1>2, <1>4 DEF Graph
  <2>2. <<vis[Len(vis)], w>> \in E
    BY <1>1, <1>2 DEF Path
  <2>3. vis[1] # w
    BY <1>1, <1>2 DEF Path
  <2>. HIDE DEF w
  <2>4. \A i \in 1 .. Len(vis) : vis[i] # w
    BY <2>3
  <2>5. ~(fr[1] <= w)
    BY <1>0, <2>1, <2>2, <2>4
  <2>6. w < fr[1]
    BY <1>1, <2>1, <2>5
  <2>. QED  BY <1>1, <2>6 DEF Passed, w
<1>. QED  BY <1>3, <1>4-----------------------------------------------------------------------------
(* Obstacles.                                                              *)

LEMMA PointOperations ==
  ASSUME NEW p \in Points, NEW q \in Points, NEW k \in Int
  PROVE  /\ Plus(p, q) \in Points /\ Minus(p, q) \in Points /\ Times(k, p) \in Points
         /\ Dot(p, q) \in Int /\ Cross(p, q) \in Int /\ p[1] \in Int /\ p[2] \in Int
  BY DEF Points, Plus, Minus, Times, Dot, Cross

\* A quotient by a number other than zero, rounded down.
LEMMA QuotientTyped ==
  ASSUME NEW a \in Int, NEW b \in Int, b # 0
  PROVE  Quotient(a, b) \in Int
<1>1. CASE b < 0
  <2>1. -b \in Nat \ {0} /\ -a \in Int
    BY <1>1
  <2>2. \A c \in Int, d \in Nat \ {0} : c \div d \in Int
    OBVIOUS
  <2>. QED  BY <1>1, <2>1, <2>2 DEF Quotient
<1>2. CASE ~(b < 0)
  <2>1. b \in Nat \ {0}
    BY <1>2
  <2>2. \A c \in Int, d \in Nat \ {0} : c \div d \in Int
    OBVIOUS
  <2>. QED  BY <1>2, <2>1, <2>2 DEF Quotient
<1>. QED  BY <1>1, <1>2

LEMMA HalfwayTyped ==
  ASSUME NEW p \in Points, NEW q \in Points
  PROVE  Halfway(p, q) \in Points
<1>1. p[1] + q[1] \in Int /\ p[2] + q[2] \in Int
  BY PointOperations
<1>2. \A c \in Int : c \div 2 \in Int
  OBVIOUS
<1>. QED  BY <1>1, <1>2 DEF Halfway, Points

\* The next vertex of a polygon is one of its vertices.
LEMMA TurnTyped ==
  ASSUME NEW v \in Seq(Points), NEW k \in 1 .. Len(v)
  PROVE  v[k] \in Points /\ After(v, k) \in Points /\ Turn(v, k) \in Int
<1>1. PICK n \in Nat \ {0} : n = Len(v)
  OBVIOUS
<1>2. k % n \in 0 .. n - 1
  BY <1>1
<1>3. (k % n) + 1 \in 1 .. n
  BY <1>2
<1>4. v[k] \in Points /\ After(v, k) \in Points
  BY <1>1, <1>3, ElementOfSeq DEF After
<1>. QED  BY <1>4, PointOperations DEF Turn

LEMMA AreaTyped ==
  ASSUME NEW v \in Seq(Points)
  PROVE  Area(v) \in Int
<1>. DEFINE n == Len(v)
            sum[k \in 0 .. n] == IF k = 0 THEN 0 ELSE sum[k - 1] + Turn(v, k)
            step == [e \in (1 .. n) \X Int |-> e[2] + Turn(v, e[1])]
<1>1. n \in Nat /\ 0 \in Int
  OBVIOUS
<1>2. step \in [(1 .. n) \X Int -> Int]
  BY TurnTyped
<1>3. PICK g \in [0 .. n -> Int] : Chain(g, n, 0, step)
  BY <1>1, <1>2, Recursion
<1>4. ASSUME NEW k \in 0 .. n
      PROVE  g[k] = IF k = 0 THEN 0 ELSE g[k - 1] + Turn(v, k)
  <2>1. CASE k = 0
    BY <1>3, <2>1 DEF Chain
  <2>2. CASE k # 0
    <3>1. k \in 1 .. n /\ k - 1 \in 0 .. n
      BY <1>1, <2>2
    <3>2. <<k, g[k - 1]>> \in (1 .. n) \X Int
      BY <1>3, <3>1
    <3>. QED  BY <1>3, <2>2, <3>1, <3>2 DEF Chain
  <2>. QED  BY <2>1, <2>2
<1>5. g = [k \in 0 .. n |-> IF k = 0 THEN 0 ELSE g[k - 1] + Turn(v, k)]
  BY <1>3, <1>4
<1>6. sum = [k \in 0 .. n |-> IF k = 0 THEN 0 ELSE sum[k - 1] + Turn(v, k)]
  BY <1>5
<1>7. Area(v) = sum[n]
  BY DEF Area
<1>. HIDE DEF sum
<1>8. sum[0] = 0
  BY <1>1, <1>6
<1>9. ASSUME NEW k \in 1 .. n, sum[k - 1] \in Int  PROVE sum[k] \in Int
  <2>1. sum[k] = sum[k - 1] + Turn(v, k)
    BY <1>6
  <2>. QED  BY <1>9, <2>1, TurnTyped
<1>10. \A k \in 0 .. n : sum[k] \in Int
  BY <1>1, <1>8, <1>9, AllTyped
<1>. QED  BY <1>1, <1>7, <1>10

\* The row of a cell of a table with n columns and m rows, counted from 0.
LEMMA RowOfCell ==
  ASSUME NEW n \in Nat \ {0}, NEW k \in 1 .. n * n
  PROVE  (k - 1) \div n \in 0 .. n - 1
  OBVIOUS

LEMMA MomentTyped ==
  ASSUME NEW v \in Seq(Points)
  PROVE  Moment(v) \in Points
<1>. DEFINE n == Len(v)
            Part(k) == Times(Turn(v, k), Plus(v[k], After(v, k)))
            sum[k \in 0 .. n] == IF k = 0 THEN <<0, 0>> ELSE Plus(sum[k - 1], Part(k))
            step == [e \in (1 .. n) \X Points |-> Plus(e[2], Part(e[1]))]
<1>1. n \in Nat /\ <<0, 0>> \in Points
  BY DEF Points
<1>2. ASSUME NEW k \in 1 .. n  PROVE Part(k) \in Points
  <2>1. v[k] \in Points /\ After(v, k) \in Points /\ Turn(v, k) \in Int
    BY TurnTyped
  <2>2. Plus(v[k], After(v, k)) \in Points
    BY <2>1, PointOperations
  <2>. QED  BY <2>1, <2>2, PointOperations
<1>7. Moment(v) = sum[n]
  BY DEF Moment
<1>. HIDE DEF Part
<1>21. \A k \in 1 .. n, p \in Points : Plus(p, Part(k)) \in Points
  BY <1>2, PointOperations
<1>22. step \in [(1 .. n) \X Points -> Points]
  BY <1>21
<1>3. PICK g \in [0 .. n -> Points] : Chain(g, n, <<0, 0>>, step)
  BY <1>1, <1>22, Recursion
<1>4. ASSUME NEW k \in 0 .. n
      PROVE  g[k] = IF k = 0 THEN <<0, 0>> ELSE Plus(g[k - 1], Part(k))
  <2>1. CASE k = 0
    BY <1>3, <2>1 DEF Chain
  <2>2. CASE k # 0
    <3>1. k \in 1 .. n /\ k - 1 \in 0 .. n
      BY <1>1, <2>2
    <3>2. <<k, g[k - 1]>> \in (1 .. n) \X Points
      BY <1>3, <3>1
    <3>. QED  BY <1>3, <2>2, <3>1, <3>2 DEF Chain
  <2>. QED  BY <2>1, <2>2
<1>5. g = [k \in 0 .. n |-> IF k = 0 THEN <<0, 0>> ELSE Plus(g[k - 1], Part(k))]
  BY <1>3, <1>4
<1>6. sum = [k \in 0 .. n |-> IF k = 0 THEN <<0, 0>> ELSE Plus(sum[k - 1], Part(k))]
  BY <1>5
<1>. HIDE DEF sum
<1>8. sum[0] = <<0, 0>>
  BY <1>1, <1>6
<1>9. ASSUME NEW k \in 1 .. n, sum[k - 1] \in Points  PROVE sum[k] \in Points
  <2>1. k \in 0 .. n /\ k # 0
    BY <1>1
  <2>2. sum[k] = Plus(sum[k - 1], Part(k))
    BY <1>6, <2>1
  <2>. QED  BY <1>9, <1>21, <2>2
<1>10. \A k \in 0 .. n : sum[k] \in Points
  BY <1>1, <1>8, <1>9, AllTyped
<1>. QED  BY <1>1, <1>7, <1>10

\* The pair of vertices farthest apart consists of two vertices.
LEMMA FarthestTyped ==
  ASSUME NEW v \in Seq(Points), v # <<>>
  PROVE  Farthest(v) \in (1 .. Len(v)) \X (1 .. Len(v))
<1>. DEFINE n == Len(v)
            m == n * n
            S == (1 .. n) \X (1 .. n)
            length(e) == SquaredNorm(Minus(v[e[2]], v[e[1]]))
            Better(best, k) ==
              LET e == <<((k - 1) \div n) + 1, ((k - 1) % n) + 1>>
              IN IF e[1] < e[2] /\ length(best) < length(e) THEN e ELSE best
            far[k \in 0 .. m] == IF k = 0 THEN <<1, 1>> ELSE Better(far[k - 1], k)
            step == [e \in (1 .. m) \X S |-> Better(e[2], e[1])]
<1>1. n \in Nat \ {0} /\ m \in Nat
  <2>1. n \in Nat \ {0}
    OBVIOUS
  <2>2. \A k \in Nat : k * k \in Nat
    OBVIOUS
  <2>. QED  BY <2>1, <2>2
<1>11. <<1, 1>> \in S
  BY <1>1
<1>2. ASSUME NEW k \in 1 .. m, NEW best \in S  PROVE Better(best, k) \in S
  <2>1. (k - 1) \div n \in 0 .. n - 1
    BY <1>1, RowOfCell
  <2>2. (k - 1) % n \in 0 .. n - 1
    BY <1>1
  <2>3. ((k - 1) \div n) + 1 \in 1 .. n /\ ((k - 1) % n) + 1 \in 1 .. n
    BY <1>1, <2>1, <2>2
  <2>. HIDE DEF length, n
  <2>. QED  BY <2>3
<1>7. Farthest(v) = far[m]
  BY DEF Farthest
<1>. HIDE DEF Better, S, m
<1>22. step \in [(1 .. m) \X S -> S]
  BY <1>2
<1>3. PICK g \in [0 .. m -> S] : Chain(g, m, <<1, 1>>, step)
  BY <1>1, <1>11, <1>22, Recursion
<1>4. ASSUME NEW k \in 0 .. m
      PROVE  g[k] = IF k = 0 THEN <<1, 1>> ELSE Better(g[k - 1], k)
  <2>1. CASE k = 0
    BY <1>3, <2>1 DEF Chain
  <2>2. CASE k # 0
    <3>1. k \in 1 .. m /\ k - 1 \in 0 .. m
      BY <1>1, <2>2
    <3>2. <<k, g[k - 1]>> \in (1 .. m) \X S
      BY <1>3, <3>1
    <3>. QED  BY <1>3, <2>2, <3>1, <3>2 DEF Chain
  <2>. QED  BY <2>1, <2>2
<1>5. g = [k \in 0 .. m |-> IF k = 0 THEN <<1, 1>> ELSE Better(g[k - 1], k)]
  BY <1>3, <1>4
<1>6. far = [k \in 0 .. m |-> IF k = 0 THEN <<1, 1>> ELSE Better(far[k - 1], k)]
  BY <1>5
<1>. HIDE DEF far
<1>8. far[0] = <<1, 1>>
  BY <1>1, <1>6
<1>9. ASSUME NEW k \in 1 .. m, far[k - 1] \in S  PROVE far[k] \in S
  <2>1. k \in 0 .. m /\ k # 0
    BY <1>1
  <2>2. far[k] = Better(far[k - 1], k)
    BY <1>6, <2>1
  <2>. QED  BY <1>2, <1>9, <2>2
<1>10. \A k \in 0 .. m : far[k] \in S
  BY <1>1, <1>8, <1>9, <1>11, AllTyped
<1>12. m \in 0 .. m
  BY <1>1
<1>. QED  BY <1>7, <1>10, <1>12 DEF S

LEMMA CentroidTyped ==
  ASSUME NEW o \in ObstacleRecords
  PROVE  Centroid(o) \in Points
<1>. DEFINE v == o.at
            pair == Farthest(v)
<1>1. v \in Seq(Points) /\ v # <<>> /\ Len(v) \in Nat \ {0}
  BY DEF ObstacleRecords
<1>. HIDE DEF v
<1>2. CASE Len(v) = 1
  <2>1. v[1] \in Points
    BY <1>1, <1>2
  <2>. QED  BY <1>2, <2>1 DEF Centroid, v
<1>3. CASE Len(v) = 2
  <2>1. Halfway(v[1], v[2]) \in Points
    BY <1>1, <1>3, HalfwayTyped
  <2>. QED  BY <1>3, <2>1 DEF Centroid, v
<1>4. CASE Len(v) > 2 /\ Area(v) # 0
  <2>1. 3 * Area(v) \in Int /\ 3 * Area(v) # 0 /\ Moment(v)[1] \in Int /\ Moment(v)[2] \in Int
    BY <1>1, <1>4, AreaTyped, MomentTyped DEF Points
  <2>2. <<Quotient(Moment(v)[1], 3 * Area(v)), Quotient(Moment(v)[2], 3 * Area(v))>> \in Points
    BY <2>1, QuotientTyped DEF Points
  <2>. QED  BY <1>1, <1>4, <2>2 DEF Centroid, v
<1>5. CASE Len(v) > 2 /\ Area(v) = 0
  <2>1. pair[1] \in 1 .. Len(v) /\ pair[2] \in 1 .. Len(v)
    BY <1>1, FarthestTyped
  <2>2. Halfway(v[pair[1]], v[pair[2]]) \in Points
    BY <1>1, <2>1, HalfwayTyped, ElementOfSeq
  <2>. HIDE DEF pair
  <2>3. Len(v) # 1 /\ Len(v) # 2 /\ ~(Len(v) > 2 /\ Area(v) # 0)
    <3>1. \A k \in Nat \ {0} : k > 2 => k # 1 /\ k # 2
      OBVIOUS
    <3>. QED  BY <1>1, <1>5, <3>1, Zenon
  <2>4. Centroid(o) = Halfway(v[pair[1]], v[pair[2]])
    <3>1. Centroid(o) =
            CASE Len(v) = 1 -> v[1]
              [] Len(v) = 2 -> Halfway(v[1], v[2])
              [] Len(v) > 2 /\ Area(v) # 0 ->
                   <<Quotient(Moment(v)[1], 3 * Area(v)), Quotient(Moment(v)[2], 3 * Area(v))>>
              [] OTHER -> Halfway(v[pair[1]], v[pair[2]])
      BY Zenon DEF Centroid, v, pair
    <3>2. ASSUME NEW a, NEW b, NEW c, NEW d, NEW x, NEW y, NEW z, ~x, ~y, ~z
          PROVE  (CASE x -> a [] y -> b [] z -> c [] OTHER -> d) = d
      BY <3>2
    <3>. QED  BY <2>3, <3>1, <3>2, Zenon
  <2>. QED  BY <2>2, <2>4
<1>6. Len(v) = 1 \/ Len(v) = 2 \/ Len(v) > 2
  <2>1. \A k \in Nat \ {0} : k = 1 \/ k = 2 \/ k > 2
    OBVIOUS
  <2>. QED  BY <1>1, <2>1
<1>. QED  BY <1>2, <1>3, <1>4, <1>5, <1>6

LEMMA MakeObstacleTyped ==
  ASSUME NEW kind \in ObstacleKinds, NEW at \in Seq(Points) \ {<<>>}, NEW radius \in Nat,
         kind \in {"point", "circle"} => Len(at) = 1, kind = "line" => Len(at) = 2,
         kind = "point" => radius = 0
  PROVE  MakeObstacle(kind, at, radius) \in ObstacleRecords
  BY DEF MakeObstacle, ObstacleRecords, Points

\* A polygon stays one when its last vertex is dropped.
LEMMA FixPolygonClosureTyped ==
  ASSUME NEW v \in Seq(Points), v # <<>>
  PROVE  FixPolygonClosure(v) \in Seq(Points) \ {<<>>}
<1>1. Front(v) \in Seq(Points) /\ Len(Front(v)) = Len(v) - 1 /\ Len(v) \in Nat
  BY FrontAndLast
<1>2. Len(v) >= 2 => Front(v) # <<>>
  BY <1>1
<1>. QED  BY <1>1, <1>2 DEF FixPolygonClosure

LEMMA ShapeTyped ==
  ASSUME NEW points \in Seq(Points), NEW radius \in Nat
  PROVE  Shape(points, radius) \in Seq(ObstacleRecords)
<1>1. Len(points) \in Nat /\ 0 \in Nat
  OBVIOUS
<1>2. CASE Len(points) = 0
  BY <1>2 DEF Shape
<1>. DEFINE full == points # <<>>
<1>3. Len(points) # 0 => full
  OBVIOUS
<1>. HIDE DEF full
<1>4. ASSUME NEW kind \in ObstacleKinds, NEW at \in Seq(Points) \ {<<>>}, NEW r \in Nat,
             kind \in {"point", "circle"} => Len(at) = 1, kind = "line" => Len(at) = 2,
             kind = "point" => r = 0
      PROVE  <<MakeObstacle(kind, at, r)>> \in Seq(ObstacleRecords)
  BY <1>4, MakeObstacleTyped
<1>5. full => points \in Seq(Points) \ {<<>>} /\ FixPolygonClosure(points) \in Seq(Points) \ {<<>>}
  BY FixPolygonClosureTyped DEF full
<1>6. {"point", "circle", "line", "polygon"} \subseteq ObstacleKinds
  BY DEF ObstacleKinds
<1>7. full => /\ Len(points) = 1 => <<MakeObstacle("circle", points, radius)>> \in Seq(ObstacleRecords)
              /\ Len(points) = 1 => <<MakeObstacle("point", points, 0)>> \in Seq(ObstacleRecords)
              /\ Len(points) = 2 => <<MakeObstacle("line", points, 0)>> \in Seq(ObstacleRecords)
              /\ <<MakeObstacle("polygon", FixPolygonClosure(points), 0)>> \in Seq(ObstacleRecords)
  BY <1>1, <1>4, <1>5, <1>6
<1>8. CASE Len(points) = 1
  <2>1. radius = 0 \/ radius > 0
    OBVIOUS
  <2>. QED  BY <1>3, <1>7, <1>8, <2>1 DEF Shape
<1>9. CASE Len(points) = 2
  BY <1>3, <1>7, <1>9 DEF Shape
<1>10. CASE Len(points) # 0 /\ Len(points) # 1 /\ Len(points) # 2
  BY <1>3, <1>7, <1>10 DEF Shape
<1>. QED  BY <1>2, <1>8, <1>9, <1>10

LEMMA SetLastVelocityTyped ==
  ASSUME NEW known \in Seq(ObstacleRecords), NEW velocity \in Points
  PROVE  SetLastVelocity(known, velocity) \in Seq(ObstacleRecords)
<1>1. CASE known = <<>>
  BY <1>1 DEF SetLastVelocity
<1>2. CASE known # <<>>
  <2>1. Front(known) \in Seq(ObstacleRecords) /\ Last(known) \in ObstacleRecords
    BY <1>2, FrontAndLast
  <2>2. ASSUME NEW o \in ObstacleRecords  PROVE SetCentroidVelocity(o, velocity) \in ObstacleRecords
    BY DEF SetCentroidVelocity, ObstacleRecords
  <2>. QED  BY <1>2, <2>1, <2>2 DEF SetLastVelocity
<1>. QED  BY <1>1, <1>2

LEMMA AddedTyped ==
  ASSUME NEW known \in Seq(ObstacleRecords), NEW message \in Messages, NEW points \in Seq(Points)
  PROVE  Added(known, points, message) \in Seq(ObstacleRecords)
<1>1. message.radius \in Nat /\ message.velocity \in Points
  BY DEF Messages
<1>2. Shape(points, message.radius) \in Seq(ObstacleRecords)
  BY <1>1, ShapeTyped
<1>3. known \o Shape(points, message.radius) \in Seq(ObstacleRecords)
  BY <1>2, ConcatProperties
<1>. QED  BY <1>1, <1>3, SetLastVelocityTyped DEF Added

LEMMA WithConverterTyped ==
  ASSUME NEW known \in Seq(ObstacleRecords), NEW messages \in Seq(Messages)
  PROVE  WithConverter(known, messages) \in Seq(ObstacleRecords)
<1>. DEFINE n == Len(messages)
            S == Seq(ObstacleRecords)
            More(s, k) == Added(s, messages[k].points, messages[k])
            sum[k \in 0 .. n] == IF k = 0 THEN known ELSE More(sum[k - 1], k)
            step == [e \in (1 .. n) \X S |-> More(e[2], e[1])]
<1>1. n \in Nat /\ known \in S
  OBVIOUS
<1>2. ASSUME NEW k \in 1 .. n, NEW s \in S  PROVE More(s, k) \in S
  <2>1. messages[k] \in Messages /\ messages[k].points \in Seq(Points)
    <3>1. messages[k] \in Messages
      BY ElementOfSeq
    <3>. QED  BY <3>1 DEF Messages
  <2>. QED  BY <2>1, AddedTyped
<1>7. WithConverter(known, messages) = sum[n]
  BY DEF WithConverter
<1>. HIDE DEF More, S
<1>22. step \in [(1 .. n) \X S -> S]
  BY <1>2
<1>3. PICK g \in [0 .. n -> S] : Chain(g, n, known, step)
  BY <1>1, <1>22, Recursion
<1>4. ASSUME NEW k \in 0 .. n
      PROVE  g[k] = IF k = 0 THEN known ELSE More(g[k - 1], k)
  <2>1. CASE k = 0
    BY <1>3, <2>1 DEF Chain
  <2>2. CASE k # 0
    <3>1. k \in 1 .. n /\ k - 1 \in 0 .. n
      BY <1>1, <2>2
    <3>2. <<k, g[k - 1]>> \in (1 .. n) \X S
      BY <1>3, <3>1
    <3>. QED  BY <1>3, <2>2, <3>1, <3>2 DEF Chain
  <2>. QED  BY <2>1, <2>2
<1>5. g = [k \in 0 .. n |-> IF k = 0 THEN known ELSE More(g[k - 1], k)]
  BY <1>3, <1>4
<1>6. sum = [k \in 0 .. n |-> IF k = 0 THEN known ELSE More(sum[k - 1], k)]
  BY <1>5
<1>. HIDE DEF sum
<1>8. sum[0] = known
  BY <1>1, <1>6
<1>9. ASSUME NEW k \in 1 .. n, sum[k - 1] \in S  PROVE sum[k] \in S
  <2>1. k \in 0 .. n /\ k # 0
    BY <1>1
  <2>2. sum[k] = More(sum[k - 1], k)
    BY <1>6, <2>1
  <2>. QED  BY <1>2, <1>9, <2>2
<1>10. \A k \in 0 .. n : sum[k] \in S
  BY <1>1, <1>8, <1>9, AllTyped
<1>. QED  BY <1>1, <1>7, <1>10 DEF S

LEMMA WithCustomTyped ==
  ASSUME NEW known \in Seq(ObstacleRecords), NEW messages \in Seq(Messages), NEW offset \in Points
  PROVE  WithCustom(known, messages, offset) \in Seq(ObstacleRecords)
<1>. DEFINE n == Len(messages)
            S == Seq(ObstacleRecords)
            moved(points) == [i \in DOMAIN points |-> Plus(points[i], offset)]
            More(s, k) == IF messages[k].points = <<>> THEN s
                           ELSE Added(s, moved(messages[k].points), messages[k])
            sum[k \in 0 .. n] == IF k = 0 THEN known ELSE More(sum[k - 1], k)
            step == [e \in (1 .. n) \X S |-> More(e[2], e[1])]
<1>1. n \in Nat /\ known \in S
  OBVIOUS
<1>2. ASSUME NEW k \in 1 .. n, NEW s \in S  PROVE More(s, k) \in S
  <2>1. messages[k] \in Messages /\ messages[k].points \in Seq(Points)
    <3>1. messages[k] \in Messages
      BY ElementOfSeq
    <3>. QED  BY <3>1 DEF Messages
  <2>2. \A points \in Seq(Points) : moved(points) \in Seq(Points)
    <3>. SUFFICES ASSUME NEW points \in Seq(Points)  PROVE moved(points) \in Seq(Points)
      OBVIOUS
    <3>1. \A i \in 1 .. Len(points) : Plus(points[i], offset) \in Points
      BY PointOperations, ElementOfSeq
    <3>2. [i \in 1 .. Len(points) |-> Plus(points[i], offset)] \in Seq(Points)
      BY <3>1
    <3>. QED  BY <3>2
  <2>3. Added(s, moved(messages[k].points), messages[k]) \in S
    <3>. HIDE DEF moved
    <3>. QED  BY <2>1, <2>2, AddedTyped
  <2>. QED  BY <2>3
<1>7. WithCustom(known, messages, offset) = sum[n]
  BY DEF WithCustom
<1>. HIDE DEF More, S
<1>22. step \in [(1 .. n) \X S -> S]
  BY <1>2
<1>3. PICK g \in [0 .. n -> S] : Chain(g, n, known, step)
  BY <1>1, <1>22, Recursion
<1>4. ASSUME NEW k \in 0 .. n
      PROVE  g[k] = IF k = 0 THEN known ELSE More(g[k - 1], k)
  <2>1. CASE k = 0
    BY <1>3, <2>1 DEF Chain
  <2>2. CASE k # 0
    <3>1. k \in 1 .. n /\ k - 1 \in 0 .. n
      BY <1>1, <2>2
    <3>2. <<k, g[k - 1]>> \in (1 .. n) \X S
      BY <1>3, <3>1
    <3>. QED  BY <1>3, <2>2, <3>1, <3>2 DEF Chain
  <2>. QED  BY <2>1, <2>2
<1>5. g = [k \in 0 .. n |-> IF k = 0 THEN known ELSE More(g[k - 1], k)]
  BY <1>3, <1>4
<1>6. sum = [k \in 0 .. n |-> IF k = 0 THEN known ELSE More(sum[k - 1], k)]
  BY <1>5
<1>. HIDE DEF sum
<1>8. sum[0] = known
  BY <1>1, <1>6
<1>9. ASSUME NEW k \in 1 .. n, sum[k - 1] \in S  PROVE sum[k] \in S
  <2>1. k \in 0 .. n /\ k # 0
    BY <1>1
  <2>2. sum[k] = More(sum[k - 1], k)
    BY <1>6, <2>1
  <2>. QED  BY <1>2, <1>9, <2>2
<1>10. \A k \in 0 .. n : sum[k] \in S
  BY <1>1, <1>8, <1>9, AllTyped
<1>. QED  BY <1>1, <1>7, <1>10 DEF S

LEMMA FromCostmapTyped ==
  ASSUME NEW costmap, NEW heading, costmap.size \in (Nat \ {0}) \X (Nat \ {0}),
         costmap.origin \in Points
  PROVE  FromCostmap(costmap, heading) \in Seq(ObstacleRecords)
<1>. DEFINE columns == costmap.size[1] - 1
            rows == costmap.size[2] - 1
            n == columns * rows
            S == Seq(ObstacleRecords)
            More(s, k) ==
              LET c == <<(k - 1) \div rows, (k - 1) % rows>> IN
              IF Occupied(costmap, heading, c)
              THEN Append(s, MakeObstacle("point", <<Plus(costmap.origin, c)>>, 0))
              ELSE s
            points[k \in 0 .. n] == IF k = 0 THEN <<>> ELSE More(points[k - 1], k)
            step == [e \in (1 .. n) \X S |-> More(e[2], e[1])]
<1>1. columns \in Nat /\ rows \in Nat /\ n \in Nat /\ <<>> \in S
  <2>1. columns \in Nat /\ rows \in Nat
    OBVIOUS
  <2>2. \A i, j \in Nat : i * j \in Nat
    OBVIOUS
  <2>. HIDE DEF columns, rows
  <2>. QED  BY <2>1, <2>2
<1>2. ASSUME NEW k \in 1 .. n, NEW s \in S  PROVE More(s, k) \in S
  <2>1. rows # 0
    <3>1. \A i \in Nat : i * 0 = 0
      OBVIOUS
    <3>. HIDE DEF columns, rows
    <3>2. rows = 0 => n = 0
      BY <1>1, <3>1
    <3>. QED  BY <1>1, <3>2
  <2>2. (k - 1) \div rows \in Int /\ (k - 1) % rows \in Int
    <3>1. \A i \in Int, j \in Nat \ {0} : i \div j \in Int /\ i % j \in Int
      OBVIOUS
    <3>. HIDE DEF columns, rows
    <3>2. k - 1 \in Int
      BY <1>1
    <3>. QED  BY <1>1, <2>1, <3>1, <3>2
  <2>. DEFINE c == <<(k - 1) \div rows, (k - 1) % rows>>
  <2>3. Plus(costmap.origin, c) \in Points
    <3>1. c \in Points
      BY <2>2 DEF Points
    <3>. HIDE DEF c
    <3>. QED  BY <3>1, PointOperations
  <2>4. MakeObstacle("point", <<Plus(costmap.origin, c)>>, 0) \in ObstacleRecords
    <3>. HIDE DEF c
    <3>1. <<Plus(costmap.origin, c)>> \in Seq(Points) \ {<<>>} /\ "point" \in ObstacleKinds /\ 0 \in Nat
      BY <2>3 DEF ObstacleKinds
    <3>2. Len(<<Plus(costmap.origin, c)>>) = 1 /\ "point" # "line"
      OBVIOUS
    <3>. QED  BY <3>1, <3>2, MakeObstacleTyped
  <2>5. Append(s, MakeObstacle("point", <<Plus(costmap.origin, c)>>, 0)) \in S
    <3>. HIDE DEF c
    <3>. QED  BY <2>4
  <2>. QED  BY <2>5
<1>7. FromCostmap(costmap, heading) = points[n]
  BY DEF FromCostmap
<1>. HIDE DEF More, S, columns, rows, n
<1>22. step \in [(1 .. n) \X S -> S]
  BY <1>2
<1>3. PICK g \in [0 .. n -> S] : Chain(g, n, <<>>, step)
  BY <1>1, <1>22, Recursion
<1>4. ASSUME NEW k \in 0 .. n
      PROVE  g[k] = IF k = 0 THEN <<>> ELSE More(g[k - 1], k)
  <2>1. CASE k = 0
    BY <1>3, <2>1 DEF Chain
  <2>2. CASE k # 0
    <3>1. k \in 1 .. n /\ k - 1 \in 0 .. n
      BY <1>1, <2>2
    <3>2. <<k, g[k - 1]>> \in (1 .. n) \X S
      BY <1>3, <3>1
    <3>. QED  BY <1>3, <2>2, <3>1, <3>2 DEF Chain
  <2>. QED  BY <2>1, <2>2
<1>5. g = [k \in 0 .. n |-> IF k = 0 THEN <<>> ELSE More(g[k - 1], k)]
  BY <1>3, <1>4
<1>6. points = [k \in 0 .. n |-> IF k = 0 THEN <<>> ELSE More(points[k - 1], k)]
  BY <1>5
<1>. HIDE DEF points
<1>8. points[0] = <<>>
  BY <1>1, <1>6
<1>9. ASSUME NEW k \in 1 .. n, points[k - 1] \in S  PROVE points[k] \in S
  <2>1. k \in 0 .. n /\ k # 0
    BY <1>1
  <2>2. points[k] = More(points[k - 1], k)
    BY <1>6, <2>1
  <2>. QED  BY <1>2, <1>9, <2>2
<1>10. \A k \in 0 .. n : points[k] \in S
  BY <1>1, <1>8, <1>9, AllTyped
<1>. QED  BY <1>1, <1>7, <1>10 DEF S

LEMMA KeypointsTyped ==
  ASSUME obstacles \in Seq(ObstacleRecords), scene.distance \in Int
  PROVE  Keypoints \in Seq(Points)
<1>. DEFINE n == Len(obstacles)
            S == Seq(Points)
            More(s, k) ==
              IF InFront(Centroid(obstacles[k])) THEN s \o Beside(obstacles[k]) ELSE s
            beside[k \in 0 .. n] == IF k = 0 THEN <<>> ELSE More(beside[k - 1], k)
            step == [e \in (1 .. n) \X S |-> More(e[2], e[1])]
<1>1. n \in Nat /\ <<>> \in S
  OBVIOUS
<1>2. ASSUME NEW k \in 1 .. n, NEW s \in S  PROVE More(s, k) \in S
  <2>1. obstacles[k] \in ObstacleRecords
    BY ElementOfSeq
  <2>2. Centroid(obstacles[k]) \in Points /\ <<0, scene.distance>> \in Points
    BY <2>1, CentroidTyped DEF Points
  <2>3. Beside(obstacles[k]) \in Seq(Points)
    BY <2>2, PointOperations DEF Beside
  <2>4. s \o Beside(obstacles[k]) \in S
    BY <2>3, ConcatProperties
  <2>. QED  BY <2>4
<1>7. Keypoints = beside[n]
  BY DEF Keypoints
<1>. HIDE DEF More, S
<1>22. step \in [(1 .. n) \X S -> S]
  BY <1>2
<1>3. PICK g \in [0 .. n -> S] : Chain(g, n, <<>>, step)
  BY <1>1, <1>22, Recursion
<1>4. ASSUME NEW k \in 0 .. n
      PROVE  g[k] = IF k = 0 THEN <<>> ELSE More(g[k - 1], k)
  <2>1. CASE k = 0
    BY <1>3, <2>1 DEF Chain
  <2>2. CASE k # 0
    <3>1. k \in 1 .. n /\ k - 1 \in 0 .. n
      BY <1>1, <2>2
    <3>2. <<k, g[k - 1]>> \in (1 .. n) \X S
      BY <1>3, <3>1
    <3>. QED  BY <1>3, <2>2, <3>1, <3>2 DEF Chain
  <2>. QED  BY <2>1, <2>2
<1>5. g = [k \in 0 .. n |-> IF k = 0 THEN <<>> ELSE More(g[k - 1], k)]
  BY <1>3, <1>4
<1>6. beside = [k \in 0 .. n |-> IF k = 0 THEN <<>> ELSE More(beside[k - 1], k)]
  BY <1>5
<1>. HIDE DEF beside
<1>8. beside[0] = <<>>
  BY <1>1, <1>6
<1>9. ASSUME NEW k \in 1 .. n, beside[k - 1] \in S  PROVE beside[k] \in S
  <2>1. k \in 0 .. n /\ k # 0
    BY <1>1
  <2>2. beside[k] = More(beside[k - 1], k)
    BY <1>6, <2>1
  <2>. QED  BY <1>2, <1>9, <2>2
<1>10. \A k \in 0 .. n : beside[k] \in S
  BY <1>1, <1>8, <1>9, AllTyped
<1>. QED  BY <1>1, <1>7, <1>10 DEF S

-----------------------------------------------------------------------------
(* The inductive invariant.                                                *)

Searching == pc \in {"enter", "goal", "recurse"}

\* There is a graph from the first step of the search on, with edges that lead
\* forward and none that leaves the goal.
GraphOK ==
  /\ vertices # <<>> => Graph(GoalVertex, edges)
  /\ \A e \in edges : vertices[e[1]][1] < vertices[e[2]][1]
  /\ pc \in {"update", "renew", "create"} => vertices = <<>>
  /\ Searching => vertices # <<>>
  /\ vertices = <<>> => explored = <<>>
  /\ pc = "update" => container = <<>>

\* The calls on the stack; the first of them began, and one that looks for the
\* goal did, when there was room for a class.
StackOK ==
  Searching =>
    /\ Stack(GoalVertex, edges, visited, frames)
    /\ Len(frames) = IF pc = "enter" THEN Len(visited) - 1 ELSE Len(visited)
    /\ pc = "goal" => frames[Len(frames)] = 1
    /\ pc = "goal" \/ frames = <<>> => ~Full

\* Every candidate is a path, the search has been past it, and it came once.
ExploredOK ==
  /\ \A k \in 1 .. Len(explored) :
       /\ Path(explored[k], GoalVertex, edges)
       /\ Searching => Passed(explored[k], GoalVertex, visited, frames, pc)
  /\ \A j, k \in 1 .. Len(explored) : explored[j] = explored[k] => j = k

Found(p) == Full \/ ClassOf(Positions(p)) \in ToSet(container)

\* The class of every path the search has been past is kept, unless there is
\* no room left, and at the end that of every path.
ClassesOK ==
  /\ Len(container) <= MaxClasses
  /\ Searching =>
       \A p : Path(p, GoalVertex, edges) /\ Passed(p, GoalVertex, visited, frames, pc) => Found(p)
  /\ Searched => \A p : Path(p, GoalVertex, edges) => Found(p)

IInv == TypeOK /\ GraphOK /\ StackOK /\ ExploredOK /\ ClassesOK

\* Where the search stands, for a step of it.
LEMMA SearchStands ==
  ASSUME IInv, Searching
  PROVE  /\ Graph(GoalVertex, edges) /\ GoalVertex \in Nat /\ GoalVertex > 1 /\ vertices # <<>>
         /\ Stack(GoalVertex, edges, visited, frames)
         /\ visited \in Seq(1 .. GoalVertex) /\ visited # <<>>
         /\ frames \in Seq(1 .. GoalVertex)
         /\ explored \in Seq(Seq(1 .. GoalVertex))
         /\ container \in Seq(Classes) /\ Len(container) \in Nat
<1>1. Graph(GoalVertex, edges) /\ vertices # <<>>
  BY DEF IInv, GraphOK
<1>2. Stack(GoalVertex, edges, visited, frames)
  BY DEF IInv, StackOK
<1>3. /\ explored \in Seq(Seq(1 .. GoalVertex)) /\ container \in Seq(Classes)
  BY DEF IInv, TypeOK, GoalVertex
<1>4. GoalVertex \in Nat /\ GoalVertex > 1
  BY <1>1 DEF Graph
<1>5. /\ visited \in Seq(1 .. GoalVertex) /\ visited # <<>>
      /\ frames \in Seq(1 .. GoalVertex)
  BY <1>2 DEF Stack
<1>. QED  BY <1>1, <1>2, <1>3, <1>4, <1>5

LEMMA ClassOfTyped ==
  ASSUME NEW path
  PROVE  ClassOf(path) \in Classes
<1>1. \A o : SideOf(path, o) \in SUBSET {"left", "right"}
  BY DEF SideOf
<1>. HIDE DEF SideOf
<1>. QED  BY <1>1 DEF ClassOf, Classes

\* What a path is classified by stays the same while the obstacles and the
\* graph do.
LEMMA ClassStays ==
  ASSUME obstacles' = obstacles, vertices' = vertices, NEW p
  PROVE  ClassOf(Positions(p))' = ClassOf(Positions(p))
  BY DEF ClassOf, Positions, SideOf

LEMMA EnterKeeps ==
  ASSUME IInv, Enter
  PROVE  IInv'
<1>1. /\ pc = "enter" /\ Searching /\ Len(frames) = Len(visited) - 1
      /\ UNCHANGED <<scene, custom, obstacles, vertices, edges, container, explored>>
      /\ GoalVertex' = GoalVertex
  BY DEF IInv, StackOK, Enter, Searching, GoalVertex
<1>2. /\ Graph(GoalVertex, edges) /\ GoalVertex \in Nat /\ GoalVertex > 1 /\ vertices # <<>>
      /\ Stack(GoalVertex, edges, visited, frames)
      /\ visited \in Seq(1 .. GoalVertex) /\ visited # <<>>
      /\ frames \in Seq(1 .. GoalVertex)
      /\ explored \in Seq(Seq(1 .. GoalVertex))
  BY <1>1, SearchStands
<1>3. \A p : Passed(p, GoalVertex, visited, frames, pc)
               <=> Passed(p, GoalVertex, visited, frames, "recurse")
  BY <1>1 DEF Passed
<1>4. /\ pc' \in {"goal", "recurse"} /\ Searching' /\ pc' # "done"
  BY <1>1 DEF Enter, Searching
<1>5. GraphOK'
  BY <1>1, <1>2, <1>4 DEF IInv, GraphOK
<1>6. Full' = Full
  BY <1>1 DEF Full
<1>7. CASE Full
  <2>1. /\ pc' = "recurse" /\ visited' = Front(visited) /\ frames' = frames /\ frames # <<>>
    BY <1>1, <1>7 DEF Enter, IInv, StackOK
  <2>2. /\ Stack(GoalVertex, edges, visited', frames) /\ Len(visited') = Len(frames)
        /\ \A p : Passed(p, GoalVertex, visited, frames, "recurse")
                    => Passed(p, GoalVertex, visited', frames, "recurse")
    BY <1>1, <1>2, <2>1, CallSkipped
  <2>3. visited' \in Seq(1 .. GoalVertex)
    BY <1>2, <2>1, FrontAndLast
  <2>4. TypeOK'
    BY <1>1, <1>2, <2>1, <2>3 DEF IInv, TypeOK, GoalVertex, Classes
  <2>5. StackOK'
    BY <1>1, <2>1, <2>2 DEF StackOK
  <2>6. ExploredOK'
    BY <1>1, <1>3, <2>1, <2>2 DEF IInv, ExploredOK
  <2>7. ClassesOK'
    BY <1>1, <1>4, <1>6, <1>7 DEF IInv, ClassesOK, Found, Searched
  <2>. QED  BY <1>5, <2>4, <2>5, <2>6, <2>7 DEF IInv
<1>8. CASE ~Full
  <2>1. /\ pc' = "goal" /\ frames' = Append(frames, 1) /\ visited' = visited
    BY <1>1, <1>8 DEF Enter
  <2>2. /\ Stack(GoalVertex, edges, visited, frames')
        /\ \A p : Path(p, GoalVertex, edges) =>
             (Passed(p, GoalVertex, visited, frames', "goal")
                <=> Passed(p, GoalVertex, visited, frames, "recurse"))
    BY <1>1, <1>2, <2>1, CallBegins
  <2>3. /\ frames' \in Seq(1 .. GoalVertex) /\ Len(frames') = Len(visited)
        /\ frames'[Len(frames')] = 1
    <3>1. 1 \in 1 .. GoalVertex
      BY <1>2
    <3>2. /\ frames' \in Seq(1 .. GoalVertex) /\ Len(frames') = Len(frames) + 1
          /\ frames'[Len(frames) + 1] = 1
      BY <1>2, <2>1, <3>1, Appended
    <3>3. Len(frames) + 1 = Len(visited)
      BY <1>1, <1>2
    <3>. QED  BY <3>2, <3>3
  <2>4. TypeOK'
    BY <1>1, <1>2, <2>1, <2>3 DEF IInv, TypeOK, GoalVertex, Classes
  <2>5. StackOK'
    BY <1>1, <1>6, <1>8, <2>1, <2>2, <2>3 DEF StackOK
  <2>6. ExploredOK'
    BY <1>1, <1>3, <2>1, <2>2 DEF IInv, ExploredOK
  <2>7. ClassesOK'
    <3>1. \A p : Found(p)' = Found(p)
      BY <1>1, <1>6, ClassStays DEF Found
    <3>. QED  BY <1>1, <1>3, <1>4, <2>1, <2>2, <3>1 DEF IInv, ClassesOK, Searched
  <2>. QED  BY <1>5, <2>4, <2>5, <2>6, <2>7 DEF IInv
<1>. QED  BY <1>7, <1>8

\* What is in a sequence stays in it when it grows.
LEMMA AppendedSet ==
  ASSUME NEW S, NEW s \in Seq(S), NEW e \in S
  PROVE  e \in ToSet(Append(s, e)) /\ ToSet(s) \subseteq ToSet(Append(s, e))
<1>1. /\ Append(s, e) \in Seq(S) /\ Len(Append(s, e)) = Len(s) + 1 /\ Len(s) \in Nat
      /\ \A i \in 1 .. Len(s) : Append(s, e)[i] = s[i]
      /\ Append(s, e)[Len(s) + 1] = e
  BY Appended
<1>. DEFINE t == Append(s, e)
<1>2. t \in Seq(S) /\ DOMAIN t = 1 .. Len(s) + 1 /\ DOMAIN s = 1 .. Len(s)
  BY <1>1
<1>. HIDE DEF t
<1>3. Len(s) + 1 \in DOMAIN t /\ \A i \in DOMAIN s : i \in DOMAIN t
  BY <1>1, <1>2
<1>4. t[Len(s) + 1] = e /\ \A i \in DOMAIN s : t[i] = s[i]
  BY <1>1, <1>2 DEF t
<1>5. e \in ToSet(t) /\ ToSet(s) \subseteq ToSet(t)
  BY <1>3, <1>4 DEF ToSet
<1>. QED  BY <1>5 DEF t

LEMMA LookForGoalKeeps ==
  ASSUME IInv, LookForGoal
  PROVE  IInv'
<1>. DEFINE G == GoalVertex
            q == Append(visited, G)
            class == ClassOf(Positions(q))
<1>1. /\ pc = "goal" /\ pc' = "recurse" /\ Searching /\ Len(frames) = Len(visited)
      /\ frames[Len(frames)] = 1 /\ ~Full
      /\ UNCHANGED <<scene, custom, obstacles, vertices, edges, visited, frames>>
      /\ GoalVertex' = GoalVertex
  BY DEF IInv, StackOK, LookForGoal, Searching, GoalVertex
<1>2. /\ Graph(G, edges) /\ G \in Nat /\ G > 1 /\ vertices # <<>>
      /\ Stack(G, edges, visited, frames)
      /\ visited \in Seq(1 .. G) /\ visited # <<>>
      /\ frames \in Seq(1 .. G)
      /\ explored \in Seq(Seq(1 .. G))
      /\ container \in Seq(Classes) /\ Len(container) \in Nat
  BY <1>1, SearchStands
<1>3. /\ <<Last(visited), G>> \in edges =>
           /\ Path(q, G, edges)
           /\ ~Passed(q, G, visited, frames, "goal")
           /\ Passed(q, G, visited, frames, "recurse")
      /\ \A p : Passed(p, G, visited, frames, "goal") => Passed(p, G, visited, frames, "recurse")
      /\ \A p : Path(p, G, edges) /\ Passed(p, G, visited, frames, "recurse") =>
           \/ Passed(p, G, visited, frames, "goal")
           \/ <<Last(visited), G>> \in edges /\ p = q
  BY <1>1, <1>2, GoalSought
<1>4. frames # <<>>
  BY <1>1, <1>2
<1>5. StackOK'
  BY <1>1, <1>2, <1>4 DEF StackOK
<1>6. /\ Searching' /\ ~Searched'
  BY <1>1 DEF Searching, Searched
<1>7. \A p : Found(p) = (ClassOf(Positions(p)) \in ToSet(container))
  BY <1>1 DEF Found
<1>8. GraphOK'
  BY <1>1, <1>2 DEF IInv, GraphOK, Searching
<1>. HIDE DEF G, q
<1>9. CASE <<Last(visited), G>> \in edges
  <2>1. /\ explored' = Append(explored, q)
        /\ container' = IF class \in ToSet(container) THEN container ELSE Append(container, class)
    BY <1>9 DEF LookForGoal, Back, G, q
  <2>2. class \in Classes
    BY ClassOfTyped
  <2>3. q \in Seq(1 .. G)
    <3>1. G \in 1 .. G
      BY <1>2
    <3>. QED  BY <1>2, <3>1, Appended DEF q
  <2>4. /\ explored' \in Seq(Seq(1 .. G)) /\ Len(explored') = Len(explored) + 1
        /\ \A i \in 1 .. Len(explored) : explored'[i] = explored[i]
        /\ explored'[Len(explored) + 1] = q
        /\ Len(explored) \in Nat
    BY <1>2, <2>1, <2>3, Appended
  <2>. HIDE DEF class
  <2>5. /\ container' \in Seq(Classes) /\ Len(container') <= Len(container) + 1
        /\ class \in ToSet(container') /\ ToSet(container) \subseteq ToSet(container')
    <3>1. CASE class \in ToSet(container)
      BY <1>2, <2>1, <3>1
    <3>2. CASE class \notin ToSet(container)
      <4>1. container' = Append(container, class)
        BY <2>1, <3>2
      <4>2. /\ container' \in Seq(Classes) /\ Len(container') = Len(container) + 1
        BY <1>2, <2>2, <4>1, Appended
      <4>3. class \in ToSet(container') /\ ToSet(container) \subseteq ToSet(container')
        BY <1>2, <2>2, <4>1, AppendedSet
      <4>. QED  BY <1>2, <4>2, <4>3
    <3>. QED  BY <3>1, <3>2
  <2>6. TypeOK'
    BY <1>1, <1>2, <2>4, <2>5 DEF IInv, TypeOK, GoalVertex, Classes, G
  <2>7. \A i \in 1 .. Len(explored) + 1 : i \in 1 .. Len(explored) \/ i = Len(explored) + 1
    BY <2>4
  <2>8. \A i \in 1 .. Len(explored) :
          Path(explored[i], G, edges) /\ Passed(explored[i], G, visited, frames, "goal")
    BY <1>1 DEF IInv, ExploredOK, G
  <2>9. ExploredOK'
    <3>1. \A i \in 1 .. Len(explored') :
            Path(explored'[i], G, edges) /\ Passed(explored'[i], G, visited, frames, "recurse")
      BY <1>3, <1>9, <2>4, <2>7, <2>8
    <3>2. \A i \in 1 .. Len(explored) : explored[i] # q
      BY <1>3, <1>9, <2>8
    <3>3. \A i, j \in 1 .. Len(explored) : explored[i] = explored[j] => i = j
      BY DEF IInv, ExploredOK
    <3>4. \A i, j \in 1 .. Len(explored') : explored'[i] = explored'[j] => i = j
      BY <2>4, <2>7, <3>2, <3>3
    <3>. QED  BY <1>1, <3>1, <3>4 DEF ExploredOK, G
  <2>10. ClassesOK'
    <3>1. Len(container') <= MaxClasses
      BY <1>1, <1>2, <2>5, SearchAssumption DEF Full
    <3>2. ASSUME NEW p, Path(p, G, edges), Passed(p, G, visited, frames, "recurse")
          PROVE  ClassOf(Positions(p)) \in ToSet(container')
      <4>1. CASE p = q
        BY <2>5, <4>1 DEF class
      <4>2. CASE p # q
        <5>1. Passed(p, G, visited, frames, "goal")
          BY <1>3, <3>2, <4>2
        <5>2. Found(p)
          BY <1>1, <3>2, <5>1 DEF IInv, ClassesOK, G
        <5>. QED  BY <1>7, <2>5, <5>2
      <4>. QED  BY <4>1, <4>2
    <3>3. \A p : Path(p, G, edges) /\ Passed(p, G, visited, frames, "recurse") => Found(p)'
      BY <1>1, <3>2, ClassStays DEF Found
    <3>. QED  BY <1>1, <1>6, <3>1, <3>3 DEF ClassesOK, G
  <2>. QED  BY <1>5, <1>8, <2>6, <2>9, <2>10 DEF IInv
<1>10. CASE <<Last(visited), G>> \notin edges
  <2>1. explored' = explored /\ container' = container
    BY <1>10 DEF LookForGoal, Back, G
  <2>2. TypeOK'
    BY <1>1, <1>2, <2>1 DEF IInv, TypeOK, GoalVertex, Classes, G
  <2>3. ExploredOK'
    BY <1>1, <1>3, <2>1 DEF IInv, ExploredOK, G
  <2>4. ClassesOK'
    <3>1. \A p : Found(p)' = Found(p)
      BY <1>1, <2>1, ClassStays DEF Found, Full
    <3>. QED  BY <1>1, <1>3, <1>6, <1>10, <2>1, <3>1 DEF IInv, ClassesOK, G
  <2>. QED  BY <1>5, <1>8, <2>2, <2>3, <2>4 DEF IInv
<1>. QED  BY <1>9, <1>10

LEMMA RecurseKeeps ==
  ASSUME IInv, Recurse
  PROVE  IInv'
<1>. DEFINE G == GoalVertex
<1>1. /\ pc = "recurse" /\ Searching /\ Len(frames) = Len(visited)
      /\ UNCHANGED <<scene, custom, obstacles, vertices, edges, container, explored>>
      /\ GoalVertex' = GoalVertex
  BY DEF IInv, StackOK, Recurse, Searching, GoalVertex
<1>2. /\ Graph(G, edges) /\ G \in Nat /\ G > 1 /\ vertices # <<>>
      /\ Stack(G, edges, visited, frames)
      /\ visited \in Seq(1 .. G) /\ visited # <<>>
      /\ frames \in Seq(1 .. G)
      /\ explored \in Seq(Seq(1 .. G))
      /\ container \in Seq(Classes) /\ Len(container) \in Nat
  BY <1>1, SearchStands
<1>3. frames # <<>> /\ Len(visited) \in Nat \ {0}
  BY <1>1, <1>2
<1>4. /\ Last(frames) = frames[Len(frames)] /\ Last(visited) = visited[Len(visited)]
      /\ Last(frames) \in 1 .. G
  BY <1>2, <1>3, FrontAndLast
<1>5. Adjacent = Left(G, edges, visited, frames)
  <2>1. \A w : w \in ToSet(visited) <=> \E i \in 1 .. Len(visited) : visited[i] = w
    BY <1>2 DEF ToSet
  <2>2. \A w : w \in Last(frames) .. G - 1 <=> w \in 1 .. G - 1 /\ Last(frames) <= w
    BY <1>2, <1>4
  <2>. HIDE DEF G
  <2>3. \A w : w \in Adjacent <=> /\ w \in Last(frames) .. G - 1 /\ <<Last(visited), w>> \in edges
                                  /\ w \notin ToSet(visited)
    BY DEF Adjacent, Back, G
  <2>4. \A w : w \in Adjacent <=> w \in Left(G, edges, visited, frames)
    BY <1>4, <2>1, <2>2, <2>3 DEF Left
  <2>. QED  BY <2>4
<1>6. \A p : Found(p)' = Found(p)
  BY <1>1, ClassStays DEF Found, Full
<1>7. TypeOK /\ GraphOK /\ StackOK /\ ExploredOK /\ ClassesOK
  BY DEF IInv
<1>8. GraphOK'
  BY <1>1, <1>2, <1>7 DEF GraphOK, Recurse
<1>9. CASE Adjacent # {}
  <2>. DEFINE v == CHOOSE u \in Adjacent : \A w \in Adjacent : u <= w
  <2>1. Adjacent \in SUBSET Nat
    <3>1. \A w \in 1 .. G - 1 : w \in Nat
      BY <1>2
    <3>2. \A w \in Adjacent : w \in 1 .. G - 1
      BY <1>5 DEF Left
    <3>. QED  BY <3>1, <3>2
  <2>2. v \in Adjacent /\ \A w \in Adjacent : v <= w
    BY <1>9, <2>1, LeastNatural
  <2>3. /\ frames' = [frames EXCEPT ![Len(frames)] = v + 1]
        /\ visited' = Append(visited, v) /\ pc' = "enter"
    BY <1>9 DEF Recurse
  <2>. HIDE DEF v
  <2>4. v \in Left(G, edges, visited, frames) /\ \A w \in Left(G, edges, visited, frames) : v <= w
    BY <1>5, <2>2
  <2>. HIDE DEF G
  <2>6. /\ Stack(G, edges, visited', frames') /\ Len(frames') = Len(visited') - 1 /\ frames' # <<>>
        /\ \A p : Path(p, G, edges) =>
             (Passed(p, G, visited', frames', "enter") <=> Passed(p, G, visited, frames, "recurse"))
    <3>. DEFINE vis2 == Append(visited, v)
                fr2 == [frames EXCEPT ![Len(frames)] = v + 1]
    <3>1. visited' = vis2 /\ frames' = fr2 /\ vis2 = Append(visited, v)
          /\ fr2 = [frames EXCEPT ![Len(frames)] = v + 1]
      BY <2>3
    <3>. HIDE DEF vis2, fr2
    <3>2. /\ Stack(G, edges, vis2, fr2)
          /\ \A p : Path(p, G, edges) =>
               (Passed(p, G, vis2, fr2, "enter") <=> Passed(p, G, visited, frames, "recurse"))
      <4>1. Graph(G, edges) /\ Stack(G, edges, visited, frames) /\ Len(frames) = Len(visited)
        BY <1>1, <1>2
      <4>. QED  BY <2>4, <3>1, <4>1, VertexEntered
    <3>3. v \in 1 .. G /\ v + 1 \in 1 .. G
      BY <1>2, <2>4 DEF Left
    <3>4. Len(vis2) = Len(visited) + 1
      BY <1>2, <3>1, <3>3, Appended
    <3>5. Len(fr2) = Len(frames)
      BY <1>2, <1>3, <3>1, <3>3, LastReplaced
    <3>6. Len(fr2) = Len(vis2) - 1 /\ fr2 # <<>>
      BY <1>1, <1>3, <3>4, <3>5
    <3>. QED  BY <3>1, <3>2, <3>6
  <2>7. visited' \in Seq(1 .. G) /\ frames' \in Seq(1 .. G)
    BY <2>6 DEF Stack
  <2>8. TypeOK'
    BY <1>1, <1>2, <1>7, <2>3, <2>7 DEF TypeOK, GoalVertex, Classes, G
  <2>9. StackOK'
    BY <1>1, <2>3, <2>6 DEF StackOK, G
  <2>10. ExploredOK'
    BY <1>1, <1>7, <2>3, <2>6 DEF ExploredOK, G
  <2>11. ClassesOK'
    <3>1. Searching' /\ ~Searched'
      BY <2>3 DEF Searching, Searched
    <3>. QED  BY <1>1, <1>6, <1>7, <2>3, <2>6, <3>1 DEF ClassesOK, G
  <2>. QED  BY <1>8, <2>8, <2>9, <2>10, <2>11 DEF IInv
<1>10. CASE Adjacent = {}
  <2>1. /\ frames' = Front(frames)
        /\ IF Len(frames) = 1 THEN pc' = "done" /\ visited' = visited
           ELSE visited' = Front(visited) /\ pc' = pc
    BY <1>10 DEF Recurse
  <2>2. Left(G, edges, visited, frames) = {}
    BY <1>5, <1>10
  <2>3. frames' \in Seq(1 .. G) /\ visited' \in Seq(1 .. G)
    BY <1>2, <1>3, <2>1, FrontAndLast
  <2>4. TypeOK'
    BY <1>1, <1>2, <1>7, <2>1, <2>3 DEF TypeOK, GoalVertex, Classes
  <2>. HIDE DEF G
  <2>5. CASE Len(frames) = 1
    <3>1. pc' = "done" /\ ~Searching' /\ visited' = visited
      BY <2>1, <2>5 DEF Searching
    <3>2. \A p : Path(p, G, edges) => Passed(p, G, visited, frames, "recurse")
      BY <1>1, <1>2, <2>2, <2>5, SearchEnds
    <3>3. StackOK' /\ ExploredOK'
      BY <1>1, <1>7, <3>1 DEF StackOK, ExploredOK
    <3>4. ClassesOK'
      BY <1>1, <1>6, <1>7, <3>1, <3>2 DEF ClassesOK, G
    <3>. QED  BY <1>8, <2>4, <3>3, <3>4 DEF IInv
  <2>6. CASE Len(frames) # 1
    <3>1. pc' = "recurse" /\ Searching' /\ visited' = Front(visited) /\ ~Searched'
      BY <1>1, <2>1, <2>6 DEF Searching, Searched
    <3>2. /\ Stack(G, edges, visited', frames') /\ Len(frames') = Len(visited')
          /\ \A p : Path(p, G, edges) =>
               (Passed(p, G, visited', frames', "recurse")
                  <=> Passed(p, G, visited, frames, "recurse"))
      <4>1. Graph(G, edges) /\ Stack(G, edges, visited, frames) /\ Len(frames) = Len(visited)
        BY <1>1, <1>2
      <4>2. /\ Stack(G, edges, Front(visited), Front(frames))
            /\ \A p : Path(p, G, edges) =>
                 (Passed(p, G, Front(visited), Front(frames), "recurse")
                    <=> Passed(p, G, visited, frames, "recurse"))
        BY <2>2, <2>6, <4>1, CallReturns
      <4>3. Len(Front(frames)) = Len(frames) - 1 /\ Len(Front(visited)) = Len(visited) - 1
        BY <1>2, <1>3, FrontAndLast
      <4>4. Len(frames') = Len(visited')
        BY <1>1, <2>1, <3>1, <4>3
      <4>. QED  BY <2>1, <3>1, <4>2, <4>4
    <3>3. frames' # <<>>
      BY <3>2 DEF Stack
    <3>4. StackOK'
      BY <1>1, <3>1, <3>2, <3>3 DEF StackOK, G
    <3>5. ExploredOK'
      BY <1>1, <1>7, <3>1, <3>2 DEF ExploredOK, G
    <3>6. ClassesOK'
      BY <1>1, <1>6, <1>7, <3>1, <3>2 DEF ClassesOK, G
    <3>. QED  BY <1>8, <2>4, <3>4, <3>5, <3>6 DEF IInv
  <2>. QED  BY <2>5, <2>6
<1>. QED  BY <1>9, <1>10

\* An edge leads forward, and none leaves the last vertex.
LEMMA EdgesLeadForward ==
  ASSUME NEW vs \in Seq(Points), NEW i \in 1 .. Len(vs), NEW j \in 1 .. Len(vs),
         Connected(vs, i, j)
  PROVE  i # Len(vs) /\ vs[i][1] < vs[j][1]
<1>1. Forward(vs, i, j)
  BY DEF Connected, KeypointEdge, RoadmapEdge
<1>2. i < Len(vs) /\ ~(Dot(Minus(vs[j], vs[i]), Ahead) <= 0)
  BY <1>1 DEF Forward, AtMostThreshold
<1>3. vs[i][1] \in Int /\ vs[i][2] \in Int /\ vs[j][1] \in Int /\ vs[j][2] \in Int
  <2>1. vs[i] \in Points /\ vs[j] \in Points
    BY ElementOfSeq
  <2>. QED  BY <2>1 DEF Points
<1>4. PICK a \in Int, b \in Int, c \in Int, d \in Int :
        a = vs[i][1] /\ b = vs[i][2] /\ c = vs[j][1] /\ d = vs[j][2]
  BY <1>3
<1>5. Dot(Minus(vs[j], vs[i]), Ahead) = (c - a) * 1 + (d - b) * 0
  BY <1>4 DEF Dot, Minus, Ahead
<1>6. (c - a) * 1 + (d - b) * 0 = c - a
  OBVIOUS
<1>7. a < c
  BY <1>2, <1>5, <1>6
<1>. QED  BY <1>2, <1>4, <1>7

LEMMA InitGood ==
  Init => IInv
<1>. SUFFICES ASSUME Init  PROVE IInv
  OBVIOUS
<1>1. /\ scene \in Scenes /\ custom = scene.custom /\ obstacles = <<>> /\ vertices = <<>> /\ edges = {}
      /\ visited = <<>> /\ frames = <<>> /\ explored = <<>> /\ container = <<>> /\ pc = "update"
  BY DEF Init
<1>2. custom \in Seq(Messages)
  BY <1>1, SearchAssumption
<1>3. TypeOK
  BY <1>1, <1>2 DEF TypeOK
<1>4. GraphOK /\ StackOK /\ ~Searching /\ ~Searched
  BY <1>1 DEF GraphOK, StackOK, Searching, Searched
<1>5. ExploredOK
  BY <1>1 DEF ExploredOK
<1>6. ClassesOK
  <2>1. Len(container) = 0 /\ 0 <= MaxClasses
    BY <1>1, SearchAssumption
  <2>. QED  BY <1>4, <2>1 DEF ClassesOK
<1>. QED  BY <1>3, <1>4, <1>5, <1>6 DEF IInv

LEMMA CustomObstacleCBKeeps ==
  ASSUME IInv, NEW messages \in scene.arriving, CustomObstacleCB(messages)
  PROVE  IInv'
<1>1. /\ UNCHANGED <<scene, obstacles, vertices, edges, visited, frames, container, explored>>
      /\ custom' = messages /\ pc # "done" /\ GoalVertex' = GoalVertex
  BY DEF CustomObstacleCB, GoalVertex
<1>2. pc' = pc
  BY DEF CustomObstacleCB
<1>3. scene \in Scenes
  BY DEF IInv, TypeOK
<1>4. custom' \in Seq(Messages)
  BY <1>1, <1>3, SearchAssumption
<1>5. TypeOK'
  BY <1>1, <1>2, <1>4 DEF IInv, TypeOK, Classes
<1>6. Full' = Full /\ Searching' = Searching /\ Searched' = Searched
  BY <1>1, <1>2 DEF Full, Searching, Searched
<1>7. GraphOK' /\ StackOK' /\ ExploredOK'
  BY <1>1, <1>2, <1>6 DEF IInv, GraphOK, StackOK, ExploredOK
<1>8. \A p : Found(p)' = Found(p)
  BY <1>1, <1>6, ClassStays DEF Found
<1>9. ClassesOK'
  BY <1>1, <1>2, <1>6, <1>8 DEF IInv, ClassesOK
<1>. QED  BY <1>5, <1>7, <1>9 DEF IInv

\* The obstacles of a control cycle.
LEMMA UpdateObstacleContainerKeeps ==
  ASSUME IInv, UpdateObstacleContainer
  PROVE  IInv'
<1>1. /\ UNCHANGED <<scene, custom, vertices, edges, visited, frames, container, explored>>
      /\ pc = "update" /\ pc' = "renew" /\ GoalVertex' = GoalVertex
      /\ vertices = <<>> /\ explored = <<>> /\ container = <<>>
  BY DEF UpdateObstacleContainer, GoalVertex, IInv, GraphOK
<1>2. scene \in Scenes /\ custom \in Seq(Messages)
  BY DEF IInv, TypeOK
<1>3. obstacles' \in Seq(ObstacleRecords)
  <2>. DEFINE known == IF scene.converter THEN WithConverter(<<>>, scene.converted)
                       ELSE FromCostmap(scene.costmap, scene.heading)
  <2>1. PICK offset \in {scene.offset, <<0, 0>>} : obstacles' = WithCustom(known, custom, offset)
    BY DEF UpdateObstacleContainer
  <2>2. offset \in Points
    BY <1>2, SearchAssumption DEF Points
  <2>3. WithConverter(<<>>, scene.converted) \in Seq(ObstacleRecords)
    <3>1. <<>> \in Seq(ObstacleRecords) /\ scene.converted \in Seq(Messages)
      BY <1>2, SearchAssumption
    <3>. QED  BY <3>1, WithConverterTyped
  <2>4. FromCostmap(scene.costmap, scene.heading) \in Seq(ObstacleRecords)
    BY <1>2, SearchAssumption, FromCostmapTyped
  <2>5. known \in Seq(ObstacleRecords)
    BY <2>3, <2>4
  <2>. HIDE DEF known
  <2>. QED  BY <1>2, <2>1, <2>2, <2>5, WithCustomTyped
<1>4. TypeOK'
  BY <1>1, <1>3 DEF IInv, TypeOK
<1>5. ~Searching' /\ ~Searched'
  BY <1>1 DEF Searching, Searched
<1>6. GraphOK' /\ StackOK' /\ ExploredOK'
  BY <1>1, <1>5 DEF IInv, GraphOK, StackOK, ExploredOK
<1>7. ClassesOK'
  BY <1>1, <1>5 DEF IInv, ClassesOK
<1>. QED  BY <1>4, <1>6, <1>7 DEF IInv

LEMMA RenewKeeps ==
  ASSUME IInv, Renew
  PROVE  IInv'
<1>1. /\ UNCHANGED <<scene, custom, obstacles, vertices, edges, visited, frames, explored>>
      /\ pc = "renew" /\ pc' = "create" /\ GoalVertex' = GoalVertex
      /\ vertices = <<>> /\ explored = <<>>
  BY DEF Renew, GoalVertex, IInv, GraphOK
<1>2. container' \in Seq(Classes) /\ Len(container') <= MaxClasses
  <2>1. ClassOf(<<Start, Goal>>) \in Classes
    BY ClassOfTyped
  <2>2. \A c \in Classes : <<c>> \in Seq(Classes) /\ Len(<<c>>) = 1
    OBVIOUS
  <2>3. container' = <<>> \/ container' = <<ClassOf(<<Start, Goal>>)>>
    BY DEF Renew
  <2>4. Len(container') = 0 \/ Len(container') = 1
    <3>1. Len(<<>>) = 0 /\ Len(<<ClassOf(<<Start, Goal>>)>>) = 1
      OBVIOUS
    <3>2. CASE container' = <<>>
      BY <3>1, <3>2
    <3>3. CASE container' = <<ClassOf(<<Start, Goal>>)>>
      BY <3>1, <3>3
    <3>. QED  BY <2>3, <3>2, <3>3
  <2>5. container' \in Seq(Classes)
    <3>1. <<ClassOf(<<Start, Goal>>)>> \in Seq(Classes) /\ <<>> \in Seq(Classes)
      BY <2>1, <2>2
    <3>. QED  BY <2>3, <3>1
  <2>. QED  BY <2>4, <2>5, SearchAssumption
<1>3. TypeOK'
  BY <1>1, <1>2 DEF IInv, TypeOK, Classes
<1>4. ~Searching' /\ ~Searched'
  BY <1>1 DEF Searching, Searched
<1>5. GraphOK' /\ StackOK' /\ ExploredOK'
  BY <1>1, <1>4 DEF IInv, GraphOK, StackOK, ExploredOK
<1>6. ClassesOK'
  BY <1>2, <1>4 DEF ClassesOK
<1>. QED  BY <1>3, <1>5, <1>6 DEF IInv

LEMMA CreateKeeps ==
  ASSUME IInv, NEW interiors, interiors \subseteq Seq(Points), Create(interiors)
  PROVE  IInv'
<1>1. /\ UNCHANGED <<scene, custom, obstacles, explored>>
      /\ pc = "create" /\ vertices = <<>> /\ explored = <<>> /\ ~Searching
      /\ container \in Seq(Classes) /\ Len(container) <= MaxClasses
      /\ edges \subseteq (1 .. Len(vertices)) \X (1 .. Len(vertices))
  BY DEF Create, IInv, GraphOK, TypeOK, ClassesOK, Searching
<1>2. edges = {}
  BY <1>1
<1>3. scene \in Scenes /\ scene.goal \in Int
  BY SearchAssumption DEF IInv, TypeOK
<1>4. CASE pc' = "done" /\ UNCHANGED <<vertices, edges, visited, frames>>
           /\ (UNCHANGED container
               \/ container' = IF container = <<>> THEN <<ClassOf(<<Start, Goal>>)>> ELSE container)
  <2>1. container' \in Seq(Classes) /\ Len(container') <= MaxClasses
    <3>1. ClassOf(<<Start, Goal>>) \in Classes
      BY ClassOfTyped
    <3>2. \A c \in Classes : <<c>> \in Seq(Classes) /\ Len(<<c>>) = 1
      OBVIOUS
    <3>3. container' = container \/ container' = <<ClassOf(<<Start, Goal>>)>>
      BY <1>4
    <3>4. Len(container') <= MaxClasses
      BY <1>1, <3>1, <3>2, <3>3, SearchAssumption
    <3>. QED  BY <1>1, <3>1, <3>2, <3>3, <3>4
  <2>2. TypeOK'
    BY <1>1, <1>4, <2>1 DEF IInv, TypeOK, Classes
  <2>3. ~Searching' /\ ~Searched' /\ GoalVertex' = GoalVertex
    BY <1>1, <1>4 DEF Searching, Searched, GoalVertex
  <2>4. GraphOK' /\ StackOK' /\ ExploredOK'
    BY <1>1, <1>4, <2>3 DEF IInv, GraphOK, StackOK, ExploredOK
  <2>5. ClassesOK'
    BY <2>1, <2>3 DEF ClassesOK
  <2>. QED  BY <2>2, <2>4, <2>5 DEF IInv
<1>5. CASE /\ ~Full
           /\ \E inner \in interiors : vertices' = <<Start>> \o inner \o <<Goal>>
           /\ edges' = {e \in (1 .. Len(vertices')) \X (1 .. Len(vertices')) :
                          Connected(vertices', e[1], e[2])}
           /\ visited' = <<1>> /\ frames' = <<>>
           /\ pc' = "enter" /\ UNCHANGED container
  <2>1. PICK inner \in Seq(Points) : vertices' = <<Start>> \o inner \o <<Goal>>
    BY <1>5
  <2>2. /\ <<Start>> \in Seq(Points) /\ Len(<<Start>>) = 1
        /\ <<Goal>> \in Seq(Points) /\ Len(<<Goal>>) = 1
    BY <1>3 DEF Start, Goal, Points
  <2>3. /\ <<Start>> \o inner \in Seq(Points) /\ Len(<<Start>> \o inner) = 1 + Len(inner)
        /\ Len(inner) \in Nat
    BY <2>2, ConcatProperties
  <2>. DEFINE vs == vertices'
              G == Len(vs)
  <2>4. vs \in Seq(Points) /\ G = Len(inner) + 2
    <3>1. vertices' \in Seq(Points) /\ Len(vertices') = Len(<<Start>> \o inner) + Len(<<Goal>>)
      BY <2>1, <2>2, <2>3, ConcatProperties
    <3>. QED  BY <2>2, <2>3, <3>1
  <2>5. G \in Nat /\ G > 1 /\ 1 \in 1 .. G
    BY <2>3, <2>4
  <2>6. GoalVertex' = G
    BY DEF GoalVertex
  <2>7. \A i, j \in 1 .. G : Connected(vertices', i, j) <=> <<i, j>> \in edges'
    BY <1>5
  <2>8. ASSUME NEW e \in edges'
        PROVE  /\ e \in (1 .. G) \X (1 .. G) /\ Connected(vertices', e[1], e[2])
    BY <1>5
  <2>9. ASSUME NEW e \in edges'
        PROVE  e[1] # G /\ vertices'[e[1]][1] < vertices'[e[2]][1]
    <3>1. Connected(vertices', e[1], e[2])
      BY <2>8
    <3>2. scene' = scene /\ obstacles' = obstacles
      BY <1>1
    <3>3. e[1] \in 1 .. G /\ e[2] \in 1 .. G
      BY <2>8
    <3>. HIDE DEF G
    <3>. QED  BY <2>4, <3>1, <3>3, EdgesLeadForward DEF G
  <2>. HIDE DEF vs, G
  <2>10. Graph(G, edges') /\ edges' \subseteq (1 .. G) \X (1 .. G)
    BY <2>5, <2>8, <2>9 DEF Graph
  <2>11. vertices' # <<>> /\ G = Len(vertices')
    BY <2>5 DEF G, vs
  <2>12. TypeOK'
    BY <1>1, <1>5, <2>4, <2>5, <2>10, <2>11 DEF IInv, TypeOK, Classes, vs
  <2>13. Searching' /\ ~Searched' /\ Full' = Full /\ pc' = "enter"
    BY <1>5 DEF Searching, Searched, Full
  <2>14. GraphOK'
    BY <2>6, <2>9, <2>10, <2>11, <2>13 DEF GraphOK
  <2>15. StackOK'
    <3>1. visited' = <<1>> /\ frames' = <<>> /\ Len(visited') = 1 /\ Len(frames') = 0
      BY <1>5
    <3>2. Stack(G, edges', visited', frames')
      <4>1. visited' \in Seq(1 .. G) /\ frames' \in Seq(1 .. G)
        BY <2>5, <3>1
      <4>2. \A i \in 1 .. 1 : i = 1
        OBVIOUS
      <4>. QED  BY <2>5, <3>1, <4>1, <4>2 DEF Stack
    <3>. QED  BY <1>5, <2>6, <2>13, <3>1, <3>2 DEF StackOK
  <2>16. ExploredOK'
    BY <1>1 DEF ExploredOK
  <2>17. ClassesOK'
    <3>1. frames' = <<>>
      BY <1>5
    <3>2. \A p : ~Passed(p, G, visited', frames', pc')
      BY <3>1 DEF Passed
    <3>. QED  BY <1>1, <1>5, <2>6, <2>13, <3>2 DEF ClassesOK
  <2>. QED  BY <2>12, <2>14, <2>15, <2>16, <2>17 DEF IInv
<1>. QED
  <2>1. \/ pc' = "done" /\ UNCHANGED <<vertices, edges, visited, frames>>
             /\ (UNCHANGED container
                 \/ container' = IF container = <<>> THEN <<ClassOf(<<Start, Goal>>)>> ELSE container)
        \/ /\ ~Full
           /\ \E inner \in interiors : vertices' = <<Start>> \o inner \o <<Goal>>
           /\ edges' = {e \in (1 .. Len(vertices')) \X (1 .. Len(vertices')) :
                          Connected(vertices', e[1], e[2])}
           /\ visited' = <<1>> /\ frames' = <<>>
           /\ pc' = "enter" /\ UNCHANGED container
    BY DEF Create
  <2>. QED  BY <1>4, <1>5, <2>1

LEMMA NextKeeps ==
  IInv /\ [Next]_vars => IInv'
<1>. SUFFICES ASSUME IInv, [Next]_vars  PROVE IInv'
  OBVIOUS
<1>1. scene \in Scenes /\ obstacles \in Seq(ObstacleRecords)
  BY DEF IInv, TypeOK
<1>2. CASE UpdateObstacleContainer
  BY <1>2, UpdateObstacleContainerKeeps
<1>3. CASE \E messages \in scene.arriving : CustomObstacleCB(messages)
  BY <1>3, CustomObstacleCBKeeps
<1>4. CASE Renew
  BY <1>4, RenewKeeps
<1>5. CASE CreateKeypointGraph
  <2>1. Create({Keypoints})
    BY <1>5 DEF CreateKeypointGraph
  <2>2. {Keypoints} \subseteq Seq(Points)
    BY <1>1, SearchAssumption, KeypointsTyped
  <2>. QED  BY <2>1, <2>2, CreateKeeps
<1>6. CASE CreateRoadmap
  <2>1. Create(scene.samples)
    BY <1>6 DEF CreateRoadmap
  <2>2. scene.samples \subseteq Seq(Points)
    BY <1>1, SearchAssumption
  <2>. QED  BY <2>1, <2>2, CreateKeeps
<1>7. CASE Enter
  BY <1>7, EnterKeeps
<1>8. CASE LookForGoal
  BY <1>8, LookForGoalKeeps
<1>9. CASE Recurse
  BY <1>9, RecurseKeeps
<1>10. CASE UNCHANGED vars
  <2>1. /\ UNCHANGED <<scene, custom, obstacles, vertices, edges, visited, frames, container, explored>>
        /\ pc' = pc /\ GoalVertex' = GoalVertex
    BY <1>10 DEF vars, GoalVertex
  <2>2. TypeOK'
    BY <2>1 DEF IInv, TypeOK, Classes
  <2>3. Full' = Full /\ Searching' = Searching /\ Searched' = Searched
    BY <2>1 DEF Full, Searching, Searched
  <2>4. GraphOK' /\ StackOK' /\ ExploredOK'
    BY <2>1, <2>3 DEF IInv, GraphOK, StackOK, ExploredOK
  <2>5. \A p : Found(p)' = Found(p)
    BY <2>1, <2>3, ClassStays DEF Found
  <2>6. ClassesOK'
    BY <2>1, <2>3, <2>5 DEF IInv, ClassesOK
  <2>. QED  BY <2>2, <2>4, <2>6 DEF IInv
<1>. QED  BY <1>2, <1>3, <1>4, <1>5, <1>6, <1>7, <1>8, <1>9, <1>10 DEF Next

\* The paths SimplePaths builds up by their length are paths of the graph.
LEMMA SimplePathsArePaths ==
  ASSUME GoalVertex \in Nat, GoalVertex > 1, NEW p \in SimplePaths
  PROVE  Path(p, GoalVertex, edges)
<1>. DEFINE G == GoalVertex
            n == G - 2
            All == Seq(1 .. G)
            S == SUBSET All
            Extended(paths) == {Append(q, v) : q \in paths, v \in 1 .. G}
            More(paths, k) ==
              {q \in Extended(paths) :
                 /\ <<q[k], q[k + 1]>> \in edges
                 /\ q[k + 1] # G /\ \A i \in 1 .. k : q[i] # q[k + 1]}
            Open[k \in 0 .. n] == IF k = 0 THEN {<<1>>} ELSE More(Open[k - 1], k)
            step == [e \in (1 .. n) \X S |-> More(e[2], e[1])]
            OpenPath(q, k) ==
              /\ q \in All /\ Len(q) = k + 1 /\ q[1] = 1
              /\ \A i \in 1 .. k : <<q[i], q[i + 1]>> \in edges
              /\ \A i \in 1 .. k + 1 : q[i] # G
              /\ \A i, j \in 1 .. k + 1 : q[i] = q[j] => i = j
<1>1. G \in Nat /\ n \in Nat /\ 1 \in 1 .. G /\ 1 # G
  OBVIOUS
<1>2. {<<1>>} \in S
  BY <1>1
<1>3. ASSUME NEW paths \in S  PROVE Extended(paths) \in S
  <2>1. \A q \in paths, v \in 1 .. G : Append(q, v) \in All
    OBVIOUS
  <2>. QED  BY <2>1
<1>4. ASSUME NEW paths \in S, NEW k \in 1 .. n  PROVE More(paths, k) \in S
  <2>1. Extended(paths) \in S
    BY <1>3
  <2>. HIDE DEF Extended
  <2>. QED  BY <2>1
<1>5. SimplePaths = {q \in UNION {Extended(Open[k]) : k \in 0 .. n} :
                       q[Len(q)] = G /\ <<q[Len(q) - 1], G>> \in edges}
  BY DEF SimplePaths
<1>6. ASSUME NEW q, NEW k \in 1 .. n, NEW paths \in S, \A r \in paths : OpenPath(r, k - 1),
             q \in More(paths, k)
      PROVE  OpenPath(q, k)
  <2>1. PICK r \in paths, v \in 1 .. G : q = Append(r, v)
    BY <1>6
  <2>2. OpenPath(r, k - 1) /\ r \in All
    BY <1>6
  <2>3. /\ q \in All /\ Len(q) = Len(r) + 1 /\ \A i \in 1 .. Len(r) : q[i] = r[i]
        /\ q[Len(r) + 1] = v
    BY <2>1, <2>2, Appended
  <2>4. Len(r) = k
    BY <1>1, <2>2
  <2>5. <<q[k], q[k + 1]>> \in edges /\ q[k + 1] # G /\ \A i \in 1 .. k : q[i] # q[k + 1]
    BY <1>6
  <2>6. /\ r[1] = 1 /\ \A i \in 1 .. k - 1 : <<r[i], r[i + 1]>> \in edges
        /\ \A i \in 1 .. k : r[i] # G
        /\ \A i, j \in 1 .. k : r[i] = r[j] => i = j
    <3>1. k - 1 + 1 = k
      BY <1>1
    <3>. QED  BY <2>2, <3>1
  <2>7. \A i \in 1 .. k + 1 : i \in 1 .. k \/ i = k + 1
    BY <1>1
  <2>. HIDE DEF G, More, S, All
  <2>8. \A i \in 1 .. k : <<q[i], q[i + 1]>> \in edges
    <3>. SUFFICES ASSUME NEW i \in 1 .. k  PROVE <<q[i], q[i + 1]>> \in edges
      OBVIOUS
    <3>1. CASE i = k
      BY <2>5, <3>1
    <3>2. CASE i # k
      <4>1. i \in 1 .. k - 1 /\ i + 1 \in 1 .. k
        BY <1>1, <3>2
      <4>2. q[i] = r[i] /\ q[i + 1] = r[i + 1]
        BY <2>3, <2>4, <4>1
      <4>. QED  BY <2>6, <4>1, <4>2
    <3>. QED  BY <3>1, <3>2
  <2>9. \A i \in 1 .. k + 1 : q[i] # G
    BY <2>3, <2>4, <2>5, <2>6, <2>7
  <2>10. \A i, j \in 1 .. k + 1 : q[i] = q[j] => i = j
    BY <2>3, <2>4, <2>5, <2>6, <2>7
  <2>11. 1 \in 1 .. k
    BY <1>1
  <2>12. q[1] = 1
    BY <2>3, <2>4, <2>6, <2>11
  <2>. QED  BY <2>3, <2>4, <2>8, <2>9, <2>10, <2>12
<1>7. step \in [(1 .. n) \X S -> S]
  <2>. HIDE DEF More, S, n
  <2>. QED  BY <1>4
<1>. HIDE DEF More, S
<1>8. PICK g \in [0 .. n -> S] : Chain(g, n, {<<1>>}, step)
  BY <1>1, <1>2, <1>7, Recursion
<1>9. ASSUME NEW k \in 0 .. n
      PROVE  g[k] = IF k = 0 THEN {<<1>>} ELSE More(g[k - 1], k)
  <2>1. CASE k = 0
    BY <1>8, <2>1 DEF Chain
  <2>2. CASE k # 0
    <3>1. k \in 1 .. n /\ k - 1 \in 0 .. n
      BY <1>1, <2>2
    <3>2. <<k, g[k - 1]>> \in (1 .. n) \X S
      BY <1>8, <3>1
    <3>. QED  BY <1>8, <2>2, <3>1, <3>2 DEF Chain
  <2>. QED  BY <2>1, <2>2
<1>10. g = [k \in 0 .. n |-> IF k = 0 THEN {<<1>>} ELSE More(g[k - 1], k)]
  BY <1>8, <1>9
<1>11. Open = [k \in 0 .. n |-> IF k = 0 THEN {<<1>>} ELSE More(Open[k - 1], k)]
  BY <1>10
<1>. HIDE DEF Open, G, n, OpenPath
<1>12. Open[0] = {<<1>>}
  BY <1>1, <1>11
<1>13. ASSUME NEW k \in 1 .. n  PROVE Open[k] = More(Open[k - 1], k)
  <2>1. k \in 0 .. n /\ k # 0
    BY <1>1
  <2>. QED  BY <1>11, <2>1
<1>14. \A k \in 0 .. n : Open[k] \in S
  <2>1. \A k \in 1 .. n : Open[k - 1] \in S => Open[k] \in S
    BY <1>4, <1>13
  <2>. QED  BY <1>1, <1>2, <1>12, <2>1, AllTyped
<1>. DEFINE P == {k \in 0 .. n : \A q \in Open[k] : OpenPath(q, k)}
<1>15. 0 \in P
  <2>1. OpenPath(<<1>>, 0)
    BY <1>1 DEF OpenPath
  <2>. QED  BY <1>1, <1>12, <2>1
<1>16. ASSUME NEW k \in 1 .. n, k - 1 \in P  PROVE k \in P
  <2>1. k \in 0 .. n /\ k - 1 \in 0 .. n
    BY <1>1
  <2>2. \A q \in Open[k] : OpenPath(q, k)
    BY <1>6, <1>13, <1>14, <1>16, <2>1
  <2>. QED  BY <2>1, <2>2
<1>17. P = 0 .. n
  <2>1. P \in SUBSET (0 .. n)
    OBVIOUS
  <2>. HIDE DEF P
  <2>. QED  BY <1>1, <1>15, <1>16, <2>1, IntervalInduction
<1>18. PICK k \in 0 .. n : p \in Extended(Open[k])
  BY <1>5
<1>19. p[Len(p)] = G /\ <<p[Len(p) - 1], G>> \in edges
  BY <1>5
<1>20. PICK q \in Open[k], v \in 1 .. G : p = Append(q, v)
  BY <1>18
<1>21. OpenPath(q, k)
  BY <1>17, <1>20
<1>22. /\ q \in Seq(1 .. G) /\ Len(q) = k + 1 /\ q[1] = 1
       /\ \A i \in 1 .. k : <<q[i], q[i + 1]>> \in edges
       /\ \A i \in 1 .. k + 1 : q[i] # G
       /\ \A i, j \in 1 .. k + 1 : q[i] = q[j] => i = j
  BY <1>21 DEF OpenPath
<1>23. PICK m \in Nat \ {0} : m = k + 1
  BY <1>1
<1>24. /\ p \in Seq(1 .. G) /\ Len(p) = m + 1 /\ \A i \in 1 .. m : p[i] = q[i]
       /\ p[m + 1] = v
  BY <1>20, <1>22, <1>23, Appended
<1>25. p[m + 1] = G /\ <<p[m], G>> \in edges
  <2>1. m + 1 - 1 = m
    OBVIOUS
  <2>. QED  BY <1>19, <1>24, <2>1
<1>26. \A i \in 1 .. m + 1 : i \in 1 .. m \/ i = m + 1
  OBVIOUS
<1>27. \A i \in 1 .. m : <<p[i], p[i + 1]>> \in edges
  <2>. SUFFICES ASSUME NEW i \in 1 .. m  PROVE <<p[i], p[i + 1]>> \in edges
    OBVIOUS
  <2>1. CASE i = m
    BY <1>25, <2>1
  <2>2. CASE i # m
    <3>1. i \in 1 .. k /\ i + 1 \in 1 .. m
      BY <1>1, <1>23, <2>2
    <3>. QED  BY <1>22, <1>24, <3>1
  <2>. QED  BY <2>1, <2>2
<1>28. \A i, j \in 1 .. m + 1 : p[i] = p[j] => i = j
  <2>1. \A i \in 1 .. m : p[i] # G
    BY <1>22, <1>23, <1>24
  <2>2. \A i, j \in 1 .. m : p[i] = p[j] => i = j
    BY <1>22, <1>23, <1>24
  <2>. QED  BY <1>25, <1>26, <2>1, <2>2
<1>29. p[1] = 1
  <2>1. 1 \in 1 .. m
    OBVIOUS
  <2>. QED  BY <1>22, <1>24, <2>1
<1>30. m + 1 - 1 = m /\ m + 1 > 1
  OBVIOUS
<1>31. Path(p, G, edges)
  BY <1>24, <1>25, <1>27, <1>28, <1>29, <1>30 DEF Path
<1>. QED  BY <1>31 DEF G

-----------------------------------------------------------------------------
LEMMA Invariant == Spec => []IInv
<1>. QED  BY InitGood, NextKeeps, PTL DEF Spec

\* Every variable keeps its type, whatever the obstacles, the samples and the
\* size of the costmap: every centroid is a point with integer coordinates,
\* every obstacle has a vertex, every edge joins two vertices of the graph.
THEOREM TypeCorrect == Spec => []TypeOK
<1>1. IInv => TypeOK
  BY DEF IInv
<1>. QED  BY <1>1, Invariant, PTL

\* The search hands no path over twice, hands over simple paths of the graph
\* only, and there are never more classes than allowed: the stack of calls
\* tells which paths are behind it, and the one it finds next is not.
THEOREM CandidatesStayDistinct == Spec => []CandidatesAreDistinct
<1>1. IInv => CandidatesAreDistinct
  <2>. SUFFICES ASSUME IInv  PROVE CandidatesAreDistinct
    OBVIOUS
  <2>1. explored \in Seq(Seq(1 .. Len(vertices))) /\ DOMAIN explored = 1 .. Len(explored)
    BY DEF IInv, TypeOK
  <2>2. \A k \in 1 .. Len(explored) : IsSimplePath(explored[k])
    BY DEF IInv, ExploredOK, Path, IsSimplePath
  <2>. QED  BY <2>1, <2>2 DEF IInv, ExploredOK, ClassesOK, CandidatesAreDistinct
<1>. QED  BY <1>1, Invariant, PTL

\* A search that ends with room left in the container has found the class of
\* every simple path from the start to the goal, in every graph of any size.
THEOREM SearchFindsEveryClass == Spec => []SearchIsComplete
<1>1. IInv => SearchIsComplete
  <2>. SUFFICES ASSUME IInv, Searched, ~Full, NEW p \in SimplePaths
                PROVE  ClassOf(Positions(p)) \in ToSet(container)
    BY DEF SearchIsComplete
  <2>1. GoalVertex \in Nat /\ GoalVertex > 1
    BY DEF IInv, GraphOK, Searched, Graph
  <2>2. Path(p, GoalVertex, edges)
    BY <2>1, SimplePathsArePaths
  <2>. QED  BY <2>2 DEF IInv, ClassesOK, Found
<1>. QED  BY <1>1, Invariant, PTL

\* Every step of every candidate brings the robot forward.
CandidatesLeadForward ==
  \A k \in 1 .. Len(explored) : \A i \in 1 .. Len(explored[k]) - 1 :
    vertices[explored[k][i]][1] < vertices[explored[k][i + 1]][1]

\* No candidate turns back on its way to the goal: the part of
\* CandidatesAreFree that does not depend on where the obstacles are.
THEOREM CandidatesGoForward == Spec => []CandidatesLeadForward
<1>1. IInv => CandidatesLeadForward
  <2>. SUFFICES ASSUME IInv, NEW k \in 1 .. Len(explored), NEW i \in 1 .. Len(explored[k]) - 1
                PROVE  vertices[explored[k][i]][1] < vertices[explored[k][i + 1]][1]
    BY DEF CandidatesLeadForward
  <2>1. <<explored[k][i], explored[k][i + 1]>> \in edges
    BY DEF IInv, ExploredOK, Path
  <2>2. \A e \in edges : vertices[e[1]][1] < vertices[e[2]][1]
    BY DEF IInv, GraphOK
  <2>. QED  BY <2>1, <2>2
<1>. QED  BY <1>1, Invariant, PTL

-----------------------------------------------------------------------------
(* Distances as fractions.                                                 *)

\* Numbers with a common factor keep their order.
LEMMA FactorKeepsOrder ==
  ASSUME NEW x \in Int, NEW y \in Int, NEW k \in Nat
  PROVE  /\ x <= y => k * x <= k * y
         /\ k > 0 /\ k * x <= k * y => x <= y
<1>1. x <= y => k * x <= k * y
  BY SMTT(20)
<1>2. k > 0 /\ k * x <= k * y => x <= y
  BY SMTT(20)
<1>. QED  BY <1>1, <1>2

\* The order of the factors does not matter.
LEMMA Reordered ==
  ASSUME NEW x \in Int, NEW y \in Int, NEW z \in Int
  PROVE  x * (y * z) = y * (x * z) /\ x * (y * z) = z * (y * x) /\ x * (y * z) = z * (x * y)
BY SMTT(20)

\* A fraction is the square of a distance, infinite if its denominator is zero.
Fractions == {f \in Nat \X Nat : f[1] > 0 \/ f[2] > 0}
AtMost(a, b) == a[1] * b[2] <= b[1] * a[2]

\* What the comparisons of the model say of the order of the fractions.
LEMMA AtMostOrders ==
  ASSUME NEW a \in Fractions, NEW b \in Fractions
  PROVE  /\ a[1] \in Nat /\ a[2] \in Nat
         /\ AtMost(a, a)
         /\ AtMost(a, b) <=> ~Below(b, a)
         /\ AtMost(a, b) \/ AtMost(b, a)
         /\ SameDistance(a, b) <=> AtMost(a, b) /\ AtMost(b, a)
<1>1. /\ a[1] \in Nat /\ a[2] \in Nat /\ b[1] \in Nat /\ b[2] \in Nat
  BY DEF Fractions
<1>2. a[1] * b[2] \in Int /\ b[1] * a[2] \in Int
  BY <1>1
<1>. QED  BY <1>1, <1>2 DEF AtMost, Below, SameDistance

\* The order of the fractions is transitive.
LEMMA AtMostTrans ==
  ASSUME NEW a \in Fractions, NEW b \in Fractions, NEW c \in Fractions, AtMost(a, b), AtMost(b, c)
  PROVE  AtMost(a, c)
<1>1. PICK a1 \in Nat, a2 \in Nat, b1 \in Nat, b2 \in Nat, c1 \in Nat, c2 \in Nat :
        a1 = a[1] /\ a2 = a[2] /\ b1 = b[1] /\ b2 = b[2] /\ c1 = c[1] /\ c2 = c[2]
  BY DEF Fractions
<1>2. a1 * b2 <= b1 * a2 /\ b1 * c2 <= c1 * b2 /\ (b1 > 0 \/ b2 > 0) /\ (c1 > 0 \/ c2 > 0)
  BY <1>1 DEF AtMost, Fractions
<1>3. CASE b2 > 0
  <2>1. c2 * (a1 * b2) <= c2 * (b1 * a2)
    BY <1>2, FactorKeepsOrder
  <2>2. a2 * (b1 * c2) <= a2 * (c1 * b2)
    BY <1>2, FactorKeepsOrder
  <2>3. c2 * (a1 * b2) = b2 * (a1 * c2) /\ c2 * (b1 * a2) = a2 * (b1 * c2)
        /\ a2 * (c1 * b2) = b2 * (c1 * a2)
    BY Reordered
  <2>4. b2 * (a1 * c2) <= b2 * (c1 * a2)
    BY <2>1, <2>2, <2>3
  <2>5. a1 * c2 <= c1 * a2
    BY <1>3, <2>4, FactorKeepsOrder
  <2>. QED  BY <1>1, <2>5 DEF AtMost
<1>4. CASE b2 = 0
  <2>1. b1 > 0 /\ b1 * c2 <= b1 * 0
    BY <1>2, <1>4
  <2>2. c2 = 0
    BY <2>1, FactorKeepsOrder
  <2>. QED  BY <1>1, <2>2 DEF AtMost
<1>. QED  BY <1>3, <1>4

\* The least of a set is not above any and not below some of them.
IsLeast(r, S) == (\A s \in S : AtMost(r, s)) /\ \E s \in S : AtMost(s, r)

\* Two least fractions of a set are the same distance.
LEMMA LeastsAreTheSame ==
  ASSUME NEW S \in SUBSET Fractions, NEW a \in Fractions, NEW b \in Fractions,
         IsLeast(a, S), IsLeast(b, S)
  PROVE  SameDistance(a, b)
<1>1. ASSUME NEW x \in Fractions, NEW y \in Fractions, IsLeast(x, S), IsLeast(y, S)
      PROVE  AtMost(x, y)
  <2>1. PICK s \in S : AtMost(s, y)
    BY <1>1 DEF IsLeast
  <2>2. AtMost(x, s) /\ s \in Fractions
    BY <1>1 DEF IsLeast
  <2>. QED  BY <2>1, <2>2, AtMostTrans
<1>. QED  BY <1>1, AtMostOrders

\* The least of finitely many fractions, listed by f.
LEMMA LeastOfList ==
  ASSUME NEW n \in Nat \ {0}, NEW f \in [1 .. n -> Fractions],
         NEW S, S = {f[k] : k \in 1 .. n}
  PROVE  Least(S) \in S /\ Least(S) \in Fractions /\ IsLeast(Least(S), S)
<1>. DEFINE P == {k \in 0 .. n : k = 0 \/ \E i \in 1 .. k : \A j \in 1 .. k : AtMost(f[i], f[j])}
<1>1. 0 \in P
  OBVIOUS
<1>2. ASSUME NEW k \in 1 .. n, k - 1 \in P  PROVE k \in P
  <2>1. CASE k = 1
    <3>1. AtMost(f[1], f[1])
      BY AtMostOrders
    <3>. QED  BY <2>1, <3>1
  <2>2. CASE k > 1
    <3>1. PICK i \in 1 .. k - 1 : \A j \in 1 .. k - 1 : AtMost(f[i], f[j])
      BY <1>2, <2>2
    <3>2. f[i] \in Fractions /\ f[k] \in Fractions
      OBVIOUS
    <3>3. CASE AtMost(f[i], f[k])
      BY <3>1, <3>3
    <3>4. CASE AtMost(f[k], f[i])
      <4>1. \A j \in 1 .. k - 1 : AtMost(f[k], f[j])
        BY <3>1, <3>2, <3>4, AtMostTrans
      <4>2. AtMost(f[k], f[k])
        BY <3>2, AtMostOrders
      <4>3. \A j \in 1 .. k : AtMost(f[k], f[j])
        BY <4>1, <4>2
      <4>. QED  BY <4>3
    <3>. QED  BY <3>2, <3>3, <3>4, AtMostOrders
  <2>. QED  BY <2>1, <2>2
<1>3. n \in P
  <2>1. P \in SUBSET (0 .. n)
    OBVIOUS
  <2>. HIDE DEF P
  <2>2. P = 0 .. n
    BY <1>1, <1>2, <2>1, IntervalInduction
  <2>. QED  BY <2>2
<1>4. PICK i \in 1 .. n : \A j \in 1 .. n : AtMost(f[i], f[j])
  BY <1>3
<1>5. f[i] \in S /\ \A b \in S : b \in Fractions
  OBVIOUS
<1>6. \A b \in S : ~Below(b, f[i])
  BY <1>4, <1>5, AtMostOrders
<1>7. Least(S) \in S /\ \A b \in S : ~Below(b, Least(S))
  <2>1. \E a \in S : \A b \in S : ~Below(b, a)
    BY <1>5, <1>6
  <2>. QED  BY <2>1 DEF Least
<1>8. \A b \in S : AtMost(Least(S), b)
  BY <1>5, <1>7, AtMostOrders
<1>. QED  BY <1>5, <1>7, <1>8 DEF IsLeast

\* The values of a function on a finite set are finitely many.
LEMMA FiniteImage ==
  ASSUME NEW S, IsFiniteSet(S), NEW g, NEW U, U = {g[s] : s \in S}
  PROVE  IsFiniteSet(U)
<1>1. PICK seq \in Seq(S) : \A s \in S : \E n \in 1 .. Len(seq) : seq[n] = s
  BY DEF IsFiniteSet
<1>. DEFINE image == [k \in 1 .. Len(seq) |-> g[seq[k]]]
<1>2. \A k \in 1 .. Len(seq) : seq[k] \in S
  BY <1>1
<1>3. image \in Seq(U) /\ Len(image) = Len(seq)
  <2>1. image \in [1 .. Len(seq) -> U] /\ Len(seq) \in Nat
    BY <1>2
  <2>. QED  BY <2>1, IsASeq
<1>4. \A u \in U : \E n \in 1 .. Len(image) : image[n] = u
  BY <1>1, <1>3
<1>. QED  BY <1>3, <1>4 DEF IsFiniteSet

\* A finite set of fractions has a least one, and Least is it.
LEMMA LeastOfFinite ==
  ASSUME NEW S \in SUBSET Fractions, IsFiniteSet(S), S # {}
  PROVE  Least(S) \in S /\ Least(S) \in Fractions /\ IsLeast(Least(S), S)
<1>1. PICK seq \in Seq(S) : \A s \in S : \E n \in 1 .. Len(seq) : seq[n] = s
  BY DEF IsFiniteSet
<1>2. PICK n \in Nat : n = Len(seq)
  BY <1>1
<1>3. n # 0 /\ seq \in [1 .. n -> S]
  BY <1>1, <1>2
<1>4. seq \in [1 .. n -> Fractions] /\ \A k \in 1 .. n : seq[k] \in S
  BY <1>3
<1>5. S = {seq[k] : k \in 1 .. n}
  BY <1>1, <1>2, <1>4
<1>. QED  BY <1>3, <1>4, <1>5, LeastOfList

-----------------------------------------------------------------------------
(* Products of coordinates.                                                *)

\* The identity of Lagrange: c * c + x * x = n * w.
LEMMA Lagrange ==
  ASSUME NEW a \in Points, NEW b \in Points
  PROVE  Dot(a, b) * Dot(a, b) + Cross(b, a) * Cross(b, a) = SquaredNorm(b) * SquaredNorm(a)
<1>1. ASSUME NEW x \in Int, NEW y \in Int, NEW u \in Int, NEW v \in Int
      PROVE  (x * u + y * v) * (x * u + y * v) + (u * y - v * x) * (u * y - v * x)
               = (u * u + v * v) * (x * x + y * y)
  BY <1>1, SMTT(30)
<1>2. a[1] \in Int /\ a[2] \in Int /\ b[1] \in Int /\ b[2] \in Int
  BY DEF Points
<1>. QED  BY <1>1, <1>2 DEF Dot, Cross, SquaredNorm

\* A squared norm is a natural number, zero for the origin only.
LEMMA SquaredNorms ==
  ASSUME NEW a \in Points
  PROVE  SquaredNorm(a) \in Nat /\ (SquaredNorm(a) = 0 <=> a = <<0, 0>>)
<1>1. ASSUME NEW x \in Int  PROVE x * x \in Nat /\ (x * x = 0 <=> x = 0)
  BY <1>1, SMTT(30)
<1>2. a[1] \in Int /\ a[2] \in Int /\ a = <<a[1], a[2]>>
  BY DEF Points
<1>. QED  BY <1>1, <1>2 DEF Dot, SquaredNorm

\* |p - b|^2 = |v|^2 - 2 v.d + |d|^2, where v = p - a and d = b - a.
LEMMA Cosine ==
  ASSUME NEW p \in Points, NEW a \in Points, NEW b \in Points
  PROVE  SquaredNorm(Minus(p, b)) = SquaredNorm(Minus(p, a)) - 2 * Dot(Minus(p, a), Minus(b, a))
                                      + SquaredNorm(Minus(b, a))
<1>1. ASSUME NEW x \in Int, NEW y \in Int, NEW u \in Int, NEW v \in Int
      PROVE  (x - u) * (x - u) + (y - v) * (y - v)
               = (x * x + y * y) - 2 * (x * u + y * v) + (u * u + v * v)
  BY <1>1, SMTT(30)
<1>2. /\ p[1] \in Int /\ p[2] \in Int /\ a[1] \in Int /\ a[2] \in Int
      /\ b[1] \in Int /\ b[2] \in Int
  BY DEF Points
<1>3. PICK x \in Int, y \in Int, u \in Int, v \in Int :
        x = p[1] - a[1] /\ y = p[2] - a[2] /\ u = b[1] - a[1] /\ v = b[2] - a[2]
  BY <1>2
<1>4. p[1] - b[1] = x - u /\ p[2] - b[2] = y - v
  BY <1>2, <1>3
<1>5. SquaredNorm(Minus(p, b)) = (x - u) * (x - u) + (y - v) * (y - v)
  BY <1>4 DEF SquaredNorm, Dot, Minus
<1>6. /\ SquaredNorm(Minus(p, a)) = x * x + y * y
      /\ Dot(Minus(p, a), Minus(b, a)) = x * u + y * v
      /\ SquaredNorm(Minus(b, a)) = u * u + v * v
  BY <1>3 DEF SquaredNorm, Dot, Minus
<1>. QED  BY <1>1, <1>5, <1>6

-----------------------------------------------------------------------------
(* The nearest point of a segment.                                         *)

\* What the squares along the segment are, with n, w, c and x for the squared
\* length, the squared distance from the start, the scalar and the vector
\* product.
Along(n, w, c, k) == n * w - 2 * k * c + k * k

\* Before its vertex a parabola falls.
LEMMA Beyond ==
  ASSUME NEW n \in Nat, NEW k \in Nat, NEW c \in Int, c >= n, k <= n
  PROVE  (c - n) + (c - k) \in Nat
OBVIOUS

\* The squared distance along a line is least at the vertex, and rises from it.
LEMMA AlongParabola ==
  ASSUME NEW n \in Nat, NEW w \in Nat, NEW c \in Int, NEW x \in Int,
         c * c + x * x = n * w, NEW k \in Nat
  PROVE  /\ Along(n, w, c, k) = x * x + (k - c) * (k - c)
         /\ Along(n, w, c, k) \in Nat /\ x * x \in Nat
         /\ x * x <= Along(n, w, c, k)
         /\ c <= 0 => n * w <= Along(n, w, c, k)
         /\ c >= n /\ k <= n => n * (w - 2 * c + n) <= Along(n, w, c, k)
<1>1. Along(n, w, c, k) = x * x + (k - c) * (k - c)
  <2>1. (k - c) * (k - c) = k * k - 2 * k * c + c * c
    BY SMTT(30)
  <2>. QED  BY <2>1, SMTT(30) DEF Along
<1>2. \A z \in Int : z * z \in Nat
  BY SMTT(30)
<1>3. x * x \in Nat /\ (k - c) * (k - c) \in Nat
  BY <1>2
<1>4. c <= 0 => n * w <= Along(n, w, c, k)
  <2>. SUFFICES ASSUME c <= 0  PROVE n * w <= Along(n, w, c, k)
    OBVIOUS
  <2>1. PICK d \in Nat : d = 0 - c
    OBVIOUS
  <2>2. k * d \in Nat /\ k * k \in Nat
    BY SMTT(30)
  <2>3. 2 * k * c = 0 - 2 * (k * d)
    BY <2>1, SMTT(30)
  <2>4. n * w \in Int
    OBVIOUS
  <2>. QED  BY <2>2, <2>3, <2>4 DEF Along
<1>5. c >= n /\ k <= n => n * (w - 2 * c + n) <= Along(n, w, c, k)
  <2>. SUFFICES ASSUME c >= n, k <= n  PROVE n * (w - 2 * c + n) <= Along(n, w, c, k)
    OBVIOUS
  <2>1. PICK d \in Nat : d = n - k
    OBVIOUS
  <2>7. PICK e \in Nat : e = (c - n) + (c - k)
    BY Beyond
  <2>2. d * e \in Nat
    BY SMTT(30)
  <2>3. d * e = (n - k) * ((c - n) + (c - k))
    BY <2>1, <2>7
  <2>4. (n - k) * ((c - n) + (c - k)) = 2 * c * n - n * n - 2 * k * c + k * k
    BY SMTT(30)
  <2>5. n * (w - 2 * c + n) = n * w - 2 * c * n + n * n
    BY SMTT(30)
  <2>6. n * w \in Int /\ 2 * c * n \in Int /\ n * n \in Int /\ 2 * k * c \in Int /\ k * k \in Int
    OBVIOUS
  <2>. QED  BY <2>2, <2>3, <2>4, <2>5, <2>6 DEF Along
<1>. QED  BY <1>1, <1>3, <1>4, <1>5

\* The squares of the distances to the positions of the nearest point.
Squares(p, start, end) ==
  LET d == Minus(end, start)
      v == Minus(p, start)
      n == IF start = end THEN 1 ELSE SquaredNorm(d)
  IN {<<n * SquaredNorm(v) - 2 * k * Dot(v, d) + (IF start = end THEN 0 ELSE k * k), n>> : k \in 0 .. n}

\* A segment of one point has one squared distance.
LEMMA SquaresOfPoint ==
  ASSUME NEW p \in Points, NEW a \in Points
  PROVE  /\ Squares(p, a, a) = {<<SquaredNorm(Minus(p, a)), 1>>}
         /\ PointToSegment(p, a, a) = <<SquaredNorm(Minus(p, a)), 1>>
<1>. DEFINE v == Minus(p, a)
<1>1. v \in Points /\ v[1] \in Int /\ v[2] \in Int
  BY PointOperations
<1>2. Minus(a, a) = <<0, 0>> /\ Dot(v, <<0, 0>>) = 0
  BY <1>1 DEF Minus, Dot, Points
<1>3. SquaredNorm(v) \in Nat
  BY <1>1, SquaredNorms
<1>4. \A k \in 0 .. 1 : 1 * SquaredNorm(v) - 2 * k * 0 + 0 = SquaredNorm(v)
  BY <1>3
<1>. HIDE DEF v
<1>5. Squares(p, a, a) = {<<1 * SquaredNorm(v) - 2 * k * 0 + 0, 1>> : k \in 0 .. 1}
  BY <1>2 DEF Squares, v
<1>6. Squares(p, a, a) = {<<SquaredNorm(v), 1>>}
  BY <1>4, <1>5
<1>7. PointToSegment(p, a, a) = <<SquaredNorm(v), 1>>
  BY <1>2 DEF PointToSegment, v
<1>. QED  BY <1>6, <1>7 DEF v

\* The squared distances from a segment, as values of the parabola.
LEMMA SquaresOfSegment ==
  ASSUME NEW p \in Points, NEW a \in Points, NEW b \in Points, a # b,
         NEW n, n = SquaredNorm(Minus(b, a)), NEW w, w = SquaredNorm(Minus(p, a)),
         NEW c, c = Dot(Minus(p, a), Minus(b, a)), NEW x, x = Cross(Minus(b, a), Minus(p, a))
  PROVE  /\ Squares(p, a, b) = {<<Along(n, w, c, k), n>> : k \in 0 .. n}
         /\ n \in Nat /\ n > 0 /\ w \in Nat /\ c \in Int /\ x \in Int /\ c * c + x * x = n * w
         /\ PointToSegment(p, a, b) =
              CASE c <= 0 -> <<w, 1>>
                [] c > 0 /\ c >= n -> <<w - 2 * c + n, 1>>
                [] OTHER -> <<x * x, n>>
<1>1. Minus(b, a) \in Points /\ Minus(p, a) \in Points
  BY PointOperations
<1>2. n \in Nat /\ w \in Nat /\ c \in Int /\ x \in Int
  BY <1>1, PointOperations, SquaredNorms
<1>3. n # 0
  <2>1. Minus(b, a) # <<0, 0>>
    BY DEF Minus, Points
  <2>. QED  BY <1>1, <2>1, SquaredNorms
<1>4. c * c + x * x = n * w
  BY <1>1, Lagrange
<1>5. Squares(p, a, b) = {<<Along(n, w, c, k), n>> : k \in 0 .. n}
  BY DEF Squares, Along
<1>6. SquaredNorm(Minus(p, b)) = w - 2 * c + n
  BY Cosine
<1>7. PointToSegment(p, a, b) =
        CASE c <= 0 -> <<w, 1>>
          [] c > 0 /\ c >= n -> <<w - 2 * c + n, 1>>
          [] OTHER -> <<x * x, n>>
  BY <1>6 DEF PointToSegment
<1>. QED  BY <1>2, <1>3, <1>4, <1>5, <1>7

\* The distance of a point is the least of the squares.
LEMMA NearestIsLeast ==
  ASSUME NEW p \in Points, NEW a \in Points, NEW b \in Points
  PROVE  /\ Squares(p, a, b) \in SUBSET Fractions /\ Squares(p, a, b) # {}
         /\ IsFiniteSet(Squares(p, a, b))
         /\ PointToSegment(p, a, b) \in Fractions
         /\ IsLeast(PointToSegment(p, a, b), Squares(p, a, b))
<1>1. CASE a = b
  <2>1. SquaredNorm(Minus(p, a)) \in Nat
    BY PointOperations, SquaredNorms
  <2>2. <<SquaredNorm(Minus(p, a)), 1>> \in Fractions
    BY <2>1 DEF Fractions
  <2>3. PICK f \in Fractions : Squares(p, a, b) = {f} /\ PointToSegment(p, a, b) = f
    BY <1>1, <2>2, SquaresOfPoint
  <2>4. IsFiniteSet({f}) /\ AtMost(f, f)
    BY AtMostOrders, FS_Singleton
  <2>. QED  BY <2>3, <2>4 DEF IsLeast
<1>2. CASE a # b
  <2>1. PICK n, w, c, x : /\ n = SquaredNorm(Minus(b, a)) /\ w = SquaredNorm(Minus(p, a))
                          /\ c = Dot(Minus(p, a), Minus(b, a))
                          /\ x = Cross(Minus(b, a), Minus(p, a))
    OBVIOUS
  <2>. DEFINE r == PointToSegment(p, a, b)  S == Squares(p, a, b)  f(k) == Along(n, w, c, k)
  <2>2. /\ S = {<<Along(n, w, c, k), n>> : k \in 0 .. n}
        /\ n \in Nat /\ n > 0 /\ w \in Nat /\ c \in Int /\ x \in Int /\ c * c + x * x = n * w
    BY <1>2, <2>1, SquaresOfSegment
  <2>3. r = CASE c <= 0 -> <<w, 1>>
              [] c > 0 /\ c >= n -> <<w - 2 * c + n, 1>>
              [] OTHER -> <<x * x, n>>
    BY <1>2, <2>1, SquaresOfSegment
  <2>. HIDE DEF r, S, f
  <2>4. ASSUME NEW k \in 0 .. n
        PROVE  /\ f(k) = x * x + (k - c) * (k - c) /\ f(k) \in Nat /\ x * x \in Nat
               /\ x * x <= f(k)
               /\ c <= 0 => n * w <= f(k)
               /\ c >= n => n * (w - 2 * c + n) <= f(k)
    <3>1. k \in Nat /\ k <= n
      BY <2>2
    <3>. QED  BY <2>2, <3>1, AlongParabola DEF f
  <2>5. S \in SUBSET Fractions /\ S # {}
    <3>1. \A k \in 0 .. n : <<f(k), n>> \in Fractions
      BY <2>2, <2>4 DEF Fractions
    <3>2. S = {<<f(k), n>> : k \in 0 .. n} /\ 0 \in 0 .. n
      BY <2>2 DEF f
    <3>. QED  BY <3>1, <3>2
  <2>6. IsFiniteSet(S)
    <3>. DEFINE g == [k \in 0 .. n |-> <<Along(n, w, c, k), n>>]
    <3>1. S = {g[k] : k \in 0 .. n}
      BY <2>2
    <3>2. IsFiniteSet(0 .. n)
      BY <2>2, FS_Interval
    <3>. HIDE DEF g
    <3>. QED  BY <3>1, <3>2, FiniteImage
  <2>7. ASSUME NEW m \in Nat, NEW j \in 0 .. n, n * m = f(j), \A k \in 0 .. n : n * m <= f(k),
               r = <<m, 1>>
        PROVE  r \in Fractions /\ IsLeast(r, S)
    <3>1. r \in Fractions
      BY <2>7 DEF Fractions
    <3>2. \A k \in 0 .. n : AtMost(r, <<f(k), n>>)
      <4>1. m * n = n * m
        BY <2>2, SMTT(30)
      <4>. QED  BY <2>4, <2>7, <4>1 DEF AtMost
    <3>3. AtMost(<<f(j), n>>, r)
      <4>1. f(j) * 1 <= m * n
        BY <2>2, <2>4, <2>7, SMTT(30)
      <4>. QED  BY <2>7, <4>1 DEF AtMost
    <3>. QED  BY <2>2, <3>1, <3>2, <3>3 DEF IsLeast, f
  <2>8. CASE c <= 0
    <3>1. f(0) = n * w
      BY <2>2 DEF f, Along
    <3>2. 0 \in 0 .. n
      BY <2>2
    <3>3. r = <<w, 1>>
      BY <2>2, <2>3, <2>8
    <3>. QED  BY <2>2, <2>4, <2>5, <2>6, <2>7, <2>8, <3>1, <3>2, <3>3 DEF r, S
  <2>9. CASE c > 0 /\ c >= n
    <3>1. f(n) = n * (w - 2 * c + n)
      BY <2>2, SMTT(30) DEF f, Along
    <3>2. n \in 0 .. n /\ w - 2 * c + n \in Int
      BY <2>2
    <3>3. r = <<w - 2 * c + n, 1>>
      BY <2>2, <2>3, <2>9
    <3>4. w - 2 * c + n \in Nat
      <4>1. n * 0 <= n * (w - 2 * c + n)
        BY <2>4, <3>1, <3>2
      <4>2. 0 <= w - 2 * c + n
        BY <2>2, <3>2, <4>1, FactorKeepsOrder
      <4>. QED  BY <3>2, <4>2
    <3>5. \A k \in 0 .. n : n * (w - 2 * c + n) <= f(k)
      BY <2>4, <2>9
    <3>. QED  BY <2>2, <2>5, <2>6, <2>7, <3>1, <3>2, <3>3, <3>4, <3>5 DEF r, S
  <2>10. CASE c > 0 /\ c < n
    <3>1. r = <<x * x, n>>
      BY <2>2, <2>3, <2>10
    <3>2. c \in 0 .. n /\ f(c) = x * x
      <4>1. c \in 0 .. n
        BY <2>2, <2>10
      <4>2. (c - c) * (c - c) = 0
        BY <2>2
      <4>. QED  BY <2>2, <2>4, <4>1, <4>2
    <3>3. x * x \in Nat
      BY <2>4, <3>2
    <3>4. r \in Fractions
      BY <2>2, <3>1, <3>3 DEF Fractions
    <3>5. \A k \in 0 .. n : AtMost(r, <<f(k), n>>)
      <4>. SUFFICES ASSUME NEW k \in 0 .. n  PROVE AtMost(r, <<f(k), n>>)
        OBVIOUS
      <4>1. n * (x * x) <= n * f(k)
        BY <2>2, <2>4, <3>3, FactorKeepsOrder
      <4>2. f(k) \in Int /\ x * x \in Int /\ n \in Int
        BY <2>2, <2>4, <3>3
      <4>3. PICK y \in Int : y = x * x
        BY <4>2
      <4>4. n * y = y * n /\ n * f(k) = f(k) * n
        BY <4>2, <4>3, SMTT(30)
      <4>. QED  BY <3>1, <4>1, <4>3, <4>4 DEF AtMost
    <3>6. <<f(c), n>> = r /\ AtMost(r, r)
      BY <3>1, <3>2, <3>4, AtMostOrders
    <3>7. <<f(c), n>> \in S
      BY <2>2, <3>2 DEF f
    <3>. QED  BY <2>2, <2>5, <2>6, <3>4, <3>5, <3>6, <3>7 DEF IsLeast, r, S, f
  <2>. QED  BY <2>2, <2>8, <2>9, <2>10
<1>. QED  BY <1>1, <1>2

\* The distance of a point from a segment is the true one.
LEMMA PointToSegmentIsTrue ==
  ASSUME NEW p \in Points, NEW a \in Points, NEW b \in Points
  PROVE  /\ PointToSegment(p, a, b) \in Fractions /\ ReferenceToSegment(p, a, b) \in Fractions
         /\ SameDistance(PointToSegment(p, a, b), ReferenceToSegment(p, a, b))
<1>1. ReferenceToSegment(p, a, b) = Least(Squares(p, a, b))
  BY DEF ReferenceToSegment, Squares
<1>2. PICK S : S = Squares(p, a, b)
  OBVIOUS
<1>3. S \in SUBSET Fractions /\ S # {} /\ IsFiniteSet(S)
      /\ PointToSegment(p, a, b) \in Fractions /\ IsLeast(PointToSegment(p, a, b), S)
  BY <1>2, NearestIsLeast
<1>4. Least(S) \in Fractions /\ IsLeast(Least(S), S)
  BY <1>3, LeastOfFinite
<1>5. SameDistance(PointToSegment(p, a, b), Least(S))
  BY <1>3, <1>4, LeastsAreTheSame
<1>. QED  BY <1>1, <1>2, <1>3, <1>4, <1>5

-----------------------------------------------------------------------------
(* Segments that meet.                                                     *)

\* A product is negative exactly if its factors have opposite signs.
LEMMA SignOfProduct ==
  ASSUME NEW x \in Int, NEW y \in Int
  PROVE  /\ x * y < 0 <=> (x < 0 /\ y > 0) \/ (x > 0 /\ y < 0)
         /\ x * y = 0 <=> x = 0 \/ y = 0
<1>1. x * y < 0 <=> (x < 0 /\ y > 0) \/ (x > 0 /\ y < 0)
  BY SMTT(30)
<1>2. x * y = 0 <=> x = 0 \/ y = 0
  BY SMTT(30)
<1>. QED  BY <1>1, <1>2

\* A factor other than zero can be cancelled.
LEMMA SameFactor ==
  ASSUME NEW x \in Int, NEW y \in Int, NEW k \in Nat, k > 0, k * x = k * y
  PROVE  x = y
<1>1. x <= y
  BY FactorKeepsOrder
<1>2. y <= x
  BY FactorKeepsOrder
<1>. QED  BY <1>1, <1>2

\* The point at t / m of the way from the start in direction d is there, for a
\* direction e that is not parallel to d.
LEMMA Proportion ==
  ASSUME NEW d1 \in Int, NEW d2 \in Int, NEW e1 \in Int, NEW e2 \in Int, NEW v1 \in Int, NEW v2 \in Int,
         NEW m \in Int, m = d1 * e2 - d2 * e1, NEW t \in Int, t = e2 * v1 - e1 * v2,
         d1 * v2 - d2 * v1 = 0
  PROVE  m * v1 = t * d1 /\ m * v2 = t * d2
<1>1. (d1 * e2 - d2 * e1) * v1 - (e2 * v1 - e1 * v2) * d1 = e1 * (d1 * v2 - d2 * v1)
  BY SMTT(30)
<1>2. (d1 * e2 - d2 * e1) * v2 - (e2 * v1 - e1 * v2) * d2 = e2 * (d1 * v2 - d2 * v1)
  BY SMTT(30)
<1>3. m * v1 \in Int /\ t * d1 \in Int /\ m * v2 \in Int /\ t * d2 \in Int
  OBVIOUS
<1>4. e1 * 0 = 0 /\ e2 * 0 = 0
  OBVIOUS
<1>5. m * v1 - t * d1 = 0
  BY <1>1, <1>4
<1>6. m * v2 - t * d2 = 0
  BY <1>2, <1>4
<1>. QED  BY <1>3, <1>5, <1>6

\* A point on the line through a segment, not before its start and not behind
\* its end, has no distance from it.
LEMMA OnSegment ==
  ASSUME NEW p \in Points, NEW q \in Points, NEW z \in Points, NEW e \in Points,
         NEW m \in Nat, m > 0, m = Cross(Minus(q, p), e),
         Cross(Minus(q, p), Minus(p, z)) = 0,
         NEW t \in 0 .. m, t = Cross(e, Minus(p, z))
  PROVE  PointToSegment(z, p, q)[1] = 0
<1>0. /\ q[1] - p[1] \in Int /\ q[2] - p[2] \in Int /\ e[1] \in Int /\ e[2] \in Int
      /\ z[1] - p[1] \in Int /\ z[2] - p[2] \in Int /\ p[1] \in Int /\ p[2] \in Int
  <2>1. \A r \in Points : r[1] \in Int /\ r[2] \in Int
    BY DEF Points
  <2>. QED  BY <2>1
<1>1. PICK d1 \in Int, d2 \in Int, e1 \in Int, e2 \in Int, v1 \in Int, v2 \in Int :
        /\ d1 = q[1] - p[1] /\ d2 = q[2] - p[2] /\ e1 = e[1] /\ e2 = e[2]
        /\ v1 = z[1] - p[1] /\ v2 = z[2] - p[2]
  BY <1>0
<1>2. Minus(q, p) = <<d1, d2>> /\ Minus(z, p) = <<v1, v2>> /\ Minus(p, z) = <<0 - v1, 0 - v2>>
  BY <1>1 DEF Minus, Points
<1>3. m = d1 * e2 - d2 * e1
  BY <1>1, <1>2 DEF Cross
<1>4. t = e2 * v1 - e1 * v2 /\ d1 * v2 - d2 * v1 = 0
  <2>1. t = e1 * (0 - v2) - e2 * (0 - v1) /\ d1 * (0 - v2) - d2 * (0 - v1) = 0
    BY <1>1, <1>2 DEF Cross
  <2>2. /\ e1 * (0 - v2) = 0 - e1 * v2 /\ e2 * (0 - v1) = 0 - e2 * v1
        /\ d1 * (0 - v2) = 0 - d1 * v2 /\ d2 * (0 - v1) = 0 - d2 * v1
    BY SMTT(30)
  <2>. QED  BY <2>1, <2>2
<1>5. m * v1 = t * d1 /\ m * v2 = t * d2
  BY <1>3, <1>4, Proportion
<1>6. PICK n, w, c, x : /\ n = SquaredNorm(Minus(q, p)) /\ w = SquaredNorm(Minus(z, p))
                        /\ c = Dot(Minus(z, p), Minus(q, p)) /\ x = Cross(Minus(q, p), Minus(z, p))
  OBVIOUS
<1>7. n = d1 * d1 + d2 * d2 /\ w = v1 * v1 + v2 * v2 /\ c = v1 * d1 + v2 * d2 /\ x = 0
  BY <1>2, <1>4, <1>6 DEF SquaredNorm, Dot, Cross
<1>8. p # q
  <2>1. 0 * e2 - 0 * e1 = 0
    OBVIOUS
  <2>2. p = q => d1 = 0 /\ d2 = 0
    BY <1>0, <1>1
  <2>. QED  BY <1>3, <2>1, <2>2
<1>9. /\ n \in Nat /\ n > 0 /\ c \in Int /\ w \in Nat
      /\ PointToSegment(z, p, q) =
           CASE c <= 0 -> <<w, 1>>
             [] c > 0 /\ c >= n -> <<w - 2 * c + n, 1>>
             [] OTHER -> <<x * x, n>>
  BY <1>6, <1>8, SquaresOfSegment
<1>10. m * c = t * n
  <2>1. m * (v1 * d1 + v2 * d2) = (m * v1) * d1 + (m * v2) * d2
    BY SMTT(30)
  <2>2. (t * d1) * d1 + (t * d2) * d2 = t * (d1 * d1 + d2 * d2)
    BY SMTT(30)
  <2>. QED  BY <1>5, <1>7, <2>1, <2>2
<1>11. CASE c <= 0
  <2>1. m * c <= m * 0 /\ n * 0 <= n * t /\ n * t = t * n
    <3>1. m * c <= m * 0
      BY <1>9, <1>11, FactorKeepsOrder
    <3>2. n * 0 <= n * t
      BY <1>9, FactorKeepsOrder
    <3>3. n * t = t * n
      BY <1>9, SMTT(30)
    <3>. QED  BY <3>1, <3>2, <3>3
  <2>2. n * t = n * 0
    <3>1. m * 0 = 0 /\ n * 0 = 0 /\ n * t \in Int
      BY <1>9
    <3>. QED  BY <1>10, <2>1, <3>1
  <2>3. t = 0
    BY <1>9, <2>2, SameFactor
  <2>4. m * v1 = m * 0 /\ m * v2 = m * 0
    <3>1. 0 * d1 = 0 /\ 0 * d2 = 0 /\ m * 0 = 0
      OBVIOUS
    <3>. QED  BY <1>5, <2>3, <3>1
  <2>5. v1 = 0 /\ v2 = 0
    BY <2>4, SameFactor
  <2>6. w = 0
    BY <1>7, <2>5
  <2>. QED  BY <1>9, <1>11, <2>6
<1>12. CASE c > 0 /\ c >= n
  <2>1. m * n <= m * c /\ n * t <= n * m /\ n * t = t * n /\ n * m = m * n
    <3>1. m * n <= m * c
      BY <1>9, <1>12, FactorKeepsOrder
    <3>2. n * t <= n * m
      BY <1>9, FactorKeepsOrder
    <3>3. n * t = t * n /\ n * m = m * n
      BY <1>9, SMTT(30)
    <3>. QED  BY <3>1, <3>2, <3>3
  <2>2. n * t = n * m
    <3>1. m * n \in Int /\ n * t \in Int /\ m * c \in Int
      BY <1>9
    <3>. QED  BY <1>10, <2>1, <3>1
  <2>3. t = m
    BY <1>9, <2>2, SameFactor
  <2>4. v1 = d1 /\ v2 = d2
    BY <1>5, <2>3, SameFactor
  <2>5. w = n /\ c = n
    BY <1>7, <2>4
  <2>6. w - 2 * c + n = 0
    BY <1>9, <2>5
  <2>7. ~(c <= 0)
    BY <1>9, <1>12
  <2>. QED  BY <1>9, <1>12, <2>6, <2>7
<1>13. CASE c > 0 /\ c < n
  <2>1. x * x = 0
    BY <1>7
  <2>2. ~(c <= 0) /\ ~(c >= n)
    BY <1>9, <1>13
  <2>. QED  BY <1>9, <1>13, <2>1, <2>2
<1>. QED  BY <1>9, <1>11, <1>12, <1>13

\* What decides whether two segments meet, from any of their ends.
LEMMA Sides ==
  ASSUME NEW p \in Points, NEW q \in Points, NEW a \in Points, NEW b \in Points,
         NEW m, m = Cross(Minus(q, p), Minus(b, a)),
         NEW s, s = Cross(Minus(q, p), Minus(p, a)), NEW t, t = Cross(Minus(b, a), Minus(p, a))
  PROVE  /\ m \in Int /\ s \in Int /\ t \in Int
         /\ Cross(Minus(q, p), Minus(a, p)) = 0 - s /\ Cross(Minus(q, p), Minus(b, p)) = m - s
         /\ Cross(Minus(b, a), Minus(q, a)) = t - m
         /\ Cross(Minus(q, p), Minus(p, b)) = s - m /\ Cross(Minus(b, a), Minus(p, b)) = t
         /\ Cross(Minus(b, a), Minus(p, q)) = m
         /\ Cross(Minus(b, a), Minus(a, p)) = 0 - t /\ Cross(Minus(p, q), Minus(a, p)) = s
         /\ Cross(Minus(b, a), Minus(a, q)) = m - t /\ Cross(Minus(p, q), Minus(a, q)) = s
<1>1. /\ q[1] - p[1] \in Int /\ q[2] - p[2] \in Int /\ b[1] - a[1] \in Int /\ b[2] - a[2] \in Int
      /\ p[1] - a[1] \in Int /\ p[2] - a[2] \in Int /\ p[1] \in Int /\ p[2] \in Int
      /\ q[1] \in Int /\ q[2] \in Int /\ a[1] \in Int /\ a[2] \in Int /\ b[1] \in Int /\ b[2] \in Int
  BY PointOperations
<1>2. PICK d1 \in Int, d2 \in Int, e1 \in Int, e2 \in Int, u1 \in Int, u2 \in Int :
        /\ d1 = q[1] - p[1] /\ d2 = q[2] - p[2] /\ e1 = b[1] - a[1] /\ e2 = b[2] - a[2]
        /\ u1 = p[1] - a[1] /\ u2 = p[2] - a[2]
  BY <1>1
<1>3. /\ Minus(q, p) = <<d1, d2>> /\ Minus(b, a) = <<e1, e2>> /\ Minus(p, a) = <<u1, u2>>
      /\ Minus(a, p) = <<0 - u1, 0 - u2>> /\ Minus(p, q) = <<0 - d1, 0 - d2>>
      /\ Minus(b, p) = <<e1 - u1, e2 - u2>> /\ Minus(p, b) = <<u1 - e1, u2 - e2>>
      /\ Minus(q, a) = <<d1 + u1, d2 + u2>> /\ Minus(a, q) = <<0 - d1 - u1, 0 - d2 - u2>>
  BY <1>1, <1>2 DEF Minus
<1>4. \A v1, v2, w1, w2 : Cross(<<v1, v2>>, <<w1, w2>>) = v1 * w2 - v2 * w1
  BY DEF Cross
<1>5. m = d1 * e2 - d2 * e1 /\ s = d1 * u2 - d2 * u1 /\ t = e1 * u2 - e2 * u1
  BY <1>3, <1>4
<1>6. m \in Int /\ s \in Int /\ t \in Int
  BY <1>5
<1>7. d1 * (0 - u2) - d2 * (0 - u1) = 0 - (d1 * u2 - d2 * u1)
  BY SMTT(30)
<1>8. d1 * (e2 - u2) - d2 * (e1 - u1) = (d1 * e2 - d2 * e1) - (d1 * u2 - d2 * u1)
  BY SMTT(30)
<1>9. e1 * (d2 + u2) - e2 * (d1 + u1) = (e1 * u2 - e2 * u1) - (d1 * e2 - d2 * e1)
  BY SMTT(30)
<1>10. d1 * (u2 - e2) - d2 * (u1 - e1) = (d1 * u2 - d2 * u1) - (d1 * e2 - d2 * e1)
  BY SMTT(30)
<1>11. e1 * (u2 - e2) - e2 * (u1 - e1) = e1 * u2 - e2 * u1
  BY SMTT(30)
<1>12. e1 * (0 - d2) - e2 * (0 - d1) = d1 * e2 - d2 * e1
  BY SMTT(30)
<1>13. e1 * (0 - u2) - e2 * (0 - u1) = 0 - (e1 * u2 - e2 * u1)
  BY SMTT(30)
<1>14. (0 - d1) * (0 - u2) - (0 - d2) * (0 - u1) = d1 * u2 - d2 * u1
  BY SMTT(30)
<1>15. e1 * (0 - d2 - u2) - e2 * (0 - d1 - u1) = (d1 * e2 - d2 * e1) - (e1 * u2 - e2 * u1)
  BY SMTT(30)
<1>16. (0 - d1) * (0 - d2 - u2) - (0 - d2) * (0 - d1 - u1) = d1 * u2 - d2 * u1
  BY SMTT(30)
<1>17. Cross(Minus(q, p), Minus(a, p)) = 0 - s
  BY <1>3, <1>4, <1>5, <1>7
<1>18. Cross(Minus(q, p), Minus(b, p)) = m - s
  BY <1>3, <1>4, <1>5, <1>8
<1>19. Cross(Minus(b, a), Minus(q, a)) = t - m
  BY <1>3, <1>4, <1>5, <1>9
<1>20. Cross(Minus(q, p), Minus(p, b)) = s - m /\ Cross(Minus(b, a), Minus(p, b)) = t
  BY <1>3, <1>4, <1>5, <1>10, <1>11
<1>21. Cross(Minus(b, a), Minus(p, q)) = m
  BY <1>3, <1>4, <1>5, <1>12
<1>22. Cross(Minus(b, a), Minus(a, p)) = 0 - t /\ Cross(Minus(p, q), Minus(a, p)) = s
  BY <1>3, <1>4, <1>5, <1>13, <1>14
<1>23. Cross(Minus(b, a), Minus(a, q)) = m - t /\ Cross(Minus(p, q), Minus(a, q)) = s
  BY <1>3, <1>4, <1>5, <1>15, <1>16
<1>. QED  BY <1>6, <1>17, <1>18, <1>19, <1>20, <1>21, <1>22, <1>23

\* A distance is zero exactly if its numerator is.
LEMMA ZeroDistance ==
  ASSUME NEW f \in Fractions
  PROVE  /\ SameDistance(f, <<0, 1>>) <=> f[1] = 0
         /\ <<0, 1>> \in Fractions /\ AtMost(<<0, 1>>, f)
         /\ \A r \in Fractions : AtMost(r, f) /\ f[1] = 0 => r[1] = 0
<1>1. f[1] \in Nat /\ f[2] \in Nat /\ (f[1] > 0 \/ f[2] > 0)
  BY DEF Fractions
<1>2. SameDistance(f, <<0, 1>>) <=> f[1] = 0
  BY <1>1 DEF SameDistance
<1>3. <<0, 1>> \in Fractions /\ AtMost(<<0, 1>>, f)
  BY <1>1 DEF Fractions, AtMost
<1>4. ASSUME NEW r \in Fractions, AtMost(r, f), f[1] = 0  PROVE r[1] = 0
  <2>1. PICK x \in Nat, y \in Nat, k \in Nat : x = r[1] /\ y = r[2] /\ k = f[2] /\ k > 0
    BY <1>1, <1>4 DEF Fractions
  <2>2. x * k <= 0 * y
    BY <1>4, <2>1 DEF AtMost
  <2>3. k * x <= k * 0
    <3>1. x * k = k * x /\ 0 * y = 0 /\ k * 0 = 0
      OBVIOUS
    <3>. QED  BY <2>2, <3>1
  <2>4. x <= 0
    BY <2>1, <2>3, FactorKeepsOrder
  <2>. QED  BY <2>1, <2>4
<1>. QED  BY <1>2, <1>3, <1>4

\* Neither end of a segment is nearer than the nearest point.
LEMMA EndsAreNotNearer ==
  ASSUME NEW p \in Points, NEW a \in Points, NEW b \in Points
  PROVE  /\ AtMost(PointToSegment(p, a, b), <<SquaredNorm(Minus(p, a)), 1>>)
         /\ AtMost(PointToSegment(p, a, b), <<SquaredNorm(Minus(p, b)), 1>>)
<1>0. PointToSegment(p, a, b) \in Fractions
  BY NearestIsLeast
<1>1. CASE a = b
  <2>1. PointToSegment(p, a, b) = <<SquaredNorm(Minus(p, a)), 1>>
    BY <1>1, SquaresOfPoint
  <2>. QED  BY <1>0, <1>1, <2>1, AtMostOrders
<1>2. CASE a # b
  <2>1. PICK n, w, c, x : /\ n = SquaredNorm(Minus(b, a)) /\ w = SquaredNorm(Minus(p, a))
                          /\ c = Dot(Minus(p, a), Minus(b, a))
                          /\ x = Cross(Minus(b, a), Minus(p, a))
    OBVIOUS
  <2>. DEFINE r == PointToSegment(p, a, b)
  <2>2. /\ Squares(p, a, b) = {<<Along(n, w, c, k), n>> : k \in 0 .. n}
        /\ n \in Nat /\ n > 0 /\ w \in Nat /\ c \in Int
    BY <1>2, <2>1, SquaresOfSegment
  <2>3. PICK u \in Nat : u = SquaredNorm(Minus(p, b)) /\ u = w - 2 * c + n
    <3>1. SquaredNorm(Minus(p, b)) \in Nat
      BY PointOperations, SquaredNorms
    <3>. QED  BY <2>1, <3>1, Cosine
  <2>4. Along(n, w, c, 0) = n * w
    BY <2>2 DEF Along
  <2>5. Along(n, w, c, n) = n * u
    BY <2>2, <2>3, SMTT(30) DEF Along
  <2>6. AtMost(r, <<n * w, n>>) /\ AtMost(r, <<n * u, n>>)
    <3>1. IsLeast(r, Squares(p, a, b))
      BY NearestIsLeast
    <3>2. 0 \in 0 .. n /\ n \in 0 .. n
      BY <2>2
    <3>3. <<n * w, n>> \in Squares(p, a, b) /\ <<n * u, n>> \in Squares(p, a, b)
      BY <2>2, <2>4, <2>5, <3>2
    <3>. QED  BY <3>1, <3>3 DEF IsLeast
  <2>. HIDE DEF r
  <2>7. ASSUME NEW k \in Nat, AtMost(r, <<n * k, n>>)  PROVE AtMost(r, <<k, 1>>)
    <3>1. n * k \in Nat
      BY <2>2, SMTT(30)
    <3>2. <<n * k, n>> \in Fractions /\ <<k, 1>> \in Fractions
      BY <2>2, <3>1 DEF Fractions
    <3>3. (n * k) * 1 <= k * n
      BY <2>2, SMTT(30)
    <3>4. AtMost(<<n * k, n>>, <<k, 1>>)
      BY <3>3 DEF AtMost
    <3>. QED  BY <1>0, <2>7, <3>2, <3>4, AtMostTrans DEF r
  <2>. QED  BY <2>1, <2>2, <2>3, <2>6, <2>7 DEF r
<1>. QED  BY <1>1, <1>2

-----------------------------------------------------------------------------
(* The distance of two segments.                                           *)

Segments == Points \X Points

EndDistances(d, e) ==
  {ReferenceToSegment(d[1], e[1], e[2]), ReferenceToSegment(d[2], e[1], e[2]),
   ReferenceToSegment(e[1], d[1], d[2]), ReferenceToSegment(e[2], d[1], d[2])}

\* No distance if they meet, that of the nearest end otherwise.
Apart(d, e) == IF Meet(d[1], d[2], e[1], e[2]) THEN <<0, 1>> ELSE Least(EndDistances(d, e))

\* One passes through the other, with no end on it.
PassThrough(d, e) ==
  LET m == Cross(Minus(d[2], d[1]), Minus(e[2], e[1]))
      s == Cross(Minus(d[2], d[1]), Minus(d[1], e[1]))
      t == Cross(Minus(e[2], e[1]), Minus(d[1], e[1]))
  IN (m > 0 /\ 0 < s /\ s < m /\ 0 < t /\ t < m) \/ (m < 0 /\ m < s /\ s < 0 /\ m < t /\ t < 0)

\* The distances of the ends are finitely many fractions.
LEMMA EndDistancesType ==
  ASSUME NEW d \in Segments, NEW e \in Segments
  PROVE  /\ d[1] \in Points /\ d[2] \in Points /\ e[1] \in Points /\ e[2] \in Points
         /\ EndDistances(d, e) \in SUBSET Fractions /\ EndDistances(d, e) # {}
         /\ IsFiniteSet(EndDistances(d, e))
<1>1. d[1] \in Points /\ d[2] \in Points /\ e[1] \in Points /\ e[2] \in Points
  BY DEF Segments
<1>2. PICK f1 \in Fractions, f2 \in Fractions, f3 \in Fractions, f4 \in Fractions :
        /\ f1 = ReferenceToSegment(d[1], e[1], e[2]) /\ f2 = ReferenceToSegment(d[2], e[1], e[2])
        /\ f3 = ReferenceToSegment(e[1], d[1], d[2]) /\ f4 = ReferenceToSegment(e[2], d[1], d[2])
  BY <1>1, PointToSegmentIsTrue
<1>3. EndDistances(d, e) = {f1, f2, f3, f4}
  BY <1>2 DEF EndDistances
<1>4. IsFiniteSet({f1, f2, f3, f4})
  <2>1. IsFiniteSet({f1}) /\ IsFiniteSet({f1} \cup {f2})
    BY FS_Singleton, FS_AddElement
  <2>2. IsFiniteSet(({f1} \cup {f2}) \cup {f3})
    BY <2>1, FS_AddElement
  <2>3. IsFiniteSet((({f1} \cup {f2}) \cup {f3}) \cup {f4})
    BY <2>2, FS_AddElement
  <2>4. (({f1} \cup {f2}) \cup {f3}) \cup {f4} = {f1, f2, f3, f4}
    OBVIOUS
  <2>. QED  BY <2>3, <2>4
<1>. QED  BY <1>1, <1>3, <1>4

\* Segments meet if one passes through the other or an end has no distance.
LEMMA MeetingSegments ==
  ASSUME NEW d \in Segments, NEW e \in Segments
  PROVE  Meet(d[1], d[2], e[1], e[2]) <=> PassThrough(d, e) \/ \E f \in EndDistances(d, e) : f[1] = 0
<1>. DEFINE p == d[1]  q == d[2]  a == e[1]  b == e[2]
<1>1. p \in Points /\ q \in Points /\ a \in Points /\ b \in Points
  BY EndDistancesType
<1>2. PICK m, s, t : /\ m = Cross(Minus(q, p), Minus(b, a)) /\ s = Cross(Minus(q, p), Minus(p, a))
                     /\ t = Cross(Minus(b, a), Minus(p, a))
  OBVIOUS
<1>. HIDE DEF p, q, a, b
<1>3. /\ m \in Int /\ s \in Int /\ t \in Int
      /\ Cross(Minus(q, p), Minus(a, p)) = 0 - s /\ Cross(Minus(q, p), Minus(b, p)) = m - s
      /\ Cross(Minus(b, a), Minus(p, a)) = t /\ Cross(Minus(b, a), Minus(q, a)) = t - m
  BY <1>1, <1>2, Sides
<1>4. PassThrough(d, e) <=> \/ m > 0 /\ 0 < s /\ s < m /\ 0 < t /\ t < m
                            \/ m < 0 /\ m < s /\ s < 0 /\ m < t /\ t < 0
  BY <1>2 DEF PassThrough, p, q, a, b
<1>5. (0 - s) * (m - s) < 0 /\ t * (t - m) < 0 <=> PassThrough(d, e)
  <2>1. (0 - s) * (m - s) < 0 <=> (0 - s < 0 /\ m - s > 0) \/ (0 - s > 0 /\ m - s < 0)
    BY <1>3, SignOfProduct
  <2>2. t * (t - m) < 0 <=> (t < 0 /\ t - m > 0) \/ (t > 0 /\ t - m < 0)
    BY <1>3, SignOfProduct
  <2>. QED  BY <1>3, <1>4, <2>1, <2>2
<1>6. (\E c \in {a, b} : SameDistance(ReferenceToSegment(c, p, q), <<0, 1>>))
        \/ (\E c \in {p, q} : SameDistance(ReferenceToSegment(c, a, b), <<0, 1>>))
      <=> \E f \in EndDistances(d, e) : f[1] = 0
  <2>1. \A f \in EndDistances(d, e) : SameDistance(f, <<0, 1>>) <=> f[1] = 0
    BY EndDistancesType, ZeroDistance
  <2>2. EndDistances(d, e) = {ReferenceToSegment(p, a, b), ReferenceToSegment(q, a, b),
                              ReferenceToSegment(a, p, q), ReferenceToSegment(b, p, q)}
    BY DEF EndDistances, p, q, a, b
  <2>. QED  BY <2>1, <2>2
<1>7. Meet(p, q, a, b) <=>
        \/ /\ (0 - s) * (m - s) < 0
           /\ t * (t - m) < 0
        \/ \E c \in {a, b} : SameDistance(ReferenceToSegment(c, p, q), <<0, 1>>)
        \/ \E c \in {p, q} : SameDistance(ReferenceToSegment(c, a, b), <<0, 1>>)
  BY <1>3 DEF Meet
<1>. QED  BY <1>5, <1>6, <1>7 DEF p, q, a, b

\* The test of check_line_segments_intersection_2d() finds segments that meet,
\* and all of which one passes through the other.
LEMMA IntersectionIsMeeting ==
  ASSUME NEW d \in Segments, NEW e \in Segments
  PROVE  /\ SegmentsIntersect(d[1], d[2], e[1], e[2]) => Meet(d[1], d[2], e[1], e[2])
         /\ PassThrough(d, e) => SegmentsIntersect(d[1], d[2], e[1], e[2])
<1>. DEFINE p == d[1]  q == d[2]  a == e[1]  b == e[2]
<1>1. p \in Points /\ q \in Points /\ a \in Points /\ b \in Points
  BY EndDistancesType
<1>2. PICK m, s, t : /\ m = Cross(Minus(q, p), Minus(b, a)) /\ s = Cross(Minus(q, p), Minus(p, a))
                     /\ t = Cross(Minus(b, a), Minus(p, a))
  OBVIOUS
<1>3. PassThrough(d, e) <=> \/ m > 0 /\ 0 < s /\ s < m /\ 0 < t /\ t < m
                            \/ m < 0 /\ m < s /\ s < 0 /\ m < t /\ t < 0
  BY <1>2 DEF PassThrough
<1>4. SegmentsIntersect(p, q, a, b) <=> \/ m > 0 /\ s \in 0 .. m /\ t \in 0 .. m
                                        \/ m < 0 /\ s \in m + 1 .. -1 /\ t \in m + 1 .. -1
  BY <1>2 DEF SegmentsIntersect
<1>5. EndDistances(d, e) = {ReferenceToSegment(p, a, b), ReferenceToSegment(q, a, b),
                            ReferenceToSegment(a, p, q), ReferenceToSegment(b, p, q)}
  BY DEF EndDistances
<1>6. (\E f \in EndDistances(d, e) : f[1] = 0) \/ PassThrough(d, e) => Meet(p, q, a, b)
  BY MeetingSegments
<1>. HIDE DEF p, q, a, b
<1>7. /\ m \in Int /\ s \in Int /\ t \in Int
      /\ Cross(Minus(q, p), Minus(p, b)) = s - m /\ Cross(Minus(b, a), Minus(p, b)) = t
      /\ Cross(Minus(b, a), Minus(p, q)) = m
      /\ Cross(Minus(b, a), Minus(a, p)) = 0 - t /\ Cross(Minus(p, q), Minus(a, p)) = s
      /\ Cross(Minus(b, a), Minus(a, q)) = m - t /\ Cross(Minus(p, q), Minus(a, q)) = s
  BY <1>1, <1>2, Sides
<1>8. ASSUME NEW z \in Points, NEW x \in Points, NEW y \in Points, PointToSegment(z, x, y)[1] = 0
      PROVE  ReferenceToSegment(z, x, y)[1] = 0
  <2>1. PICK f \in Fractions, r \in Fractions :
          f = PointToSegment(z, x, y) /\ r = ReferenceToSegment(z, x, y) /\ SameDistance(f, r)
    BY PointToSegmentIsTrue
  <2>2. AtMost(r, f)
    BY <2>1, AtMostOrders
  <2>. QED  BY <1>8, <2>1, <2>2, ZeroDistance
<1>9. ASSUME m > 0, s \in 0 .. m, t \in 0 .. m, s = 0 \/ s = m \/ t = 0 \/ t = m
      PROVE  \E f \in EndDistances(d, e) : f[1] = 0
  <2>1. /\ Minus(b, a) \in Points /\ Minus(p, q) \in Points /\ m \in Nat
    BY <1>1, <1>7, <1>9, PointOperations
  <2>2. CASE s = 0
    <3>1. PointToSegment(a, p, q)[1] = 0
      BY <1>1, <1>2, <1>9, <2>1, <2>2, OnSegment
    <3>. QED  BY <1>1, <1>5, <1>8, <3>1
  <2>3. CASE s = m
    <3>1. Cross(Minus(q, p), Minus(p, b)) = 0
      BY <1>7, <2>3
    <3>2. PointToSegment(b, p, q)[1] = 0
      BY <1>1, <1>2, <1>7, <1>9, <2>1, <3>1, OnSegment
    <3>. QED  BY <1>1, <1>5, <1>8, <3>2
  <2>4. CASE t = 0
    <3>1. Cross(Minus(b, a), Minus(a, p)) = 0
      BY <1>7, <2>4
    <3>2. PointToSegment(p, a, b)[1] = 0
      BY <1>1, <1>7, <1>9, <2>1, <3>1, OnSegment
    <3>. QED  BY <1>1, <1>5, <1>8, <3>2
  <2>5. CASE t = m
    <3>1. Cross(Minus(b, a), Minus(a, q)) = 0
      BY <1>7, <2>5
    <3>2. PointToSegment(q, a, b)[1] = 0
      BY <1>1, <1>7, <1>9, <2>1, <3>1, OnSegment
    <3>. QED  BY <1>1, <1>5, <1>8, <3>2
  <2>. QED  BY <1>9, <2>2, <2>3, <2>4, <2>5
<1>10. SegmentsIntersect(p, q, a, b) => Meet(p, q, a, b)
  <2>. SUFFICES ASSUME SegmentsIntersect(p, q, a, b)  PROVE Meet(p, q, a, b)
    OBVIOUS
  <2>1. CASE m > 0 /\ (s = 0 \/ s = m \/ t = 0 \/ t = m)
    <3>1. s \in 0 .. m /\ t \in 0 .. m
      BY <1>4, <1>7, <2>1
    <3>. QED  BY <1>6, <1>9, <2>1, <3>1
  <2>2. CASE ~(m > 0 /\ (s = 0 \/ s = m \/ t = 0 \/ t = m))
    <3>1. PassThrough(d, e)
      BY <1>3, <1>4, <1>7, <2>2
    <3>. QED  BY <1>6, <3>1
  <2>. QED  BY <2>1, <2>2
<1>11. PassThrough(d, e) => SegmentsIntersect(p, q, a, b)
  BY <1>3, <1>4, <1>7
<1>. QED  BY <1>10, <1>11 DEF p, q, a, b

\* The distance of two segments is a fraction.
LEMMA ApartType ==
  ASSUME NEW d \in Segments, NEW e \in Segments
  PROVE  Apart(d, e) \in Fractions
<1>1. <<0, 1>> \in Fractions
  BY DEF Fractions
<1>2. Least(EndDistances(d, e)) \in Fractions
  BY EndDistancesType, LeastOfFinite
<1>. QED  BY <1>1, <1>2 DEF Apart

\* The nearest end tells the distance, unless one passes through the other.
LEMMA NearestEnd ==
  ASSUME NEW d \in Segments, NEW e \in Segments, ~PassThrough(d, e),
         NEW r \in Fractions, IsLeast(r, EndDistances(d, e))
  PROVE  SameDistance(r, Apart(d, e))
<1>1. CASE Meet(d[1], d[2], e[1], e[2])
  <2>1. PICK f \in EndDistances(d, e) : f[1] = 0
    BY <1>1, MeetingSegments
  <2>2. f \in Fractions /\ AtMost(r, f)
    BY <2>1, EndDistancesType DEF IsLeast
  <2>3. r[1] = 0
    BY <2>1, <2>2, ZeroDistance
  <2>. QED  BY <1>1, <2>3, ZeroDistance DEF Apart
<1>2. CASE ~Meet(d[1], d[2], e[1], e[2])
  <2>1. PICK S : S = EndDistances(d, e)
    OBVIOUS
  <2>2. S \in SUBSET Fractions /\ S # {} /\ IsFiniteSet(S)
    BY <2>1, EndDistancesType
  <2>3. Least(S) \in Fractions /\ IsLeast(Least(S), S)
    BY <2>2, LeastOfFinite
  <2>4. SameDistance(r, Least(S))
    BY <2>1, <2>2, <2>3, LeastsAreTheSame
  <2>. QED  BY <1>2, <2>1, <2>4 DEF Apart
<1>. QED  BY <1>1, <1>2

\* The distance of two segments is the true one.
LEMMA SegmentToSegmentIsTrue ==
  ASSUME NEW d \in Segments, NEW e \in Segments
  PROVE  /\ SegmentToSegment(d[1], d[2], e[1], e[2]) \in Fractions
         /\ SameDistance(SegmentToSegment(d[1], d[2], e[1], e[2]), Apart(d, e))
<1>1. CASE SegmentsIntersect(d[1], d[2], e[1], e[2])
  <2>1. Meet(d[1], d[2], e[1], e[2])
    BY <1>1, IntersectionIsMeeting
  <2>2. SegmentToSegment(d[1], d[2], e[1], e[2]) = <<0, 1>> /\ Apart(d, e) = <<0, 1>>
    BY <1>1, <2>1 DEF SegmentToSegment, Apart
  <2>3. <<0, 1>> \in Fractions
    BY DEF Fractions
  <2>. QED  BY <2>2, <2>3, ZeroDistance
<1>2. CASE ~SegmentsIntersect(d[1], d[2], e[1], e[2])
  <2>1. ~PassThrough(d, e)
    BY <1>2, IntersectionIsMeeting
  <2>2. d[1] \in Points /\ d[2] \in Points /\ e[1] \in Points /\ e[2] \in Points
    BY EndDistancesType
  <2>3. PICK f1 \in Fractions, f2 \in Fractions, f3 \in Fractions, f4 \in Fractions :
          /\ f1 = PointToSegment(d[1], e[1], e[2]) /\ f2 = PointToSegment(d[2], e[1], e[2])
          /\ f3 = PointToSegment(e[1], d[1], d[2]) /\ f4 = PointToSegment(e[2], d[1], d[2])
    BY <2>2, PointToSegmentIsTrue
  <2>4. PICK g1 \in Fractions, g2 \in Fractions, g3 \in Fractions, g4 \in Fractions :
          /\ g1 = ReferenceToSegment(d[1], e[1], e[2]) /\ g2 = ReferenceToSegment(d[2], e[1], e[2])
          /\ g3 = ReferenceToSegment(e[1], d[1], d[2]) /\ g4 = ReferenceToSegment(e[2], d[1], d[2])
    BY <2>2, PointToSegmentIsTrue
  <2>5. SameDistance(f1, g1) /\ SameDistance(f2, g2)
    BY <2>2, <2>3, <2>4, PointToSegmentIsTrue
  <2>6. SameDistance(f3, g3) /\ SameDistance(f4, g4)
    BY <2>2, <2>3, <2>4, PointToSegmentIsTrue
  <2>7. /\ AtMost(f1, g1) /\ AtMost(g1, f1) /\ AtMost(f2, g2) /\ AtMost(g2, f2)
        /\ AtMost(f3, g3) /\ AtMost(g3, f3) /\ AtMost(f4, g4) /\ AtMost(g4, f4)
    BY <2>5, <2>6, AtMostOrders
  <2>8. EndDistances(d, e) = {g1, g2, g3, g4}
    BY <2>4 DEF EndDistances
  <2>9. SegmentToSegment(d[1], d[2], e[1], e[2]) = Least({f1, f2, f3, f4})
    <3>1. {PointToSegment(d[1], e[1], e[2]), PointToSegment(d[2], e[1], e[2]),
           PointToSegment(e[1], d[1], d[2]), PointToSegment(e[2], d[1], d[2])} = {f1, f2, f3, f4}
      BY <2>3
    <3>. QED  BY <1>2, <3>1, Zenon DEF SegmentToSegment
  <2>10. PICK r \in Fractions : r = Least({f1, f2, f3, f4}) /\ IsLeast(r, {f1, f2, f3, f4})
    <3>1. IsFiniteSet({f1, f2, f3, f4})
      <4>1. IsFiniteSet({f1}) /\ IsFiniteSet({f1} \cup {f2})
        BY FS_Singleton, FS_AddElement
      <4>2. IsFiniteSet(({f1} \cup {f2}) \cup {f3})
        BY <4>1, FS_AddElement
      <4>3. IsFiniteSet((({f1} \cup {f2}) \cup {f3}) \cup {f4})
        BY <4>2, FS_AddElement
      <4>4. (({f1} \cup {f2}) \cup {f3}) \cup {f4} = {f1, f2, f3, f4}
        OBVIOUS
      <4>. QED  BY <4>3, <4>4
    <3>2. PICK F : F = {f1, f2, f3, f4}
      OBVIOUS
    <3>3. F \in SUBSET Fractions /\ F # {} /\ IsFiniteSet(F)
      BY <3>1, <3>2
    <3>4. Least(F) \in Fractions /\ IsLeast(Least(F), F)
      BY <3>3, LeastOfFinite
    <3>. QED  BY <3>2, <3>4
  <2>11. IsLeast(r, {g1, g2, g3, g4})
    <3>1. AtMost(r, f1) /\ AtMost(r, f2) /\ AtMost(r, f3) /\ AtMost(r, f4)
      BY <2>10 DEF IsLeast
    <3>2. AtMost(r, g1) /\ AtMost(r, g2) /\ AtMost(r, g3) /\ AtMost(r, g4)
      BY <2>7, <3>1, AtMostTrans
    <3>3. AtMost(f1, r) \/ AtMost(f2, r) \/ AtMost(f3, r) \/ AtMost(f4, r)
      BY <2>10 DEF IsLeast
    <3>4. AtMost(g1, r) \/ AtMost(g2, r) \/ AtMost(g3, r) \/ AtMost(g4, r)
      BY <2>7, <3>3, AtMostTrans
    <3>. QED  BY <3>2, <3>4 DEF IsLeast
  <2>. QED  BY <2>1, <2>8, <2>9, <2>10, <2>11, NearestEnd
<1>. QED  BY <1>1, <1>2

\* So is the distance of a point from a segment.
LEMMA PointIsApart ==
  ASSUME NEW p \in Points, NEW e \in Segments
  PROVE  /\ PointToSegment(p, e[1], e[2]) \in Fractions
         /\ SameDistance(PointToSegment(p, e[1], e[2]), Apart(<<p, p>>, e))
<1>. DEFINE d == <<p, p>>  r == PointToSegment(p, e[1], e[2])
<1>1. d \in Segments /\ e[1] \in Points /\ e[2] \in Points
  BY DEF Segments
<1>2. r \in Fractions
  BY <1>1, NearestIsLeast
<1>3. ~PassThrough(d, e)
  <2>1. Minus(p, p) = <<0, 0>>
    BY DEF Minus, Points
  <2>2. Minus(e[2], e[1]) \in Points
    BY <1>1, PointOperations
  <2>3. Cross(<<0, 0>>, Minus(e[2], e[1])) = 0
    BY <2>2 DEF Cross, Points
  <2>4. d[1] = p /\ d[2] = p
    OBVIOUS
  <2>. HIDE DEF d
  <2>. QED  BY <2>1, <2>3, <2>4 DEF PassThrough
<1>4. /\ ReferenceToSegment(p, e[1], e[2]) \in Fractions
      /\ SameDistance(r, ReferenceToSegment(p, e[1], e[2]))
  BY <1>1, PointToSegmentIsTrue
<1>5. ASSUME NEW c \in Points, AtMost(r, <<SquaredNorm(Minus(p, c)), 1>>)
      PROVE  AtMost(r, ReferenceToSegment(c, p, p))
  <2>1. ReferenceToSegment(c, p, p) = Least({<<SquaredNorm(Minus(c, p)), 1>>})
    <3>1. ReferenceToSegment(c, p, p) = Least(Squares(c, p, p))
      BY DEF ReferenceToSegment, Squares
    <3>. QED  BY <3>1, SquaresOfPoint
  <2>2. SquaredNorm(Minus(c, p)) = SquaredNorm(Minus(p, c))
    <3>1. PICK x \in Int, y \in Int : x = c[1] - p[1] /\ y = c[2] - p[2]
      BY DEF Points
    <3>2. Minus(c, p) = <<x, y>> /\ Minus(p, c) = <<0 - x, 0 - y>>
      BY <3>1 DEF Minus, Points
    <3>3. (0 - x) * (0 - x) = x * x /\ (0 - y) * (0 - y) = y * y
      BY SMTT(30)
    <3>. QED  BY <3>2, <3>3 DEF SquaredNorm, Dot
  <2>3. PICK f \in Fractions : f = <<SquaredNorm(Minus(p, c)), 1>>
    <3>1. SquaredNorm(Minus(p, c)) \in Nat
      BY PointOperations, SquaredNorms
    <3>2. <<SquaredNorm(Minus(p, c)), 1>> \in Fractions
      BY <3>1 DEF Fractions
    <3>. QED  BY <3>2
  <2>4. Least({f}) \in {f}
    <3>1. IsFiniteSet({f}) /\ {f} \in SUBSET Fractions /\ {f} # {}
      BY FS_Singleton
    <3>. QED  BY <3>1, LeastOfFinite
  <2>5. ReferenceToSegment(c, p, p) = f
    BY <2>1, <2>2, <2>3, <2>4
  <2>. QED  BY <1>5, <2>3, <2>5
<1>6. AtMost(r, ReferenceToSegment(e[1], p, p)) /\ AtMost(r, ReferenceToSegment(e[2], p, p))
  BY <1>1, <1>5, EndsAreNotNearer
<1>7. IsLeast(r, EndDistances(d, e))
  <2>1. EndDistances(d, e) = {ReferenceToSegment(p, e[1], e[2]), ReferenceToSegment(e[1], p, p),
                              ReferenceToSegment(e[2], p, p)}
    BY DEF EndDistances
  <2>2. AtMost(r, ReferenceToSegment(p, e[1], e[2])) /\ AtMost(ReferenceToSegment(p, e[1], e[2]), r)
    BY <1>2, <1>4, AtMostOrders
  <2>. HIDE DEF r, d
  <2>. QED  BY <1>6, <2>1, <2>2 DEF IsLeast
<1>. HIDE DEF d
<1>8. SameDistance(r, Apart(d, e))
  BY <1>1, <1>2, <1>3, <1>7, NearestEnd
<1>. QED  BY <1>2, <1>8 DEF d

-----------------------------------------------------------------------------
(* The distance of two figures.                                            *)

Figures == Seq(Points) \ {<<>>}

\* The edges, and the point itself if there is no other.
SidesOf(h) == IF Len(h) = 1 THEN {<<h[1], h[1]>>} ELSE Edges(h)

\* The fraction r is the distance of f and g.
Gaps(f, g) == {Apart(d, e) : d \in SidesOf(f), e \in SidesOf(g)}
IsDistance(r, f, g) == r \in Fractions /\ IsLeast(r, Gaps(f, g))

\* A figure has finitely many sides, at least one, and all are segments.
LEMMA SidesType ==
  ASSUME NEW h \in Figures
  PROVE  /\ SidesOf(h) \in SUBSET Segments /\ SidesOf(h) # {} /\ IsFiniteSet(SidesOf(h))
         /\ h[1] \in Points
<1>1. PICK n \in Nat : n = Len(h) /\ n > 0
  <2>1. h \in Seq(Points) /\ Len(h) \in Nat /\ Len(h) # 0
    BY EmptySeq DEF Figures
  <2>. QED  BY <2>1
<1>2. \A i \in 1 .. n : h[i] \in Points
  <2>1. h \in Seq(Points)
    BY DEF Figures
  <2>. QED  BY <1>1, <2>1
<1>3. h[1] \in Points
  BY <1>1, <1>2
<1>4. CASE n = 1
  <2>1. SidesOf(h) = {<<h[1], h[1]>>}
    BY <1>1, <1>4 DEF SidesOf
  <2>2. <<h[1], h[1]>> \in Segments
    BY <1>3 DEF Segments
  <2>3. IsFiniteSet({<<h[1], h[1]>>})
    BY FS_Singleton
  <2>. QED  BY <1>3, <2>1, <2>2, <2>3
<1>5. CASE n > 1
  <2>. DEFINE g == [i \in 1 .. n - 1 |-> <<h[i], h[i + 1]>>]
              A == {g[i] : i \in 1 .. n - 1}
              B == IF n > 2 THEN {<<h[n], h[1]>>} ELSE {}
  <2>1. SidesOf(h) = A \cup B
    BY <1>1, <1>5 DEF SidesOf, Edges
  <2>2. \A i \in 1 .. n - 1 : g[i] \in Segments
    <3>1. \A i \in 1 .. n - 1 : i \in 1 .. n /\ i + 1 \in 1 .. n
      BY <1>5
    <3>. QED  BY <1>2, <3>1 DEF Segments
  <2>3. A \in SUBSET Segments /\ A # {}
    <3>1. 1 \in 1 .. n - 1
      BY <1>5
    <3>. QED  BY <2>2, <3>1
  <2>4. B \in SUBSET Segments
    <3>1. n \in 1 .. n
      BY <1>5
    <3>. QED  BY <1>2, <1>3, <3>1 DEF Segments
  <2>5. IsFiniteSet(A)
    <3>1. IsFiniteSet(1 .. n - 1)
      BY FS_Interval
    <3>. HIDE DEF g
    <3>. QED  BY <3>1, FiniteImage
  <2>6. IsFiniteSet(B)
    BY FS_Singleton, FS_EmptySet
  <2>. HIDE DEF A, B
  <2>7. IsFiniteSet(A \cup B)
    BY <2>5, <2>6, FS_Union
  <2>. QED  BY <1>3, <2>1, <2>3, <2>4, <2>7
<1>. QED  BY <1>1, <1>4, <1>5

\* The distance of two segments is that of the other from the one.
LEMMA ApartIsSymmetric ==
  ASSUME NEW d \in Segments, NEW e \in Segments
  PROVE  Apart(d, e) = Apart(e, d)
<1>1. EndDistances(d, e) = EndDistances(e, d)
  BY DEF EndDistances
<1>2. PassThrough(d, e) <=> PassThrough(e, d)
  <2>. DEFINE p == d[1]  q == d[2]  a == e[1]  b == e[2]
  <2>1. p \in Points /\ q \in Points /\ a \in Points /\ b \in Points
    BY EndDistancesType
  <2>2. PICK m, s, t : /\ m = Cross(Minus(q, p), Minus(b, a)) /\ s = Cross(Minus(q, p), Minus(p, a))
                       /\ t = Cross(Minus(b, a), Minus(p, a))
    OBVIOUS
  <2>3. PICK x, y, z : /\ x = Cross(Minus(b, a), Minus(q, p)) /\ y = Cross(Minus(b, a), Minus(a, p))
                       /\ z = Cross(Minus(q, p), Minus(a, p))
    OBVIOUS
  <2>4. PassThrough(d, e) <=> \/ m > 0 /\ 0 < s /\ s < m /\ 0 < t /\ t < m
                              \/ m < 0 /\ m < s /\ s < 0 /\ m < t /\ t < 0
    BY <2>2 DEF PassThrough
  <2>5. PassThrough(e, d) <=> \/ x > 0 /\ 0 < y /\ y < x /\ 0 < z /\ z < x
                              \/ x < 0 /\ x < y /\ y < 0 /\ x < z /\ z < 0
    BY <2>3 DEF PassThrough
  <2>. HIDE DEF p, q, a, b
  <2>6. m \in Int /\ s \in Int /\ t \in Int /\ z = 0 - s /\ y = 0 - t
    BY <2>1, <2>2, <2>3, Sides
  <2>7. x = 0 - m
    <3>1. PICK v \in Points, w \in Points : v = Minus(q, p) /\ w = Minus(b, a)
      BY <2>1, PointOperations
    <3>2. v[1] \in Int /\ v[2] \in Int /\ w[1] \in Int /\ w[2] \in Int
      BY DEF Points
    <3>3. w[1] * v[2] - w[2] * v[1] = 0 - (v[1] * w[2] - v[2] * w[1])
      BY <3>2, SMTT(30)
    <3>. QED  BY <2>2, <2>3, <3>1, <3>3 DEF Cross
  <2>. QED  BY <2>4, <2>5, <2>6, <2>7
<1>3. Meet(d[1], d[2], e[1], e[2]) <=> Meet(e[1], e[2], d[1], d[2])
  BY <1>1, <1>2, MeetingSegments
<1>. QED  BY <1>1, <1>3 DEF Apart

\* The distances of the sides are fractions, and the same both ways.
LEMMA GapsType ==
  ASSUME NEW f \in Figures, NEW g \in Figures
  PROVE  Gaps(f, g) \in SUBSET Fractions /\ Gaps(f, g) = Gaps(g, f)
<1>1. \A d \in SidesOf(f), e \in SidesOf(g) : Apart(d, e) \in Fractions /\ Apart(d, e) = Apart(e, d)
  BY SidesType, ApartType, ApartIsSymmetric
<1>. QED  BY <1>1 DEF Gaps

\* Two distances of the same figures are the same, in any order.
LEMMA DistancesAreTheSame ==
  ASSUME NEW f \in Figures, NEW g \in Figures, NEW x, NEW y,
         IsDistance(x, f, g), IsDistance(y, f, g) \/ IsDistance(y, g, f)
  PROVE  SameDistance(x, y)
<1>1. PICK S \in SUBSET Fractions : S = Gaps(f, g) /\ S = Gaps(g, f)
  BY GapsType
<1>2. x \in Fractions /\ y \in Fractions /\ IsLeast(x, S) /\ IsLeast(y, S)
  BY <1>1 DEF IsDistance
<1>. QED  BY <1>2, LeastsAreTheSame

-----------------------------------------------------------------------------
(* The least of what is the same.                                          *)

\* A set with the bounds of another has its least distance.
LEMMA LeastOfTheSame ==
  ASSUME NEW A \in SUBSET Fractions, NEW B \in SUBSET Fractions, NEW r \in Fractions, IsLeast(r, A),
         \A b \in B : \E a \in A : AtMost(a, b), \A a \in A : \E b \in B : AtMost(b, a)
  PROVE  IsLeast(r, B)
<1>1. ASSUME NEW b \in B  PROVE AtMost(r, b)
  <2>1. PICK a \in A : AtMost(a, b)
    OBVIOUS
  <2>2. AtMost(r, a)
    BY DEF IsLeast
  <2>. QED  BY <2>1, <2>2, AtMostTrans
<1>2. \E b \in B : AtMost(b, r)
  <2>1. PICK a \in A : AtMost(a, r)
    BY DEF IsLeast
  <2>2. PICK b \in B : AtMost(b, a)
    OBVIOUS
  <2>. QED  BY <2>1, <2>2, AtMostTrans
<1>. QED  BY <1>1, <1>2 DEF IsLeast

\* The infinite distance that the search for the least starts with is not it.
LEMMA LeastWithInfinite ==
  ASSUME NEW S \in SUBSET Fractions, IsFiniteSet(S), S # {}
  PROVE  /\ Least({Infinite} \cup S) \in Fractions
         /\ IsLeast(Least({Infinite} \cup S), S)
<1>1. Infinite \in Fractions /\ \A x \in Fractions : AtMost(x, Infinite)
  BY DEF Infinite, Fractions, AtMost
<1>2. PICK T : T = {Infinite} \cup S
  OBVIOUS
<1>3. T \in SUBSET Fractions /\ T # {} /\ IsFiniteSet(T)
  <2>1. IsFiniteSet({Infinite})
    BY FS_Singleton
  <2>2. IsFiniteSet({Infinite} \cup S)
    BY <2>1, FS_Union
  <2>. QED  BY <1>1, <1>2, <2>2
<1>4. Least(T) \in Fractions /\ IsLeast(Least(T), T)
  BY <1>3, LeastOfFinite
<1>5. \A s \in S : \E x \in T : AtMost(x, s)
  BY <1>2, AtMostOrders
<1>6. \A x \in T : \E s \in S : AtMost(s, x)
  BY <1>1, <1>2, AtMostOrders
<1>7. IsLeast(Least(T), S)
  BY <1>3, <1>4, <1>5, <1>6, LeastOfTheSame
<1>. QED  BY <1>2, <1>4, <1>7

-----------------------------------------------------------------------------
(* The distances of points, segments and polygons.                         *)

\* The only side of a point.
LEMMA SidesOfPoint ==
  ASSUME NEW p \in Points
  PROVE  <<p>> \in Figures /\ SidesOf(<<p>>) = {<<p, p>>}
BY DEF Figures, SidesOf

\* The only side of a line.
LEMMA SidesOfPair ==
  ASSUME NEW p \in Points, NEW q \in Points
  PROVE  <<p, q>> \in Figures /\ SidesOf(<<p, q>>) = {<<p, q>>} /\ <<p, q>> \in Segments
<1>1. <<p, q>> \in Figures /\ Len(<<p, q>>) = 2 /\ <<p, q>> \in Segments
  BY DEF Figures, Segments
<1>2. Edges(<<p, q>>) = {<<<<p, q>>[i], <<p, q>>[i + 1]>> : i \in 1 .. 1}
  BY <1>1 DEF Edges
<1>3. Edges(<<p, q>>) = {<<p, q>>}
  BY <1>2
<1>. QED  BY <1>1, <1>3 DEF SidesOf

\* A distance of one side from every other.
LEMMA OneSide ==
  ASSUME NEW f, NEW g, NEW d, SidesOf(f) = {d}
  PROVE  Gaps(f, g) = {Apart(d, e) : e \in SidesOf(g)}
BY DEF Gaps

\* The least of the distances of one side from the edges of a figure.
LEMMA LeastOverSides ==
  ASSUME NEW g \in Figures, NEW d \in Segments, NEW h,
         \A e \in SidesOf(g) : h[e] \in Fractions /\ SameDistance(h[e], Apart(d, e))
  PROVE  LET r == Least({Infinite} \cup {h[e] : e \in SidesOf(g)}) IN
         r \in Fractions /\ IsLeast(r, {Apart(d, e) : e \in SidesOf(g)})
<1>. DEFINE A == {h[e] : e \in SidesOf(g)}  B == {Apart(d, e) : e \in SidesOf(g)}
            r == Least({Infinite} \cup A)
<1>1. \A e \in SidesOf(g) : Apart(d, e) \in Fractions
  BY SidesType, ApartType
<1>2. A \in SUBSET Fractions /\ B \in SUBSET Fractions /\ A # {}
  BY <1>1, SidesType
<1>3. IsFiniteSet(A)
  BY SidesType, FiniteImage
<1>4. \A e \in SidesOf(g) : AtMost(h[e], Apart(d, e)) /\ AtMost(Apart(d, e), h[e])
  BY <1>1, AtMostOrders
<1>5. (\A b \in B : \E a \in A : AtMost(a, b)) /\ \A a \in A : \E b \in B : AtMost(b, a)
  BY <1>4
<1>. HIDE DEF A, B
<1>6. r \in Fractions /\ IsLeast(r, A)
  BY <1>2, <1>3, LeastWithInfinite
<1>. HIDE DEF r
<1>7. IsLeast(r, B)
  BY <1>2, <1>5, <1>6, LeastOfTheSame
<1>. QED  BY <1>6, <1>7 DEF r, A, B

\* The distance of a point from a figure is the true one.
LEMMA PointToFigureIsTrue ==
  ASSUME NEW p \in Points, NEW g \in Figures
  PROVE  IsDistance(PointToFigure(p, g), <<p>>, g)
<1>. DEFINE d == <<p, p>>  h == [e \in SidesOf(g) |-> PointToSegment(p, e[1], e[2])]
            B == {Apart(d, e) : e \in SidesOf(g)}
<1>1. d \in Segments /\ SidesOf(g) \in SUBSET Segments
  BY SidesType DEF Segments
<1>2. \A e \in SidesOf(g) : h[e] \in Fractions /\ SameDistance(h[e], Apart(d, e))
  BY <1>1, PointIsApart
<1>3. Gaps(<<p>>, g) = B
  BY SidesOfPoint, OneSide
<1>4. CASE Len(g) = 1
  <2>1. g[1] \in Points
    BY SidesType
  <2>2. PointToFigure(p, g) = PointToSegment(p, g[1], g[1])
    BY <1>4, <2>1, SquaresOfPoint DEF PointToFigure
  <2>3. SidesOf(g) = {<<g[1], g[1]>>}
    BY <1>4 DEF SidesOf
  <2>4. PICK e \in Segments : e = <<g[1], g[1]>> /\ e[1] = g[1] /\ e[2] = g[1]
    <3>1. <<g[1], g[1]>> \in Segments
      BY <2>1 DEF Segments
    <3>. QED  BY <3>1
  <2>5. PICK r \in Fractions : r = PointToFigure(p, g) /\ SameDistance(r, Apart(d, e))
    BY <2>2, <2>4, PointIsApart
  <2>6. B = {Apart(d, e)} /\ Apart(d, e) \in Fractions
    BY <1>1, <2>3, <2>4, ApartType
  <2>7. AtMost(r, Apart(d, e)) /\ AtMost(Apart(d, e), r)
    BY <2>5, <2>6, AtMostOrders
  <2>. QED  BY <1>3, <2>5, <2>6, <2>7 DEF IsDistance, IsLeast
<1>5. CASE Len(g) # 1
  <2>1. SidesOf(g) = Edges(g)
    BY <1>5 DEF SidesOf
  <2>2. PointToFigure(p, g) = Least({Infinite} \cup {h[e] : e \in SidesOf(g)})
    <3>1. {h[e] : e \in SidesOf(g)} = {PointToSegment(p, e[1], e[2]) : e \in Edges(g)}
      BY <2>1
    <3>. QED  BY <1>5, <3>1, Zenon DEF PointToFigure
  <2>. HIDE DEF h, d
  <2>3. PICK r : r = Least({Infinite} \cup {h[e] : e \in SidesOf(g)})
    OBVIOUS
  <2>4. r \in Fractions /\ IsLeast(r, B)
    BY <1>1, <1>2, <2>3, LeastOverSides
  <2>. QED  BY <1>3, <2>2, <2>3, <2>4 DEF IsDistance
<1>. QED  BY <1>4, <1>5

\* The distance of a segment from a figure is the true one.
LEMMA SegmentToFigureIsTrue ==
  ASSUME NEW p \in Points, NEW q \in Points, NEW g \in Figures
  PROVE  IsDistance(SegmentToFigure(p, q, g), <<p, q>>, g)
<1>. DEFINE d == <<p, q>>  h == [e \in SidesOf(g) |-> SegmentToSegment(p, q, e[1], e[2])]
            B == {Apart(d, e) : e \in SidesOf(g)}
<1>1. d \in Segments /\ SidesOf(g) \in SUBSET Segments /\ d[1] = p /\ d[2] = q
  BY SidesType DEF Segments
<1>2. \A e \in SidesOf(g) : h[e] \in Fractions /\ SameDistance(h[e], Apart(d, e))
  <2>1. \A e \in SidesOf(g) : h[e] = SegmentToSegment(d[1], d[2], e[1], e[2])
    OBVIOUS
  <2>. HIDE DEF d, h
  <2>. QED  BY <1>1, <2>1, SegmentToSegmentIsTrue
<1>3. Gaps(<<p, q>>, g) = B
  BY SidesOfPair, OneSide
<1>4. CASE Len(g) = 1
  <2>1. g[1] \in Points
    BY SidesType
  <2>2. SegmentToFigure(p, q, g) = PointToSegment(g[1], p, q)
    BY <1>4 DEF SegmentToFigure
  <2>3. SidesOf(g) = {<<g[1], g[1]>>}
    BY <1>4 DEF SidesOf
  <2>4. PICK e \in Segments : e = <<g[1], g[1]>>
    BY <2>1 DEF Segments
  <2>5. PICK r \in Fractions : r = SegmentToFigure(p, q, g) /\ SameDistance(r, Apart(e, d))
    BY <1>1, <2>1, <2>2, <2>4, PointIsApart
  <2>6. B = {Apart(d, e)} /\ Apart(d, e) \in Fractions /\ Apart(d, e) = Apart(e, d)
    BY <1>1, <2>3, <2>4, ApartType, ApartIsSymmetric
  <2>7. AtMost(r, Apart(d, e)) /\ AtMost(Apart(d, e), r)
    BY <2>5, <2>6, AtMostOrders
  <2>. QED  BY <1>3, <2>5, <2>6, <2>7 DEF IsDistance, IsLeast
<1>5. CASE Len(g) # 1
  <2>1. SidesOf(g) = Edges(g)
    BY <1>5 DEF SidesOf
  <2>2. SegmentToFigure(p, q, g) = Least({Infinite} \cup {h[e] : e \in SidesOf(g)})
    <3>1. {h[e] : e \in SidesOf(g)} = {SegmentToSegment(p, q, e[1], e[2]) : e \in Edges(g)}
      BY <2>1
    <3>. QED  BY <1>5, <3>1, Zenon DEF SegmentToFigure
  <2>. HIDE DEF h, d
  <2>3. PICK r : r = Least({Infinite} \cup {h[e] : e \in SidesOf(g)})
    OBVIOUS
  <2>4. r \in Fractions /\ IsLeast(r, B)
    BY <1>1, <1>2, <2>3, LeastOverSides
  <2>. QED  BY <1>3, <2>2, <2>3, <2>4 DEF IsDistance
<1>. QED  BY <1>4, <1>5

\* The distance of a polygon from a figure is the true one.
LEMMA FigureToFigureIsTrue ==
  ASSUME NEW f \in Figures, NEW g \in Figures
  PROVE  IsDistance(FigureToFigure(f, g), f, g)
<1>1. CASE Len(f) = 1
  <2>1. FigureToFigure(f, g) = PointToFigure(f[1], g) /\ f[1] \in Points
    BY <1>1, SidesType DEF FigureToFigure
  <2>2. Gaps(f, g) = Gaps(<<f[1]>>, g)
    BY <1>1, <2>1, SidesOfPoint DEF Gaps, SidesOf
  <2>3. IsDistance(PointToFigure(f[1], g), <<f[1]>>, g)
    BY <2>1, PointToFigureIsTrue
  <2>. QED  BY <2>1, <2>2, <2>3 DEF IsDistance
<1>2. CASE Len(f) # 1
  <2>. DEFINE h == [d \in SidesOf(f) |-> SegmentToFigure(d[1], d[2], g)]
              A == {h[d] : d \in SidesOf(f)}  r == Least({Infinite} \cup A)
  <2>1. SidesOf(f) = Edges(f)
    BY <1>2 DEF SidesOf
  <2>2. FigureToFigure(f, g) = r
    <3>1. A = {SegmentToFigure(e[1], e[2], g) : e \in Edges(f)}
      BY <2>1
    <3>. HIDE DEF A
    <3>. QED  BY <1>2, <3>1, Zenon DEF FigureToFigure
  <2>3. ASSUME NEW d \in SidesOf(f)
        PROVE  h[d] \in Fractions /\ IsLeast(h[d], {Apart(d, e) : e \in SidesOf(g)})
    <3>1. d \in Segments
      BY SidesType
    <3>2. d[1] \in Points /\ d[2] \in Points /\ d = <<d[1], d[2]>>
      BY <3>1 DEF Segments
    <3>3. IsDistance(h[d], <<d[1], d[2]>>, g)
      BY <3>2, SegmentToFigureIsTrue
    <3>4. Gaps(<<d[1], d[2]>>, g) = {Apart(d, e) : e \in SidesOf(g)}
      BY <3>2, SidesOfPair, OneSide
    <3>. QED  BY <3>3, <3>4 DEF IsDistance
  <2>. HIDE DEF h
  <2>4. A \in SUBSET Fractions /\ A # {} /\ IsFiniteSet(A)
    <3>1. IsFiniteSet(A)
      BY SidesType, FiniteImage
    <3>. QED  BY <2>3, <3>1, SidesType
  <2>5. r \in Fractions /\ IsLeast(r, A)
    <3>. HIDE DEF A
    <3>. QED  BY <2>4, LeastWithInfinite
  <2>6. \A b \in Gaps(f, g) : \E a \in A : AtMost(a, b)
    <3>. SUFFICES ASSUME NEW d \in SidesOf(f), NEW e \in SidesOf(g)
                  PROVE  \E a \in A : AtMost(a, Apart(d, e))
      BY DEF Gaps
    <3>1. AtMost(h[d], Apart(d, e))
      BY <2>3 DEF IsLeast
    <3>. QED  BY <3>1
  <2>7. \A a \in A : \E b \in Gaps(f, g) : AtMost(b, a)
    <3>. SUFFICES ASSUME NEW d \in SidesOf(f)
                  PROVE  \E b \in Gaps(f, g) : AtMost(b, h[d])
      OBVIOUS
    <3>1. PICK e \in SidesOf(g) : AtMost(Apart(d, e), h[d])
      BY <2>3 DEF IsLeast
    <3>. QED  BY <3>1 DEF Gaps
  <2>. HIDE DEF A, r
  <2>8. IsLeast(r, Gaps(f, g))
    BY <2>4, <2>5, <2>6, <2>7, GapsType, LeastOfTheSame
  <2>. QED  BY <2>2, <2>5, <2>8 DEF IsDistance
<1>. QED  BY <1>1, <1>2

\* The reference is such a distance.
LEMMA ReferenceIsDistance ==
  ASSUME NEW f \in Figures, NEW g \in Figures
  PROVE  IsDistance(Reference(f, g), f, g)
<1>. DEFINE F == SidesOf(f)  G == SidesOf(g)
            U == UNION {EndDistances(d, e) : d \in F, e \in G}
<1>1. Reference(f, g) =
        IF \E d \in F, e \in G : Meet(d[1], d[2], e[1], e[2]) THEN <<0, 1>> ELSE Least(U)
  BY DEF Reference, SidesOf, EndDistances
<1>2. /\ F \in SUBSET Segments /\ F # {} /\ IsFiniteSet(F)
      /\ G \in SUBSET Segments /\ G # {} /\ IsFiniteSet(G)
  BY SidesType
<1>. HIDE DEF F, G
<1>3. \A d \in F, e \in G : /\ EndDistances(d, e) \in SUBSET Fractions /\ EndDistances(d, e) # {}
                            /\ IsFiniteSet(EndDistances(d, e)) /\ Apart(d, e) \in Fractions
  BY <1>2, EndDistancesType, ApartType
<1>4. CASE \E d \in F, e \in G : Meet(d[1], d[2], e[1], e[2])
  <2>1. PICK d \in F, e \in G : Meet(d[1], d[2], e[1], e[2])
    BY <1>4
  <2>2. Apart(d, e) = <<0, 1>> /\ Reference(f, g) = <<0, 1>>
    BY <1>1, <2>1 DEF Apart
  <2>3. <<0, 1>> \in Fractions /\ \A b \in Gaps(f, g) : AtMost(<<0, 1>>, b)
    <3>1. <<0, 1>> \in Fractions
      BY DEF Fractions
    <3>. QED  BY <3>1, ZeroDistance, GapsType
  <2>4. Apart(d, e) \in Gaps(f, g) /\ AtMost(Apart(d, e), <<0, 1>>)
    BY <2>1, <2>2, <2>3 DEF Gaps, F, G
  <2>. QED  BY <2>2, <2>3, <2>4 DEF IsDistance, IsLeast
<1>5. CASE ~\E d \in F, e \in G : Meet(d[1], d[2], e[1], e[2])
  <2>1. \A d \in F, e \in G : Apart(d, e) = Least(EndDistances(d, e))
    BY <1>5 DEF Apart
  <2>2. \A d \in F, e \in G : IsLeast(Apart(d, e), EndDistances(d, e))
    <3>. SUFFICES ASSUME NEW d \in F, NEW e \in G  PROVE IsLeast(Apart(d, e), EndDistances(d, e))
      OBVIOUS
    <3>1. PICK S : S = EndDistances(d, e)
      OBVIOUS
    <3>2. S \in SUBSET Fractions /\ S # {} /\ IsFiniteSet(S)
      BY <1>3, <3>1
    <3>3. IsLeast(Least(S), S)
      BY <3>2, LeastOfFinite
    <3>. QED  BY <2>1, <3>1, <3>3
  <2>3. U \in SUBSET Fractions /\ U # {}
    BY <1>2, <1>3
  <2>4. IsFiniteSet(U)
    <3>. DEFINE h == [c \in F \X G |-> EndDistances(c[1], c[2])]  V == {h[c] : c \in F \X G}
    <3>1. IsFiniteSet(F \X G)
      BY <1>2, FS_Product
    <3>2. IsFiniteSet(V)
      <4>. HIDE DEF h
      <4>. QED  BY <3>1, FiniteImage
    <3>3. \A T \in V : IsFiniteSet(T)
      BY <1>3
    <3>4. U = UNION V
      <4>1. \A d \in F, e \in G : <<d, e>> \in F \X G /\ h[<<d, e>>] = EndDistances(d, e)
        OBVIOUS
      <4>2. \A c \in F \X G : c[1] \in F /\ c[2] \in G /\ h[c] = EndDistances(c[1], c[2])
        OBVIOUS
      <4>. HIDE DEF h
      <4>3. \A d \in F, e \in G : EndDistances(d, e) \in V
        BY <4>1
      <4>4. ASSUME NEW T \in V  PROVE \E d \in F, e \in G : T = EndDistances(d, e)
        <5>1. PICK c \in F \X G : T = h[c]
          OBVIOUS
        <5>. QED  BY <4>2, <5>1
      <4>. HIDE DEF V
      <4>5. ASSUME NEW x \in U  PROVE x \in UNION V
        <5>1. PICK d \in F, e \in G : x \in EndDistances(d, e)
          OBVIOUS
        <5>. QED  BY <4>3, <5>1
      <4>6. ASSUME NEW x \in UNION V  PROVE x \in U
        <5>1. PICK T \in V : x \in T
          OBVIOUS
        <5>. QED  BY <4>4, <5>1
      <4>. QED  BY <4>5, <4>6
    <3>. HIDE DEF V, U
    <3>. QED  BY <3>2, <3>3, <3>4, FS_UNION
  <2>5. Least(U) \in Fractions /\ IsLeast(Least(U), U)
    <3>. HIDE DEF U
    <3>. QED  BY <2>3, <2>4, LeastOfFinite
  <2>6. \A b \in Gaps(f, g) : \E a \in U : AtMost(a, b)
    <3>. SUFFICES ASSUME NEW b \in Gaps(f, g)  PROVE \E a \in U : AtMost(a, b)
      OBVIOUS
    <3>2. PICK d \in F, e \in G : b = Apart(d, e)
      BY DEF Gaps, F, G
    <3>1. PICK a \in EndDistances(d, e) : AtMost(a, Apart(d, e))
      BY <2>2 DEF IsLeast
    <3>. QED  BY <3>1, <3>2
  <2>7. \A a \in U : \E b \in Gaps(f, g) : AtMost(b, a)
    <3>. SUFFICES ASSUME NEW a \in U  PROVE \E b \in Gaps(f, g) : AtMost(b, a)
      OBVIOUS
    <3>1. PICK d \in F, e \in G : a \in EndDistances(d, e)
      OBVIOUS
    <3>2. AtMost(Apart(d, e), a)
      BY <2>2, <3>1 DEF IsLeast
    <3>3. Apart(d, e) \in Gaps(f, g)
      BY DEF Gaps, F, G
    <3>. QED  BY <3>2, <3>3
  <2>. HIDE DEF U
  <2>8. IsLeast(Least(U), Gaps(f, g))
    <3>1. PICK r \in Fractions : r = Least(U) /\ IsLeast(r, U)
      BY <2>5
    <3>2. IsLeast(r, Gaps(f, g))
      BY <2>3, <2>6, <2>7, <3>1, GapsType, LeastOfTheSame
    <3>. QED  BY <3>1, <3>2
  <2>. QED  BY <1>1, <1>5, <2>5, <2>8 DEF IsDistance
<1>. QED  BY <1>4, <1>5

-----------------------------------------------------------------------------
(* Figures that are moved.                                                 *)

MovedBy(f, o) == [i \in DOMAIN f |-> Plus(f[i], o)]
SideMoved(d, o) == <<Plus(d[1], o), Plus(d[2], o)>>

\* Moving two points together changes neither their difference nor whether they are one.
LEMMA DifferencesStay ==
  ASSUME NEW p \in Points, NEW q \in Points, NEW o \in Points
  PROVE  /\ Minus(Plus(p, o), Plus(q, o)) = Minus(p, q)
         /\ Plus(p, o) = Plus(q, o) <=> p = q
         /\ Plus(p, o) \in Points
<1>1. \A r \in Points : r[1] \in Int /\ r[2] \in Int /\ r = <<r[1], r[2]>>
  BY DEF Points
<1>2. Minus(Plus(p, o), Plus(q, o)) = Minus(p, q)
  BY <1>1 DEF Minus, Plus
<1>3. Plus(p, o) = Plus(q, o) => p[1] = q[1] /\ p[2] = q[2]
  <2>1. \A r : Plus(r, o)[1] = r[1] + o[1] /\ Plus(r, o)[2] = r[2] + o[2]
    BY DEF Plus
  <2>2. p[1] \in Int /\ p[2] \in Int /\ q[1] \in Int /\ q[2] \in Int /\ o[1] \in Int /\ o[2] \in Int
    BY <1>1
  <2>3. SUFFICES ASSUME Plus(p, o) = Plus(q, o)  PROVE p[1] = q[1] /\ p[2] = q[2]
    OBVIOUS
  <2>4. p[1] + o[1] = q[1] + o[1] /\ p[2] + o[2] = q[2] + o[2]
    BY <2>1, <2>3, Zenon
  <2>5. \A i, j, k \in Int : i + k = j + k => i = j
    OBVIOUS
  <2>. QED  BY <2>2, <2>4, <2>5
<1>. QED  BY <1>1, <1>2, <1>3, PointOperations

\* The distance from a segment depends on differences only.
NearestOf(d, v, same) ==
  LET n == IF same THEN 1 ELSE SquaredNorm(d)
  IN Least({<<n * SquaredNorm(v) - 2 * k * Dot(v, d) + (IF same THEN 0 ELSE k * k), n>> : k \in 0 .. n})

LEMMA ReferenceStays ==
  ASSUME NEW p \in Points, NEW a \in Points, NEW b \in Points, NEW o \in Points
  PROVE  ReferenceToSegment(Plus(p, o), Plus(a, o), Plus(b, o)) = ReferenceToSegment(p, a, b)
<1>1. \A x, y, z : ReferenceToSegment(x, y, z) = NearestOf(Minus(z, y), Minus(x, y), y = z)
  BY Zenon DEF ReferenceToSegment, NearestOf
<1>2. /\ Minus(Plus(b, o), Plus(a, o)) = Minus(b, a) /\ Minus(Plus(p, o), Plus(a, o)) = Minus(p, a)
      /\ (Plus(a, o) = Plus(b, o)) = (a = b)
  BY DifferencesStay
<1>. QED  BY <1>1, <1>2, Zenon

\* Two segments that are moved together are as far apart as before.
LEMMA ApartStays ==
  ASSUME NEW d \in Segments, NEW e \in Segments, NEW o \in Points
  PROVE  Apart(SideMoved(d, o), SideMoved(e, o)) = Apart(d, e) /\ SideMoved(d, o) \in Segments
<1>. DEFINE c == SideMoved(d, o)  g == SideMoved(e, o)
<1>1. d[1] \in Points /\ d[2] \in Points /\ e[1] \in Points /\ e[2] \in Points
  BY EndDistancesType
<1>2. c[1] = Plus(d[1], o) /\ c[2] = Plus(d[2], o) /\ g[1] = Plus(e[1], o) /\ g[2] = Plus(e[2], o)
  BY DEF SideMoved
<1>3. c \in Segments /\ g \in Segments
  BY <1>1, DifferencesStay DEF SideMoved, Segments
<1>. HIDE DEF c, g
<1>4. EndDistances(c, g) = EndDistances(d, e)
  BY <1>1, <1>2, ReferenceStays DEF EndDistances
<1>5. /\ Minus(c[2], c[1]) = Minus(d[2], d[1]) /\ Minus(g[2], g[1]) = Minus(e[2], e[1])
      /\ Minus(c[1], g[1]) = Minus(d[1], e[1])
  BY <1>1, <1>2, DifferencesStay
<1>6. PassThrough(c, g) <=> PassThrough(d, e)
  BY <1>5 DEF PassThrough
<1>7. Meet(c[1], c[2], g[1], g[2]) <=> Meet(d[1], d[2], e[1], e[2])
  BY <1>3, <1>4, <1>6, MeetingSegments
<1>8. Apart(c, g) = Apart(d, e)
  BY <1>4, <1>7 DEF Apart
<1>. QED  BY <1>3, <1>8 DEF c, g

\* The sides of a figure that is moved are the sides, moved.
LEMMA SidesMove ==
  ASSUME NEW h \in Figures, NEW o \in Points
  PROVE  /\ MovedBy(h, o) \in Figures /\ Len(MovedBy(h, o)) = Len(h)
         /\ \A i \in 1 .. Len(h) : MovedBy(h, o)[i] = Plus(h[i], o)
         /\ SidesOf(MovedBy(h, o)) = {SideMoved(d, o) : d \in SidesOf(h)}
<1>. DEFINE m == MovedBy(h, o)
<1>1. PICK n \in Nat : n = Len(h) /\ n > 0
  <2>1. h \in Seq(Points) /\ Len(h) \in Nat /\ Len(h) # 0
    BY EmptySeq DEF Figures
  <2>. QED  BY <2>1
<1>2. DOMAIN h = 1 .. n /\ \A i \in 1 .. n : h[i] \in Points
  <2>1. h \in Seq(Points)
    BY DEF Figures
  <2>. QED  BY <1>1, <2>1
<1>3. m \in [1 .. n -> Points] /\ \A i \in 1 .. n : m[i] = Plus(h[i], o)
  BY <1>2, DifferencesStay DEF MovedBy
<1>. HIDE DEF m
<1>4. m \in Seq(Points) /\ Len(m) = n
  BY <1>1, <1>3, IsASeq
<1>5. m \in Figures
  <2>1. m # <<>>
    BY <1>1, <1>4, EmptySeq
  <2>. QED  BY <1>4, <2>1 DEF Figures
<1>6. SidesOf(m) = {SideMoved(d, o) : d \in SidesOf(h)}
  <2>1. CASE n = 1
    <3>1. SidesOf(h) = {<<h[1], h[1]>>} /\ SidesOf(m) = {<<m[1], m[1]>>}
      BY <1>1, <1>4, <2>1 DEF SidesOf
    <3>2. m[1] = Plus(h[1], o)
      BY <1>3, <2>1
    <3>3. SideMoved(<<h[1], h[1]>>, o) = <<m[1], m[1]>>
      BY <3>2 DEF SideMoved
    <3>. QED  BY <3>1, <3>3
  <2>2. CASE n > 1
    <3>1. \A x : x \in SidesOf(h) <=> \/ \E i \in 1 .. n - 1 : x = <<h[i], h[i + 1]>>
                                      \/ n > 2 /\ x = <<h[n], h[1]>>
      BY <1>1, <2>2 DEF SidesOf, Edges
    <3>2. \A x : x \in SidesOf(m) <=> \/ \E i \in 1 .. n - 1 : x = <<m[i], m[i + 1]>>
                                      \/ n > 2 /\ x = <<m[n], m[1]>>
      BY <1>4, <2>2 DEF SidesOf, Edges
    <3>3. \A i \in 1 .. n - 1 : SideMoved(<<h[i], h[i + 1]>>, o) = <<m[i], m[i + 1]>>
      <4>1. \A i \in 1 .. n - 1 : i \in 1 .. n /\ i + 1 \in 1 .. n
        BY <1>1
      <4>. QED  BY <1>3, <4>1 DEF SideMoved
    <3>4. SideMoved(<<h[n], h[1]>>, o) = <<m[n], m[1]>>
      <4>1. 1 \in 1 .. n /\ n \in 1 .. n
        BY <2>2
      <4>. QED  BY <1>3, <4>1 DEF SideMoved
    <3>5. ASSUME NEW x \in SidesOf(m)  PROVE \E d \in SidesOf(h) : x = SideMoved(d, o)
      BY <3>1, <3>2, <3>3, <3>4
    <3>6. ASSUME NEW d \in SidesOf(h)  PROVE SideMoved(d, o) \in SidesOf(m)
      BY <3>1, <3>2, <3>3, <3>4
    <3>. QED  BY <3>5, <3>6
  <2>. QED  BY <1>1, <2>1, <2>2
<1>. QED  BY <1>1, <1>3, <1>4, <1>5, <1>6 DEF m

\* Two figures that are moved together are as far apart as before.
LEMMA GapsStay ==
  ASSUME NEW f \in Figures, NEW g \in Figures, NEW o \in Points
  PROVE  Gaps(MovedBy(f, o), MovedBy(g, o)) = Gaps(f, g)
<1>. DEFINE F == SidesOf(f)  G == SidesOf(g)
<1>1. /\ SidesOf(MovedBy(f, o)) = {SideMoved(d, o) : d \in F}
      /\ SidesOf(MovedBy(g, o)) = {SideMoved(e, o) : e \in G}
  BY SidesMove
<1>2. \A d \in F, e \in G : Apart(SideMoved(d, o), SideMoved(e, o)) = Apart(d, e)
  BY SidesType, ApartStays
<1>3. Gaps(f, g) = {Apart(d, e) : d \in F, e \in G}
  BY DEF Gaps
<1>. HIDE DEF F, G
<1>4. Gaps(MovedBy(f, o), MovedBy(g, o)) =
        {Apart(x, y) : x \in {SideMoved(d, o) : d \in F}, y \in {SideMoved(e, o) : e \in G}}
  BY <1>1 DEF Gaps
<1>5. ASSUME NEW x \in Gaps(f, g)  PROVE x \in Gaps(MovedBy(f, o), MovedBy(g, o))
  <2>1. PICK d \in F, e \in G : x = Apart(d, e)
    BY <1>3
  <2>. QED  BY <1>2, <1>4, <2>1
<1>6. ASSUME NEW x \in Gaps(MovedBy(f, o), MovedBy(g, o))  PROVE x \in Gaps(f, g)
  <2>1. PICK d \in F, e \in G : x = Apart(SideMoved(d, o), SideMoved(e, o))
    BY <1>4
  <2>. QED  BY <1>2, <1>3, <2>1
<1>. QED  BY <1>5, <1>6

-----------------------------------------------------------------------------
(* The distance of an obstacle and the robot.                              *)

\* What is known of an obstacle of each kind.
LEMMA ObstacleParts ==
  ASSUME NEW o \in ObstacleRecords
  PROVE  /\ o.at \in Figures /\ o.at[1] \in Points /\ o.velocity \in Points
         /\ o.kind \in {"point", "circle", "line", "polygon"}
         /\ o.kind \in {"point", "circle"} => SidesOf(o.at) = {<<o.at[1], o.at[1]>>}
         /\ o.kind = "line" => o.at[2] \in Points /\ SidesOf(o.at) = {<<o.at[1], o.at[2]>>}
<1>1. /\ o.at \in Figures /\ o.velocity \in Points /\ o.kind \in {"point", "circle", "line", "polygon"}
      /\ o.kind \in {"point", "circle"} => Len(o.at) = 1
      /\ o.kind = "line" => Len(o.at) = 2
  BY DEF ObstacleRecords, ObstacleKinds, Figures
<1>2. PICK f \in Figures : f = o.at
  BY <1>1
<1>3. f[1] \in Points
  BY SidesType
<1>4. Len(f) = 1 => SidesOf(f) = {<<f[1], f[1]>>}
  BY DEF SidesOf
<1>5. Len(f) = 2 => f[2] \in Points /\ SidesOf(f) = {<<f[1], f[2]>>}
  <2>. SUFFICES ASSUME Len(f) = 2  PROVE f[2] \in Points /\ SidesOf(f) = {<<f[1], f[2]>>}
    OBVIOUS
  <2>1. f[2] \in Points
    BY DEF Figures
  <2>2. SidesOf(f) = {<<f[i], f[i + 1]>> : i \in 1 .. 1}
    BY DEF SidesOf, Edges
  <2>. QED  BY <2>1, <2>2
<1>. QED  BY <1>1, <1>2, <1>3, <1>4, <1>5

\* Figures with the same sides are at the same distance.
LEMMA SameSides ==
  ASSUME NEW f, NEW h, NEW g, NEW r, SidesOf(f) = SidesOf(h), IsDistance(r, f, g)
  PROVE  IsDistance(r, h, g)
BY DEF IsDistance, Gaps

\* The distance from an obstacle that stands is the true one.
LEMMA MinimumDistanceIsTrue ==
  ASSUME NEW o \in ObstacleRecords, NEW figure \in Figures
  PROVE  IsDistance(MinimumDistance(o, figure), o.at, figure)
<1>. DEFINE r == MinimumDistance(o, figure)
<1>1. /\ o.at \in Figures /\ o.at[1] \in Points
      /\ o.kind \in {"point", "circle", "line", "polygon"}
      /\ o.kind \in {"point", "circle"} => SidesOf(o.at) = {<<o.at[1], o.at[1]>>}
      /\ o.kind = "line" => o.at[2] \in Points /\ SidesOf(o.at) = {<<o.at[1], o.at[2]>>}
  BY ObstacleParts
<1>2. CASE o.kind \in {"point", "circle"}
  <2>1. r = PointToFigure(o.at[1], figure)
    BY <1>2 DEF MinimumDistance, PointDistance, CircleDistance
  <2>2. SidesOf(<<o.at[1]>>) = SidesOf(o.at)
    BY <1>1, <1>2, SidesOfPoint
  <2>. QED  BY <1>1, <2>1, <2>2, PointToFigureIsTrue, SameSides
<1>3. CASE o.kind = "line"
  <2>1. r = SegmentToFigure(o.at[1], o.at[2], figure)
    BY <1>3 DEF MinimumDistance, LineDistance
  <2>2. SidesOf(<<o.at[1], o.at[2]>>) = SidesOf(o.at)
    BY <1>1, <1>3, SidesOfPair
  <2>. QED  BY <1>1, <1>3, <2>1, <2>2, SegmentToFigureIsTrue, SameSides
<1>4. CASE o.kind = "polygon"
  <2>1. r = FigureToFigure(figure, o.at)
    BY <1>4 DEF MinimumDistance, PolygonDistance
  <2>2. IsDistance(r, figure, o.at)
    BY <1>1, <2>1, FigureToFigureIsTrue
  <2>3. Gaps(figure, o.at) = Gaps(o.at, figure)
    BY <1>1, GapsType
  <2>. QED  BY <2>2, <2>3 DEF IsDistance
<1>. QED  BY <1>1, <1>2, <1>3, <1>4

\* The distance from a moving obstacle is the one from where it will be.
LEMMA EstimateIsTrue ==
  ASSUME NEW o \in ObstacleRecords, NEW t \in Nat, NEW footprint, NEW position, NEW direction,
         NEW figure \in Figures, figure = TransformToWorld(footprint, position, direction)
  PROVE  IsDistance(EstimateSpatioTemporalDistance(footprint, position, direction, o, t),
                    MovedBy(o.at, Times(t, o.velocity)), figure)
<1>. DEFINE r == EstimateSpatioTemporalDistance(footprint, position, direction, o, t)
            v == Times(t, o.velocity)  m == MovedBy(o.at, v)
<1>1. /\ o.at \in Figures /\ o.at[1] \in Points /\ v \in Points
      /\ o.kind \in {"point", "circle", "line", "polygon"}
      /\ o.kind \in {"point", "circle"} => SidesOf(o.at) = {<<o.at[1], o.at[1]>>}
      /\ o.kind = "line" => o.at[2] \in Points /\ SidesOf(o.at) = {<<o.at[1], o.at[2]>>}
  <2>1. v \in Points
    <3>1. o.velocity \in Points /\ t \in Int
      BY ObstacleParts
    <3>. QED  BY <3>1, PointOperations DEF v
  <2>. QED  BY <2>1, ObstacleParts
<1>2. r = CASE o.kind = "point" -> PointDistanceAt(o, figure, t)
            [] o.kind = "circle" -> CircleDistanceAt(o, figure, t)
            [] o.kind = "line" -> LineDistanceAt(o, figure, t)
            [] o.kind = "polygon" -> PolygonDistanceAt(o, figure, t)
  BY DEF EstimateSpatioTemporalDistance
<1>3. PointDistanceAt(o, figure, t) = PointToFigure(Plus(o.at[1], v), figure)
      /\ CircleDistanceAt(o, figure, t) = PointToFigure(Plus(o.at[1], v), figure)
      /\ LineDistanceAt(o, figure, t) = SegmentToFigure(Plus(o.at[1], v), Plus(o.at[2], v), figure)
      /\ PolygonDistanceAt(o, figure, t) = FigureToFigure(figure, m)
  BY DEF PointDistanceAt, CircleDistanceAt, LineDistanceAt, PolygonDistanceAt, PredictVertices, MovedBy
<1>. HIDE DEF r, v
<1>4. m \in Figures /\ SidesOf(m) = {SideMoved(d, v) : d \in SidesOf(o.at)}
  BY <1>1, SidesMove
<1>. HIDE DEF m
<1>5. CASE o.kind \in {"point", "circle"}
  <2>1. r = PointToFigure(Plus(o.at[1], v), figure)
    BY <1>2, <1>3, <1>5
  <2>2. Plus(o.at[1], v) \in Points
    BY <1>1, PointOperations
  <2>3. SidesOf(m) = {<<Plus(o.at[1], v), Plus(o.at[1], v)>>}
    <3>1. SideMoved(<<o.at[1], o.at[1]>>, v) = <<Plus(o.at[1], v), Plus(o.at[1], v)>>
      BY DEF SideMoved
    <3>. QED  BY <1>1, <1>4, <1>5, <3>1
  <2>4. SidesOf(<<Plus(o.at[1], v)>>) = SidesOf(m)
    BY <2>2, <2>3, SidesOfPoint
  <2>. QED  BY <2>1, <2>2, <2>4, PointToFigureIsTrue, SameSides DEF r, m, v
<1>6. CASE o.kind = "line"
  <2>1. r = SegmentToFigure(Plus(o.at[1], v), Plus(o.at[2], v), figure)
    BY <1>2, <1>3, <1>6
  <2>2. Plus(o.at[1], v) \in Points /\ Plus(o.at[2], v) \in Points
    BY <1>1, <1>6, PointOperations
  <2>3. SidesOf(m) = {<<Plus(o.at[1], v), Plus(o.at[2], v)>>}
    <3>1. SideMoved(<<o.at[1], o.at[2]>>, v) = <<Plus(o.at[1], v), Plus(o.at[2], v)>>
      BY DEF SideMoved
    <3>. QED  BY <1>1, <1>4, <1>6, <3>1
  <2>4. SidesOf(<<Plus(o.at[1], v), Plus(o.at[2], v)>>) = SidesOf(m)
    BY <2>2, <2>3, SidesOfPair
  <2>. QED  BY <2>1, <2>2, <2>4, SegmentToFigureIsTrue, SameSides DEF r, m, v
<1>7. CASE o.kind = "polygon"
  <2>1. r = FigureToFigure(figure, m)
    BY <1>2, <1>3, <1>7
  <2>2. IsDistance(r, figure, m)
    BY <1>4, <2>1, FigureToFigureIsTrue
  <2>3. Gaps(figure, m) = Gaps(m, figure)
    BY <1>4, GapsType
  <2>. QED  BY <2>2, <2>3 DEF IsDistance, r, m, v
<1>. QED  BY <1>1, <1>5, <1>6, <1>7

\* The outline of the robot moves with the robot.
LEMMA WorldType ==
  ASSUME NEW footprint \in Figures, NEW position \in Points, NEW direction \in Directions,
         NEW offset \in Points
  PROVE  /\ TransformToWorld(footprint, position, direction) \in Figures
         /\ TransformToWorld(footprint, position, direction) =
              MovedBy(TransformToWorld(footprint, Minus(position, offset), direction), offset)
<1>. DEFINE at(p) == TransformToWorld(footprint, p, direction)
            turned(i) == <<direction[1] * footprint[i][1] - direction[2] * footprint[i][2],
                           direction[2] * footprint[i][1] + direction[1] * footprint[i][2]>>
<1>1. PICK n \in Nat : n = Len(footprint) /\ n > 0
  <2>1. footprint \in Seq(Points) /\ Len(footprint) \in Nat /\ Len(footprint) # 0
    BY EmptySeq DEF Figures
  <2>. QED  BY <2>1
<1>2. DOMAIN footprint = 1 .. n /\ \A i \in 1 .. n : footprint[i] \in Points
  <2>1. footprint \in Seq(Points)
    BY DEF Figures
  <2>. QED  BY <1>1, <2>1
<1>3. \A i \in 1 .. n : turned(i) \in Points
  <2>. SUFFICES ASSUME NEW i \in 1 .. n  PROVE turned(i) \in Points
    OBVIOUS
  <2>1. footprint[i][1] \in Int /\ footprint[i][2] \in Int
    BY <1>2 DEF Points
  <2>2. direction[1] \in Int /\ direction[2] \in Int
    BY DEF Directions
  <2>. QED  BY <2>1, <2>2 DEF Points
<1>4. \A p : at(p) = [i \in 1 .. n |-> Plus(p, turned(i))]
  BY <1>2 DEF TransformToWorld
<1>. HIDE DEF at, turned
<1>5. ASSUME NEW p \in Points  PROVE at(p) \in Figures
  <2>1. at(p) \in [1 .. n -> Points]
    BY <1>3, <1>4, PointOperations
  <2>2. at(p) \in Seq(Points) /\ Len(at(p)) = n
    BY <2>1, IsASeq
  <2>. QED  BY <1>1, <2>2, EmptySeq DEF Figures
<1>6. at(position) = MovedBy(at(Minus(position, offset)), offset)
  <2>1. ASSUME NEW i \in 1 .. n
        PROVE  Plus(position, turned(i)) = Plus(Plus(Minus(position, offset), turned(i)), offset)
    <3>1. PICK q \in Points : q = turned(i)
      BY <1>3
    <3>2. \A r \in Points : r[1] \in Int /\ r[2] \in Int
      BY DEF Points
    <3>3. Plus(position, q) = Plus(Plus(Minus(position, offset), q), offset)
      BY <3>2 DEF Plus, Minus
    <3>. QED  BY <3>1, <3>3
  <2>. QED  BY <1>4, <2>1 DEF MovedBy
<1>. QED  BY <1>5, <1>6 DEF at

\* Whatever the obstacles of the costmap, of a converter or of a message are,
\* and whatever the outline of the robot is: the distance the optimizer
\* penalizes is the true one, along every edge and at every vertex of the
\* graph, and that from a moving obstacle is the one from where the obstacle
\* is now to a robot that moves against its velocity.
THEOREM DistancesStayTrue == Spec => []DistancesAreTrue
<1>1. TypeOK => DistancesAreTrue
  <2>. SUFFICES ASSUME TypeOK  PROVE DistancesAreTrue
    OBVIOUS
  <2>1. scene.footprint \in Figures
    BY SearchAssumption DEF TypeOK, Figures
  <2>2. \A k \in DOMAIN obstacles : obstacles[k] \in ObstacleRecords
    BY DEF TypeOK
  <2>3. \A i \in DOMAIN vertices : vertices[i] \in Points
    BY DEF TypeOK
  <2>4. \A e \in edges : vertices[e[1]] \in Points /\ vertices[e[2]] \in Points
    BY DEF TypeOK
  <2>5. ASSUME NEW o \in ObstacleRecords, NEW figure \in Figures
        PROVE  SameDistance(MinimumDistance(o, figure), Reference(o.at, figure))
    <3>1. o.at \in Figures
      BY ObstacleParts
    <3>. QED  BY <3>1, MinimumDistanceIsTrue, ReferenceIsDistance, DistancesAreTheSame
  <2>6. ASSUME NEW k \in DOMAIN obstacles, NEW e \in edges
        PROVE  SameDistance(MinimumDistance(obstacles[k], <<vertices[e[1]], vertices[e[2]]>>),
                            Reference(obstacles[k].at, <<vertices[e[1]], vertices[e[2]]>>))
    BY <2>2, <2>4, <2>5, SidesOfPair
  <2>7. ASSUME NEW k \in DOMAIN obstacles, NEW i \in DOMAIN vertices, NEW direction \in Directions
        PROVE  SameDistance(CalculateDistance(scene.footprint, vertices[i], direction, obstacles[k]),
                            Reference(obstacles[k].at,
                                      TransformToWorld(scene.footprint, vertices[i], direction)))
    <3>1. TransformToWorld(scene.footprint, vertices[i], direction) \in Figures
      <4>1. <<0, 0>> \in Points
        BY DEF Points
      <4>. QED  BY <2>1, <2>3, <4>1, WorldType
    <3>. QED  BY <2>2, <2>5, <3>1 DEF CalculateDistance
  <2>8. ASSUME NEW k \in DOMAIN obstacles, NEW i \in DOMAIN vertices, NEW direction \in Directions,
               NEW t \in 0 .. 2
        PROVE  SameDistance(
                 EstimateSpatioTemporalDistance(scene.footprint, vertices[i], direction,
                                                obstacles[k], t),
                 Reference(obstacles[k].at,
                           TransformToWorld(scene.footprint,
                                            Minus(vertices[i], Times(t, obstacles[k].velocity)),
                                            direction)))
    <3>1. PICK o \in ObstacleRecords, x \in Points : o = obstacles[k] /\ x = vertices[i]
      BY <2>2, <2>3
    <3>2. PICK v \in Points : v = Times(t, o.velocity)
      BY ObstacleParts, PointOperations
    <3>3. PICK now \in Figures, then \in Figures :
            /\ now = TransformToWorld(scene.footprint, Minus(x, v), direction)
            /\ then = TransformToWorld(scene.footprint, x, direction)
            /\ then = MovedBy(now, v)
      <4>1. Minus(x, v) \in Points
        BY PointOperations
      <4>. QED  BY <2>1, <4>1, WorldType
    <3>4. PICK r : r = EstimateSpatioTemporalDistance(scene.footprint, x, direction, o, t)
      OBVIOUS
    <3>5. IsDistance(r, MovedBy(o.at, v), then)
      <4>1. t \in Nat
        OBVIOUS
      <4>. QED  BY <3>2, <3>3, <3>4, <4>1, EstimateIsTrue
    <3>6. o.at \in Figures
      BY ObstacleParts
    <3>7. Gaps(MovedBy(o.at, v), then) = Gaps(o.at, now)
      BY <3>3, <3>6, GapsStay
    <3>8. IsDistance(r, o.at, now)
      BY <3>5, <3>7 DEF IsDistance
    <3>9. SameDistance(r, Reference(o.at, now))
      BY <3>6, <3>8, ReferenceIsDistance, DistancesAreTheSame
    <3>. QED  BY <3>1, <3>2, <3>3, <3>4, <3>9
  <2>. QED  BY <2>6, <2>7, <2>8 DEF DistancesAreTrue
<1>. QED  BY <1>1, TypeCorrect, PTL

-----------------------------------------------------------------------------
(* What the intersection tests find.                                       *)

\* A product of two numbers that differ by m is negative between them.
LEMMA BetweenZeroAnd ==
  ASSUME NEW m \in Int, NEW s \in Int, (0 - s) * (m - s) < 0
  PROVE  (0 < s /\ s < m) \/ (m < s /\ s < 0)
<1>1. 0 - s \in Int /\ m - s \in Int
  OBVIOUS
<1>2. (0 - s < 0 /\ m - s > 0) \/ (0 - s > 0 /\ m - s < 0)
  BY <1>1, SignOfProduct
<1>. QED  BY <1>2

\* A segment with the ends of a line on its two sides, and its own ends on
\* those of the line, crosses it.
LEMMA LineIsCrossed ==
  ASSUME NEW p \in Points, NEW q \in Points, NEW a \in Points, NEW b \in Points,
         Cross(Minus(q, p), Minus(a, p)) * Cross(Minus(q, p), Minus(b, p)) < 0,
         Cross(Minus(b, a), Minus(p, a)) * Cross(Minus(b, a), Minus(q, a)) < 0
  PROVE  SegmentsIntersect(p, q, a, b)
<1>1. PICK m, s, t : /\ m = Cross(Minus(q, p), Minus(b, a)) /\ s = Cross(Minus(q, p), Minus(p, a))
                     /\ t = Cross(Minus(b, a), Minus(p, a))
  OBVIOUS
<1>2. /\ m \in Int /\ s \in Int /\ t \in Int
      /\ Cross(Minus(q, p), Minus(a, p)) = 0 - s /\ Cross(Minus(q, p), Minus(b, p)) = m - s
      /\ Cross(Minus(b, a), Minus(q, a)) = t - m
  BY <1>1, Sides
<1>3. (0 - s) * (m - s) < 0 /\ t * (t - m) < 0
  BY <1>1, <1>2
<1>4. (0 - t) * (m - t) = t * (t - m)
  BY <1>2, SMTT(20)
<1>5. (0 < s /\ s < m) \/ (m < s /\ s < 0)
  BY <1>2, <1>3, BetweenZeroAnd
<1>6. (0 < t /\ t < m) \/ (m < t /\ t < 0)
  BY <1>2, <1>3, <1>4, BetweenZeroAnd
<1>7. SegmentsIntersect(p, q, a, b) <=> \/ m > 0 /\ s \in 0 .. m /\ t \in 0 .. m
                                        \/ m < 0 /\ s \in m + 1 .. -1 /\ t \in m + 1 .. -1
  BY <1>1 DEF SegmentsIntersect
<1>. QED  BY <1>2, <1>5, <1>6, <1>7

\* A coordinate of a twelfth of a segment, seen from a point.
LEMMA TwelfthMoved ==
  ASSUME NEW k \in Int, NEW y \in Int, NEW z \in Int, NEW u \in Int
  PROVE  ((12 - k) * y + k * z) - 12 * u = k * (z - y) - 12 * (u - y)
BY SMTT(30)

\* The squares of both coordinates together.
LEMMA SumOfSquares ==
  ASSUME NEW k \in Int, NEW d1 \in Int, NEW d2 \in Int, NEW v1 \in Int, NEW v2 \in Int
  PROVE  (k * d1 - 12 * v1) * (k * d1 - 12 * v1) + (k * d2 - 12 * v2) * (k * d2 - 12 * v2)
           = 144 * (v1 * v1 + v2 * v2) - 24 * (k * (v1 * d1 + v2 * d2))
               + k * (k * (d1 * d1 + d2 * d2))
BY SMTT(30)

\* The square of the distance of c from a twelfth of a segment, times 144.
LEMMA TwelfthSquared ==
  ASSUME NEW p \in Points, NEW q \in Points, NEW c \in Points, NEW k \in 0 .. 12,
         NEW n, n = SquaredNorm(Minus(q, p)), NEW w, w = SquaredNorm(Minus(c, p)),
         NEW x, x = Dot(Minus(c, p), Minus(q, p))
  PROVE  SquaredNorm(Minus(Plus(Times(12 - k, p), Times(k, q)), Times(12, c)))
           = 144 * w - 24 * (k * x) + k * (k * n)
<1>1. k \in Int /\ \A r \in Points : \E y, z \in Int : r = <<y, z>>
  BY DEF Points
<1>2. PICK p1 \in Int, p2 \in Int : p = <<p1, p2>>
  BY <1>1
<1>3. PICK q1 \in Int, q2 \in Int : q = <<q1, q2>>
  BY <1>1
<1>4. PICK c1 \in Int, c2 \in Int : c = <<c1, c2>>
  BY <1>1
<1>5. PICK d1 \in Int, d2 \in Int, v1 \in Int, v2 \in Int :
        d1 = q1 - p1 /\ d2 = q2 - p2 /\ v1 = c1 - p1 /\ v2 = c2 - p2
  OBVIOUS
<1>6. n = d1 * d1 + d2 * d2 /\ w = v1 * v1 + v2 * v2 /\ x = v1 * d1 + v2 * d2
  BY <1>2, <1>3, <1>4, <1>5 DEF SquaredNorm, Dot, Minus
<1>7. Minus(Plus(Times(12 - k, p), Times(k, q)), Times(12, c))
        = <<((12 - k) * p1 + k * q1) - 12 * c1, ((12 - k) * p2 + k * q2) - 12 * c2>>
  BY <1>2, <1>3, <1>4 DEF Minus, Plus, Times
<1>8. /\ ((12 - k) * p1 + k * q1) - 12 * c1 = k * d1 - 12 * v1
      /\ ((12 - k) * p2 + k * q2) - 12 * c2 = k * d2 - 12 * v2
  <2>1. /\ ((12 - k) * p1 + k * q1) - 12 * c1 = k * (q1 - p1) - 12 * (c1 - p1)
        /\ ((12 - k) * p2 + k * q2) - 12 * c2 = k * (q2 - p2) - 12 * (c2 - p2)
    BY <1>1, TwelfthMoved
  <2>. QED  BY <1>5, <2>1, Zenon
<1>9. Minus(Plus(Times(12 - k, p), Times(k, q)), Times(12, c))
        = <<k * d1 - 12 * v1, k * d2 - 12 * v2>>
  BY <1>7, <1>8, Zenon
<1>10. \A y, z : SquaredNorm(<<y, z>>) = y * y + z * z
  BY DEF SquaredNorm, Dot
<1>11. SquaredNorm(<<k * d1 - 12 * v1, k * d2 - 12 * v2>>)
         = (k * d1 - 12 * v1) * (k * d1 - 12 * v1) + (k * d2 - 12 * v2) * (k * d2 - 12 * v2)
  BY <1>10, Zenon
<1>12. (k * d1 - 12 * v1) * (k * d1 - 12 * v1) + (k * d2 - 12 * v2) * (k * d2 - 12 * v2)
         = 144 * (v1 * v1 + v2 * v2) - 24 * (k * (v1 * d1 + v2 * d2))
             + k * (k * (d1 * d1 + d2 * d2))
  BY <1>1, SumOfSquares
<1>. QED  BY <1>6, <1>9, <1>11, <1>12, Zenon

\* What is not negative has a product that is not.
LEMMA ProductOfNaturals ==
  ASSUME NEW y \in Int, NEW z \in Int, y >= 0, z >= 0
  PROVE  y * z >= 0
BY SMTT(20)

\* Behind the end of the segment its end is the nearest point.
LEMMA BehindTheEnd ==
  ASSUME NEW k \in 0 .. 12, NEW n \in Nat, NEW x \in Int, x >= n
  PROVE  288 * x - 24 * (k * x) - 144 * n + k * (k * n) >= 0
<1>1. (12 - k) * (24 * (x - n)) + (12 - k) * ((12 - k) * n)
        = 288 * x - 24 * (k * x) - 144 * n + k * (k * n)
  BY SMTT(30)
<1>2. 12 - k \in Int /\ 12 - k >= 0 /\ 24 * (x - n) \in Int /\ 24 * (x - n) >= 0
  OBVIOUS
<1>3. (12 - k) * n \in Int /\ (12 - k) * n >= 0
  BY <1>2, ProductOfNaturals
<1>4. (12 - k) * (24 * (x - n)) >= 0 /\ (12 - k) * ((12 - k) * n) >= 0
  BY <1>2, <1>3, ProductOfNaturals
<1>5. (12 - k) * (24 * (x - n)) \in Int /\ (12 - k) * ((12 - k) * n) \in Int
  BY <1>2, <1>3
<1>. QED  BY <1>1, <1>4, <1>5

\* No twelfth of a segment is nearer than its nearest point.
LEMMA TwelfthIsNotNearer ==
  ASSUME NEW p \in Points, NEW q \in Points, p # q, NEW c \in Points, NEW k \in 0 .. 12,
         NEW f, f = PointToSegment(c, p, q), NEW square,
         square = SquaredNorm(Minus(Plus(Times(12 - k, p), Times(k, q)), Times(12, c)))
  PROVE  f[1] \in Nat /\ f[2] \in Nat \ {0} /\ square \in Nat /\ 144 * f[1] <= f[2] * square
<1>1. PICK n, w, x, z : /\ n = SquaredNorm(Minus(q, p)) /\ w = SquaredNorm(Minus(c, p))
                        /\ x = Dot(Minus(c, p), Minus(q, p)) /\ z = Cross(Minus(q, p), Minus(c, p))
  OBVIOUS
<1>2. /\ n \in Nat /\ n > 0 /\ w \in Nat /\ x \in Int /\ z \in Int /\ x * x + z * z = n * w
      /\ f = CASE x <= 0 -> <<w, 1>>
               [] x > 0 /\ x >= n -> <<w - 2 * x + n, 1>>
               [] OTHER -> <<z * z, n>>
  BY <1>1, SquaresOfSegment
<1>3. square = 144 * w - 24 * (k * x) + k * (k * n)
  BY <1>1, TwelfthSquared
<1>4. k \in Int /\ k >= 0 /\ k <= 12
  OBVIOUS
<1>5. square \in Nat
  <2>1. Plus(Times(12 - k, p), Times(k, q)) \in Points /\ Times(12, c) \in Points
    <3>1. 12 - k \in Int /\ 12 \in Int
      OBVIOUS
    <3>2. Times(12 - k, p) \in Points /\ Times(k, q) \in Points
      BY <1>4, <3>1, PointOperations
    <3>. QED  BY <3>1, <3>2, PointOperations
  <2>2. Minus(Plus(Times(12 - k, p), Times(k, q)), Times(12, c)) \in Points
    BY <2>1, PointOperations
  <2>. QED  BY <2>2, SquaredNorms
<1>6. f \in Fractions
  BY PointToSegmentIsTrue
<1>7. CASE x <= 0
  <2>1. k * x <= 0 /\ k * (k * n) >= 0 /\ k * x \in Int /\ k * (k * n) \in Int
    <3>1. \A y \in Int, u \in Int : y >= 0 /\ u >= 0 => y * u >= 0 /\ y * u \in Int
      BY SMTT(20)
    <3>2. k * n >= 0 /\ k * n \in Int
      BY <1>2, <1>4, <3>1
    <3>3. k * (k * n) >= 0 /\ k * (k * n) \in Int
      BY <1>4, <3>1, <3>2
    <3>4. k * (0 - x) >= 0 /\ k * x \in Int
      BY <1>2, <1>4, <1>7, <3>1
    <3>5. k * (0 - x) = 0 - k * x
      BY <1>2, <1>4, SMTT(20)
    <3>. QED  BY <3>3, <3>4, <3>5
  <2>2. f = <<w, 1>>
    BY <1>2, <1>7
  <2>3. 144 * w <= square
    BY <1>2, <1>3, <2>1
  <2>. QED  BY <1>2, <1>5, <2>2, <2>3
<1>8. CASE x > 0 /\ x >= n
  <2>1. f = <<w - 2 * x + n, 1>>
    BY <1>2, <1>8
  <2>2. 288 * x - 24 * (k * x) - 144 * n + k * (k * n) >= 0
    BY <1>2, <1>8, BehindTheEnd
  <2>4. k * x \in Int /\ k * (k * n) \in Int
    BY <1>2, <1>4
  <2>5. 144 * (w - 2 * x + n) <= square
    BY <1>2, <1>3, <1>5, <2>2, <2>4
  <2>6. w - 2 * x + n \in Nat
    BY <1>6, <2>1 DEF Fractions
  <2>. QED  BY <1>5, <2>1, <2>5, <2>6
<1>9. CASE x > 0 /\ ~(x >= n)
  <2>1. f = <<z * z, n>>
    BY <1>2, <1>9
  <2>2. (12 * x - k * n) * (12 * x - k * n) >= 0
    <3>1. \A y \in Int : y * y >= 0
      BY SMTT(20)
    <3>. QED  BY <1>2, <1>4, <3>1
  <2>3. 144 * (x * x + z * z) - 144 * (n * w) = 0
    BY <1>2
  <2>4. n * (144 * w - 24 * (k * x) + k * (k * n))
          = 144 * (n * w) - 144 * (x * x) + (12 * x - k * n) * (12 * x - k * n)
    BY <1>2, <1>4, SMTT(30)
  <2>5. PICK a \in Int, b \in Int, e \in Int, g \in Int :
          a = x * x /\ b = z * z /\ e = n * w /\ g = (12 * x - k * n) * (12 * x - k * n)
    BY <1>2, <1>4
  <2>6. n * square = 144 * e - 144 * a + g /\ a + b = e /\ g >= 0
    BY <1>2, <1>3, <2>2, <2>4, <2>5
  <2>7. 144 * b <= n * square
    BY <2>5, <2>6
  <2>8. b \in Nat
    BY <1>6, <2>1, <2>5 DEF Fractions
  <2>. QED  BY <1>2, <1>5, <2>1, <2>5, <2>7, <2>8
<1>. QED  BY <1>2, <1>7, <1>8, <1>9

\* A segment of which a twelfth is too near to a point has a nearest point
\* that is.
LEMMA NearTwelfthIsFound ==
  ASSUME NEW p \in Points, NEW q \in Points, p # q, NEW c \in Points, NEW k \in 0 .. 12,
         NEW reach \in Nat, NEW h \in Nat, 2 * reach <= h,
         SquaredNorm(Minus(Plus(Times(12 - k, p), Times(k, q)), Times(12, c))) < 144 * reach * reach
  PROVE  Below(PointToSegment(c, p, q), <<h * h, 4>>)
<1>1. PICK f, square : f = PointToSegment(c, p, q)
         /\ square = SquaredNorm(Minus(Plus(Times(12 - k, p), Times(k, q)), Times(12, c)))
  OBVIOUS
<1>2. f[1] \in Nat /\ f[2] \in Nat \ {0} /\ square \in Nat /\ 144 * f[1] <= f[2] * square
  BY <1>1, TwelfthIsNotNearer
<1>3. PICK a \in Nat, b \in Nat \ {0} : a = f[1] /\ b = f[2]
  BY <1>2
<1>4. 144 * a <= b * square
  BY <1>2, <1>3
<1>5. PICK r \in Nat, y \in Nat : r = reach * reach /\ y = h * h
  OBVIOUS
<1>6. 4 * r <= y
  <2>1. PICK z \in Nat : h = 2 * reach + z
    BY h - 2 * reach \in Nat
  <2>2. (2 * reach + z) * (2 * reach + z) = 4 * (reach * reach) + (4 * (reach * z) + z * z)
    BY SMTT(20)
  <2>3. reach * z \in Nat /\ z * z \in Nat
    OBVIOUS
  <2>. QED  BY <1>5, <2>1, <2>2, <2>3
<1>7. square < 144 * r
  <2>1. 144 * reach * reach = 144 * (reach * reach)
    BY SMTT(20)
  <2>. QED  BY <1>1, <1>5, <2>1
<1>8. 4 * square < 144 * y
  BY <1>2, <1>5, <1>6, <1>7
<1>9. b * (4 * square) < b * (144 * y)
  <2>1. \A u \in Int, v \in Int, i \in Int : u < v /\ i > 0 => i * u < i * v
    BY SMTT(20)
  <2>. QED  BY <1>2, <1>8, <2>1
<1>10. b * (4 * square) = 4 * (b * square) /\ b * (144 * y) = 144 * (b * y)
  BY <1>2, SMTT(20)
<1>11. b * square \in Int /\ b * y \in Int
  BY <1>2
<1>12. a * 4 < b * y
  BY <1>4, <1>9, <1>10, <1>11
<1>13. b * y = y * b
  OBVIOUS
<1>. QED  BY <1>1, <1>3, <1>5, <1>12, <1>13 DEF Below

-----------------------------------------------------------------------------
(* Rings of vertices.                                                      *)

\* The vertex after the i-th of a ring of n.
Next1(n, i) == IF i = n THEN 1 ELSE i + 1

\* Going on from any vertex of a ring reaches all of them.
LEMMA RingInduction ==
  ASSUME NEW n \in Nat \ {0}, NEW S \in SUBSET (1 .. n), NEW start \in S,
         \A i \in S : Next1(n, i) \in S
  PROVE  S = 1 .. n
<1>1. n \in S
  <2>. DEFINE P == {k \in 0 .. n : start + k <= n => start + k \in S}
  <2>1. P \in SUBSET (0 .. n) /\ 0 \in P
    OBVIOUS
  <2>2. ASSUME NEW k \in 1 .. n, k - 1 \in P  PROVE k \in P
    <3>1. ASSUME start + k <= n  PROVE start + k \in S
      <4>1. start + (k - 1) \in S /\ start + (k - 1) # n
        BY <2>2, <3>1
      <4>2. Next1(n, start + (k - 1)) = start + k
        BY <4>1 DEF Next1
      <4>. QED  BY <4>1, <4>2
    <3>. QED  BY <3>1
  <2>3. P = 0 .. n
    BY <2>1, <2>2, IntervalInduction
  <2>4. n - start \in 0 .. n /\ start + (n - start) = n
    OBVIOUS
  <2>5. \A k \in 0 .. n : start + k <= n => start + k \in S
    BY <2>3
  <2>6. start + (n - start) <= n => start + (n - start) \in S
    BY <2>4, <2>5
  <2>. QED  BY <2>4, <2>6
<1>2. 1 \in S
  BY <1>1 DEF Next1
<1>. DEFINE Q == {k \in 0 .. n - 1 : k + 1 \in S}
<1>3. Q \in SUBSET (0 .. n - 1) /\ 0 \in Q /\ n - 1 \in Nat
  BY <1>2
<1>4. ASSUME NEW k \in 1 .. n - 1, k - 1 \in Q  PROVE k \in Q
  <2>1. Next1(n, k) = k + 1 /\ k \in S
    BY <1>4 DEF Next1
  <2>. QED  BY <1>4, <2>1
<1>5. Q = 0 .. n - 1
  BY <1>3, <1>4, IntervalInduction
<1>6. ASSUME NEW i \in 1 .. n  PROVE i \in S
  <2>1. i - 1 \in 0 .. n - 1 /\ (i - 1) + 1 = i
    OBVIOUS
  <2>2. \A k \in 0 .. n - 1 : k + 1 \in S
    BY <1>5
  <2>3. (i - 1) + 1 \in S
    BY <2>1, <2>2
  <2>. QED  BY <2>1, <2>3
<1>. QED  BY <1>6

\* A ring with values of both signs rises somewhere.
LEMMA RingRises ==
  ASSUME NEW n \in Nat \ {0}, NEW g \in [1 .. n -> Int],
         \E i \in 1 .. n : g[i] < 0, \E i \in 1 .. n : g[i] > 0
  PROVE  \E i \in 1 .. n : g[i] <= 0 /\ g[Next1(n, i)] > 0
<1>. SUFFICES ASSUME \A i \in 1 .. n : ~(g[i] <= 0 /\ g[Next1(n, i)] > 0)  PROVE FALSE
  OBVIOUS
<1>. DEFINE S == {i \in 1 .. n : g[i] <= 0}
<1>1. PICK start \in 1 .. n : g[start] < 0
  OBVIOUS
<1>2. start \in S
  BY <1>1
<1>3. ASSUME NEW i \in S  PROVE Next1(n, i) \in S
  <2>1. Next1(n, i) \in 1 .. n
    BY DEF Next1
  <2>2. g[Next1(n, i)] \in Int
    BY <2>1
  <2>. QED  BY <2>1, <2>2
<1>4. S = 1 .. n
  BY <1>2, <1>3, RingInduction
<1>5. PICK i \in 1 .. n : g[i] > 0
  OBVIOUS
<1>6. g[i] <= 0 /\ g[i] \in Int
  BY <1>4
<1>. QED  BY <1>5, <1>6

\* Fractions with denominators above zero, of which a is below b.
LEMMA BelowTrans ==
  ASSUME NEW a \in Int, NEW b \in Int, NEW c \in Int, NEW d \in Int, NEW e \in Int, NEW f \in Int,
         b > 0, d > 0, f > 0, a * d < c * b, c * f < e * d
  PROVE  a * f < e * b
<1>1. \A x \in Int, y \in Int, z \in Int : x < y /\ z > 0 => z * x < z * y
  BY SMTT(20)
<1>2. PICK ad \in Int, cb \in Int, cf \in Int, ed \in Int, af \in Int, eb \in Int :
        ad = a * d /\ cb = c * b /\ cf = c * f /\ ed = e * d /\ af = a * f /\ eb = e * b
  OBVIOUS
<1>3. f * ad < f * cb /\ b * cf < b * ed
  BY <1>1, <1>2
<1>4. f * ad = d * af /\ f * cb = b * cf /\ b * ed = d * eb
  BY <1>2, SMTT(30)
<1>5. d * af < d * eb
  <2>1. f * ad \in Int /\ f * cb \in Int /\ b * cf \in Int /\ b * ed \in Int /\ d * af \in Int /\ d * eb \in Int
    BY <1>2
  <2>. QED  BY <1>3, <1>4, <2>1
<1>6. ~(eb <= af)
  <2>1. \A x \in Int, y \in Int, z \in Int : x <= y /\ z > 0 => z * x <= z * y
    BY SMTT(20)
  <2>2. eb <= af => d * eb <= d * af
    BY <1>2, <2>1
  <2>3. d * af \in Int /\ d * eb \in Int
    BY <1>2
  <2>. QED  BY <1>5, <2>2, <2>3
<1>. QED  BY <1>2, <1>6

\* The sign of a factor from that of the other and of the product.
LEMMA FactorsOfProduct ==
  ASSUME NEW x \in Int, NEW y \in Int, y <= 0
  PROVE  /\ 0 < x * y => x < 0
         /\ y * x < 0 => x > 0
BY SMTT(20)

\* Directions that turn on and on do not stay on one side.
LEMMA RingTurns ==
  ASSUME NEW n \in Nat \ {0}, NEW h \in [1 .. n -> Int], NEW g \in [1 .. n -> Int],
         \A i \in 1 .. n : g[i] * h[Next1(n, i)] < h[i] * g[Next1(n, i)]
  PROVE  \E i \in 1 .. n : g[i] > 0
<1>. SUFFICES ASSUME \A i \in 1 .. n : g[i] <= 0  PROVE FALSE
  OBVIOUS
<1>1. \A i \in 1 .. n : Next1(n, i) \in 1 .. n
  BY DEF Next1
<1>2. ASSUME NEW i \in 1 .. n  PROVE g[i] < 0
  <2>. SUFFICES ASSUME g[i] = 0  PROVE FALSE
    OBVIOUS
  <2>1. PICK j \in 1 .. n : Next1(n, j) = i
    <3>1. CASE i = 1
      <4>1. n \in 1 .. n /\ Next1(n, n) = 1
        BY DEF Next1
      <4>. QED  BY <3>1, <4>1
    <3>2. CASE i # 1
      <4>1. i - 1 \in 1 .. n /\ Next1(n, i - 1) = i
        BY <3>2 DEF Next1
      <4>. QED  BY <4>1
    <3>. QED  BY <3>1, <3>2
  <2>2. PICK x \in Int, y \in Int, z \in Int, u \in Int :
          x = h[i] /\ y = g[Next1(n, i)] /\ z = g[j] /\ u = h[Next1(n, i)]
    BY <1>1
  <2>3. y <= 0 /\ z <= 0
    BY <1>1, <2>2
  <2>4. 0 * u < x * y /\ z * x < h[j] * 0
    BY <2>1, <2>2
  <2>5. h[j] \in Int
    OBVIOUS
  <2>6. 0 * u = 0 /\ h[j] * 0 = 0
    BY <2>2, <2>5
  <2>7. 0 < x * y /\ z * x < 0
    BY <2>4, <2>6
  <2>8. x < 0 /\ x > 0
    BY <2>2, <2>3, <2>7, FactorsOfProduct
  <2>. QED  BY <2>2, <2>8
<1>. DEFINE S == {i \in 1 .. n : h[1] * (0 - g[i]) < h[i] * (0 - g[1])}
<1>3. ASSUME NEW i \in 1 .. n
      PROVE  h[i] * (0 - g[Next1(n, i)]) < h[Next1(n, i)] * (0 - g[i])
  <2>1. PICK x \in Int, y \in Int, z \in Int, u \in Int :
          x = h[i] /\ y = g[Next1(n, i)] /\ z = g[i] /\ u = h[Next1(n, i)]
    BY <1>1
  <2>2. z * u < x * y
    BY <2>1
  <2>3. x * (0 - y) = 0 - x * y /\ u * (0 - z) = 0 - z * u /\ x * y \in Int /\ z * u \in Int
    BY SMTT(20)
  <2>4. x * (0 - y) < u * (0 - z)
    BY <2>2, <2>3
  <2>. QED  BY <2>1, <2>4
<1>4. 1 \in 1 .. n
  OBVIOUS
<1>5. Next1(n, 1) \in S
  BY <1>1, <1>3, <1>4
<1>6. ASSUME NEW i \in S  PROVE Next1(n, i) \in S
  <2>1. i \in 1 .. n /\ Next1(n, i) \in 1 .. n
    BY <1>1
  <2>2. PICK k \in 1 .. n : k = Next1(n, i)
    BY <2>1
  <2>3. /\ h[1] \in Int /\ 0 - g[1] \in Int /\ h[i] \in Int /\ 0 - g[i] \in Int
        /\ h[k] \in Int /\ 0 - g[k] \in Int
        /\ 0 - g[1] > 0 /\ 0 - g[i] > 0 /\ 0 - g[k] > 0
    <3>1. ASSUME NEW j \in 1 .. n  PROVE h[j] \in Int /\ 0 - g[j] \in Int /\ 0 - g[j] > 0
      <4>1. g[j] \in Int /\ g[j] < 0 /\ h[j] \in Int
        BY <1>2
      <4>. QED  BY <4>1
    <3>. QED  BY <1>4, <2>1, <3>1
  <2>4. h[1] * (0 - g[i]) < h[i] * (0 - g[1])
    OBVIOUS
  <2>5. h[i] * (0 - g[k]) < h[k] * (0 - g[i])
    BY <1>3, <2>1, <2>2
  <2>6. h[1] * (0 - g[k]) < h[k] * (0 - g[1])
    BY <2>3, <2>4, <2>5, BelowTrans
  <2>. QED  BY <2>1, <2>2, <2>6
<1>7. S = 1 .. n
  BY <1>5, <1>6, RingInduction
<1>8. h[1] * (0 - g[1]) < h[1] * (0 - g[1])
  BY <1>4, <1>7
<1>9. h[1] * (0 - g[1]) \in Int
  BY <1>4
<1>. QED  BY <1>8, <1>9

-----------------------------------------------------------------------------
(* Segments through polygons.                                              *)

\* Twelve times a point that divides the segment from p to q.
Twelfth(p, q, k) == Plus(Times(12 - k, p), Times(k, q))

\* On which side of the edge from a to b the point z is, and z / 12.
Side(a, b, z) == Cross(Minus(b, a), Minus(z, a))
SideOfTwelfth(a, b, z) == Cross(Minus(b, a), Minus(z, Times(12, a)))

\* A point has two coordinates.
LEMMA Coordinates ==
  ASSUME NEW r \in Points
  PROVE  \E y \in Int, z \in Int : r = <<y, z>>
BY DEF Points

\* A twelfth of a segment in the equation of a line.
LEMMA TwelfthOfLine ==
  ASSUME NEW w1 \in Int, NEW w2 \in Int, NEW a1 \in Int, NEW a2 \in Int, NEW p1 \in Int,
         NEW p2 \in Int, NEW q1 \in Int, NEW q2 \in Int, NEW k \in Int
  PROVE  w1 * (((12 - k) * p2 + k * q2) - 12 * a2) - w2 * (((12 - k) * p1 + k * q1) - 12 * a1)
           = (12 - k) * (w1 * (p2 - a2) - w2 * (p1 - a1)) + k * (w1 * (q2 - a2) - w2 * (q1 - a1))
BY SMTT(30)

\* Along a segment the distance from an edge changes evenly.
LEMMA SideOfTwelfthIs ==
  ASSUME NEW p \in Points, NEW q \in Points, NEW a \in Points, NEW b \in Points, NEW k \in Int
  PROVE  SideOfTwelfth(a, b, Twelfth(p, q, k)) = (12 - k) * Side(a, b, p) + k * Side(a, b, q)
<1>1. PICK p1 \in Int, p2 \in Int : p = <<p1, p2>>
  BY Coordinates
<1>2. PICK q1 \in Int, q2 \in Int : q = <<q1, q2>>
  BY Coordinates
<1>3. PICK a1 \in Int, a2 \in Int : a = <<a1, a2>>
  BY Coordinates
<1>4. PICK w1 \in Int, w2 \in Int : Minus(b, a) = <<w1, w2>>
  BY PointOperations, Coordinates
<1>5. /\ Minus(p, a) = <<p1 - a1, p2 - a2>> /\ Minus(q, a) = <<q1 - a1, q2 - a2>>
      /\ Minus(Twelfth(p, q, k), Times(12, a))
           = <<((12 - k) * p1 + k * q1) - 12 * a1, ((12 - k) * p2 + k * q2) - 12 * a2>>
  BY <1>1, <1>2, <1>3 DEF Minus, Twelfth, Plus, Times
<1>6. \A v1, v2, z1, z2 : Cross(<<v1, v2>>, <<z1, z2>>) = v1 * z2 - v2 * z1
  BY DEF Cross
<1>7. Side(a, b, p) = w1 * (p2 - a2) - w2 * (p1 - a1)
  BY <1>4, <1>5, <1>6 DEF Side
<1>8. Side(a, b, q) = w1 * (q2 - a2) - w2 * (q1 - a1)
  BY <1>4, <1>5, <1>6 DEF Side
<1>9. SideOfTwelfth(a, b, Twelfth(p, q, k))
        = w1 * (((12 - k) * p2 + k * q2) - 12 * a2) - w2 * (((12 - k) * p1 + k * q1) - 12 * a1)
  BY <1>4, <1>5, <1>6 DEF SideOfTwelfth
<1>10. w1 * (((12 - k) * p2 + k * q2) - 12 * a2) - w2 * (((12 - k) * p1 + k * q1) - 12 * a1)
         = (12 - k) * (w1 * (p2 - a2) - w2 * (p1 - a1)) + k * (w1 * (q2 - a2) - w2 * (q1 - a1))
  BY TwelfthOfLine
<1>. QED  BY <1>7, <1>8, <1>9, <1>10, Zenon

\* Products of sides, for differences in coordinates.
LEMMA ProductsOfSides ==
  ASSUME NEW A1 \in Int, NEW A2 \in Int, NEW B1 \in Int, NEW B2 \in Int, NEW d1 \in Int,
         NEW d2 \in Int, NEW w1 \in Int, NEW w2 \in Int
  PROVE  (d1 * B2 - d2 * B1) * (w1 * A2 - w2 * A1) - (d1 * A2 - d2 * A1) * (w1 * B2 - w2 * B1)
           = (A1 * B2 - A2 * B1) * (w1 * d2 - w2 * d1)
BY SMTT(60)

\* The same for sides seen from any point x away.
LEMMA SidesCombined ==
  ASSUME NEW ga \in Int, NEW gb \in Int, NEW x \in Int, NEW wa \in Int, NEW wb \in Int,
         NEW t \in Int, NEW wd \in Int, gb * wa - ga * wb = t * wd
  PROVE  gb * (x + wa) - ga * (x + wb) = t * (x + wd) - (t - (gb - ga)) * x
<1>1. gb * (x + wa) - ga * (x + wb) = (gb * wa - ga * wb) + (gb * x - ga * x)
  BY SMTT(30)
<1>2. t * (x + wd) - (t - (gb - ga)) * x = t * wd + (gb * x - ga * x)
  BY SMTT(30)
<1>. QED  BY <1>1, <1>2, Zenon

\* Where the line from p to q crosses that of a and b, seen from an edge from
\* c to e: once as a point between a and b, once as a point between p and q.
LEMMA CrossingSeen ==
  ASSUME NEW p \in Points, NEW q \in Points, NEW a \in Points, NEW b \in Points,
         NEW c \in Points, NEW e \in Points
  PROVE  Side(p, q, b) * Side(c, e, a) - Side(p, q, a) * Side(c, e, b)
           = Side(a, b, p) * Side(c, e, q) - Side(a, b, q) * Side(c, e, p)
<1>1. PICK p1 \in Int, p2 \in Int : p = <<p1, p2>>
  BY Coordinates
<1>2. PICK A1 \in Int, A2 \in Int : Minus(a, p) = <<A1, A2>>
  BY PointOperations, Coordinates
<1>3. PICK B1 \in Int, B2 \in Int : Minus(b, p) = <<B1, B2>>
  BY PointOperations, Coordinates
<1>4. PICK d1 \in Int, d2 \in Int : Minus(q, p) = <<d1, d2>>
  BY PointOperations, Coordinates
<1>5. PICK u1 \in Int, u2 \in Int : Minus(p, c) = <<u1, u2>>
  BY PointOperations, Coordinates
<1>6. PICK w1 \in Int, w2 \in Int : Minus(e, c) = <<w1, w2>>
  BY PointOperations, Coordinates
<1>7. \A r \in Points : r[1] \in Int /\ r[2] \in Int
  BY PointOperations
<1>8. /\ Minus(a, c) = <<u1 + A1, u2 + A2>> /\ Minus(b, c) = <<u1 + B1, u2 + B2>>
      /\ Minus(q, c) = <<u1 + d1, u2 + d2>> /\ Minus(b, a) = <<B1 - A1, B2 - A2>>
      /\ Minus(p, a) = <<0 - A1, 0 - A2>> /\ Minus(q, a) = <<d1 - A1, d2 - A2>>
  BY <1>2, <1>3, <1>4, <1>5, <1>7 DEF Minus
<1>9. \A v1, v2, z1, z2 : Cross(<<v1, v2>>, <<z1, z2>>) = v1 * z2 - v2 * z1
  BY DEF Cross
<1>. DEFINE x == w1 * u2 - w2 * u1
            wa == w1 * A2 - w2 * A1
            wb == w1 * B2 - w2 * B1
            wd == w1 * d2 - w2 * d1
            ga == d1 * A2 - d2 * A1
            gb == d1 * B2 - d2 * B1
            t == A1 * B2 - A2 * B1
<1>10. ASSUME NEW z1 \in Int, NEW z2 \in Int
       PROVE  w1 * (u2 + z2) - w2 * (u1 + z1) = (w1 * u2 - w2 * u1) + (w1 * z2 - w2 * z1)
  BY SMTT(30)
<1>11. Side(p, q, a) = ga /\ Side(p, q, b) = gb /\ Side(c, e, p) = x
  BY <1>2, <1>3, <1>4, <1>5, <1>6, <1>9 DEF Side
<1>12. Side(c, e, a) = w1 * (u2 + A2) - w2 * (u1 + A1) /\ Side(c, e, b) = w1 * (u2 + B2) - w2 * (u1 + B1)
       /\ Side(c, e, q) = w1 * (u2 + d2) - w2 * (u1 + d1)
  BY <1>6, <1>8, <1>9 DEF Side
<1>13. Side(c, e, a) = x + wa /\ Side(c, e, b) = x + wb /\ Side(c, e, q) = x + wd
  BY <1>10, <1>12
<1>14. (B1 - A1) * (0 - A2) - (B2 - A2) * (0 - A1) = A1 * B2 - A2 * B1
  BY SMTT(30)
<1>15. (B1 - A1) * (d2 - A2) - (B2 - A2) * (d1 - A1)
         = (A1 * B2 - A2 * B1) - ((d1 * B2 - d2 * B1) - (d1 * A2 - d2 * A1))
  BY SMTT(30)
<1>16. Side(a, b, p) = t /\ Side(a, b, q) = t - (gb - ga)
  <2>1. /\ Side(a, b, p) = (B1 - A1) * (0 - A2) - (B2 - A2) * (0 - A1)
        /\ Side(a, b, q) = (B1 - A1) * (d2 - A2) - (B2 - A2) * (d1 - A1)
    <3>1. /\ Side(a, b, p) = Cross(<<B1 - A1, B2 - A2>>, <<0 - A1, 0 - A2>>)
          /\ Side(a, b, q) = Cross(<<B1 - A1, B2 - A2>>, <<d1 - A1, d2 - A2>>)
      BY <1>8, Zenon DEF Side
    <3>2. /\ Cross(<<B1 - A1, B2 - A2>>, <<0 - A1, 0 - A2>>) = (B1 - A1) * (0 - A2) - (B2 - A2) * (0 - A1)
          /\ Cross(<<B1 - A1, B2 - A2>>, <<d1 - A1, d2 - A2>>)
               = (B1 - A1) * (d2 - A2) - (B2 - A2) * (d1 - A1)
      BY <1>9, Zenon
    <3>. QED  BY <3>1, <3>2, Zenon
  <2>. QED  BY <1>14, <1>15, <2>1, Zenon
<1>17. gb * wa - ga * wb = t * wd
  BY ProductsOfSides
<1>18. ga \in Int /\ gb \in Int /\ x \in Int /\ wa \in Int /\ wb \in Int /\ t \in Int /\ wd \in Int
  OBVIOUS
<1>. HIDE DEF x, wa, wb, wd, ga, gb, t
<1>19. gb * (x + wa) - ga * (x + wb) = t * (x + wd) - (t - (gb - ga)) * x
  BY <1>17, <1>18, SidesCombined
<1>. QED  BY <1>11, <1>13, <1>16, <1>19, Zenon

\* How far it turns from one direction to another, by their components
\* along and across a third.
LEMMA TurnsOfDirections ==
  ASSUME NEW A1 \in Int, NEW A2 \in Int, NEW B1 \in Int, NEW B2 \in Int, NEW d1 \in Int, NEW d2 \in Int
  PROVE  (d1 * d1 + d2 * d2) * (A1 * B2 - A2 * B1)
           = (d1 * A1 + d2 * A2) * (d1 * B2 - d2 * B1) - (d1 * A2 - d2 * A1) * (d1 * B1 + d2 * B2)
BY SMTT(60)

\* The turn between the ends of an edge is the side of that edge.
LEMMA TwelveTimesSide ==
  ASSUME NEW A1 \in Int, NEW A2 \in Int, NEW B1 \in Int, NEW B2 \in Int, NEW w1 \in Int, NEW w2 \in Int,
         B1 - A1 = 12 * w1, B2 - A2 = 12 * w2
  PROVE  A1 * B2 - A2 * B1 = 12 * (w1 * (0 - A2) - w2 * (0 - A1))
<1>1. B1 = A1 + 12 * w1 /\ B2 = A2 + 12 * w2
  OBVIOUS
<1>2. A1 * (A2 + 12 * w2) - A2 * (A1 + 12 * w1) = 12 * (w1 * (0 - A2) - w2 * (0 - A1))
  BY SMTT(30)
<1>. QED  BY <1>1, <1>2, Zenon

\* Twelve times a point is a point.
LEMMA TwelveTimes ==
  ASSUME NEW p \in Points
  PROVE  Times(12, p) \in Points
<1>1. 12 \in Int
  OBVIOUS
<1>. QED  BY <1>1, PointOperations

\* Twelve times a number less another is a number.
LEMMA TwelveTimesLess ==
  ASSUME NEW y \in Int, NEW z \in Int
  PROVE  \E x \in Int : x = 12 * y - z
<1>1. 12 * y - z \in Int
  OBVIOUS
<1>. QED  BY <1>1, Zenon

\* From the direction of a to that of b, seen from z / 12, it turns to the side
\* of their edge on which that point is.
LEMMA TurnOfEdge ==
  ASSUME NEW a \in Points, NEW b \in Points, NEW z \in Points, NEW d \in Points,
         NEW u, u = Minus(Times(12, a), z), NEW v, v = Minus(Times(12, b), z)
  PROVE  SquaredNorm(d) * (12 * SideOfTwelfth(a, b, z)) = Dot(d, u) * Cross(d, v) - Cross(d, u) * Dot(d, v)
<1>1. PICK a1 \in Int, a2 \in Int : a = <<a1, a2>>
  BY Coordinates
<1>2. PICK b1 \in Int, b2 \in Int : b = <<b1, b2>>
  BY Coordinates
<1>3. PICK z1 \in Int, z2 \in Int : z = <<z1, z2>>
  BY Coordinates
<1>4. PICK d1 \in Int, d2 \in Int : d = <<d1, d2>>
  BY Coordinates
<1>5. PICK A1 \in Int : A1 = 12 * a1 - z1
  BY TwelveTimesLess
<1>51. PICK A2 \in Int : A2 = 12 * a2 - z2
  BY TwelveTimesLess
<1>52. PICK B1 \in Int : B1 = 12 * b1 - z1
  BY TwelveTimesLess
<1>53. PICK B2 \in Int : B2 = 12 * b2 - z2
  BY TwelveTimesLess
<1>54. PICK w1 \in Int : w1 = b1 - a1
  OBVIOUS
<1>55. PICK w2 \in Int : w2 = b2 - a2
  OBVIOUS
<1>6. u = <<A1, A2>> /\ v = <<B1, B2>>
  BY <1>1, <1>2, <1>3, <1>5, <1>51, <1>52, <1>53 DEF Minus, Times
<1>7. Minus(b, a) = <<w1, w2>> /\ Minus(z, Times(12, a)) = <<0 - A1, 0 - A2>>
  BY <1>1, <1>2, <1>3, <1>5, <1>51, <1>54, <1>55 DEF Minus, Times
<1>8. SideOfTwelfth(a, b, z) = w1 * (0 - A2) - w2 * (0 - A1)
  <2>1. SideOfTwelfth(a, b, z) = Cross(<<w1, w2>>, <<0 - A1, 0 - A2>>)
    BY <1>7, Zenon DEF SideOfTwelfth
  <2>2. \A v1, v2, x1, x2 : Cross(<<v1, v2>>, <<x1, x2>>) = v1 * x2 - v2 * x1
    BY DEF Cross
  <2>. QED  BY <2>1, <2>2, Zenon
<1>9. B1 - A1 = 12 * w1 /\ B2 - A2 = 12 * w2
  BY <1>5, <1>51, <1>52, <1>53, <1>54, <1>55
<1>10. 12 * SideOfTwelfth(a, b, z) = A1 * B2 - A2 * B1
  <2>1. A1 * B2 - A2 * B1 = 12 * (w1 * (0 - A2) - w2 * (0 - A1))
    BY <1>9, TwelveTimesSide
  <2>. QED  BY <1>8, <2>1, Zenon
<1>11. /\ SquaredNorm(d) = d1 * d1 + d2 * d2 /\ Dot(d, u) = d1 * A1 + d2 * A2
       /\ Cross(d, v) = d1 * B2 - d2 * B1 /\ Cross(d, u) = d1 * A2 - d2 * A1
       /\ Dot(d, v) = d1 * B1 + d2 * B2
  BY <1>4, <1>6 DEF SquaredNorm, Dot, Cross
<1>12. (d1 * d1 + d2 * d2) * (A1 * B2 - A2 * B1)
         = (d1 * A1 + d2 * A2) * (d1 * B2 - d2 * B1) - (d1 * A2 - d2 * A1) * (d1 * B1 + d2 * B2)
  BY TurnsOfDirections
<1>. QED  BY <1>10, <1>11, <1>12, Zenon

\* The edges of a polygon, one from every vertex.
LEMMA EdgesOfRing ==
  ASSUME NEW v \in Figures, Len(v) > 2
  PROVE  /\ Len(v) \in Nat \ {0}
         /\ \A i \in 1 .. Len(v) : /\ Next1(Len(v), i) \in 1 .. Len(v) /\ v[i] \in Points
                                   /\ v[Next1(Len(v), i)] \in Points
                                   /\ <<v[i], v[Next1(Len(v), i)]>> \in Edges(v)
         /\ \A e \in Edges(v) : \E i \in 1 .. Len(v) : e = <<v[i], v[Next1(Len(v), i)]>>
<1>1. PICK n \in Nat : n = Len(v)
  BY DEF Figures
<1>2. n > 2 /\ \A i \in 1 .. n : Next1(n, i) \in 1 .. n /\ v[i] \in Points
  BY <1>1 DEF Next1, Figures
<1>3. Edges(v) = {<<v[i], v[i + 1]>> : i \in 1 .. n - 1} \cup {<<v[n], v[1]>>}
  BY <1>1, <1>2 DEF Edges
<1>4. Next1(n, n) = 1 /\ \A i \in 1 .. n - 1 : Next1(n, i) = i + 1 /\ i \in 1 .. n
  BY <1>2 DEF Next1
<1>5. ASSUME NEW i \in 1 .. n  PROVE <<v[i], v[Next1(n, i)]>> \in Edges(v)
  <2>1. CASE i = n
    BY <1>3, <1>4, <2>1
  <2>2. CASE i # n
    <3>1. i \in 1 .. n - 1
      BY <2>2
    <3>. QED  BY <1>3, <1>4, <3>1
  <2>. QED  BY <2>1, <2>2
<1>6. ASSUME NEW e \in Edges(v)  PROVE \E i \in 1 .. n : e = <<v[i], v[Next1(n, i)]>>
  <2>1. CASE e = <<v[n], v[1]>>
    <3>1. n \in 1 .. n
      BY <1>2
    <3>. QED  BY <1>4, <2>1, <3>1
  <2>2. CASE \E i \in 1 .. n - 1 : e = <<v[i], v[i + 1]>>
    BY <1>4, <2>2
  <2>. QED  BY <1>3, <2>1, <2>2
<1>. QED  BY <1>1, <1>2, <1>5, <1>6

\* A factor above zero keeps the sign.
LEMMA FactorAboveZero ==
  ASSUME NEW s \in Int, NEW f \in Int, s > 0
  PROVE  /\ f > 0 => s * (12 * f) > 0
         /\ f < 0 => s * (12 * f) < 0
BY SMTT(20)

\* Signs of products.
LEMMA NegatedProducts ==
  ASSUME NEW a \in Int, NEW b \in Int
  PROVE  (0 - a) * (0 - b) = a * b /\ a * (0 - b) = 0 - a * b /\ (0 - a) * b = 0 - a * b
BY SMTT(20)

\* A line through an interior point has vertices on both of its sides.
LEMMA InteriorHasBothSides ==
  ASSUME NEW v \in Figures, Len(v) > 2, NEW z \in Points, NEW d \in Points, d # <<0, 0>>,
         \/ \A e \in Edges(v) : SideOfTwelfth(e[1], e[2], z) > 0
         \/ \A e \in Edges(v) : SideOfTwelfth(e[1], e[2], z) < 0
  PROVE  /\ \E i \in 1 .. Len(v) : Cross(d, Minus(Times(12, v[i]), z)) < 0
         /\ \E i \in 1 .. Len(v) : Cross(d, Minus(Times(12, v[i]), z)) > 0
<1>1. PICK n : n = Len(v)
  OBVIOUS
<1>2. n \in Nat \ {0} /\ \A i \in 1 .. n : Next1(n, i) \in 1 .. n /\ v[i] \in Points
  BY <1>1, EdgesOfRing
<1>3. PICK u : u = [i \in 1 .. n |-> Minus(Times(12, v[i]), z)]
  OBVIOUS
<1>4. \A i \in 1 .. n : u[i] = Minus(Times(12, v[i]), z) /\ u[i] \in Points
  <2>. SUFFICES ASSUME NEW i \in 1 .. n
                PROVE  u[i] = Minus(Times(12, v[i]), z) /\ u[i] \in Points
    OBVIOUS
  <2>1. Times(12, v[i]) \in Points
    BY <1>2, TwelveTimes
  <2>. QED  BY <1>3, <2>1, PointOperations
<1>5. PICK h \in [1 .. n -> Int], minush \in [1 .. n -> Int] :
        \A i \in 1 .. n : h[i] = Dot(d, u[i]) /\ minush[i] = 0 - h[i]
  <2>1. \A i \in 1 .. n : Dot(d, u[i]) \in Int
    BY <1>4, PointOperations
  <2>2. [i \in 1 .. n |-> Dot(d, u[i])] \in [1 .. n -> Int]
    BY <2>1
  <2>3. PICK h \in [1 .. n -> Int] : h = [i \in 1 .. n |-> Dot(d, u[i])]
    BY <2>2
  <2>4. [i \in 1 .. n |-> 0 - h[i]] \in [1 .. n -> Int]
    OBVIOUS
  <2>. QED  BY <2>3, <2>4
<1>6. PICK g \in [1 .. n -> Int], minusg \in [1 .. n -> Int] :
        \A i \in 1 .. n : g[i] = Cross(d, u[i]) /\ minusg[i] = 0 - g[i]
  <2>1. \A i \in 1 .. n : Cross(d, u[i]) \in Int
    BY <1>4, PointOperations
  <2>2. [i \in 1 .. n |-> Cross(d, u[i])] \in [1 .. n -> Int]
    BY <2>1
  <2>3. PICK g \in [1 .. n -> Int] : g = [i \in 1 .. n |-> Cross(d, u[i])]
    BY <2>2
  <2>4. [i \in 1 .. n |-> 0 - g[i]] \in [1 .. n -> Int]
    OBVIOUS
  <2>. QED  BY <2>3, <2>4
<1>7. PICK s : s = SquaredNorm(d)
  OBVIOUS
<1>8. s \in Int /\ s > 0
  BY <1>7, SquaredNorms
<1>9. ASSUME NEW i \in 1 .. n
      PROVE  \E f \in Int : /\ <<v[i], v[Next1(n, i)]>> \in Edges(v)
                            /\ f = SideOfTwelfth(v[i], v[Next1(n, i)], z)
                            /\ s * (12 * f) = h[i] * g[Next1(n, i)] - g[i] * h[Next1(n, i)]
  <2>1. PICK k \in 1 .. n : k = Next1(n, i)
    BY <1>2
  <2>2. PICK a \in Points, b \in Points : a = v[i] /\ b = v[k]
    BY <1>2
  <2>3. PICK f : f = SideOfTwelfth(a, b, z)
    OBVIOUS
  <2>4. f \in Int
    <3>1. Minus(b, a) \in Points /\ Times(12, a) \in Points
      BY TwelveTimes, PointOperations
    <3>2. Minus(z, Times(12, a)) \in Points
      BY <3>1, PointOperations
    <3>. QED  BY <2>3, <3>1, <3>2, PointOperations DEF SideOfTwelfth
  <2>5. s * (12 * f) = Dot(d, u[i]) * Cross(d, u[k]) - Cross(d, u[i]) * Dot(d, u[k])
    BY <1>4, <1>7, <2>2, <2>3, TurnOfEdge
  <2>6. s * (12 * f) = h[i] * g[k] - g[i] * h[k]
    BY <1>5, <1>6, <2>5, Zenon
  <2>7. <<v[i], v[k]>> \in Edges(v)
    BY <1>1, <2>1, EdgesOfRing
  <2>. QED  BY <2>1, <2>2, <2>3, <2>4, <2>6, <2>7
<1>10. ASSUME NEW i \in 1 .. n
       PROVE  /\ h[i] * g[Next1(n, i)] \in Int /\ g[i] * h[Next1(n, i)] \in Int
              /\ minush[i] * g[Next1(n, i)] = 0 - h[i] * g[Next1(n, i)]
              /\ g[i] * minush[Next1(n, i)] = 0 - g[i] * h[Next1(n, i)]
              /\ h[i] * minusg[Next1(n, i)] = 0 - h[i] * g[Next1(n, i)]
              /\ minusg[i] * h[Next1(n, i)] = 0 - g[i] * h[Next1(n, i)]
              /\ minush[i] * minusg[Next1(n, i)] = h[i] * g[Next1(n, i)]
              /\ minusg[i] * minush[Next1(n, i)] = g[i] * h[Next1(n, i)]
  <2>1. PICK k \in 1 .. n : k = Next1(n, i)
    BY <1>2
  <2>2. /\ h[i] \in Int /\ g[i] \in Int /\ h[k] \in Int /\ g[k] \in Int
        /\ minush[i] = 0 - h[i] /\ minush[k] = 0 - h[k] /\ minusg[i] = 0 - g[i] /\ minusg[k] = 0 - g[k]
    BY <1>5, <1>6
  <2>3. h[i] * g[k] \in Int /\ g[i] * h[k] \in Int
    BY <2>2
  <2>4. /\ (0 - h[i]) * g[k] = 0 - h[i] * g[k] /\ g[i] * (0 - h[k]) = 0 - g[i] * h[k]
        /\ h[i] * (0 - g[k]) = 0 - h[i] * g[k] /\ (0 - g[i]) * h[k] = 0 - g[i] * h[k]
        /\ (0 - h[i]) * (0 - g[k]) = h[i] * g[k] /\ (0 - g[i]) * (0 - h[k]) = g[i] * h[k]
    BY <2>2, NegatedProducts
  <2>. QED  BY <2>1, <2>2, <2>3, <2>4, Zenon
<1>11. (\E i \in 1 .. n : g[i] > 0) /\ (\E i \in 1 .. n : minusg[i] > 0)
  <2>1. CASE \A e \in Edges(v) : SideOfTwelfth(e[1], e[2], z) > 0
    <3>1. ASSUME NEW i \in 1 .. n
          PROVE  g[i] * h[Next1(n, i)] < h[i] * g[Next1(n, i)]
      <4>1. PICK f \in Int : /\ <<v[i], v[Next1(n, i)]>> \in Edges(v)
                             /\ f = SideOfTwelfth(v[i], v[Next1(n, i)], z)
                             /\ s * (12 * f) = h[i] * g[Next1(n, i)] - g[i] * h[Next1(n, i)]
        BY <1>9
      <4>2. f > 0
        BY <2>1, <4>1
      <4>3. s * (12 * f) > 0
        BY <1>8, <4>2, FactorAboveZero
      <4>. QED  BY <1>10, <4>1, <4>3
    <3>2. \E i \in 1 .. n : g[i] > 0
      BY <1>2, <3>1, RingTurns
    <3>3. \A i \in 1 .. n : minusg[i] * minush[Next1(n, i)] < minush[i] * minusg[Next1(n, i)]
      BY <1>10, <3>1
    <3>4. \E i \in 1 .. n : minusg[i] > 0
      BY <1>2, <3>3, RingTurns
    <3>. QED  BY <3>2, <3>4
  <2>2. CASE \A e \in Edges(v) : SideOfTwelfth(e[1], e[2], z) < 0
    <3>1. ASSUME NEW i \in 1 .. n
          PROVE  h[i] * g[Next1(n, i)] < g[i] * h[Next1(n, i)]
      <4>1. PICK f \in Int : /\ <<v[i], v[Next1(n, i)]>> \in Edges(v)
                             /\ f = SideOfTwelfth(v[i], v[Next1(n, i)], z)
                             /\ s * (12 * f) = h[i] * g[Next1(n, i)] - g[i] * h[Next1(n, i)]
        BY <1>9
      <4>2. f < 0
        BY <2>2, <4>1
      <4>3. s * (12 * f) < 0
        BY <1>8, <4>2, FactorAboveZero
      <4>. QED  BY <1>10, <4>1, <4>3
    <3>2. \A i \in 1 .. n : g[i] * minush[Next1(n, i)] < minush[i] * g[Next1(n, i)]
      BY <1>10, <3>1
    <3>3. \E i \in 1 .. n : g[i] > 0
      BY <1>2, <3>2, RingTurns
    <3>4. \A i \in 1 .. n : minusg[i] * h[Next1(n, i)] < h[i] * minusg[Next1(n, i)]
      BY <1>10, <3>1
    <3>5. \E i \in 1 .. n : minusg[i] > 0
      BY <1>2, <3>4, RingTurns
    <3>. QED  BY <3>3, <3>5
  <2>. QED  BY <2>1, <2>2
<1>12. \A i \in 1 .. n : g[i] = Cross(d, Minus(Times(12, v[i]), z)) /\ g[i] \in Int /\ minusg[i] = 0 - g[i]
  BY <1>4, <1>6
<1>13. \E i \in 1 .. n : g[i] < 0
  BY <1>11, <1>12
<1>. QED  BY <1>1, <1>11, <1>12, <1>13

\* Sides are numbers.
LEMMA SideType ==
  ASSUME NEW a \in Points, NEW b \in Points, NEW c \in Points
  PROVE  Side(a, b, c) \in Int /\ SideOfTwelfth(a, b, c) \in Int
<1>1. Minus(b, a) \in Points /\ Minus(c, a) \in Points /\ Times(12, a) \in Points
  BY TwelveTimes, PointOperations
<1>2. Minus(c, Times(12, a)) \in Points
  BY <1>1, PointOperations
<1>. QED  BY <1>1, <1>2, PointOperations DEF Side, SideOfTwelfth

\* Twelve times a twelfth of a segment is a point.
LEMMA TwelfthIsPoint ==
  ASSUME NEW p \in Points, NEW q \in Points, NEW k \in 0 .. 12
  PROVE  Twelfth(p, q, k) \in Points
<1>1. 12 - k \in Int /\ k \in Int
  OBVIOUS
<1>2. Times(12 - k, p) \in Points /\ Times(k, q) \in Points
  BY <1>1, PointOperations
<1>. QED  BY <1>2, PointOperations DEF Twelfth

\* The side of a point, seen from a twelfth of a segment.
LEMMA FromTwelfth ==
  ASSUME NEW w1 \in Int, NEW w2 \in Int, NEW x1 \in Int, NEW x2 \in Int, NEW a1 \in Int, NEW a2 \in Int,
         NEW z1 \in Int, NEW z2 \in Int
  PROVE  w1 * (12 * x2 - z2) - w2 * (12 * x1 - z1)
           = 12 * (w1 * (x2 - a2) - w2 * (x1 - a1)) - (w1 * (z2 - 12 * a2) - w2 * (z1 - 12 * a1))
BY SMTT(30)

\* A vertex is on the other side of a parallel to an edge if it is nearer to it.
LEMMA SideOfParallel ==
  ASSUME NEW a \in Points, NEW b \in Points, NEW x \in Points, NEW z \in Points
  PROVE  Cross(Minus(b, a), Minus(Times(12, x), z)) = 12 * Side(a, b, x) - SideOfTwelfth(a, b, z)
<1>1. PICK a1 \in Int, a2 \in Int : a = <<a1, a2>>
  BY Coordinates
<1>2. PICK x1 \in Int, x2 \in Int : x = <<x1, x2>>
  BY Coordinates
<1>3. PICK z1 \in Int, z2 \in Int : z = <<z1, z2>>
  BY Coordinates
<1>4. PICK w1 \in Int, w2 \in Int : Minus(b, a) = <<w1, w2>>
  BY PointOperations, Coordinates
<1>5. /\ Minus(Times(12, x), z) = <<12 * x1 - z1, 12 * x2 - z2>>
      /\ Minus(x, a) = <<x1 - a1, x2 - a2>>
      /\ Minus(z, Times(12, a)) = <<z1 - 12 * a1, z2 - 12 * a2>>
  BY <1>1, <1>2, <1>3 DEF Minus, Times
<1>6. /\ Cross(Minus(b, a), Minus(Times(12, x), z)) = Cross(<<w1, w2>>, <<12 * x1 - z1, 12 * x2 - z2>>)
      /\ Side(a, b, x) = Cross(<<w1, w2>>, <<x1 - a1, x2 - a2>>)
      /\ SideOfTwelfth(a, b, z) = Cross(<<w1, w2>>, <<z1 - 12 * a1, z2 - 12 * a2>>)
  BY <1>4, <1>5, Zenon DEF Side, SideOfTwelfth
<1>7. \A v1, v2, y1, y2 : Cross(<<v1, v2>>, <<y1, y2>>) = v1 * y2 - v2 * y1
  BY DEF Cross
<1>8. /\ Cross(Minus(b, a), Minus(Times(12, x), z)) = w1 * (12 * x2 - z2) - w2 * (12 * x1 - z1)
      /\ Side(a, b, x) = w1 * (x2 - a2) - w2 * (x1 - a1)
      /\ SideOfTwelfth(a, b, z) = w1 * (z2 - 12 * a2) - w2 * (z1 - 12 * a1)
  <2>1. Cross(<<w1, w2>>, <<12 * x1 - z1, 12 * x2 - z2>>) = w1 * (12 * x2 - z2) - w2 * (12 * x1 - z1)
    BY <1>7, Zenon
  <2>2. Cross(<<w1, w2>>, <<x1 - a1, x2 - a2>>) = w1 * (x2 - a2) - w2 * (x1 - a1)
    BY <1>7, Zenon
  <2>3. Cross(<<w1, w2>>, <<z1 - 12 * a1, z2 - 12 * a2>>)
          = w1 * (z2 - 12 * a2) - w2 * (z1 - 12 * a1)
    BY DEF Cross
  <2>. QED  BY <1>6, <2>1, <2>2, <2>3, Zenon
<1>9. w1 * (12 * x2 - z2) - w2 * (12 * x1 - z1)
        = 12 * (w1 * (x2 - a2) - w2 * (x1 - a1)) - (w1 * (z2 - 12 * a2) - w2 * (z1 - 12 * a1))
  BY FromTwelfth
<1>. QED  BY <1>8, <1>9, Zenon

\* A segment is on its own line.
LEMMA OnOwnLine ==
  ASSUME NEW p \in Points, NEW q \in Points
  PROVE  Side(p, q, p) = 0 /\ Side(p, q, q) = 0
<1>1. PICK d1 \in Int, d2 \in Int : Minus(q, p) = <<d1, d2>>
  BY PointOperations, Coordinates
<1>2. Minus(p, p) = <<0, 0>>
  <2>1. p[1] \in Int /\ p[2] \in Int
    BY PointOperations
  <2>. QED  BY <2>1 DEF Minus
<1>3. d1 * 0 - d2 * 0 = 0 /\ d1 * d2 - d2 * d1 = 0
  BY SMTT(20)
<1>. QED  BY <1>1, <1>2, <1>3 DEF Side, Cross

\* Edges of a polygon around a point of a line cross the line upwards.
LEMMA EdgeAcross ==
  ASSUME NEW v \in Figures, Len(v) > 2, NEW p \in Points, NEW q \in Points, p # q,
         NEW k \in 0 .. 12, NEW z \in Points, z = Twelfth(p, q, k),
         \/ \A e \in Edges(v) : SideOfTwelfth(e[1], e[2], z) > 0
         \/ \A e \in Edges(v) : SideOfTwelfth(e[1], e[2], z) < 0
  PROVE  \E e \in Edges(v) : /\ e[1] \in Points /\ e[2] \in Points
                             /\ e[1] \in {v[i] : i \in DOMAIN v} /\ e[2] \in {v[i] : i \in DOMAIN v}
                             /\ Side(p, q, e[1]) <= 0 /\ Side(p, q, e[2]) > 0
<1>1. PICK n : n = Len(v)
  OBVIOUS
<1>2. /\ n \in Nat \ {0} /\ DOMAIN v = 1 .. n
      /\ \A i \in 1 .. n : /\ Next1(n, i) \in 1 .. n /\ v[i] \in Points
                           /\ <<v[i], v[Next1(n, i)]>> \in Edges(v)
  BY <1>1, EdgesOfRing DEF Figures
<1>3. Minus(q, p) \in Points /\ Minus(q, p) # <<0, 0>>
  <2>1. \A r \in Points : r[1] \in Int /\ r[2] \in Int /\ r = <<r[1], r[2]>>
    BY DEF Points
  <2>2. Minus(q, p) = <<0, 0>> => q[1] - p[1] = 0 /\ q[2] - p[2] = 0
    BY DEF Minus
  <2>3. Minus(q, p) = <<0, 0>> => q[1] = p[1] /\ q[2] = p[2]
    BY <2>1, <2>2
  <2>4. Minus(q, p) # <<0, 0>>
    BY <2>1, <2>3
  <2>. QED  BY <2>4, PointOperations
<1>4. /\ \E i \in 1 .. n : Cross(Minus(q, p), Minus(Times(12, v[i]), z)) < 0
      /\ \E i \in 1 .. n : Cross(Minus(q, p), Minus(Times(12, v[i]), z)) > 0
  BY <1>1, <1>3, InteriorHasBothSides
<1>5. SideOfTwelfth(p, q, z) = 0
  <2>1. SideOfTwelfth(p, q, z) = (12 - k) * Side(p, q, p) + k * Side(p, q, q)
    <3>1. k \in Int
      OBVIOUS
    <3>. QED  BY <3>1, SideOfTwelfthIs
  <2>2. (12 - k) * 0 + k * 0 = 0
    OBVIOUS
  <2>. QED  BY <2>1, <2>2, OnOwnLine, Zenon
<1>6. \A i \in 1 .. n : Cross(Minus(q, p), Minus(Times(12, v[i]), z)) = 12 * Side(p, q, v[i]) - 0
  <2>. SUFFICES ASSUME NEW i \in 1 .. n
                PROVE  Cross(Minus(q, p), Minus(Times(12, v[i]), z)) = 12 * Side(p, q, v[i]) - 0
    OBVIOUS
  <2>1. PICK x \in Points : x = v[i]
    BY <1>2
  <2>2. Cross(Minus(q, p), Minus(Times(12, x), z)) = 12 * Side(p, q, x) - SideOfTwelfth(p, q, z)
    BY SideOfParallel
  <2>. QED  BY <1>5, <2>1, <2>2, Zenon
<1>7. PICK g \in [1 .. n -> Int] : \A i \in 1 .. n : g[i] = Side(p, q, v[i])
  <2>1. \A i \in 1 .. n : Side(p, q, v[i]) \in Int
    BY <1>2, SideType
  <2>2. [i \in 1 .. n |-> Side(p, q, v[i])] \in [1 .. n -> Int]
    BY <2>1
  <2>. QED  BY <2>2
<1>8. (\E i \in 1 .. n : g[i] < 0) /\ (\E i \in 1 .. n : g[i] > 0)
  <2>1. \A i \in 1 .. n : Cross(Minus(q, p), Minus(Times(12, v[i]), z)) = 12 * g[i] - 0
    BY <1>6, <1>7
  <2>. QED  BY <1>4, <2>1
<1>9. PICK i \in 1 .. n : g[i] <= 0 /\ g[Next1(n, i)] > 0
  BY <1>2, <1>8, RingRises
<1>10. PICK j \in 1 .. n : j = Next1(n, i)
  BY <1>2
<1>11. PICK e : e = <<v[i], v[j]>>
  OBVIOUS
<1>12. /\ e \in Edges(v) /\ e[1] = v[i] /\ e[2] = v[j]
  BY <1>2, <1>10, <1>11
<1>. QED  BY <1>2, <1>7, <1>9, <1>10, <1>12

\* Of a convex polygon the vertices are on the side of an edge that its
\* interior is on.
LEMMA VerticesOnTheSide ==
  ASSUME NEW v \in Figures, Len(v) > 2, Convex(v), NEW z \in Points
  PROVE  /\ (\A e \in Edges(v) : SideOfTwelfth(e[1], e[2], z) > 0)
              => \A e \in Edges(v), i \in DOMAIN v : Side(e[1], e[2], v[i]) >= 0
         /\ (\A e \in Edges(v) : SideOfTwelfth(e[1], e[2], z) < 0)
              => \A e \in Edges(v), i \in DOMAIN v : Side(e[1], e[2], v[i]) <= 0
<1>1. PICK n : n = Len(v)
  OBVIOUS
<1>2. /\ n \in Nat \ {0} /\ DOMAIN v = 1 .. n
      /\ \A i \in 1 .. n : /\ Next1(n, i) \in 1 .. n /\ v[i] \in Points
                           /\ <<v[i], v[Next1(n, i)]>> \in Edges(v)
  BY <1>1, EdgesOfRing DEF Figures
<1>3. \/ \A e \in Edges(v), i \in DOMAIN v : Side(e[1], e[2], v[i]) >= 0
      \/ \A e \in Edges(v), i \in DOMAIN v : Side(e[1], e[2], v[i]) <= 0
  BY DEF Convex, Side
<1>4. PICK a \in Points, b \in Points : a = v[1] /\ b = v[Next1(n, 1)] /\ <<a, b>> \in Edges(v)
  <2>1. 1 \in 1 .. n
    BY <1>2
  <2>. QED  BY <1>2, <2>1
<1>5. /\ SideOfTwelfth(<<a, b>>[1], <<a, b>>[2], z) = SideOfTwelfth(a, b, z)
      /\ \A i \in DOMAIN v : Side(<<a, b>>[1], <<a, b>>[2], v[i]) = Side(a, b, v[i])
  BY Zenon
<1>6. \A i \in 1 .. n : /\ Cross(Minus(b, a), Minus(Times(12, v[i]), z))
                             = 12 * Side(a, b, v[i]) - SideOfTwelfth(a, b, z)
                        /\ Side(a, b, v[i]) \in Int /\ SideOfTwelfth(a, b, z) \in Int
  <2>. SUFFICES ASSUME NEW i \in 1 .. n
                PROVE  /\ Cross(Minus(b, a), Minus(Times(12, v[i]), z))
                            = 12 * Side(a, b, v[i]) - SideOfTwelfth(a, b, z)
                       /\ Side(a, b, v[i]) \in Int /\ SideOfTwelfth(a, b, z) \in Int
    OBVIOUS
  <2>1. PICK x \in Points : x = v[i]
    BY <1>2
  <2>2. Cross(Minus(b, a), Minus(Times(12, x), z)) = 12 * Side(a, b, x) - SideOfTwelfth(a, b, z)
    BY SideOfParallel
  <2>3. Side(a, b, x) \in Int /\ SideOfTwelfth(a, b, z) \in Int
    BY SideType
  <2>. QED  BY <2>1, <2>2, <2>3, Zenon
<1>7. Minus(b, a) \in Points
  BY PointOperations
<1>8. SideOfTwelfth(a, b, z) # 0 => Minus(b, a) # <<0, 0>>
  <2>1. Minus(z, Times(12, a)) \in Points
    BY TwelveTimes, PointOperations
  <2>2. PICK y1 \in Int, y2 \in Int : Minus(z, Times(12, a)) = <<y1, y2>>
    BY <2>1, Coordinates
  <2>3. 0 * y2 - 0 * y1 = 0
    OBVIOUS
  <2>. QED  BY <2>2, <2>3 DEF SideOfTwelfth, Cross
<1>9. ASSUME \A e \in Edges(v) : SideOfTwelfth(e[1], e[2], z) > 0
      PROVE  \A e \in Edges(v), i \in DOMAIN v : Side(e[1], e[2], v[i]) >= 0
  <2>. SUFFICES ASSUME \A e \in Edges(v), i \in DOMAIN v : Side(e[1], e[2], v[i]) <= 0  PROVE FALSE
    BY <1>3
  <2>1. SideOfTwelfth(a, b, z) > 0 /\ \A i \in DOMAIN v : Side(a, b, v[i]) <= 0
    BY <1>4, <1>5, <1>9
  <2>2. Minus(b, a) # <<0, 0>>
    BY <1>6, <1>8, <2>1
  <2>3. PICK i \in 1 .. n : Cross(Minus(b, a), Minus(Times(12, v[i]), z)) > 0
    BY <1>1, <1>7, <1>9, <2>2, InteriorHasBothSides
  <2>4. 12 * Side(a, b, v[i]) - SideOfTwelfth(a, b, z) > 0
    BY <1>6, <2>3
  <2>5. Side(a, b, v[i]) \in Int /\ SideOfTwelfth(a, b, z) \in Int /\ Side(a, b, v[i]) <= 0
    BY <1>2, <1>6, <2>1
  <2>. QED  BY <2>1, <2>4, <2>5
<1>10. ASSUME \A e \in Edges(v) : SideOfTwelfth(e[1], e[2], z) < 0
       PROVE  \A e \in Edges(v), i \in DOMAIN v : Side(e[1], e[2], v[i]) <= 0
  <2>. SUFFICES ASSUME \A e \in Edges(v), i \in DOMAIN v : Side(e[1], e[2], v[i]) >= 0  PROVE FALSE
    BY <1>3
  <2>1. SideOfTwelfth(a, b, z) < 0 /\ \A i \in DOMAIN v : Side(a, b, v[i]) >= 0
    BY <1>4, <1>5, <1>10
  <2>2. Minus(b, a) # <<0, 0>>
    BY <1>6, <1>8, <2>1
  <2>3. PICK i \in 1 .. n : Cross(Minus(b, a), Minus(Times(12, v[i]), z)) < 0
    BY <1>1, <1>7, <1>10, <2>2, InteriorHasBothSides
  <2>4. 12 * Side(a, b, v[i]) - SideOfTwelfth(a, b, z) < 0
    BY <1>6, <2>3
  <2>5. Side(a, b, v[i]) \in Int /\ SideOfTwelfth(a, b, z) \in Int /\ Side(a, b, v[i]) >= 0
    BY <1>2, <1>6, <2>1
  <2>. QED  BY <2>1, <2>4, <2>5
<1>. QED  BY <1>9, <1>10

\* What is known of an edge that crosses the line upwards and is not hit.
LEMMA EdgeNotHit ==
  ASSUME NEW p \in Points, NEW q \in Points, NEW a \in Points, NEW b \in Points,
         Side(p, q, a) <= 0, Side(p, q, b) > 0, ~SegmentsIntersect(p, q, a, b)
  PROVE  /\ Side(a, b, p) > Side(a, b, q)
         /\ Side(a, b, p) < 0 \/ Side(a, b, q) > 0
<1>1. PICK m, s, t : /\ m = Cross(Minus(q, p), Minus(b, a)) /\ s = Cross(Minus(q, p), Minus(p, a))
                     /\ t = Cross(Minus(b, a), Minus(p, a))
  OBVIOUS
<1>2. /\ m \in Int /\ s \in Int /\ t \in Int
      /\ Cross(Minus(q, p), Minus(a, p)) = 0 - s /\ Cross(Minus(q, p), Minus(b, p)) = m - s
      /\ Cross(Minus(b, a), Minus(q, a)) = t - m
  BY <1>1, Sides
<1>3. Side(p, q, a) = 0 - s /\ Side(p, q, b) = m - s /\ Side(a, b, p) = t /\ Side(a, b, q) = t - m
  BY <1>1, <1>2 DEF Side
<1>4. SegmentsIntersect(p, q, a, b) <=> \/ m > 0 /\ s \in 0 .. m /\ t \in 0 .. m
                                        \/ m < 0 /\ s \in m + 1 .. -1 /\ t \in m + 1 .. -1
  BY <1>1 DEF SegmentsIntersect
<1>5. 0 - s <= 0 /\ m - s > 0
  BY <1>3
<1>6. ~(t \in 0 .. m)
  BY <1>2, <1>4, <1>5
<1>. QED  BY <1>2, <1>3, <1>5, <1>6

\* What is positive, or negative, between the ends of a segment is so at one
\* of them.
LEMMA Between ==
  ASSUME NEW k \in 0 .. 12, NEW x \in Int, NEW y \in Int
  PROVE  /\ (12 - k) * x + k * y > 0 => x > 0 \/ y > 0
         /\ (12 - k) * x + k * y < 0 => x < 0 \/ y < 0
<1>1. \A i \in Int, j \in Int : i >= 0 /\ j >= 0 => i * j >= 0
  BY SMTT(20)
<1>2. 12 - k >= 0 /\ k >= 0 /\ 12 - k \in Int /\ k \in Int
  OBVIOUS
<1>3. (12 - k) * x \in Int /\ k * y \in Int
  BY <1>2
<1>4. (12 - k) * (0 - x) = 0 - (12 - k) * x /\ k * (0 - y) = 0 - k * y
  BY SMTT(20)
<1>5. x <= 0 => (12 - k) * (0 - x) >= 0
  BY <1>1, <1>2
<1>6. y <= 0 => k * (0 - y) >= 0
  BY <1>1, <1>2
<1>7. x >= 0 => (12 - k) * x >= 0
  BY <1>1, <1>2
<1>8. y >= 0 => k * y >= 0
  BY <1>1, <1>2
<1>. QED  BY <1>3, <1>4, <1>5, <1>6, <1>7, <1>8

\* The sides in CrossingSeen: a segment that crosses an edge's line within the
\* interior does not leave it.
LEMMA NoLeaving ==
  ASSUME NEW ga \in Int, NEW gb \in Int, NEW fa \in Int, NEW fb \in Int, NEW fp \in Int, NEW fq \in Int,
         NEW x \in Int, NEW y \in Int, gb * fa - ga * fb = fp * y - fq * x,
         ga <= 0, gb > 0, fa >= 0, fb >= 0, fp > 0, fq > 0, x > 0
  PROVE  y > 0
<1>. SUFFICES ASSUME y <= 0  PROVE FALSE
  OBVIOUS
<1>1. gb * fa >= 0 /\ (0 - ga) * fb >= 0 /\ fp * (0 - y) >= 0
  BY ProductOfNaturals
<1>2. fq * x > 0
  BY SMTT(20)
<1>3. (0 - ga) * fb = 0 - ga * fb /\ fp * (0 - y) = 0 - fp * y
  BY SMTT(20)
<1>4. gb * fa \in Int /\ ga * fb \in Int /\ fp * y \in Int /\ fq * x \in Int
  OBVIOUS
<1>. QED  BY <1>1, <1>2, <1>3, <1>4

\* The same for the interior of a polygon listed the other way round.
LEMMA NoEntering ==
  ASSUME NEW ga \in Int, NEW gb \in Int, NEW fa \in Int, NEW fb \in Int, NEW fp \in Int, NEW fq \in Int,
         NEW x \in Int, NEW y \in Int, gb * fa - ga * fb = fp * y - fq * x,
         ga <= 0, gb > 0, fa <= 0, fb <= 0, fp < 0, fq < 0, y < 0
  PROVE  x < 0
<1>. SUFFICES ASSUME x >= 0  PROVE FALSE
  OBVIOUS
<1>1. gb * (0 - fa) >= 0 /\ (0 - ga) * (0 - fb) >= 0 /\ (0 - fq) * x >= 0
  BY ProductOfNaturals
<1>2. fp * y > 0
  BY SMTT(20)
<1>3. gb * (0 - fa) = 0 - gb * fa /\ (0 - ga) * (0 - fb) = ga * fb /\ (0 - fq) * x = 0 - fq * x
  BY SMTT(20)
<1>4. gb * fa \in Int /\ ga * fb \in Int /\ fp * y \in Int /\ fq * x \in Int
  OBVIOUS
<1>. QED  BY <1>1, <1>2, <1>3, <1>4

\* A segment that hits no edge does not leave the interior of a convex polygon
\* listed one way round, and does not enter that of one listed the other way.
LEMMA StaysInside ==
  ASSUME NEW v \in Figures, Len(v) > 2, Convex(v), NEW p \in Points, NEW q \in Points, p # q,
         \A e \in Edges(v) : ~SegmentsIntersect(p, q, e[1], e[2]),
         NEW k \in 0 .. 12, NEW z \in Points, z = Twelfth(p, q, k)
  PROVE  /\ (\A e \in Edges(v) : SideOfTwelfth(e[1], e[2], z) > 0)
              => \A e \in Edges(v) : Side(e[1], e[2], q) > 0
         /\ (\A e \in Edges(v) : SideOfTwelfth(e[1], e[2], z) < 0)
              => \A e \in Edges(v) : Side(e[1], e[2], p) < 0
<1>1. \A e \in Edges(v) : e[1] \in Points /\ e[2] \in Points
  <2>1. \A x, y : <<x, y>>[1] = x /\ <<x, y>>[2] = y
    OBVIOUS
  <2>. QED  BY <2>1, EdgesOfRing
<1>2. \A a \in Points, b \in Points :
        SideOfTwelfth(a, b, z) = (12 - k) * Side(a, b, p) + k * Side(a, b, q)
  BY SideOfTwelfthIs
<1>3. \A a, b, c \in Points : Side(a, b, c) \in Int
  BY SideType
<1>4. ASSUME \A e \in Edges(v) : SideOfTwelfth(e[1], e[2], z) > 0, NEW f \in Edges(v)
      PROVE  Side(f[1], f[2], q) > 0
  <2>1. PICK e \in Edges(v) : /\ e[1] \in Points /\ e[2] \in Points
                              /\ e[1] \in {v[i] : i \in DOMAIN v} /\ e[2] \in {v[i] : i \in DOMAIN v}
                              /\ Side(p, q, e[1]) <= 0 /\ Side(p, q, e[2]) > 0
    BY <1>4, EdgeAcross
  <2>2. PICK a \in Points, b \in Points, c \in Points, d \in Points :
          a = e[1] /\ b = e[2] /\ c = f[1] /\ d = f[2]
    BY <1>1
  <2>3. Side(a, b, p) > Side(a, b, q) /\ (Side(a, b, p) < 0 \/ Side(a, b, q) > 0)
    BY <2>1, <2>2, EdgeNotHit
  <2>4. Side(a, b, p) \in Int /\ Side(a, b, q) \in Int /\ Side(c, d, p) \in Int /\ Side(c, d, q) \in Int
        /\ Side(c, d, a) \in Int /\ Side(c, d, b) \in Int /\ Side(p, q, a) \in Int /\ Side(p, q, b) \in Int
    BY <1>3
  <2>5. (12 - k) * Side(a, b, p) + k * Side(a, b, q) > 0 /\ (12 - k) * Side(c, d, p) + k * Side(c, d, q) > 0
    BY <1>2, <1>4, <2>2
  <2>6. Side(a, b, p) > 0 \/ Side(a, b, q) > 0
    BY <2>4, <2>5, Between
  <2>7. Side(a, b, p) > 0 /\ Side(a, b, q) > 0
    BY <2>3, <2>4, <2>6
  <2>8. Side(c, d, p) > 0 \/ Side(c, d, q) > 0
    BY <2>4, <2>5, Between
  <2>9. Side(c, d, a) >= 0 /\ Side(c, d, b) >= 0
    BY <1>4, <2>1, <2>2, VerticesOnTheSide
  <2>10. Side(p, q, b) * Side(c, d, a) - Side(p, q, a) * Side(c, d, b)
           = Side(a, b, p) * Side(c, d, q) - Side(a, b, q) * Side(c, d, p)
    BY CrossingSeen
  <2>11. Side(p, q, a) <= 0 /\ Side(p, q, b) > 0
    BY <2>1, <2>2
  <2>12. Side(c, d, p) > 0 => Side(c, d, q) > 0
    <3>. DEFINE ga == Side(p, q, a)  gb == Side(p, q, b)  fa == Side(c, d, a)  fb == Side(c, d, b)
                fp == Side(a, b, p)  fq == Side(a, b, q)  x == Side(c, d, p)  y == Side(c, d, q)
    <3>1. /\ ga \in Int /\ gb \in Int /\ fa \in Int /\ fb \in Int
          /\ fp \in Int /\ fq \in Int /\ x \in Int /\ y \in Int
      BY <2>4
    <3>2. gb * fa - ga * fb = fp * y - fq * x
      BY <2>10
    <3>3. ga <= 0 /\ gb > 0 /\ fa >= 0 /\ fb >= 0 /\ fp > 0 /\ fq > 0
      BY <2>7, <2>9, <2>11
    <3>. HIDE DEF ga, gb, fa, fb, fp, fq, x, y
    <3>4. x > 0 => y > 0
      BY <3>1, <3>2, <3>3, NoLeaving
    <3>. QED  BY <3>4 DEF x, y
  <2>. QED  BY <2>2, <2>8, <2>12
<1>5. ASSUME \A e \in Edges(v) : SideOfTwelfth(e[1], e[2], z) < 0, NEW f \in Edges(v)
      PROVE  Side(f[1], f[2], p) < 0
  <2>1. PICK e \in Edges(v) : /\ e[1] \in Points /\ e[2] \in Points
                              /\ e[1] \in {v[i] : i \in DOMAIN v} /\ e[2] \in {v[i] : i \in DOMAIN v}
                              /\ Side(p, q, e[1]) <= 0 /\ Side(p, q, e[2]) > 0
    BY <1>5, EdgeAcross
  <2>2. PICK a \in Points, b \in Points, c \in Points, d \in Points :
          a = e[1] /\ b = e[2] /\ c = f[1] /\ d = f[2]
    BY <1>1
  <2>3. Side(a, b, p) > Side(a, b, q) /\ (Side(a, b, p) < 0 \/ Side(a, b, q) > 0)
    BY <2>1, <2>2, EdgeNotHit
  <2>4. Side(a, b, p) \in Int /\ Side(a, b, q) \in Int /\ Side(c, d, p) \in Int /\ Side(c, d, q) \in Int
        /\ Side(c, d, a) \in Int /\ Side(c, d, b) \in Int /\ Side(p, q, a) \in Int /\ Side(p, q, b) \in Int
    BY <1>3
  <2>5. (12 - k) * Side(a, b, p) + k * Side(a, b, q) < 0 /\ (12 - k) * Side(c, d, p) + k * Side(c, d, q) < 0
    BY <1>2, <1>5, <2>2
  <2>6. Side(a, b, p) < 0 \/ Side(a, b, q) < 0
    BY <2>4, <2>5, Between
  <2>7. Side(a, b, p) < 0 /\ Side(a, b, q) < 0
    BY <2>3, <2>4, <2>6
  <2>8. Side(c, d, p) < 0 \/ Side(c, d, q) < 0
    BY <2>4, <2>5, Between
  <2>9. Side(c, d, a) <= 0 /\ Side(c, d, b) <= 0
    BY <1>5, <2>1, <2>2, VerticesOnTheSide
  <2>10. Side(p, q, b) * Side(c, d, a) - Side(p, q, a) * Side(c, d, b)
           = Side(a, b, p) * Side(c, d, q) - Side(a, b, q) * Side(c, d, p)
    BY CrossingSeen
  <2>11. Side(p, q, a) <= 0 /\ Side(p, q, b) > 0
    BY <2>1, <2>2
  <2>12. Side(c, d, q) < 0 => Side(c, d, p) < 0
    <3>. DEFINE ga == Side(p, q, a)  gb == Side(p, q, b)  fa == Side(c, d, a)  fb == Side(c, d, b)
                fp == Side(a, b, p)  fq == Side(a, b, q)  x == Side(c, d, p)  y == Side(c, d, q)
    <3>1. /\ ga \in Int /\ gb \in Int /\ fa \in Int /\ fb \in Int
          /\ fp \in Int /\ fq \in Int /\ x \in Int /\ y \in Int
      BY <2>4
    <3>2. gb * fa - ga * fb = fp * y - fq * x
      BY <2>10
    <3>3. ga <= 0 /\ gb > 0 /\ fa <= 0 /\ fb <= 0 /\ fp < 0 /\ fq < 0
      BY <2>7, <2>9, <2>11
    <3>. HIDE DEF ga, gb, fa, fb, fp, fq, x, y
    <3>4. y < 0 => x < 0
      BY <3>1, <3>2, <3>3, NoEntering
    <3>. QED  BY <3>4 DEF x, y
  <2>. QED  BY <2>2, <2>8, <2>12
<1>. QED  BY <1>4, <1>5

-----------------------------------------------------------------------------
(* No candidate leads through an obstacle.                                 *)

\* Twice the distance from a point that createGraph() asks an edge to keep.
Halves == IF scene.keypoints THEN scene.distance ELSE 2 * scene.distance

\* z is to the left of every edge, or to the right of every edge.
AllLeft(v, z) == \A e \in Edges(v) : Side(e[1], e[2], z) > 0
AllRight(v, z) == \A e \in Edges(v) : Side(e[1], e[2], z) < 0

\* Half of the distance, rounded down, is at most half of it.
LEMMA HalfIsNotMore ==
  ASSUME NEW d \in Nat
  PROVE  d \div 2 \in Nat /\ 2 * (d \div 2) <= d
OBVIOUS

\* How near to a point an edge may come, and how near an obstacle is looked for.
LEMMA ReachOfEdge ==
  ASSUME scene.distance \in Nat
  PROVE  \E near \in Nat :
           /\ near = IF scene.keypoints THEN scene.distance \div 2 ELSE scene.distance
           /\ Halves \in Nat /\ 2 * near <= Halves
<1>1. CASE scene.keypoints
  <2>1. scene.distance \div 2 \in Nat /\ 2 * (scene.distance \div 2) <= scene.distance
    BY HalfIsNotMore
  <2>. QED  BY <1>1, <2>1 DEF Halves
<1>2. CASE ~scene.keypoints
  BY <1>2 DEF Halves
<1>. QED  BY <1>1, <1>2

\* An edge that is let through keeps its distance from a point or a circle.
LEMMA RoundIsKept ==
  ASSUME NEW o \in ObstacleRecords, o.kind \in {"point", "circle"}, scene.distance \in Nat,
         NEW p \in Points, NEW q \in Points, p # q, ~CheckLineIntersection(o, p, q, Halves)
  PROVE  ~LeadsThrough(p, q, o)
<1>1. PICK near \in Nat :
        /\ near = IF scene.keypoints THEN scene.distance \div 2 ELSE scene.distance
        /\ Halves \in Nat /\ 2 * near <= Halves
  BY ReachOfEdge
<1>2. o.radius \in Nat /\ o.at[1] \in Points /\ (o.kind = "point" => o.radius = 0)
  BY ObstacleParts DEF ObstacleRecords
<1>3. PICK c \in Points, radius \in Nat : c = o.at[1] /\ radius = o.radius
  BY <1>2
<1>4. PICK h \in Nat : h = IF o.kind = "point" THEN Halves ELSE 2 * radius + Halves
  BY <1>1, <1>2
<1>5. PICK reach \in Nat : reach = radius + near
  BY <1>1
<1>6. 2 * reach <= h
  BY <1>1, <1>2, <1>3, <1>4, <1>5
<1>7. ~Below(PointToSegment(c, p, q), <<h * h, 4>>)
  <2>1. CASE o.kind = "point"
    BY <1>3, <1>4, <2>1 DEF CheckLineIntersection, PointInTheWay
  <2>2. CASE o.kind = "circle"
    BY <1>3, <1>4, <2>2 DEF CheckLineIntersection, CircleInTheWay
  <2>. QED  BY <2>1, <2>2
<1>8. ASSUME NEW k \in 0 .. 12
      PROVE  ~(SquaredNorm(Minus(Plus(Times(12 - k, p), Times(k, q)), Times(12, c)))
                 < 144 * reach * reach)
  BY <1>6, <1>7, NearTwelfthIsFound
<1>9. ASSUME NEW r \in Twelfths(p, q)
      PROVE  ~(SquaredNorm(Minus(r, Times(12, c))) < 144 * reach * reach)
  <2>1. PICK k \in 0 .. 12 : r = Plus(Times(12 - k, p), Times(k, q))
    BY DEF Twelfths
  <2>. QED  BY <1>8, <2>1, Zenon
<1>10. LeadsThrough(p, q, o) <=>
         \E r \in Twelfths(p, q) :
           SquaredNorm(Minus(r, Times(12, c)))
             < 144 * (radius + IF scene.keypoints THEN scene.distance \div 2 ELSE scene.distance)
                   * (radius + IF scene.keypoints THEN scene.distance \div 2 ELSE scene.distance)
  BY <1>3, Zenon DEF LeadsThrough
<1>11. radius + (IF scene.keypoints THEN scene.distance \div 2 ELSE scene.distance) = reach
  BY <1>1, <1>5, Zenon
<1>. QED  BY <1>9, <1>10, <1>11, Zenon

\* An edge that is let through does not cross a line.
LEMMA LineIsKept ==
  ASSUME NEW o \in ObstacleRecords, o.kind = "line",
         NEW p \in Points, NEW q \in Points, ~CheckLineIntersection(o, p, q, Halves)
  PROVE  ~LeadsThrough(p, q, o)
<1>1. o.at[1] \in Points /\ o.at[2] \in Points
  BY ObstacleParts
<1>2. PICK a \in Points, b \in Points : a = o.at[1] /\ b = o.at[2]
  BY <1>1
<1>3. ~SegmentsIntersect(p, q, a, b)
  BY <1>2, Zenon DEF CheckLineIntersection, LineCrossed
<1>4. ~(/\ Cross(Minus(q, p), Minus(a, p)) * Cross(Minus(q, p), Minus(b, p)) < 0
        /\ Cross(Minus(b, a), Minus(p, a)) * Cross(Minus(b, a), Minus(q, a)) < 0)
  BY <1>3, LineIsCrossed
<1>. QED  BY <1>2, <1>4 DEF LeadsThrough

\* What an edge that is let through does at a convex polygon.
LEMMA PolygonIsKept ==
  ASSUME NEW o \in ObstacleRecords, o.kind = "polygon", Len(o.at) > 2, Convex(o.at),
         NEW p \in Points, NEW q \in Points, p # q, ~CheckLineIntersection(o, p, q, Halves)
  PROVE  /\ LeadsThrough(p, q, o) => AllLeft(o.at, q) \/ AllRight(o.at, p)
         /\ AllLeft(o.at, p) => AllLeft(o.at, q)
         /\ AllRight(o.at, q) => AllRight(o.at, p)
<1>1. PICK v \in Figures : v = o.at
  BY ObstacleParts
<1>2. Len(v) > 2 /\ Convex(v) /\ \A e \in Edges(v) : ~SegmentsIntersect(p, q, e[1], e[2])
  BY <1>1 DEF CheckLineIntersection, PolygonCrossed
<1>3. ASSUME NEW k \in 0 .. 12
      PROVE  /\ (\A e \in Edges(v) : SideOfTwelfth(e[1], e[2], Twelfth(p, q, k)) > 0) => AllLeft(v, q)
             /\ (\A e \in Edges(v) : SideOfTwelfth(e[1], e[2], Twelfth(p, q, k)) < 0) => AllRight(v, p)
  <2>1. PICK z \in Points : z = Twelfth(p, q, k)
    BY TwelfthIsPoint
  <2>2. /\ (\A e \in Edges(v) : SideOfTwelfth(e[1], e[2], z) > 0)
              => \A e \in Edges(v) : Side(e[1], e[2], q) > 0
        /\ (\A e \in Edges(v) : SideOfTwelfth(e[1], e[2], z) < 0)
              => \A e \in Edges(v) : Side(e[1], e[2], p) < 0
    BY <1>2, <2>1, StaysInside
  <2>. QED  BY <2>1, <2>2, Zenon DEF AllLeft, AllRight
<1>4. \A e \in Edges(v) : e[1] \in Points /\ e[2] \in Points
  <2>1. \A x, y : <<x, y>>[1] = x /\ <<x, y>>[2] = y
    OBVIOUS
  <2>. QED  BY <1>2, <2>1, EdgesOfRing
<1>5. ASSUME LeadsThrough(p, q, o)  PROVE AllLeft(v, q) \/ AllRight(v, p)
  <2>1. PICK r \in Twelfths(p, q) : Inside(v, r, 12)
    BY <1>1, <1>2, <1>5 DEF LeadsThrough
  <2>2. PICK k \in 0 .. 12 : r = Twelfth(p, q, k)
    BY DEF Twelfths, Twelfth
  <2>3. \/ \A e \in Edges(v) : SideOfTwelfth(e[1], e[2], Twelfth(p, q, k)) > 0
        \/ \A e \in Edges(v) : SideOfTwelfth(e[1], e[2], Twelfth(p, q, k)) < 0
    BY <2>1, <2>2, Zenon DEF Inside, SideOfTwelfth
  <2>. QED  BY <1>3, <2>3
<1>6. ASSUME NEW a \in Points, NEW b \in Points
      PROVE  /\ SideOfTwelfth(a, b, Twelfth(p, q, 0)) = 12 * Side(a, b, p) /\ Side(a, b, p) \in Int
             /\ SideOfTwelfth(a, b, Twelfth(p, q, 12)) = 12 * Side(a, b, q) /\ Side(a, b, q) \in Int
  <2>1. Side(a, b, p) \in Int /\ Side(a, b, q) \in Int
    BY SideType
  <2>2. /\ SideOfTwelfth(a, b, Twelfth(p, q, 0)) = (12 - 0) * Side(a, b, p) + 0 * Side(a, b, q)
        /\ SideOfTwelfth(a, b, Twelfth(p, q, 12)) = (12 - 12) * Side(a, b, p) + 12 * Side(a, b, q)
    BY SideOfTwelfthIs
  <2>. QED  BY <2>1, <2>2
<1>7. ASSUME AllLeft(v, p)  PROVE AllLeft(v, q)
  <2>1. \A e \in Edges(v) : SideOfTwelfth(e[1], e[2], Twelfth(p, q, 0)) > 0
    <3>. SUFFICES ASSUME NEW e \in Edges(v)  PROVE SideOfTwelfth(e[1], e[2], Twelfth(p, q, 0)) > 0
      OBVIOUS
    <3>1. PICK a \in Points, b \in Points : a = e[1] /\ b = e[2]
      BY <1>4
    <3>2. Side(a, b, p) > 0
      BY <1>7, <3>1, Zenon DEF AllLeft
    <3>3. SideOfTwelfth(a, b, Twelfth(p, q, 0)) = 12 * Side(a, b, p) /\ Side(a, b, p) \in Int
      BY <1>6, Zenon
    <3>4. 12 * Side(a, b, p) > 0
      BY <3>2, <3>3
    <3>5. SideOfTwelfth(a, b, Twelfth(p, q, 0)) > 0
      BY <3>3, <3>4, Zenon
    <3>. QED  BY <3>1, <3>5, Zenon
  <2>2. 0 \in 0 .. 12
    OBVIOUS
  <2>. QED  BY <1>3, <2>1, <2>2
<1>8. ASSUME AllRight(v, q)  PROVE AllRight(v, p)
  <2>1. \A e \in Edges(v) : SideOfTwelfth(e[1], e[2], Twelfth(p, q, 12)) < 0
    <3>. SUFFICES ASSUME NEW e \in Edges(v)  PROVE SideOfTwelfth(e[1], e[2], Twelfth(p, q, 12)) < 0
      OBVIOUS
    <3>1. PICK a \in Points, b \in Points : a = e[1] /\ b = e[2]
      BY <1>4
    <3>2. Side(a, b, q) < 0
      BY <1>8, <3>1, Zenon DEF AllRight
    <3>3. SideOfTwelfth(a, b, Twelfth(p, q, 12)) = 12 * Side(a, b, q) /\ Side(a, b, q) \in Int
      BY <1>6, Zenon
    <3>4. 12 * Side(a, b, q) < 0
      BY <3>2, <3>3
    <3>5. SideOfTwelfth(a, b, Twelfth(p, q, 12)) < 0
      BY <3>3, <3>4, Zenon
    <3>. QED  BY <3>1, <3>5, Zenon
  <2>2. 12 \in 0 .. 12
    OBVIOUS
  <2>. QED  BY <1>3, <2>1, <2>2
<1>. QED  BY <1>1, <1>5, <1>7, <1>8

\* A point all edges face is in the interior.
LEMMA InsideIsOneSide ==
  ASSUME NEW v \in Figures, Len(v) > 2, NEW z, AllLeft(v, z) \/ AllRight(v, z)
  PROVE  Inside(v, z, 1)
<1>1. \A e \in Edges(v) : e[1] \in Points /\ e[2] \in Points
  <2>1. \A x, y : <<x, y>>[1] = x /\ <<x, y>>[2] = y
    OBVIOUS
  <2>. QED  BY <2>1, EdgesOfRing
<1>2. \A a \in Points : Times(1, a) = a
  BY DEF Times, Points
<1>3. \A e \in Edges(v) : Side(e[1], e[2], z) = Cross(Minus(e[2], e[1]), Minus(z, Times(1, e[1])))
  BY <1>1, <1>2, Zenon DEF Side
<1>. QED  BY <1>3, Zenon DEF AllLeft, AllRight, Inside

\* What holds of a number of an interval and goes on to the next, holds of the
\* last one.
LEMMA CarriedForward ==
  ASSUME NEW n \in Nat, NEW S, NEW m \in S, m \in 1 .. n,
         \A i \in 1 .. n - 1 : i \in S => i + 1 \in S
  PROVE  n \in S
<1>. DEFINE P == {k \in 0 .. n - m : m + k \in S}
<1>1. n - m \in Nat /\ P \in SUBSET (0 .. n - m) /\ 0 \in P
  OBVIOUS
<1>2. ASSUME NEW k \in 1 .. n - m, k - 1 \in P  PROVE k \in P
  <2>1. m + (k - 1) \in S /\ m + (k - 1) \in 1 .. n - 1
    BY <1>2
  <2>2. (m + (k - 1)) + 1 \in S /\ (m + (k - 1)) + 1 = m + k
    BY <2>1
  <2>. QED  BY <2>2
<1>. HIDE DEF P
<1>3. P = 0 .. n - m
  BY <1>1, <1>2, IntervalInduction
<1>4. n - m \in P
  BY <1>1, <1>3
<1>5. m + (n - m) \in S /\ m + (n - m) = n
  BY <1>4 DEF P
<1>. QED  BY <1>5

\* What holds of a number of an interval and goes back to the one before,
\* holds of the first one.
LEMMA CarriedBack ==
  ASSUME NEW n \in Nat, NEW S, NEW m \in S, m \in 1 .. n,
         \A i \in 1 .. n - 1 : i + 1 \in S => i \in S
  PROVE  1 \in S
<1>. DEFINE P == {k \in 0 .. m - 1 : m - k \in S}
<1>1. m - 1 \in Nat /\ P \in SUBSET (0 .. m - 1) /\ 0 \in P
  OBVIOUS
<1>2. ASSUME NEW k \in 1 .. m - 1, k - 1 \in P  PROVE k \in P
  <2>1. m - (k - 1) \in S /\ m - k \in 1 .. n - 1 /\ m - (k - 1) = (m - k) + 1
    BY <1>2
  <2>. QED  BY <2>1
<1>. HIDE DEF P
<1>3. P = 0 .. m - 1
  BY <1>1, <1>2, IntervalInduction
<1>4. m - 1 \in P
  BY <1>1, <1>3
<1>5. m - (m - 1) \in S /\ m - (m - 1) = 1
  BY <1>4 DEF P
<1>. QED  BY <1>5

\* The graph joins the robot and the goal, and every edge of it was let
\* through by all the obstacles that are there.
GraphFree ==
  vertices # <<>> =>
    /\ vertices[1] = Start /\ vertices[GoalVertex] = Goal
    /\ \A e \in edges : Free(vertices[e[1]], vertices[e[2]], Halves)

\* A step that leaves the graph and what is around it alone.
LEMMA GraphStaysFree ==
  ASSUME GraphFree, UNCHANGED <<scene, obstacles, vertices, edges>>
  PROVE  GraphFree'
BY DEF GraphFree, GoalVertex, Free, Halves, Goal

LEMMA CreateFrees ==
  ASSUME IInv, NEW interiors, interiors \subseteq Seq(Points), Create(interiors)
  PROVE  GraphFree'
<1>1. /\ UNCHANGED <<scene, obstacles>> /\ vertices = <<>>
  BY DEF Create, IInv, GraphOK
<1>2. CASE UNCHANGED vertices
  BY <1>1, <1>2 DEF GraphFree
<1>3. CASE /\ \E inner \in interiors : vertices' = <<Start>> \o inner \o <<Goal>>
           /\ edges' = {e \in (1 .. Len(vertices')) \X (1 .. Len(vertices')) :
                          Connected(vertices', e[1], e[2])}
  <2>1. PICK inner \in Seq(Points) : vertices' = <<Start>> \o inner \o <<Goal>>
    BY <1>3
  <2>2. /\ <<Start>> \in Seq(Points) /\ Len(<<Start>>) = 1 /\ <<Start>>[1] = Start
        /\ <<Goal>> \in Seq(Points) /\ Len(<<Goal>>) = 1 /\ <<Goal>>[1] = Goal
    <3>1. scene.goal \in Int
      BY SearchAssumption DEF IInv, TypeOK
    <3>. QED  BY <3>1 DEF Start, Goal, Points
  <2>3. /\ <<Start>> \o inner \in Seq(Points) /\ Len(<<Start>> \o inner) = 1 + Len(inner)
        /\ Len(inner) \in Nat /\ (<<Start>> \o inner)[1] = Start
    BY <2>2, ConcatProperties
  <2>4. PICK begun \in Seq(Points) : begun = <<Start>> \o inner
    BY <2>3
  <2>5. Len(begun) \in Nat /\ Len(begun) > 0 /\ begun[1] = Start /\ vertices' = begun \o <<Goal>>
    BY <2>1, <2>3, <2>4
  <2>6. /\ vertices' \in Seq(Points) /\ Len(vertices') = Len(begun) + 1
        /\ vertices'[1] = Start /\ vertices'[Len(begun) + 1] = Goal
    BY <2>2, <2>5, ConcatProperties
  <2>7. vertices'[GoalVertex'] = Goal'
    BY <1>1, <2>6 DEF GoalVertex, Goal
  <2>8. ASSUME NEW e \in edges'
        PROVE  Free(vertices'[e[1]], vertices'[e[2]], Halves)
    <3>1. Connected(vertices', e[1], e[2])
      BY <1>3
    <3>. QED  BY <3>1 DEF Connected, KeypointEdge, RoadmapEdge, Halves
  <2>9. \A e \in edges' : Free(vertices[e[1]], vertices[e[2]], Halves)'
    BY <1>1, <2>8 DEF Free, Halves
  <2>. QED  BY <2>6, <2>7, <2>9 DEF GraphFree, Start
<1>. QED  BY <1>2, <1>3 DEF Create

LEMMA NextFrees ==
  IInv /\ GraphFree /\ [Next]_vars => GraphFree'
<1>. SUFFICES ASSUME IInv, GraphFree, [Next]_vars  PROVE GraphFree'
  OBVIOUS
<1>1. scene \in Scenes /\ obstacles \in Seq(ObstacleRecords)
  BY DEF IInv, TypeOK
<1>2. CASE UpdateObstacleContainer
  BY <1>2 DEF UpdateObstacleContainer, IInv, GraphOK, GraphFree
<1>3. CASE CreateKeypointGraph
  <2>1. Create({Keypoints})
    BY <1>3 DEF CreateKeypointGraph
  <2>2. {Keypoints} \subseteq Seq(Points)
    BY <1>1, SearchAssumption, KeypointsTyped
  <2>. QED  BY <2>1, <2>2, CreateFrees
<1>4. CASE CreateRoadmap
  <2>1. Create(scene.samples)
    BY <1>4 DEF CreateRoadmap
  <2>2. scene.samples \subseteq Seq(Points)
    BY <1>1, SearchAssumption
  <2>. QED  BY <2>1, <2>2, CreateFrees
<1>5. CASE \/ \E messages \in scene.arriving : CustomObstacleCB(messages)
           \/ Renew \/ Enter \/ LookForGoal \/ Recurse \/ UNCHANGED vars
  <2>1. UNCHANGED <<scene, obstacles, vertices, edges>>
    BY <1>5 DEF CustomObstacleCB, Renew, Enter, LookForGoal, Recurse, vars
  <2>. QED  BY <2>1, GraphStaysFree
<1>. QED  BY <1>2, <1>3, <1>4, <1>5 DEF Next

LEMMA GraphIsFree == Spec => []GraphFree
<1>1. Init => GraphFree
  BY DEF Init, GraphFree
<1>. QED  BY <1>1, Invariant, NextFrees, PTL DEF Spec

\* What is known of each part of a candidate, and of its ends.
LEMMA CandidateParts ==
  ASSUME IInv, GraphFree, NEW k \in DOMAIN explored
  PROVE  /\ Len(explored[k]) \in Nat /\ Len(explored[k]) > 1
         /\ vertices[explored[k][1]] = Start /\ vertices[explored[k][Len(explored[k])]] = Goal
         /\ \A i \in 1 .. Len(explored[k]) : vertices[explored[k][i]] \in Points
         /\ \A i \in 1 .. Len(explored[k]) - 1 :
              /\ vertices[explored[k][i]][1] < vertices[explored[k][i + 1]][1]
              /\ vertices[explored[k][i]] # vertices[explored[k][i + 1]]
              /\ Free(vertices[explored[k][i]], vertices[explored[k][i + 1]], Halves)
<1>1. /\ explored \in Seq(Seq(1 .. Len(vertices))) /\ vertices \in Seq(Points)
      /\ k \in 1 .. Len(explored) /\ explored # <<>>
  BY DEF IInv, TypeOK
<1>2. vertices # <<>>
  BY <1>1 DEF IInv, GraphOK
<1>3. PICK p : p = explored[k]
  OBVIOUS
<1>4. Path(p, GoalVertex, edges)
  BY <1>1, <1>3 DEF IInv, ExploredOK
<1>5. p \in Seq(1 .. Len(vertices)) /\ Len(p) \in Nat /\ Len(p) > 1
  BY <1>4 DEF Path, GoalVertex
<1>6. vertices[p[1]] = Start /\ vertices[p[Len(p)]] = Goal
  BY <1>2, <1>4 DEF Path, GraphFree
<1>7. \A i \in 1 .. Len(p) : vertices[p[i]] \in Points
  BY <1>1, <1>5
<1>8. ASSUME NEW i \in 1 .. Len(p) - 1
      PROVE  /\ vertices[p[i]][1] < vertices[p[i + 1]][1] /\ vertices[p[i]] # vertices[p[i + 1]]
             /\ Free(vertices[p[i]], vertices[p[i + 1]], Halves)
  <2>1. <<p[i], p[i + 1]>> \in edges
    BY <1>4 DEF Path
  <2>2. \A e \in edges : vertices[e[1]][1] < vertices[e[2]][1] /\ Free(vertices[e[1]], vertices[e[2]], Halves)
    BY <1>2 DEF IInv, GraphOK, GraphFree
  <2>3. \A x, y : <<x, y>>[1] = x /\ <<x, y>>[2] = y
    OBVIOUS
  <2>4. vertices[p[i]][1] < vertices[p[i + 1]][1] /\ Free(vertices[p[i]], vertices[p[i + 1]], Halves)
    BY <2>1, <2>2, <2>3, Zenon
  <2>5. i \in 1 .. Len(p) /\ vertices[p[i]][1] \in Int
    BY <1>5, <1>7 DEF Points
  <2>6. vertices[p[i]] # vertices[p[i + 1]]
    BY <2>4, <2>5
  <2>. QED  BY <2>4, <2>6
<1>. QED  BY <1>3, <1>5, <1>6, <1>7, <1>8

\* A candidate between two points outside a convex polygon does not lead
\* through it: where it did, it would be inside up to the goal or from the
\* start on.
LEMMA NoneThroughPolygon ==
  ASSUME IInv, GraphFree, NEW k \in DOMAIN explored, NEW i \in 1 .. Len(explored[k]) - 1,
         NEW o \in ObstacleRecords, o.kind = "polygon", Len(o.at) > 2, Convex(o.at),
         \A l \in 1 .. Len(explored[k]) - 1 :
           ~CheckLineIntersection(o, vertices[explored[k][l]], vertices[explored[k][l + 1]], Halves),
         LeadsThrough(vertices[explored[k][i]], vertices[explored[k][i + 1]], o)
  PROVE  Inside(o.at, Start, 1) \/ Inside(o.at, Goal, 1)
<1>1. PICK n, at : n = Len(explored[k]) /\ at = [l \in 1 .. n |-> vertices[explored[k][l]]]
  OBVIOUS
<1>2. /\ n \in Nat /\ n > 1 /\ at[1] = Start /\ at[n] = Goal
      /\ \A l \in 1 .. n : at[l] \in Points
      /\ \A l \in 1 .. n - 1 : /\ at[l] # at[l + 1] /\ ~CheckLineIntersection(o, at[l], at[l + 1], Halves)
  <2>1. n \in Nat /\ n > 1
    BY <1>1, CandidateParts
  <2>2. \A l \in 1 .. n : at[l] = vertices[explored[k][l]]
    BY <1>1
  <2>3. 1 \in 1 .. n /\ n \in 1 .. n /\ \A l \in 1 .. n - 1 : l \in 1 .. n /\ l + 1 \in 1 .. n
    BY <2>1
  <2>4. at[1] = Start /\ at[n] = Goal /\ \A l \in 1 .. n : at[l] \in Points
    BY <1>1, <2>2, <2>3, CandidateParts
  <2>5. ASSUME NEW l \in 1 .. n - 1
        PROVE  at[l] # at[l + 1] /\ ~CheckLineIntersection(o, at[l], at[l + 1], Halves)
    <3>1. at[l] = vertices[explored[k][l]] /\ at[l + 1] = vertices[explored[k][l + 1]]
      BY <2>2, <2>3
    <3>. QED  BY <1>1, <3>1, CandidateParts
  <2>. QED  BY <2>1, <2>4, <2>5
<1>3. i \in 1 .. n - 1 /\ LeadsThrough(at[i], at[i + 1], o)
  BY <1>1
<1>4. ASSUME NEW l \in 1 .. n - 1
      PROVE  /\ LeadsThrough(at[l], at[l + 1], o) => AllLeft(o.at, at[l + 1]) \/ AllRight(o.at, at[l])
             /\ AllLeft(o.at, at[l]) => AllLeft(o.at, at[l + 1])
             /\ AllRight(o.at, at[l + 1]) => AllRight(o.at, at[l])
  <2>1. l \in 1 .. n /\ l + 1 \in 1 .. n
    BY <1>2
  <2>2. PICK p \in Points, q \in Points : p = at[l] /\ q = at[l + 1]
    BY <1>2, <2>1
  <2>3. p # q /\ ~CheckLineIntersection(o, p, q, Halves)
    BY <1>2, <2>2
  <2>. QED  BY <2>2, <2>3, PolygonIsKept
<1>5. AllLeft(o.at, at[i + 1]) \/ AllRight(o.at, at[i])
  BY <1>3, <1>4
<1>6. o.at \in Figures
  BY ObstacleParts
<1>7. CASE AllLeft(o.at, at[i + 1])
  <2>. DEFINE S == {l \in 1 .. n : AllLeft(o.at, at[l])}
  <2>1. i + 1 \in S /\ i + 1 \in 1 .. n /\ \A l \in 1 .. n - 1 : l \in S => l + 1 \in S
    <3>1. \A l \in 1 .. n - 1 : l + 1 \in 1 .. n
      BY <1>2
    <3>. QED  BY <1>3, <1>4, <1>7, <3>1
  <2>. HIDE DEF S
  <2>2. n \in S
    BY <1>2, <2>1, CarriedForward
  <2>3. AllLeft(o.at, Goal)
    BY <1>2, <2>2 DEF S
  <2>. QED  BY <1>6, <2>3, InsideIsOneSide
<1>8. CASE AllRight(o.at, at[i])
  <2>. DEFINE S == {l \in 1 .. n : AllRight(o.at, at[l])}
  <2>1. i \in S /\ i \in 1 .. n /\ \A l \in 1 .. n - 1 : l + 1 \in S => l \in S
    BY <1>2, <1>3, <1>4, <1>8
  <2>. HIDE DEF S
  <2>2. 1 \in S
    BY <1>2, <2>1, CarriedBack
  <2>3. AllRight(o.at, Start)
    BY <1>2, <2>2 DEF S
  <2>. QED  BY <1>6, <2>3, InsideIsOneSide
<1>. QED  BY <1>5, <1>7, <1>8

\* Whatever the obstacles are and wherever the keypoints or samples lie: every
\* step of every candidate leads forward, keeps the distance asked for from
\* every point and circle, crosses no line, and enters no convex polygon unless
\* the robot or the goal is inside it.
THEOREM CandidatesStayFree == Spec => []CandidatesAreFree
<1>1. IInv /\ GraphFree => CandidatesAreFree
  <2>. SUFFICES ASSUME IInv, GraphFree, NEW k \in DOMAIN explored,
                       NEW i \in 1 .. Len(explored[k]) - 1
                PROVE  /\ vertices[explored[k][i]][1] < vertices[explored[k][i + 1]][1]
                       /\ \A j \in DOMAIN obstacles :
                            \/ obstacles[j].kind = "polygon"
                                 /\ \/ ~Convex(obstacles[j].at)
                                    \/ Inside(obstacles[j].at, Start, 1)
                                    \/ Inside(obstacles[j].at, Goal, 1)
                            \/ ~LeadsThrough(vertices[explored[k][i]],
                                             vertices[explored[k][i + 1]], obstacles[j])
    BY DEF CandidatesAreFree
  <2>1. vertices[explored[k][i]][1] < vertices[explored[k][i + 1]][1]
    BY CandidateParts
  <2>2. PICK p \in Points, q \in Points : p = vertices[explored[k][i]] /\ q = vertices[explored[k][i + 1]]
    <3>1. i \in 1 .. Len(explored[k]) /\ i + 1 \in 1 .. Len(explored[k])
      BY CandidateParts
    <3>. QED  BY <3>1, CandidateParts
  <2>3. p # q
    BY <2>2, CandidateParts
  <2>4. scene.distance \in Nat
    BY SearchAssumption DEF IInv, TypeOK
  <2>5. ASSUME NEW j \in DOMAIN obstacles, LeadsThrough(p, q, obstacles[j])
        PROVE  obstacles[j].kind = "polygon"
                 /\ \/ ~Convex(obstacles[j].at)
                    \/ Inside(obstacles[j].at, Start, 1)
                    \/ Inside(obstacles[j].at, Goal, 1)
    <3>1. PICK o \in ObstacleRecords : o = obstacles[j]
      BY DEF IInv, TypeOK
    <3>2. \A l \in 1 .. Len(explored[k]) - 1 :
            ~CheckLineIntersection(o, vertices[explored[k][l]], vertices[explored[k][l + 1]], Halves)
      BY <3>1, CandidateParts DEF Free
    <3>3. ~CheckLineIntersection(o, p, q, Halves) /\ LeadsThrough(p, q, o)
      BY <2>2, <2>5, <3>1, <3>2
    <3>4. o.kind \in {"point", "circle", "line", "polygon"}
      BY ObstacleParts
    <3>5. o.kind = "polygon"
      BY <2>3, <2>4, <3>3, <3>4, RoundIsKept, LineIsKept
    <3>6. Len(o.at) > 2
      BY <3>3, <3>5 DEF LeadsThrough
    <3>7. Convex(o.at) => Inside(o.at, Start, 1) \/ Inside(o.at, Goal, 1)
      BY <2>2, <3>2, <3>3, <3>5, <3>6, NoneThroughPolygon
    <3>. QED  BY <3>1, <3>5, <3>7
  <2>. QED  BY <2>1, <2>2, <2>5
<1>. QED  BY <1>1, Invariant, GraphIsFree, PTL

=============================================================================
