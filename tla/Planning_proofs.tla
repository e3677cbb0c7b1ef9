--------------------------- MODULE Planning_proofs ---------------------------
(***************************************************************************)
(* Proofs about PlanOrder for any objects and dependencies, added in any   *)
(* number and at any time, and for any number of requests that generate at *)
(* one time: a generated plan orders every object that was read after all  *)
(* that it depends on, and only a cycle is refused as one.                 *)
(*                                                                         *)
(* Proofs about Recommendation for any hosts, places, boundaries and       *)
(* links: every search finds a shortest path or that there is none, and    *)
(* what is recommended is what those paths call for.                       *)
(***************************************************************************)
EXTENDS PlanOrder, Recommendation, FiniteSetTheorems, SequenceTheorems, WellFoundedInduction, TLAPS

\* The objects and dependencies of the job, and those about to be added.
Entered ==
    /\ status \in {"draft", "generated", "failed"} /\ error \in {"none", "cycle", "object"}
    /\ objects \subseteq Objects /\ rows \subseteq objects \X objects
    /\ editing \subseteq Objects \cup (objects \X objects)
    /\ editing \cap objects = {}
    /\ plan = [g \in Generators |-> plan[g]]

\* What a generate has read, and what it could not.
HasRead(p) ==
    /\ p.pc \in {"idle", "objects", "dependencies", "order"} /\ DOMAIN p = DOMAIN NoPlan
    /\ p.pc \in {"dependencies", "order"} => p.nodes = objects \ p.late
    /\ p.pc = "dependencies" => p.late \subseteq Objects /\ p.ordered = <<>>
    /\ p.pc = "order" => /\ p.edges = {e \in rows \ p.late : e[1] \in p.nodes}
                         /\ \A e \in p.edges : e[2] \in p.nodes

\* The dependencies of c on objects that are not ordered yet.
Waiting(edges, ordered, c) == {e \in edges : e[2] = c /\ e[1] \notin ToSet(ordered)}
Distinct(q) == \A i, j \in 1 .. Len(q) : i # j => q[i] # q[j]

\* The loop of topological_order: every object is ordered once, after all that it depends on;
\* those that wait for none are ordered or queued.
Sorted(nodes, edges, inDegree, queue, ordered) ==
    /\ ordered \in Seq(nodes) /\ queue \in Seq(nodes)
    /\ Distinct(ordered) /\ Distinct(queue)
    /\ inDegree \in [nodes -> Nat]
    /\ \A c \in nodes : inDegree[c] = Cardinality(Waiting(edges, ordered, c))
    /\ ToSet(queue) = {c \in nodes : inDegree[c] = 0} \ ToSet(ordered)
    /\ \A e \in edges, i \in 1 .. Len(ordered) :
          e[2] = ordered[i] => \E j \in 1 .. (i - 1) : ordered[j] = e[1]

Sorting(p) == p.pc = "order" => Sorted(p.nodes, p.edges, p.inDegree, p.queue, p.ordered)

Running == \A g \in Generators : HasRead(plan[g]) /\ Sorting(plan[g])

IInv == Entered /\ Running /\ OrderRespects

-----------------------------------------------------------------------------
(***************************************************************************)
(* Sequences of distinct elements.                                         *)
(***************************************************************************)

LEMMA SeqSet ==
    ASSUME NEW S, NEW q \in Seq(S)
    PROVE  /\ ToSet(q) = {q[i] : i \in 1 .. Len(q)}
           /\ ToSet(q) \subseteq S
           /\ \A x : x \in ToSet(q) <=> \E i \in 1 .. Len(q) : q[i] = x
  BY DEF ToSet

\* An enumeration of a finite set has all of it, once.
LEMMA Enumerates ==
    ASSUME NEW S, IsFiniteSet(S), NEW q \in SetToSeqs(S)
    PROVE  q \in Seq(S) /\ Distinct(q) /\ ToSet(q) = S
  <1> DEFINE n == Cardinality(S)
  <1>1. n \in Nat
    BY FS_CardinalityType
  <1>2. q \in [1 .. n -> S] /\ \A i, j \in 1 .. n : i # j => q[i] # q[j]
    BY DEF SetToSeqs
  <1> HIDE DEF n
  <1>3. q \in Seq(S) /\ Len(q) = n
    BY <1>1, <1>2, SeqDef, LenProperties
  <1>4. q \in Injection(1 .. n, S)
    BY <1>2 DEF Injection, IsInjective
  <1>5. Cardinality(1 .. n) = n
    BY <1>1, FS_Interval
  <1>6. q \in Surjection(1 .. n, S)
    BY <1>4, <1>5, FS_Injection DEF n
  <1>7. \A x \in S : \E i \in 1 .. n : q[i] = x
    BY <1>6 DEF Surjection
  <1>8. Distinct(q)
    BY <1>2, <1>3 DEF Distinct
  <1>9. ToSet(q) = S
    <2>1. ToSet(q) = {q[i] : i \in 1 .. n}
      BY <1>3, SeqSet
    <2>2. \A i \in 1 .. n : q[i] \in S
      BY <1>2
    <2> QED
      BY <1>7, <2>1, <2>2
  <1> QED
    BY <1>3, <1>8, <1>9

\* A sequence of distinct elements of a finite set has all of it when it is as long.
LEMMA LongEnough ==
    ASSUME NEW S, IsFiniteSet(S), NEW q \in Seq(S), Distinct(q)
    PROVE  Len(q) = Cardinality(S) <=> ToSet(q) = S
  <1> DEFINE n == Len(q)
  <1>1. n \in Nat /\ q \in [1 .. n -> S]
    BY LenProperties
  <1>2. q \in Injection(1 .. n, S)
    BY <1>1 DEF Distinct, Injection, IsInjective
  <1>3. Cardinality(1 .. n) = n
    BY <1>1, FS_Interval
  <1>4. n = Cardinality(S) <=> q \in Surjection(1 .. n, S)
    BY <1>2, <1>3, FS_Injection
  <1>5. q \in Surjection(1 .. n, S) <=> \A x \in S : \E i \in 1 .. n : q[i] = x
    BY <1>1 DEF Surjection
  <1>6. ToSet(q) = S <=> \A x \in S : \E i \in 1 .. n : q[i] = x
    BY SeqSet
  <1> QED
    BY <1>4, <1>5, <1>6

LEMMA HeadAndTail ==
    ASSUME NEW S, NEW q \in Seq(S), q # <<>>, Distinct(q)
    PROVE  /\ Head(q) \in S /\ Head(q) \in ToSet(q)
           /\ Tail(q) \in Seq(S) /\ Distinct(Tail(q))
           /\ ToSet(Tail(q)) = ToSet(q) \ {Head(q)}
  <1> DEFINE t == Tail(q)
  <1>1. /\ Len(q) \in Nat /\ Len(q) > 0 /\ Head(q) = q[1] /\ Head(q) \in S
        /\ t \in Seq(S) /\ Len(t) = Len(q) - 1 /\ \A i \in 1 .. Len(t) : t[i] = q[i + 1]
    BY EmptySeq, HeadTailProperties
  <1> HIDE DEF t
  <1>2. Distinct(t)
    BY <1>1 DEF Distinct
  <1>3. \A x : x \in ToSet(t) <=> \E i \in 1 .. Len(t) : q[i + 1] = x
    BY <1>1, SeqSet
  <1>4. \A x : x \in ToSet(q) <=> \E i \in 1 .. Len(q) : q[i] = x
    BY SeqSet
  <1>5. ToSet(t) \subseteq ToSet(q) \ {Head(q)}
    BY <1>1, <1>3, <1>4 DEF Distinct
  <1>6. ASSUME NEW x \in ToSet(q) \ {Head(q)} PROVE x \in ToSet(t)
    <2>1. PICK i \in 1 .. Len(q) : q[i] = x
      BY <1>4
    <2>2. i # 1
      BY <1>1, <2>1
    <2>3. i - 1 \in 1 .. Len(t) /\ q[(i - 1) + 1] = x
      BY <1>1, <2>1, <2>2
    <2> QED
      BY <1>3, <2>3
  <1>7. Head(q) \in ToSet(q)
    BY <1>1, <1>4
  <1> QED
    BY <1>1, <1>2, <1>5, <1>6, <1>7 DEF t

LEMMA Joined ==
    ASSUME NEW S, NEW p \in Seq(S), NEW q \in Seq(S), Distinct(p), Distinct(q),
           ToSet(p) \cap ToSet(q) = {}
    PROVE  p \o q \in Seq(S) /\ Distinct(p \o q) /\ ToSet(p \o q) = ToSet(p) \cup ToSet(q)
  <1> DEFINE r == p \o q
             m == Len(p)
             n == Len(q)
  <1>1. /\ m \in Nat /\ n \in Nat /\ r \in Seq(S) /\ Len(r) = m + n
        /\ \A i \in 1 .. m + n : r[i] = IF i <= m THEN p[i] ELSE q[i - m]
    BY ConcatProperties
  <1>2. \A i \in 1 .. m : p[i] \in ToSet(p)
    BY SeqSet
  <1>3. \A i \in 1 .. n : q[i] \in ToSet(q)
    BY SeqSet
  <1>4. /\ \A i \in 1 .. m : r[i] = p[i]
        /\ \A i \in 1 .. n : m + i \in 1 .. m + n /\ r[m + i] = q[i]
    BY <1>1
  <1>5. \A i \in 1 .. m + n : i \notin 1 .. m => i - m \in 1 .. n /\ r[i] = q[i - m]
    BY <1>1
  <1>6. (\A i, j \in 1 .. m : i # j => p[i] # p[j]) /\ (\A i, j \in 1 .. n : i # j => q[i] # q[j])
    BY DEF Distinct
  <1> HIDE DEF r, m, n
  <1>7. \A i, j \in 1 .. m + n : i # j => r[i] # r[j]
    <2> SUFFICES ASSUME NEW i \in 1 .. m + n, NEW j \in 1 .. m + n, i # j PROVE r[i] # r[j]
      OBVIOUS
    <2>1. CASE i \in 1 .. m /\ j \in 1 .. m
      BY <1>4, <1>6, <2>1
    <2>2. CASE i \in 1 .. m /\ j \notin 1 .. m
      BY <1>2, <1>3, <1>4, <1>5, <2>2
    <2>3. CASE i \notin 1 .. m /\ j \in 1 .. m
      BY <1>2, <1>3, <1>4, <1>5, <2>3
    <2>4. CASE i \notin 1 .. m /\ j \notin 1 .. m
      <3>1. i - m \in 1 .. n /\ j - m \in 1 .. n /\ i - m # j - m
        BY <1>1, <1>5, <2>4
      <3> QED
        BY <1>5, <1>6, <2>4, <3>1
    <2> QED
      BY <2>1, <2>2, <2>3, <2>4
  <1>8. Distinct(r)
    BY <1>1, <1>7 DEF Distinct
  <1>9. \A x : x \in ToSet(r) <=> \E i \in 1 .. m + n : r[i] = x
    BY <1>1, SeqSet
  <1>10. \A x : x \in ToSet(p) <=> \E i \in 1 .. m : p[i] = x
    BY SeqSet DEF m
  <1>11. \A x : x \in ToSet(q) <=> \E i \in 1 .. n : q[i] = x
    BY SeqSet DEF n
  <1>12. ToSet(r) \subseteq ToSet(p) \cup ToSet(q)
    BY <1>2, <1>3, <1>4, <1>5, <1>9
  <1>13. ToSet(p) \subseteq ToSet(r)
    BY <1>1, <1>4, <1>9, <1>10
  <1>14. ToSet(q) \subseteq ToSet(r)
    BY <1>1, <1>4, <1>9, <1>11
  <1> QED
    BY <1>1, <1>8, <1>12, <1>13, <1>14 DEF r

LEMMA Appended ==
    ASSUME NEW S, NEW q \in Seq(S), NEW x \in S, Distinct(q), x \notin ToSet(q)
    PROVE  LET r == Append(q, x)
           IN  /\ r \in Seq(S) /\ Distinct(r) /\ ToSet(r) = ToSet(q) \cup {x}
               /\ Len(r) = Len(q) + 1 /\ r[Len(q) + 1] = x
               /\ \A i \in 1 .. Len(q) : r[i] = q[i]
  <1> DEFINE r == Append(q, x)
             n == Len(q)
  <1>1. /\ n \in Nat /\ r \in Seq(S) /\ Len(r) = n + 1 /\ r[n + 1] = x
        /\ \A i \in 1 .. n : r[i] = q[i]
    BY AppendProperties
  <1>2. \A i \in 1 .. n : q[i] # x
    BY SeqSet
  <1>3. \A i, j \in 1 .. n : i # j => q[i] # q[j]
    BY DEF Distinct
  <1> HIDE DEF r, n
  <1>4. \A i, j \in 1 .. n + 1 : i # j => r[i] # r[j]
    <2>1. \A i \in 1 .. n + 1 : i = n + 1 \/ i \in 1 .. n
      BY <1>1
    <2> QED
      BY <1>1, <1>2, <1>3, <2>1
  <1>5. Distinct(r)
    BY <1>1, <1>4 DEF Distinct
  <1>6. \A y : y \in ToSet(r) <=> \E i \in 1 .. n + 1 : r[i] = y
    BY <1>1, SeqSet
  <1>7. \A y : y \in ToSet(q) <=> \E i \in 1 .. n : q[i] = y
    BY SeqSet DEF n
  <1>8. ToSet(r) = ToSet(q) \cup {x}
    <2>1. \A i \in 1 .. n + 1 : i = n + 1 \/ i \in 1 .. n
      BY <1>1
    <2>2. n + 1 \in 1 .. n + 1 /\ 1 .. n \subseteq 1 .. n + 1
      BY <1>1
    <2> QED
      BY <1>1, <1>6, <1>7, <2>1, <2>2
  <1> QED
    BY <1>1, <1>5, <1>8 DEF r, n

-----------------------------------------------------------------------------
(***************************************************************************)
(* topological_order.                                                      *)
(***************************************************************************)

LEMMA FiniteEdges ==
    ASSUME NEW N, IsFiniteSet(N), NEW E \in SUBSET (N \X N), NEW ord, NEW c
    PROVE  /\ IsFiniteSet(Waiting(E, ord, c)) /\ Cardinality(Waiting(E, ord, c)) \in Nat
           /\ Cardinality(Waiting(E, ord, c)) = 0 <=> Waiting(E, ord, c) = {}
  <1>1. IsFiniteSet(N \X N)
    BY FS_Product
  <1>2. IsFiniteSet(Waiting(E, ord, c))
    BY <1>1, FS_Subset DEF Waiting
  <1> QED
    BY <1>2, FS_CardinalityType, FS_EmptySet

\* What the first queue is taken from: nothing is ordered, and an object waits for its parents.
LEMMA LoopStarts ==
    ASSUME NEW N, IsFiniteSet(N), NEW E \in SUBSET (N \X N),
           NEW first \in SetToSeqs({o \in N : Started(N, E)[o] = 0})
    PROVE  Sorted(N, E, Started(N, E), first, <<>>)
  <1> DEFINE deg == Started(N, E)
             free == {o \in N : deg[o] = 0}
  <1>1. ToSet(<<>>) = {} /\ Distinct(<<>>) /\ <<>> \in Seq(N) /\ Len(<<>>) = 0
    BY DEF ToSet, Distinct
  <1>2. \A c \in N : deg[c] = Cardinality(Waiting(E, <<>>, c)) /\ deg[c] \in Nat
    <2> TAKE c \in N
    <2>1. Waiting(E, <<>>, c) = Parents(E, c)
      BY <1>1 DEF Waiting, Parents
    <2> QED
      BY <2>1, FiniteEdges DEF Started
  <1>3. deg \in [N -> Nat]
    BY <1>2 DEF Started
  <1>4. IsFiniteSet(free)
    BY FS_Subset
  <1>5. first \in Seq(free) /\ Distinct(first) /\ ToSet(first) = free
    BY <1>4, Enumerates
  <1>6. first \in Seq(N)
    BY <1>5, SeqMonotonic
  <1> QED
    BY <1>1, <1>2, <1>3, <1>5, <1>6 DEF Sorted

\* One turn keeps the loop sorted.
LEMMA LoopTurns ==
    ASSUME NEW N, IsFiniteSet(N), NEW E \in SUBSET (N \X N), NEW deg, NEW q, NEW ord,
           Sorted(N, E, deg, q, ord), q # <<>>,
           NEW fed, fed = {e[2] : e \in {d \in E : d[1] = Head(q)}},
           NEW more \in SetToSeqs({c \in fed : deg[c] = 1}),
           NEW deg2, deg2 = [c \in N |-> IF c \in fed THEN deg[c] - 1 ELSE deg[c]]
    PROVE  Sorted(N, E, deg2, Tail(q) \o more, Append(ord, Head(q)))
  <1> DEFINE h == Head(q)
             free == {c \in fed : deg[c] = 1}
             q2 == Tail(q) \o more
             ord2 == Append(ord, h)
             W(c) == Waiting(E, ord, c)
  <1>1. /\ ord \in Seq(N) /\ q \in Seq(N) /\ Distinct(ord) /\ Distinct(q) /\ deg \in [N -> Nat]
        /\ \A c \in N : deg[c] = Cardinality(W(c))
        /\ ToSet(q) = {c \in N : deg[c] = 0} \ ToSet(ord)
    BY DEF Sorted
  <1>2. \A e \in E, i \in 1 .. Len(ord) : e[2] = ord[i] => \E j \in 1 .. (i - 1) : ord[j] = e[1]
    BY DEF Sorted
  <1>3. /\ h \in N /\ h \in ToSet(q) /\ Tail(q) \in Seq(N) /\ Distinct(Tail(q))
        /\ ToSet(Tail(q)) = ToSet(q) \ {h}
    BY <1>1, HeadAndTail
  <1>4. deg[h] = 0 /\ h \notin ToSet(ord)
    BY <1>1, <1>3
  <1>5. W(h) = {}
    BY <1>1, <1>3, <1>4, FiniteEdges
  <1>6. /\ ord2 \in Seq(N) /\ Distinct(ord2) /\ ToSet(ord2) = ToSet(ord) \cup {h}
        /\ Len(ord2) = Len(ord) + 1 /\ ord2[Len(ord) + 1] = h
        /\ \A i \in 1 .. Len(ord) : ord2[i] = ord[i]
    BY <1>1, <1>3, <1>4, Appended
  <1>7. /\ \A c : c \in fed <=> <<h, c>> \in E
        /\ fed \subseteq N
        /\ \A e \in E : e = <<e[1], e[2]>> /\ e[1] \in N /\ e[2] \in N
    OBVIOUS
  <1> HIDE DEF h, q2, ord2
  <1>8. ASSUME NEW c \in N
        PROVE  /\ c \in fed => <<h, c>> \in W(c) /\ Waiting(E, ord2, c) = W(c) \ {<<h, c>>}
               /\ c \notin fed => Waiting(E, ord2, c) = W(c)
    BY <1>4, <1>6, <1>7 DEF Waiting
  <1>9. \A c \in N : deg2[c] = Cardinality(Waiting(E, ord2, c)) /\ deg2[c] \in Nat
                     /\ (c \in fed => deg[c] >= 1)
    <2> TAKE c \in N
    <2>1. IsFiniteSet(W(c)) /\ deg[c] = Cardinality(W(c)) /\ deg[c] \in Nat
      BY <1>1, FiniteEdges
    <2>2. CASE c \in fed
      <3>1. Cardinality(Waiting(E, ord2, c)) = deg[c] - 1
        BY <1>8, <2>1, <2>2, FS_RemoveElement
      <3>2. deg[c] # 0
        BY <1>1, <1>8, <2>2, FiniteEdges
      <3> QED
        BY <2>1, <2>2, <3>1, <3>2
    <2>3. CASE c \notin fed
      BY <1>8, <2>1, <2>3
    <2> QED
      BY <2>2, <2>3
  <1>10. deg2 \in [N -> Nat]
    BY <1>9
  <1>11. IsFiniteSet(free)
    BY <1>7, FS_Subset
  <1>12. more \in Seq(free) /\ Distinct(more) /\ ToSet(more) = free
    BY <1>11, Enumerates
  <1>13. more \in Seq(N)
    BY <1>7, <1>12, SeqMonotonic
  <1>14. ToSet(Tail(q)) \cap ToSet(more) = {}
    BY <1>1, <1>3, <1>12
  <1>15. q2 \in Seq(N) /\ Distinct(q2) /\ ToSet(q2) = (ToSet(q) \ {h}) \cup free
    <2> DEFINE t == Tail(q)
    <2>1. t \in Seq(N) /\ Distinct(t) /\ ToSet(t) \cap ToSet(more) = {}
      BY <1>3, <1>14
    <2> HIDE DEF t
    <2>2. t \o more \in Seq(N) /\ Distinct(t \o more) /\ ToSet(t \o more) = ToSet(t) \cup ToSet(more)
      BY <1>12, <1>13, <2>1, Joined
    <2> QED
      BY <1>3, <1>12, <2>2 DEF t, q2
  <1>16. free \cap (ToSet(ord) \cup {h}) = {}
    <2> SUFFICES ASSUME NEW c \in free, c \in ToSet(ord) PROVE FALSE
      BY <1>4
    <2>1. PICK i \in 1 .. Len(ord) : ord[i] = c
      BY <1>1, SeqSet
    <2>2. <<h, c>> \in E
      BY <1>7
    <2>3. PICK j \in 1 .. (i - 1) : ord[j] = h
      BY <1>2, <2>1, <2>2
    <2>4. j \in 1 .. Len(ord)
      BY <1>1, <2>1, <2>3, LenProperties
    <2> QED
      BY <1>1, <1>4, <2>3, <2>4, SeqSet
  <1>17. ToSet(q2) = {c \in N : deg2[c] = 0} \ ToSet(ord2)
    <2>1. \A c \in N : deg2[c] = 0 <=> (c \in free \/ (c \notin fed /\ deg[c] = 0))
      BY <1>1, <1>9
    <2>2. \A c \in N : deg[c] = 0 => c \notin fed
      BY <1>9
    <2>3. \A c \in N : deg2[c] = 0 <=> (c \in free \/ deg[c] = 0)
      BY <2>1, <2>2
    <2> QED
      BY <1>1, <1>6, <1>7, <1>15, <1>16, <2>3
  <1>18. ASSUME NEW e \in E, NEW i \in 1 .. Len(ord2), e[2] = ord2[i]
         PROVE  \E j \in 1 .. (i - 1) : ord2[j] = e[1]
    <2>1. Len(ord) \in Nat
      BY <1>1
    <2>2. CASE i \in 1 .. Len(ord)
      <3>1. PICK j \in 1 .. (i - 1) : ord[j] = e[1]
        BY <1>2, <1>6, <1>18, <2>2
      <3>2. j \in 1 .. Len(ord)
        BY <2>1, <2>2, <3>1
      <3> QED
        BY <1>6, <3>1, <3>2
    <2>3. CASE i = Len(ord) + 1
      <3>1. e[2] = h
        BY <1>6, <1>18, <2>3
      <3>2. e[1] \in ToSet(ord)
        BY <1>5, <3>1 DEF Waiting
      <3>3. PICK j \in 1 .. Len(ord) : ord[j] = e[1]
        BY <1>1, <3>2, SeqSet
      <3>4. j \in 1 .. (i - 1)
        BY <2>1, <2>3
      <3> QED
        BY <1>6, <3>3, <3>4
    <2> QED
      BY <1>6, <2>1, <2>2, <2>3
  <1>19. Sorted(N, E, deg2, q2, ord2)
    BY <1>6, <1>9, <1>10, <1>15, <1>17, <1>18 DEF Sorted
  <1> QED
    BY <1>19 DEF q2, ord2, h

\* When the queue is empty, either all is ordered or some objects each wait for another of them.
LEMMA LoopEnds ==
    ASSUME NEW N, IsFiniteSet(N), NEW E \in SUBSET (N \X N), NEW deg, NEW ord,
           Sorted(N, E, deg, <<>>, ord)
    PROVE  /\ Len(ord) = Cardinality(N) <=> ToSet(ord) = N
           /\ ToSet(ord) \subseteq N
           /\ \A o \in N \ ToSet(ord) : \E p \in N \ ToSet(ord) : <<p, o>> \in E
  <1>1. /\ ord \in Seq(N) /\ Distinct(ord) /\ deg \in [N -> Nat]
        /\ \A c \in N : deg[c] = Cardinality(Waiting(E, ord, c))
        /\ ToSet(<<>>) = {c \in N : deg[c] = 0} \ ToSet(ord)
    BY DEF Sorted
  <1>2. Len(ord) = Cardinality(N) <=> ToSet(ord) = N
    BY <1>1, LongEnough
  <1>3. ToSet(ord) \subseteq N
    BY <1>1, SeqSet
  <1>4. ToSet(<<>>) = {}
    BY DEF ToSet
  <1>5. ASSUME NEW o \in N \ ToSet(ord) PROVE \E p \in N \ ToSet(ord) : <<p, o>> \in E
    <2>1. deg[o] # 0
      BY <1>1, <1>4
    <2>2. Waiting(E, ord, o) # {}
      BY <1>1, <2>1, FiniteEdges
    <2>3. PICK e \in E : e[2] = o /\ e[1] \notin ToSet(ord)
      BY <2>2 DEF Waiting
    <2>4. e[1] \in N /\ e = <<e[1], o>>
      BY <2>3
    <2> QED
      BY <2>3, <2>4
  <1> QED
    BY <1>2, <1>3, <1>5

\* The places of a complete order.
LEMMA Placed ==
    ASSUME NEW N, IsFiniteSet(N), NEW E \in SUBSET (N \X N), NEW deg, NEW ord,
           Sorted(N, E, deg, <<>>, ord), Len(ord) = Cardinality(N),
           NEW at, \A o \in N : at[o] \in 1 .. Len(ord) /\ ord[at[o]] = o
    PROVE  /\ \A o, p \in N : at[o] = at[p] => o = p
           /\ \A e \in E : at[e[1]] < at[e[2]]
  <1>1. ord \in Seq(N) /\ Distinct(ord) /\ ToSet(ord) = N
    <2>1. ord \in Seq(N) /\ Distinct(ord)
      BY DEF Sorted
    <2>2. Len(ord) = Cardinality(N) <=> ToSet(ord) = N
      BY LoopEnds
    <2> QED
      BY <2>1, <2>2
  <1>2. \A o \in N : at[o] \in 1 .. Len(ord) /\ ord[at[o]] = o
    OBVIOUS
  <1>3. ASSUME NEW e \in E PROVE at[e[1]] < at[e[2]]
    <2>1. e[1] \in N /\ e[2] \in N
      OBVIOUS
    <2>2. PICK j \in 1 .. (at[e[2]] - 1) : ord[j] = e[1]
      BY <1>2, <2>1 DEF Sorted
    <2>3. Len(ord) \in Nat
      BY <1>1
    <2>4. j \in 1 .. Len(ord) /\ j < at[e[2]]
      BY <1>2, <2>1, <2>2, <2>3
    <2>5. at[e[1]] = j
      BY <1>1, <1>2, <2>1, <2>2, <2>4 DEF Distinct
    <2> QED
      BY <2>4, <2>5
  <1> QED
    BY <1>2, <1>3

-----------------------------------------------------------------------------
(***************************************************************************)
(* The inductive invariant.                                                *)
(***************************************************************************)

LEMMA Initially == OrderInit => IInv
  <1> SUFFICES ASSUME OrderInit PROVE IInv
    OBVIOUS
  <1> USE DEF OrderInit, NoPlan
  <1>1. Entered
    BY DEF Entered
  <1>2. Running /\ OrderRespects
    BY DEF Running, HasRead, Sorting, OrderRespects
  <1> QED
    BY <1>1, <1>2 DEF IInv

LEMMA FiniteJob == Entered => IsFiniteSet(objects)
  BY ObjectsAssumption, FS_Subset DEF Entered

\* A cycle is not undone: nothing is removed from the job.
LEMMA StaysCyclic ==
    Cyclic /\ objects \subseteq objects' /\ rows \subseteq rows' => Cyclic'
  <1> SUFFICES ASSUME Cyclic, objects \subseteq objects', rows \subseteq rows' PROVE Cyclic'
    OBVIOUS
  <1>1. PICK ring \in SUBSET objects : ring # {} /\ \A o \in ring : \E p \in ring : <<p, o>> \in rows
    BY DEF Cyclic
  <1>2. ring \in SUBSET objects'
    OBVIOUS
  <1>3. ring # {} /\ \A o \in ring : \E p \in ring : <<p, o>> \in rows'
    BY <1>1
  <1> QED
    BY <1>2, <1>3 DEF Cyclic

\* A plan in progress whose loop is as it was, and which leaves out what has been added.
Follows(p, q, newObjects, newRows) ==
    /\ q.pc = p.pc /\ q.nodes = p.nodes /\ q.edges = p.edges /\ q.inDegree = p.inDegree
    /\ q.queue = p.queue /\ q.ordered = p.ordered /\ DOMAIN q = DOMAIN p
    /\ p.pc \in {"dependencies", "order"} => newObjects \ q.late = objects \ p.late
    /\ p.pc = "order" => newRows \ q.late = rows \ p.late
    /\ p.pc = "dependencies" => q.late \subseteq Objects

\* A request that adds a row or is about to.
LEMMA LeavesOut ==
    ASSUME IInv, UNCHANGED <<status, error, place>>, objects \subseteq objects', rows \subseteq rows',
           status = "generated" => (objects \ late)' = objects \ late /\ (rows \ late)' = rows \ late,
           \A g \in Generators : Follows(plan[g], plan'[g], objects', rows')
    PROVE  (Running /\ OrderRespects)'
  <1> USE DEF IInv
  <1>1. ASSUME NEW g \in Generators
        PROVE  (HasRead(plan[g]) /\ Sorting(plan[g]))'
    <2>1. HasRead(plan[g]) /\ Sorting(plan[g]) /\ Follows(plan[g], plan'[g], objects', rows')
      BY DEF Running
    <2>2. HasRead(plan[g])'
      BY <2>1 DEF HasRead, Follows
    <2>3. Sorting(plan[g])'
      BY <2>1 DEF Sorting, Follows
    <2> QED
      BY <2>2, <2>3
  <1>2. status = "generated" => Ordered'
    <2> SUFFICES ASSUME status = "generated" PROVE Ordered'
      OBVIOUS
    <2>1. Ordered /\ (objects \ late)' = objects \ late /\ (rows \ late)' = rows \ late
      BY DEF OrderRespects
    <2> QED
      BY <2>1 DEF Ordered
  <1>3. error = "cycle" => Cyclic'
    BY StaysCyclic DEF OrderRespects
  <1> QED
    BY <1>1, <1>2, <1>3 DEF Running, OrderRespects

\* Nothing is added: every plan follows.
LEMMA FollowsItself ==
    ASSUME IInv, UNCHANGED <<objects, rows, plan>>
    PROVE  \A g \in Generators : Follows(plan[g], plan'[g], objects', rows')
  BY DEF IInv, Running, HasRead, Follows

\* A row is added: those who have read leave it out.
LEMMA MissedIs ==
    ASSUME IInv, NEW row, NEW readers, NEW g \in Generators, NEW q, q = Missed(row, readers)[g]
    PROVE  /\ q.pc = plan[g].pc /\ q.nodes = plan[g].nodes /\ q.edges = plan[g].edges
           /\ q.inDegree = plan[g].inDegree /\ q.queue = plan[g].queue /\ q.ordered = plan[g].ordered
           /\ DOMAIN q = DOMAIN NoPlan
           /\ q.late = IF plan[g].pc \in readers THEN plan[g].late \cup {row} ELSE plan[g].late
  <1>1. DOMAIN plan[g] = DOMAIN NoPlan
    BY DEF IInv, Running, HasRead
  <1> QED
    BY <1>1 DEF Missed, NoPlan

LEMMA AddingObjects ==
    ASSUME IInv, NEW o \in Objects, CheckObject(o) \/ CommitObject(o)
    PROVE  IInv'
  <1> USE DEF IInv
  <1>1. \A p, c \in Objects : o # <<p, c>>
    BY PairsAssumption
  <1>2. o \notin rows /\ o \notin objects \X objects
    BY <1>1 DEF Entered
  <1>3. CASE CheckObject(o)
    <2> USE DEF CheckObject
    <2>1. Entered'
      BY <1>3 DEF Entered
    <2>2. (Running /\ OrderRespects)'
      BY <1>3, LeavesOut, FollowsItself
    <2> QED
      BY <2>1, <2>2
  <1>4. CASE CommitObject(o)
    <2> DEFINE readers == {"dependencies", "order"}
    <2>1. /\ o \in editing /\ o \notin objects /\ editing' = editing \ {o} /\ objects' = objects \cup {o}
          /\ plan' = Missed(o, readers) /\ UNCHANGED <<status, error, rows, place>>
          /\ late' = IF status = "generated" THEN late \cup {o} ELSE late
      BY <1>4 DEF CommitObject, Entered
    <2>2. Entered'
      <3>1. plan' = [g \in Generators |-> plan'[g]]
        BY <2>1 DEF Missed
      <3> QED
        BY <2>1, <3>1 DEF Entered
    <2>3. ASSUME NEW g \in Generators
          PROVE  Follows(plan[g], plan'[g], objects', rows')
      <3> DEFINE p == plan[g]
                 q == plan'[g]
      <3>1. /\ q.pc = p.pc /\ q.nodes = p.nodes /\ q.edges = p.edges /\ q.inDegree = p.inDegree
            /\ q.queue = p.queue /\ q.ordered = p.ordered /\ DOMAIN q = DOMAIN NoPlan
            /\ q.late = IF p.pc \in readers THEN p.late \cup {o} ELSE p.late
        <4>1. q = Missed(o, readers)[g]
          BY <2>1
        <4> HIDE DEF q, readers
        <4> QED
          BY <4>1, MissedIs
      <3>2. HasRead(p)
        BY DEF Running
      <3> HIDE DEF q
      <3>3. p.pc \in readers => objects' \ q.late = objects \ p.late
        BY <2>1, <3>1
      <3>4. p.pc = "order" => rows' \ q.late = rows \ p.late
        BY <1>2, <2>1, <3>1
      <3>5. p.pc = "dependencies" => q.late \subseteq Objects
        BY <3>1, <3>2 DEF HasRead
      <3>6. Follows(p, q, objects', rows')
        BY <3>1, <3>2, <3>3, <3>4, <3>5 DEF Follows, HasRead
      <3> QED
        BY <3>6 DEF q
    <2>4. status = "generated" => (objects \ late)' = objects \ late /\ (rows \ late)' = rows \ late
      BY <1>2, <2>1
    <2>5. (Running /\ OrderRespects)'
      BY <2>1, <2>3, <2>4, LeavesOut
    <2> QED
      BY <2>2, <2>5
  <1> QED
    BY <1>3, <1>4

LEMMA AddingDependencies ==
    ASSUME IInv, NEW f \in Objects, NEW c \in Objects,
           CheckDependency(f, c) \/ CommitDependency(f, c)
    PROVE  IInv'
  <1> USE DEF IInv
  <1> DEFINE d == <<f, c>>
  <1>1. d \notin Objects /\ d \notin objects
    BY PairsAssumption DEF Entered
  <1>2. CASE CheckDependency(f, c)
    <2> USE DEF CheckDependency
    <2>1. Entered'
      BY <1>1, <1>2 DEF Entered
    <2>2. (Running /\ OrderRespects)'
      BY <1>2, LeavesOut, FollowsItself
    <2> QED
      BY <2>1, <2>2
  <1>3. CASE CommitDependency(f, c)
    <2>1. /\ d \in editing /\ editing' = editing \ {d} /\ rows' = rows \cup {d}
          /\ plan' = IF d \in rows THEN plan ELSE Missed(d, {"order"})
          /\ UNCHANGED <<status, error, objects, place>>
          /\ late' = IF d \notin rows /\ status = "generated" THEN late \cup {d} ELSE late
      BY <1>3 DEF CommitDependency
    <2>2. d \in objects \X objects
      BY <1>1, <2>1 DEF Entered
    <2>3. Entered'
      <3>1. plan' = [g \in Generators |-> plan'[g]]
        BY <2>1 DEF Missed, Entered
      <3> QED
        BY <2>1, <2>2, <3>1 DEF Entered
    <2> HIDE DEF d
    <2>4. CASE d \in rows
      <3>1. rows' = rows /\ late' = late /\ plan' = plan
        BY <2>1, <2>4
      <3>2. (Running /\ OrderRespects)'
        BY <2>1, <3>1, LeavesOut, FollowsItself
      <3> QED
        BY <2>3, <3>2
    <2>5. CASE d \notin rows
      <3>1. ASSUME NEW g \in Generators
            PROVE  Follows(plan[g], plan'[g], objects', rows')
        <4> DEFINE p == plan[g]
                   q == plan'[g]
        <4>1. /\ q.pc = p.pc /\ q.nodes = p.nodes /\ q.edges = p.edges /\ q.inDegree = p.inDegree
              /\ q.queue = p.queue /\ q.ordered = p.ordered /\ DOMAIN q = DOMAIN NoPlan
              /\ q.late = IF p.pc \in {"order"} THEN p.late \cup {d} ELSE p.late
          <5>1. q = Missed(d, {"order"})[g]
            BY <2>1, <2>5
          <5> HIDE DEF q
          <5> QED
            BY <5>1, MissedIs
        <4>2. HasRead(p)
          BY DEF Running
        <4> HIDE DEF q
        <4>3. p.pc \in {"dependencies", "order"} => objects' \ q.late = objects \ p.late
          BY <1>1, <2>1, <4>1
        <4>4. p.pc = "order" => rows' \ q.late = rows \ p.late
          BY <2>1, <2>5, <4>1
        <4>5. p.pc = "dependencies" => q.late \subseteq Objects
          BY <4>1, <4>2 DEF HasRead
        <4>6. Follows(p, q, objects', rows')
          BY <4>1, <4>2, <4>3, <4>4, <4>5 DEF Follows, HasRead
        <4> QED
          BY <4>6 DEF q
      <3>2. status = "generated" => (objects \ late)' = objects \ late /\ (rows \ late)' = rows \ late
        BY <1>1, <2>1, <2>5
      <3>3. (Running /\ OrderRespects)'
        BY <2>1, <3>1, <3>2, LeavesOut
      <3> QED
        BY <2>3, <3>3
    <2> QED
      BY <2>4, <2>5
  <1> QED
    BY <1>2, <1>3

\* A step of one generate, from which the others learn nothing.
LEMMA TurnsKeep ==
    ASSUME IInv, NEW g \in Generators, NEW next, Turn(g, next), UNCHANGED <<objects, rows, editing>>,
           status' \in {"draft", "generated", "failed"}, error' \in {"none", "cycle", "object"},
           HasRead(next), Sorting(next), OrderRespects'
    PROVE  IInv'
  <1> USE DEF IInv
  <1>1. plan' = [h \in Generators |-> IF h = g THEN next ELSE plan[h]]
    BY DEF Turn, Entered
  <1>2. Entered'
    BY <1>1 DEF Entered
  <1>3. ASSUME NEW h \in Generators
        PROVE  (HasRead(plan[h]) /\ Sorting(plan[h]))'
    <2>1. HasRead(plan'[h]) /\ Sorting(plan'[h])
      BY <1>1 DEF Running
    <2> QED
      BY <2>1 DEF HasRead, Sorting
  <1> QED
    BY <1>2, <1>3 DEF Running

LEMMA NothingRead == HasRead(NoPlan) /\ Sorting(NoPlan)
  BY DEF NoPlan, HasRead, Sorting

\* What a step that only reads keeps.
LEMMA ReadingKeeps ==
    ASSUME IInv, UNCHANGED <<status, error, objects, rows, place, late>>
    PROVE  OrderRespects'
  BY DEF IInv, OrderRespects, Ordered, Cyclic

LEMMA Reading ==
    ASSUME IInv, NEW g \in Generators, BeginGenerate(g) \/ ReadObjects(g) \/ ReadDependencies(g)
    PROVE  IInv'
  <1> DEFINE p == plan[g]
  <1>0. HasRead(p) /\ Entered
    BY DEF IInv, Running
  <1>1. CASE BeginGenerate(g)
    <2> DEFINE next == [NoPlan EXCEPT !.pc = "objects"]
    <2>1. HasRead(next) /\ Sorting(next)
      BY DEF HasRead, Sorting, NoPlan
    <2>2. Turn(g, next) /\ UNCHANGED <<status, error, objects, rows, place, editing, late>>
      BY <1>1 DEF BeginGenerate
    <2> HIDE DEF next
    <2> QED
      BY <1>0, <2>1, <2>2, ReadingKeeps, TurnsKeep DEF Entered
  <1>2. CASE ReadObjects(g)
    <2> DEFINE next == [NoPlan EXCEPT !.pc = "dependencies", !.nodes = objects, !.loaded = place]
    <2>1. HasRead(next) /\ Sorting(next)
      BY DEF HasRead, Sorting, NoPlan
    <2>2. /\ Turn(g, NoPlan) \/ Turn(g, next)
          /\ UNCHANGED <<status, error, objects, rows, place, editing, late>>
      BY <1>2 DEF ReadObjects
    <2> HIDE DEF next
    <2> QED
      BY <1>0, <2>1, <2>2, NothingRead, ReadingKeeps, TurnsKeep DEF Entered
  <1>3. CASE ReadDependencies(g)
    <2> DEFINE N == p.nodes
               E == {e \in rows : e[1] \in N}
    <2>1. /\ p.pc = "dependencies" /\ N = objects \ p.late /\ p.late \subseteq Objects /\ p.ordered = <<>>
          /\ DOMAIN p = DOMAIN NoPlan
          /\ UNCHANGED <<status, error, objects, rows, place, editing, late>>
      BY <1>0, <1>3 DEF ReadDependencies, HasRead
    <2>2. CASE Turn(g, NoPlan)
      BY <1>0, <2>1, <2>2, NothingRead, ReadingKeeps, TurnsKeep DEF Entered
    <2>3. CASE ~Turn(g, NoPlan)
      <3> DEFINE Next(first) == [p EXCEPT !.pc = "order", !.edges = E, !.inDegree = Started(N, E),
                                          !.queue = first]
      <3>1. /\ \A e \in E : e[2] \in N
            /\ \E first \in SetToSeqs({o \in N : Started(N, E)[o] = 0}) : Turn(g, Next(first))
        BY <1>3, <2>3 DEF ReadDependencies
      <3>2. PICK first \in SetToSeqs({o \in N : Started(N, E)[o] = 0}) : Turn(g, Next(first))
        BY <3>1
      <3> DEFINE next == Next(first)
      <3>3. /\ next.pc = "order" /\ next.nodes = N /\ next.edges = E /\ next.queue = first
            /\ next.inDegree = Started(N, E) /\ next.ordered = <<>> /\ next.late = p.late
            /\ DOMAIN next = DOMAIN NoPlan
        <4> HIDE DEF N, E
        <4>1. p.nodes = N
          BY DEF N
        <4> HIDE DEF p
        <4> QED
          BY <2>1, <4>1 DEF NoPlan
      <3>4. Turn(g, next)
        BY <3>2
      <3> HIDE DEF next, Next
      <3>5. p.late \cap rows = {}
        BY <1>0, <2>1, PairsAssumption DEF Entered
      <3>6. HasRead(next)
        BY <2>1, <3>1, <3>3, <3>5 DEF HasRead
      <3>7. IsFiniteSet(N)
        BY <1>0, <2>1, FiniteJob, FS_Subset
      <3>8. E \in SUBSET (N \X N)
        BY <1>0, <3>1 DEF Entered
      <3> HIDE DEF N, E
      <3>9. Sorted(N, E, Started(N, E), first, <<>>)
        BY <3>7, <3>8, LoopStarts
      <3>10. Sorting(next)
        BY <3>3, <3>9 DEF Sorting
      <3> QED
        BY <1>0, <2>1, <3>4, <3>6, <3>10, ReadingKeeps, TurnsKeep DEF Entered
    <2> QED
      BY <2>2, <2>3
  <1> QED
    BY <1>1, <1>2, <1>3

\* The loop's graph: its nodes are objects of the job, its edges are between them.
LEMMA Graph ==
    ASSUME IInv, NEW g \in Generators, plan[g].pc = "order"
    PROVE  LET p == plan[g]
           IN  /\ IsFiniteSet(p.nodes) /\ p.edges \in SUBSET (p.nodes \X p.nodes)
               /\ p.nodes = objects \ p.late /\ p.edges = {e \in rows \ p.late : e[1] \in p.nodes}
               /\ Sorted(p.nodes, p.edges, p.inDegree, p.queue, p.ordered)
               /\ DOMAIN p = DOMAIN NoPlan
  <1> DEFINE p == plan[g]
  <1>1. HasRead(p) /\ Sorting(p) /\ Entered
    BY DEF IInv, Running
  <1>2. /\ p.nodes = objects \ p.late /\ p.edges = {e \in rows \ p.late : e[1] \in p.nodes}
        /\ \A e \in p.edges : e[2] \in p.nodes
    BY <1>1 DEF HasRead
  <1>3. IsFiniteSet(p.nodes)
    BY <1>1, <1>2, FiniteJob, FS_Subset
  <1>4. p.edges \in SUBSET (p.nodes \X p.nodes)
    BY <1>1, <1>2 DEF Entered
  <1> QED
    BY <1>1, <1>2, <1>3, <1>4 DEF Sorting, HasRead

LEMMA Turning ==
    ASSUME IInv, NEW g \in Generators, Visit(g)
    PROVE  IInv'
  <1> DEFINE p == plan[g]
             N == p.nodes
             E == p.edges
             deg == p.inDegree
             h == Head(p.queue)
             fed == Fed(g, h)
             deg2 == [c \in N |-> IF c \in fed THEN deg[c] - 1 ELSE deg[c]]
             Next(more) == [p EXCEPT !.queue = Tail(p.queue) \o more,
                                     !.ordered = Append(p.ordered, h), !.inDegree = deg2]
  <1>1. /\ p.pc = "order" /\ p.queue # <<>>
        /\ UNCHANGED <<status, error, objects, rows, place, editing, late>>
    BY DEF Visit
  <1>2. /\ IsFiniteSet(N) /\ E \in SUBSET (N \X N)
        /\ N = objects \ p.late /\ E = {e \in rows \ p.late : e[1] \in N}
        /\ Sorted(N, E, deg, p.queue, p.ordered) /\ DOMAIN p = DOMAIN NoPlan
    BY <1>1, Graph
  <1>3. PICK more \in SetToSeqs({c \in fed : deg[c] = 1}) : Turn(g, Next(more))
    BY DEF Visit, Freed
  <1>4. fed = {e[2] : e \in {d \in E : d[1] = h}}
    BY DEF Fed
  <1> HIDE DEF fed
  <1>5. Sorted(N, E, deg2, Tail(p.queue) \o more, Append(p.ordered, h))
    <2> DEFINE q == p.queue
               ord == p.ordered
    <2> HIDE DEF N, E, deg, q, ord, deg2
    <2>1. Sorted(N, E, deg, q, ord) /\ q # <<>> /\ IsFiniteSet(N) /\ E \in SUBSET (N \X N)
      BY <1>1, <1>2 DEF q, ord
    <2>2. fed = {e[2] : e \in {d \in E : d[1] = Head(q)}} /\ more \in SetToSeqs({c \in fed : deg[c] = 1})
      BY <1>3, <1>4 DEF q
    <2>3. deg2 = [c \in N |-> IF c \in fed THEN deg[c] - 1 ELSE deg[c]]
      BY DEF deg2
    <2>4. Sorted(N, E, deg2, Tail(q) \o more, Append(ord, Head(q)))
      BY <2>1, <2>2, <2>3, LoopTurns
    <2> QED
      BY <2>4 DEF q, ord
  <1> DEFINE next == Next(more)
  <1>6. /\ next.pc = "order" /\ next.nodes = N /\ next.edges = E /\ next.inDegree = deg2
        /\ next.queue = Tail(p.queue) \o more /\ next.ordered = Append(p.ordered, h)
        /\ next.late = p.late /\ DOMAIN next = DOMAIN NoPlan
    <2> HIDE DEF deg2, h
    <2> QED
      BY <1>1, <1>2 DEF NoPlan
  <1>7. Turn(g, next)
    BY <1>3
  <1> HIDE DEF next, Next
  <1>8. Sorting(next)
    <2> HIDE DEF deg2
    <2> QED
      BY <1>5, <1>6 DEF Sorting
  <1>9. HasRead(next)
    <2> HIDE DEF deg2
    <2> QED
      BY <1>2, <1>6 DEF HasRead
  <1>10. Entered /\ OrderRespects'
    BY <1>1, ReadingKeeps DEF IInv
  <1> QED
    BY <1>1, <1>7, <1>8, <1>9, <1>10, TurnsKeep DEF Entered

LEMMA Ending ==
    ASSUME IInv, NEW g \in Generators, FailOnCycle(g) \/ FailOnObject(g) \/ Generate(g)
    PROVE  IInv'
  <1> DEFINE p == plan[g]
             N == p.nodes
             E == p.edges
             ord == p.ordered
  <1>1. /\ p.pc = "order" /\ p.queue = <<>> /\ Turn(g, NoPlan)
        /\ UNCHANGED <<objects, rows, editing>>
        /\ status' \in {"failed", "generated"} /\ error' \in {"cycle", "object", error}
    BY DEF FailOnCycle, FailOnObject, Generate, LoopOver
  <1>2. /\ IsFiniteSet(N) /\ E \in SUBSET (N \X N) /\ N = objects \ p.late
        /\ E = {e \in rows \ p.late : e[1] \in N}
        /\ Sorted(N, E, p.inDegree, <<>>, ord)
    BY <1>1, Graph
  <1>3. SUFFICES OrderRespects'
    BY <1>1, NothingRead, TurnsKeep DEF IInv, Entered
  <1>4. error' # "cycle" \/ error' = error => (error' = "cycle" => Cyclic')
    BY <1>1, StaysCyclic DEF IInv, OrderRespects
  <1>5. CASE FailOnCycle(g)
    <2> DEFINE ring == N \ ToSet(ord)
    <2>1. /\ Len(ord) = Cardinality(N) <=> ToSet(ord) = N
          /\ ToSet(ord) \subseteq N
          /\ \A o \in ring : \E f \in ring : <<f, o>> \in E
      <3> DEFINE deg == p.inDegree
      <3> HIDE DEF N, E, ord, deg
      <3>1. IsFiniteSet(N) /\ E \in SUBSET (N \X N) /\ Sorted(N, E, deg, <<>>, ord)
        BY <1>2 DEF deg
      <3> QED
        BY <3>1, LoopEnds
    <2>2. ring # {}
      BY <1>5, <2>1 DEF FailOnCycle, Complete
    <2>3. ring \in SUBSET objects /\ \A o \in ring : \E f \in ring : <<f, o>> \in rows
      BY <1>2, <2>1
    <2> HIDE DEF ring
    <2>4. Cyclic
      BY <2>2, <2>3 DEF Cyclic
    <2>5. Cyclic'
      BY <1>1, <2>4, StaysCyclic
    <2> QED
      BY <1>5, <2>5 DEF FailOnCycle, OrderRespects
  <1>6. CASE FailOnObject(g)
    BY <1>4, <1>6 DEF FailOnObject, OrderRespects
  <1>7. CASE Generate(g)
    <2> DEFINE at == [o \in N |-> PlaceIn(g, o)]
               left == {o \in N : Kept(g, o) /\ place[o] # p.loaded[o]}
    <2>1. /\ place' = Written(g, N) /\ Len(ord) = Cardinality(N) /\ late' = p.late \cup left
          /\ UNCHANGED <<error, objects, rows>>
      BY <1>7 DEF Generate, Complete
    <2>2. /\ \A o, f \in N : at[o] = at[f] => o = f
          /\ \A e \in E : at[e[1]] < at[e[2]]
      <3> DEFINE deg == p.inDegree
      <3>0. \A o \in N : at[o] = CHOOSE i \in 1 .. Len(ord) : ord[i] = o
        BY DEF PlaceIn
      <3> HIDE DEF N, E, ord, deg, at
      <3>1. IsFiniteSet(N) /\ E \in SUBSET (N \X N) /\ Sorted(N, E, deg, <<>>, ord)
        BY <1>2 DEF deg
      <3>2. ord \in Seq(N) /\ ToSet(ord) = N
        <4>1. Len(ord) = Cardinality(N) <=> ToSet(ord) = N
          BY <3>1, LoopEnds
        <4> QED
          BY <2>1, <3>1, <4>1 DEF Sorted
      <3>3. \A o \in N : at[o] \in 1 .. Len(ord) /\ ord[at[o]] = o
        <4> TAKE o \in N
        <4>1. \E i \in 1 .. Len(ord) : ord[i] = o
          BY <3>2, SeqSet
        <4> QED
          BY <3>0, <4>1
      <3>4. Len(ord) = Cardinality(N)
        BY <2>1
      <3> QED
        BY <3>1, <3>3, <3>4, Placed
    <2>3. \A o \in N \ left : o \in DOMAIN place' /\ place'[o] = at[o]
      <3> SUFFICES ASSUME NEW o \in N \ left PROVE o \in DOMAIN place' /\ place'[o] = at[o]
        OBVIOUS
      <3>1. o \in DOMAIN place' /\ place'[o] = IF Kept(g, o) THEN place[o] ELSE PlaceIn(g, o)
        BY <2>1 DEF Written
      <3>2. Kept(g, o) => place[o] = PlaceIn(g, o)
        BY DEF Kept
      <3> QED
        BY <3>1, <3>2
    <2>4. (objects \ late)' = N \ left
      BY <1>2, <2>1
    <2>5. \A e \in rows \ late' : {e[1], e[2]} \subseteq N \ left => e \in E
      BY <1>2, <2>1
    <2> HIDE DEF at, left
    <2>6. Ordered'
      <3> HIDE DEF N, E
      <3> QED
        BY <1>1, <2>2, <2>3, <2>4, <2>5 DEF Ordered
    <2> QED
      BY <1>4, <2>1, <2>6 DEF OrderRespects
  <1> QED
    BY <1>5, <1>6, <1>7

LEMMA Idling == IInv /\ UNCHANGED orderVars => IInv'
  <1> SUFFICES ASSUME IInv, UNCHANGED orderVars PROVE IInv'
    OBVIOUS
  <1> USE DEF IInv, orderVars
  <1>1. Entered'
    BY DEF Entered
  <1>2. Running'
    BY DEF Running, HasRead, Sorting
  <1>3. OrderRespects'
    BY ReadingKeeps
  <1> QED
    BY <1>1, <1>2, <1>3

LEMMA Steps == IInv /\ [OrderNext]_orderVars => IInv'
  <1> SUFFICES ASSUME IInv, [OrderNext]_orderVars PROVE IInv'
    OBVIOUS
  <1>1. CASE UNCHANGED orderVars
    BY <1>1, Idling
  <1>2. ASSUME NEW o \in Objects, CheckObject(o) \/ CommitObject(o) PROVE IInv'
    BY <1>2, AddingObjects
  <1>3. ASSUME NEW f \in Objects, NEW c \in Objects,
               CheckDependency(f, c) \/ CommitDependency(f, c)
        PROVE  IInv'
    BY <1>3, AddingDependencies
  <1>4. ASSUME NEW g \in Generators, BeginGenerate(g) \/ ReadObjects(g) \/ ReadDependencies(g)
        PROVE  IInv'
    BY <1>4, Reading
  <1>5. ASSUME NEW g \in Generators, Visit(g) PROVE IInv'
    BY <1>5, Turning
  <1>6. ASSUME NEW g \in Generators, FailOnCycle(g) \/ FailOnObject(g) \/ Generate(g)
        PROVE  IInv'
    BY <1>6, Ending
  <1> QED
    BY <1>1, <1>2, <1>3, <1>4, <1>5, <1>6 DEF OrderNext

-----------------------------------------------------------------------------
(***************************************************************************)
(* Theorems.                                                               *)
(***************************************************************************)

\* The job keeps what generate relies on, and the loop what the order relies on.
THEOREM Invariance == OrderSpec => []IInv
  BY Initially, Steps, PTL DEF OrderSpec

\* A generated plan orders every object it read, no two at the same place, each after all that
\* it depends on, and a plan is refused for a cycle only if there is one (generate,
\* topological_order, add_object, add_dependency).
THEOREM PlansAreOrdered == OrderSpec => []OrderRespects
  <1>1. IInv => OrderRespects
    BY DEF IInv
  <1> QED
    BY <1>1, Invariance, PTL

-----------------------------------------------------------------------------
(***************************************************************************)
(* The search and the recommendation.                                      *)
(***************************************************************************)

\* A route of distinct hosts, each linked to the next.
Route(p, s) ==
    /\ p \in Seq(Hosts) /\ p # <<>> /\ p[1] = s /\ IsInjective(p)
    /\ \A i \in 1 .. (Len(p) - 1) : Adjacent(p[i], p[i + 1])

\* The loop of shortest_path, where d[h] is the number of hops in which h was first reached: the
\* queue goes from one level to the next, and the neighbours of what has left it are visited.
Beyond(visited, d, h) == \A g \in Hosts : Adjacent(h, g) => g \in visited /\ d[g] <= d[h] + 1
Levelled(visited, queue, s, goal, d) ==
    /\ d \in [visited -> 0 .. MaxHops]
    /\ s \in visited /\ d[s] = 0 /\ goal \notin visited
    /\ \A i \in 1 .. Len(queue) :
          /\ Route(queue[i], s) /\ Range(queue[i]) \subseteq visited
          /\ d[Last(queue[i])] = Len(queue[i]) - 1
    /\ \A i, j \in 1 .. Len(queue) : i <= j => Len(queue[i]) <= Len(queue[j])
    /\ \A h \in visited :
          /\ \/ \E i \in 1 .. Len(queue) : Last(queue[i]) = h
             \/ d[h] = MaxHops \/ Beyond(visited, d, h)
          /\ \A i \in 1 .. Len(queue) : d[h] <= Len(queue[i])

Searching ==
    search.pc = "search" =>
        /\ search.crossing \in Crossings /\ search.visited \subseteq Hosts /\ search.queue \in Seq(Seq(Hosts))
        /\ \E d \in [search.visited -> 0 .. MaxHops] :
              Levelled(search.visited, search.queue, search.crossing[2], search.crossing[3], d)

\* Every crossing is searched once, and what is found is a shortest path.
CrossingOf(f) == <<f.boundary, f.source, f.target>>
Exact(f) ==
    /\ CrossingOf(f) \in Crossings
    /\ \/ f.path \in Shortest(f.source, f.target)
       \/ f.path = NoPath /\ Shortest(f.source, f.target) = {}
    /\ f.protected <=> f.path # NoPath /\ Range(f.path) \cap capable # {}
Searched ==
    /\ crossings \subseteq Crossings
    /\ \A f \in found : Exact(f)
    /\ \A c \in Crossings \ crossings :
          (search.pc = "search" /\ search.crossing = c) \/ \E f \in found : CrossingOf(f) = c

Decided ==
    missing # Undecided =>
        search.pc = "rest" /\ crossings = {} /\ missing = [p \in Places |-> Gap(p)]

Checked ==
    /\ search.pc \in {"rest", "search"} /\ DOMAIN search = DOMAIN Resting
    /\ cabled \subseteq Hosts \X Hosts /\ Searching /\ Searched /\ Decided
-----------------------------------------------------------------------------
(***************************************************************************)
(* Routes.                                                                 *)
(***************************************************************************)

LEMMA PathsAreRoutes ==
    ASSUME NEW s \in Hosts, NEW p
    PROVE  p \in PathsFrom(s) <=> Route(p, s) /\ Len(p) <= MaxHops + 1
  <1>1. ASSUME p \in PathsFrom(s)
        PROVE  Route(p, s) /\ Len(p) <= MaxHops + 1
    <2>1. PICK q \in SeqOf(Hosts \ {s}, MaxHops) : p = <<s>> \o q
      BY <1>1 DEF PathsFrom
    <2>2. IsInjective(p) /\ \A i \in 1 .. (Len(p) - 1) : Adjacent(p[i], p[i + 1])
      BY <1>1 DEF PathsFrom
    <2>3. PICK m \in 0 .. MaxHops : q \in [1 .. m -> Hosts \ {s}]
      BY <2>1 DEF SeqOf
    <2>4. m \in Nat /\ q \in [1 .. m -> Hosts]
      BY <2>3, HopsAssumption
    <2>5. q \in Seq(Hosts) /\ Len(q) = m
      BY <2>4, SeqDef, LenProperties
    <2>6. <<s>> \in Seq(Hosts) /\ Len(<<s>>) = 1 /\ <<s>>[1] = s
      OBVIOUS
    <2>7. p \in Seq(Hosts) /\ Len(p) = 1 + m /\ p[1] = s
      BY <2>1, <2>4, <2>5, <2>6, ConcatProperties
    <2>8. p # <<>>
      BY <2>4, <2>7, EmptySeq
    <2> QED
      BY <2>2, <2>3, <2>7, <2>8, HopsAssumption DEF Route
  <1>2. ASSUME Route(p, s), Len(p) <= MaxHops + 1
        PROVE  p \in PathsFrom(s)
    <2> DEFINE q == Tail(p)
               m == Len(p) - 1
               r == <<s>> \o q
    <2>1. /\ p \in Seq(Hosts) /\ p # <<>> /\ p[1] = s /\ IsInjective(p)
          /\ \A i \in 1 .. (Len(p) - 1) : Adjacent(p[i], p[i + 1])
      BY <1>2 DEF Route
    <2>2. /\ Len(p) \in Nat /\ Len(p) > 0 /\ q \in Seq(Hosts) /\ Len(q) = m
          /\ \A i \in 1 .. m : q[i] = p[i + 1]
      BY <2>1, EmptySeq, HeadTailProperties
    <2> HIDE DEF q
    <2>3. \A i \in 1 .. m : q[i] \in Hosts \ {s}
      <3> TAKE i \in 1 .. m
      <3>1. 1 \in DOMAIN p /\ i + 1 \in DOMAIN p /\ i + 1 # 1
        BY <2>1, <2>2, LenProperties
      <3>2. p[i + 1] # p[1] /\ p[i + 1] \in Hosts
        BY <2>1, <3>1, ElementOfSeq DEF IsInjective
      <3> QED
        BY <2>1, <2>2, <3>2
    <2>4. q \in [1 .. m -> Hosts \ {s}]
      <3>1. q = [i \in 1 .. m |-> q[i]]
        BY <2>2, LenProperties
      <3> QED
        BY <2>3, <3>1
    <2>5. q \in SeqOf(Hosts \ {s}, MaxHops)
      <3>1. m \in 0 .. MaxHops
        BY <1>2, <2>2, HopsAssumption
      <3> QED
        BY <2>4, <3>1 DEF SeqOf
    <2>6. r = p
      <3>1. <<s>> \in Seq(Hosts) /\ Len(<<s>>) = 1 /\ <<s>>[1] = s
        OBVIOUS
      <3>2. /\ r \in Seq(Hosts) /\ Len(r) = 1 + m
            /\ \A i \in 1 .. 1 + m : r[i] = IF i <= 1 THEN s ELSE q[i - 1]
        BY <2>2, <3>1, ConcatProperties
      <3>3. \A i \in 1 .. Len(p) : r[i] = p[i]
        BY <2>1, <2>2, <3>2
      <3> HIDE DEF r
      <3> QED
        BY <2>1, <2>2, <3>2, <3>3, SeqEqual
    <2> QED
      BY <2>1, <2>5, <2>6 DEF PathsFrom
  <1> QED
    BY <1>1, <1>2

LEMMA RouteFacts ==
    ASSUME NEW s, NEW p, Route(p, s)
    PROVE  /\ Len(p) \in Nat /\ Len(p) > 0 /\ DOMAIN p = 1 .. Len(p)
           /\ Last(p) = p[Len(p)] /\ Last(p) \in Range(p) /\ Last(p) \in Hosts /\ s \in Hosts
           /\ \A x : x \in Range(p) <=> \E i \in 1 .. Len(p) : p[i] = x
           /\ \A i \in 1 .. Len(p) : p[i] \in Hosts
  <1>1. p \in Seq(Hosts) /\ p # <<>> /\ p[1] = s
    BY DEF Route
  <1>2. Len(p) \in Nat /\ Len(p) > 0 /\ DOMAIN p = 1 .. Len(p)
    BY <1>1, EmptySeq, LenProperties
  <1>3. \A i \in 1 .. Len(p) : p[i] \in Hosts
    BY <1>1, ElementOfSeq
  <1> QED
    BY <1>1, <1>2, <1>3 DEF Last, Range

\* A route goes on to a neighbour of its last host.
LEMMA Extended ==
    ASSUME NEW s, NEW p, Route(p, s), NEW g \in Hosts, Adjacent(Last(p), g), g \notin Range(p)
    PROVE  /\ Route(Append(p, g), s) /\ Last(Append(p, g)) = g
           /\ Len(Append(p, g)) = Len(p) + 1 /\ Range(Append(p, g)) = Range(p) \cup {g}
  <1> DEFINE r == Append(p, g)
  <1>1. /\ p \in Seq(Hosts) /\ p[1] = s /\ IsInjective(p)
        /\ \A i \in 1 .. (Len(p) - 1) : Adjacent(p[i], p[i + 1])
    BY DEF Route
  <1>2. /\ Len(p) \in Nat /\ Len(p) > 0 /\ DOMAIN p = 1 .. Len(p) /\ Last(p) = p[Len(p)]
        /\ \A x : x \in Range(p) <=> \E i \in 1 .. Len(p) : p[i] = x
    BY RouteFacts
  <1>3. /\ r \in Seq(Hosts) /\ Len(r) = Len(p) + 1 /\ r[Len(p) + 1] = g
        /\ \A i \in 1 .. Len(p) : r[i] = p[i]
    BY <1>1, AppendProperties
  <1>4. DOMAIN r = 1 .. (Len(p) + 1)
    BY <1>3, LenProperties
  <1> HIDE DEF r
  <1>5. IsInjective(r)
    <2> SUFFICES ASSUME NEW i \in 1 .. (Len(p) + 1), NEW j \in 1 .. (Len(p) + 1), r[i] = r[j]
                 PROVE  i = j
      BY <1>4 DEF IsInjective
    <2>1. i \in 1 .. Len(p) \/ i = Len(p) + 1
      BY <1>2
    <2>2. j \in 1 .. Len(p) \/ j = Len(p) + 1
      BY <1>2
    <2>3. \A k \in 1 .. Len(p) : p[k] # g
      BY <1>2
    <2>4. \A k, l \in 1 .. Len(p) : p[k] = p[l] => k = l
      BY <1>1, <1>2 DEF IsInjective
    <2> QED
      BY <1>3, <2>1, <2>2, <2>3, <2>4
  <1>6. \A i \in 1 .. Len(p) : Adjacent(r[i], r[i + 1])
    <2> TAKE i \in 1 .. Len(p)
    <2>1. CASE i = Len(p)
      BY <1>2, <1>3, <2>1
    <2>2. CASE i # Len(p)
      <3>0. Len(p) \in Nat
        BY <1>2
      <3>1. i \in 1 .. (Len(p) - 1) /\ i + 1 \in 1 .. Len(p)
        BY <2>2, <3>0
      <3> QED
        BY <1>1, <1>3, <3>1
    <2> QED
      BY <2>1, <2>2
  <1>7. r # <<>> /\ r[1] = s /\ (Len(r) - 1) = Len(p)
    BY <1>1, <1>2, <1>3, EmptySeq
  <1>8. Route(r, s)
    BY <1>3, <1>5, <1>6, <1>7 DEF Route
  <1>9. Last(r) = g
    BY <1>3 DEF Last
  <1>10. \A x : x \in Range(r) <=> \E i \in 1 .. (Len(p) + 1) : r[i] = x
    BY <1>4 DEF Range
  <1>11. \A x : x \in Range(r) <=> x \in Range(p) \/ x = g
    <2> TAKE x
    <2>1. (\E i \in 1 .. (Len(p) + 1) : r[i] = x) <=> (\E i \in 1 .. Len(p) : p[i] = x) \/ x = g
      BY <1>2, <1>3
    <2> QED
      BY <1>2, <1>10, <2>1
  <1> QED
    BY <1>3, <1>8, <1>9, <1>11 DEF r

\* A route through levels that are complete up to its length reaches each of its hosts as early.
LEMMA Walks ==
    ASSUME NEW visited, NEW d \in [visited -> 0 .. MaxHops], NEW s \in visited, d[s] = 0,
           NEW n \in Nat, \A h \in visited : d[h] < n - 1 => Beyond(visited, d, h),
           NEW q, Route(q, s), Len(q) <= n
    PROVE  \A i \in 1 .. Len(q) : q[i] \in visited /\ d[q[i]] <= i - 1
  <1> DEFINE Late == {i \in 1 .. Len(q) : ~(q[i] \in visited /\ d[q[i]] <= i - 1)}
             R == OpToRel(<, Nat)
  <1>1. /\ Len(q) \in Nat /\ q[1] = s /\ \A i \in 1 .. Len(q) : q[i] \in Hosts
        /\ \A i \in 1 .. (Len(q) - 1) : Adjacent(q[i], q[i + 1])
    BY RouteFacts DEF Route
  <1>2. \A h \in visited : d[h] \in Nat
    BY HopsAssumption
  <1> SUFFICES ASSUME Late # {}
               PROVE  FALSE
    OBVIOUS
  <1>3. IsWellFoundedOn(R, Nat)
    BY NatLessThanWellFounded
  <1>4. PICK k \in Late : \A j \in Late : ~ (<<j, k>> \in R)
    <2>1. Late \subseteq Nat
      OBVIOUS
    <2> HIDE DEF R, Late
    <2> QED
      BY <1>3, <2>1, WFMin
  <1>5. k \in 1 .. Len(q) /\ ~(q[k] \in visited /\ d[q[k]] <= k - 1)
    OBVIOUS
  <1>6. k # 1
    BY <1>1, <1>5
  <1>7. k - 1 \in 1 .. (Len(q) - 1) /\ k - 1 \in Nat /\ k \in Nat /\ (k - 1) + 1 = k
    BY <1>1, <1>5, <1>6
  <1>8. k - 1 \notin Late
    <2>1. <<k - 1, k>> \in R
      BY <1>7 DEF OpToRel
    <2> HIDE DEF R, Late
    <2> QED
      BY <1>4, <2>1
  <1> DEFINE h == q[k - 1]
  <1>9. h \in visited /\ d[h] <= (k - 1) - 1 /\ Adjacent(h, q[k]) /\ q[k] \in Hosts
    BY <1>1, <1>5, <1>7, <1>8
  <1> HIDE DEF h
  <1>10. d[h] < n - 1 /\ d[h] \in Nat
    BY <1>1, <1>2, <1>5, <1>7, <1>9
  <1>11. q[k] \in visited /\ d[q[k]] <= d[h] + 1
    BY <1>9, <1>10 DEF Beyond
  <1>12. d[q[k]] \in Nat
    BY <1>2, <1>11
  <1> QED
    BY <1>5, <1>7, <1>9, <1>10, <1>11, <1>12

-----------------------------------------------------------------------------
(***************************************************************************)
(* shortest_path.                                                          *)
(***************************************************************************)

LEMMA ShortestAre ==
    ASSUME NEW s \in Hosts, NEW t, NEW p
    PROVE  p \in Shortest(s, t) <=>
               /\ Route(p, s) /\ Len(p) <= MaxHops + 1 /\ Last(p) = t
               /\ \A q : Route(q, s) /\ Len(q) <= MaxHops + 1 /\ Last(q) = t => Len(p) <= Len(q)
  BY PathsAreRoutes DEF Shortest

LEMMA SearchStarts ==
    ASSUME NEW s \in Hosts, NEW t, s # t
    PROVE  /\ <<<<s>>>> \in Seq(Seq(Hosts))
           /\ [x \in {s} |-> 0] \in [{s} -> 0 .. MaxHops]
           /\ Levelled({s}, <<<<s>>>>, s, t, [x \in {s} |-> 0])
  <1> DEFINE d == [x \in {s} |-> 0]
  <1>1. <<s>> \in Seq(Hosts) /\ Len(<<s>>) = 1 /\ <<s>>[1] = s /\ <<s>> # <<>> /\ DOMAIN <<s>> = {1}
    OBVIOUS
  <1>2. Route(<<s>>, s)
    BY <1>1 DEF Route, IsInjective
  <1>3. Last(<<s>>) = s /\ Range(<<s>>) = {s}
    BY <1>1 DEF Last, Range
  <1>4. Len(<<<<s>>>>) = 1 /\ <<<<s>>>>[1] = <<s>> /\ <<<<s>>>> \in Seq(Seq(Hosts))
    BY <1>1
  <1>5. d \in [{s} -> 0 .. MaxHops] /\ d[s] = 0
    BY HopsAssumption
  <1>6. \A i \in 1 .. Len(<<<<s>>>>) : <<<<s>>>>[i] = <<s>>
    BY <1>4
  <1> HIDE DEF d
  <1>7. \A h \in {s} : \E i \in 1 .. Len(<<<<s>>>>) : Last(<<<<s>>>>[i]) = h
    BY <1>3, <1>4
  <1> DEFINE queue == <<<<s>>>>
  <1> HIDE DEF queue
  <1>8. Len(queue) = 1 /\ (\A i \in 1 .. Len(queue) : queue[i] = <<s>>)
        /\ (\A h \in {s} : \E i \in 1 .. Len(queue) : Last(queue[i]) = h)
    BY <1>4, <1>6, <1>7 DEF queue
  <1>9. Levelled({s}, queue, s, t, d)
    <2>1. \A i \in 1 .. Len(queue) :
              Route(queue[i], s) /\ Range(queue[i]) \subseteq {s} /\ d[Last(queue[i])] = Len(queue[i]) - 1
      <3>1. d[Last(<<s>>)] = Len(<<s>>) - 1
        BY <1>1, <1>3, <1>5
      <3> QED
        BY <1>2, <1>3, <1>8, <3>1
    <2>2. \A i, j \in 1 .. Len(queue) : i <= j => Len(queue[i]) <= Len(queue[j])
      BY <1>1, <1>8
    <2>3. \A h \in {s}, i \in 1 .. Len(queue) : d[h] <= Len(queue[i])
      BY <1>1, <1>5, <1>8
    <2> QED
      BY <1>5, <1>8, <2>1, <2>2, <2>3 DEF Levelled
  <1> QED
    BY <1>4, <1>5, <1>9 DEF queue, d

\* What the levels say of a host that can be reached in as many hops as the head of the queue.
LEMMA HeadFacts ==
    ASSUME NEW visited, NEW queue \in Seq(Seq(Hosts)), NEW s, NEW t, NEW d,
           Levelled(visited, queue, s, t, d), queue # <<>>
    PROVE  /\ Len(queue) \in Nat /\ Len(queue) > 0 /\ Head(queue) = queue[1]
           /\ Route(Head(queue), s) /\ Range(Head(queue)) \subseteq visited
           /\ Last(Head(queue)) \in visited /\ d[Last(Head(queue))] = Len(Head(queue)) - 1
           /\ Len(Head(queue)) \in Nat /\ Len(Head(queue)) > 0 /\ Len(Head(queue)) <= MaxHops + 1
           /\ \A h \in visited : d[h] <= Len(Head(queue))
           /\ \A h \in visited : d[h] < Len(Head(queue)) - 1 => Beyond(visited, d, h)
  <1> DEFINE p == Head(queue)
  <1>1. Len(queue) \in Nat /\ Len(queue) > 0 /\ p = queue[1] /\ 1 \in 1 .. Len(queue)
    BY EmptySeq, HeadTailProperties
  <1> HIDE DEF p
  <1>2. Route(p, s) /\ Range(p) \subseteq visited /\ d[Last(p)] = Len(p) - 1
    BY <1>1 DEF Levelled
  <1>3. Last(p) \in visited /\ Len(p) \in Nat /\ Len(p) > 0
    BY <1>2, RouteFacts
  <1>4. \A h \in visited : d[h] \in 0 .. MaxHops
    BY DEF Levelled
  <1>5. Len(p) <= MaxHops + 1
    BY <1>2, <1>3, <1>4, HopsAssumption
  <1>6. \A h \in visited : d[h] <= Len(p)
    BY <1>1 DEF Levelled
  <1>7. ASSUME NEW h \in visited, d[h] < Len(p) - 1
        PROVE  Beyond(visited, d, h)
    <2>1. \A i \in 1 .. Len(queue) : Last(queue[i]) # h
      <3> TAKE i \in 1 .. Len(queue)
      <3>1. Route(queue[i], s) /\ d[Last(queue[i])] = Len(queue[i]) - 1
        BY DEF Levelled
      <3>2. Len(p) <= Len(queue[i])
        BY <1>1 DEF Levelled
      <3>3. Len(queue[i]) \in Nat
        BY <3>1, RouteFacts
      <3>4. d[Last(queue[i])] >= Len(p) - 1
        BY <1>3, <3>1, <3>2, <3>3
      <3> QED
        BY <1>3, <1>4, <1>7, <3>1, <3>3, <3>4, HopsAssumption
    <2>2. d[h] # MaxHops
      BY <1>3, <1>4, <1>5, <1>7, HopsAssumption
    <2> QED
      BY <2>1, <2>2 DEF Levelled
  <1> QED
    BY <1>1, <1>2, <1>3, <1>5, <1>6, <1>7 DEF p

LEMMA FirstIsShortest ==
    ASSUME NEW visited, NEW queue \in Seq(Seq(Hosts)), NEW s, NEW t \in Hosts, NEW d,
           Levelled(visited, queue, s, t, d), queue # <<>>,
           ~TooLong(Head(queue)), Adjacent(Last(Head(queue)), t)
    PROVE  Append(Head(queue), t) \in Shortest(s, t)
  <1> DEFINE p == Head(queue)
             n == Len(p)
  <1>1. /\ Route(p, s) /\ Range(p) \subseteq visited /\ n \in Nat /\ n > 0
        /\ \A h \in visited : d[h] < n - 1 => Beyond(visited, d, h)
    BY HeadFacts
  <1>2. /\ d \in [visited -> 0 .. MaxHops] /\ s \in visited /\ d[s] = 0 /\ t \notin visited
    BY DEF Levelled
  <1>3. n - 1 < MaxHops
    BY <1>1, HopsAssumption DEF TooLong
  <1>4. t \notin Range(p) /\ s \in Hosts
    BY <1>1, <1>2, RouteFacts
  <1>5. /\ Route(Append(p, t), s) /\ Last(Append(p, t)) = t /\ Len(Append(p, t)) = n + 1
    BY <1>1, <1>4, Extended
  <1>6. ASSUME NEW q, Route(q, s), Last(q) = t
        PROVE  n + 1 <= Len(q)
    <2> SUFFICES ASSUME Len(q) <= n
                 PROVE  FALSE
      BY <1>1, <1>6, RouteFacts
    <2>1. \A i \in 1 .. Len(q) : q[i] \in visited
      <3> HIDE DEF p, n
      <3> QED
        BY <1>1, <1>2, <1>6, Walks
    <2>2. Last(q) = q[Len(q)] /\ Len(q) \in 1 .. Len(q)
      BY <1>6, RouteFacts
    <2> QED
      BY <1>2, <1>6, <2>1, <2>2
  <1> HIDE DEF p, n
  <1>7. n + 1 <= MaxHops + 1
    BY <1>1, <1>3, HopsAssumption
  <1>8. Append(p, t) \in Shortest(s, t)
    <2> DEFINE r == Append(p, t)
    <2>1. Route(r, s) /\ Last(r) = t /\ Len(r) = n + 1
      BY <1>5
    <2> HIDE DEF r
    <2>2. Len(r) <= MaxHops + 1 /\ \A q : Route(q, s) /\ Len(q) <= MaxHops + 1 /\ Last(q) = t => Len(r) <= Len(q)
      BY <1>6, <1>7, <2>1
    <2>3. r \in Shortest(s, t)
      BY <1>4, <2>1, <2>2, ShortestAre
    <2> QED
      BY <2>3 DEF r
  <1> QED
    BY <1>8 DEF p

LEMMA NoneIsNone ==
    ASSUME NEW visited, NEW s \in Hosts, NEW t, NEW d, Levelled(visited, <<>>, s, t, d)
    PROVE  Shortest(s, t) = {}
  <1>1. /\ d \in [visited -> 0 .. MaxHops] /\ s \in visited /\ d[s] = 0 /\ t \notin visited
        /\ \A h \in visited : d[h] = MaxHops \/ Beyond(visited, d, h)
    BY DEF Levelled
  <1>2. \A h \in visited : d[h] < (MaxHops + 1) - 1 => Beyond(visited, d, h)
    BY <1>1, HopsAssumption
  <1>3. ASSUME NEW q \in Shortest(s, t)
        PROVE  FALSE
    <2>1. Route(q, s) /\ Len(q) <= MaxHops + 1 /\ Last(q) = t
      BY ShortestAre
    <2>2. MaxHops + 1 \in Nat
      BY HopsAssumption
    <2>3. \A i \in 1 .. Len(q) : q[i] \in visited
      BY <1>1, <1>2, <2>1, <2>2, Walks
    <2>4. Last(q) = q[Len(q)] /\ Len(q) \in 1 .. Len(q)
      BY <2>1, RouteFacts
    <2> QED
      BY <1>1, <2>1, <2>3, <2>4
  <1> QED
    BY <1>3

\* The queue after a turn of the loop.
Turned(queue, next) == Tail(queue) \o [i \in DOMAIN next |-> Append(Head(queue), next[i])]

\* A turn of the loop: the neighbours not visited yet are one hop further than the head.
LEMMA SearchTurns ==
    ASSUME NEW visited \in SUBSET Hosts, NEW queue \in Seq(Seq(Hosts)), NEW s, NEW t, NEW d,
           Levelled(visited, queue, s, t, d), queue # <<>>,
           NEW more \in SUBSET Hosts, more \cap visited = {}, t \notin more,
           \A h \in more : Adjacent(Last(Head(queue)), h),
           more # {} => ~TooLong(Head(queue)),
           ~TooLong(Head(queue)) => \A h \in Hosts : Adjacent(Last(Head(queue)), h) => h \in visited \cup more,
           NEW next \in SetToSeqs(more)
    PROVE  /\ Turned(queue, next) \in Seq(Seq(Hosts))
           /\ \E e \in [visited \cup more -> 0 .. MaxHops] :
                 Levelled(visited \cup more, Turned(queue, next), s, t, e)
  <1> DEFINE p == Head(queue)
             n == Len(p)
             m == Len(queue) - 1
             tail == Tail(queue)
             Longer(h) == Append(p, h)
             new == [i \in DOMAIN next |-> Append(p, next[i])]
             rest == tail \o new
             all == visited \cup more
             e == [h \in all |-> IF h \in visited THEN d[h] ELSE n]
  <1>1. /\ Len(queue) \in Nat /\ Len(queue) > 0 /\ p = queue[1]
        /\ Route(p, s) /\ Range(p) \subseteq visited
        /\ Last(p) \in visited /\ d[Last(p)] = n - 1
        /\ n \in Nat /\ n > 0 /\ n <= MaxHops + 1
        /\ \A h \in visited : d[h] <= n
    <2>1. Len(queue) \in Nat /\ Len(queue) > 0 /\ Head(queue) = queue[1]
      BY HeadFacts
    <2>2. Route(Head(queue), s) /\ Range(Head(queue)) \subseteq visited
      BY HeadFacts
    <2>3. Last(Head(queue)) \in visited
      BY <2>2, RouteFacts
    <2>4. d[Last(Head(queue))] = Len(Head(queue)) - 1
      <3>1. d[Last(queue[1])] = Len(queue[1]) - 1
        BY <2>1 DEF Levelled
      <3> QED
        BY <2>1, <3>1
    <2>5. /\ Len(Head(queue)) \in Nat /\ Len(Head(queue)) > 0 /\ Len(Head(queue)) <= MaxHops + 1
          /\ \A h \in visited : d[h] <= Len(Head(queue))
      BY HeadFacts
    <2> QED
      BY <2>1, <2>2, <2>3, <2>4, <2>5
  <1>2. /\ d \in [visited -> 0 .. MaxHops] /\ s \in visited /\ d[s] = 0 /\ t \notin visited
        /\ \A i \in 1 .. Len(queue) : /\ Route(queue[i], s) /\ Range(queue[i]) \subseteq visited
                                      /\ d[Last(queue[i])] = Len(queue[i]) - 1
        /\ \A i, j \in 1 .. Len(queue) : i <= j => Len(queue[i]) <= Len(queue[j])
        /\ \A h \in visited : \/ \E i \in 1 .. Len(queue) : Last(queue[i]) = h
                              \/ d[h] = MaxHops \/ Beyond(visited, d, h)
    BY DEF Levelled
  <1>3. IsFiniteSet(more)
    BY HostsAssumption, FS_Subset
  <1>4. /\ more # {} => n <= MaxHops
        /\ TooLong(p) => n - 1 = MaxHops
    BY <1>1, HopsAssumption DEF TooLong
  <1>5. next \in Seq(more) /\ ToSet(next) = more
    BY <1>3, Enumerates
  <1>6. Len(next) \in Nat /\ DOMAIN next = 1 .. Len(next) /\ \A i \in 1 .. Len(next) : next[i] \in more
    BY <1>5, LenProperties, ElementOfSeq
  <1>7. \A h \in more : \E i \in 1 .. Len(next) : next[i] = h
    BY <1>5, SeqSet
  <1>8. tail \in Seq(Seq(Hosts)) /\ Len(tail) = m /\ \A i \in 1 .. m : tail[i] = queue[i + 1]
    BY HeadTailProperties
  <1>9. \A h \in more : /\ Route(Longer(h), s) /\ Last(Longer(h)) = h
                        /\ Len(Longer(h)) = n + 1 /\ Range(Longer(h)) = Range(p) \cup {h}
    BY <1>1, Extended
  <1>10. new = [i \in 1 .. Len(next) |-> Longer(next[i])] /\ \A h \in more : Longer(h) \in Seq(Hosts)
    BY <1>6, <1>9 DEF Route
  <1> HIDE DEF Longer
  <1>11. new \in Seq(Seq(Hosts)) /\ Len(new) = Len(next) /\ \A i \in 1 .. Len(next) : new[i] = Longer(next[i])
    <2>1. new \in [1 .. Len(next) -> Seq(Hosts)]
      BY <1>6, <1>10
    <2>2. \A i \in 1 .. Len(next) : new[i] = Longer(next[i])
      BY <1>10
    <2> HIDE DEF new
    <2> QED
      BY <1>6, <2>1, <2>2, SeqDef, LenProperties
  <1> HIDE DEF new, tail
  <1>12. /\ m \in Nat /\ rest \in Seq(Seq(Hosts)) /\ Len(rest) = m + Len(next)
         /\ \A i \in 1 .. m + Len(next) : rest[i] = IF i <= m THEN tail[i] ELSE new[i - m]
    <2>1. m \in Nat
      BY <1>1
    <2> HIDE DEF m
    <2>2. /\ tail \in Seq(Seq(Hosts)) /\ Len(tail) = m
          /\ new \in Seq(Seq(Hosts)) /\ Len(new) = Len(next)
      BY <1>8, <1>11
    <2>3. /\ tail \o new \in Seq(Seq(Hosts)) /\ Len(tail \o new) = Len(tail) + Len(new)
          /\ \A i \in 1 .. Len(tail) + Len(new) :
                (tail \o new)[i] = IF i <= Len(tail) THEN tail[i] ELSE new[i - Len(tail)]
      BY <2>2, ConcatProperties
    <2> QED
      BY <2>1, <2>2, <2>3
  <1> HIDE DEF rest, m
  <1>13. /\ \A i \in 1 .. m : rest[i] = queue[i + 1] /\ i + 1 \in 1 .. Len(queue)
         /\ \A i \in 1 .. Len(next) : rest[m + i] = Longer(next[i])
    <2>1. ASSUME NEW i \in 1 .. m
          PROVE  rest[i] = queue[i + 1] /\ i + 1 \in 1 .. Len(queue)
      <3>1. i \in 1 .. m + Len(next) /\ i <= m
        BY <1>6, <1>12
      <3>2. i + 1 \in 1 .. Len(queue)
        BY <1>1 DEF m
      <3> QED
        BY <1>8, <1>12, <3>1, <3>2
    <2>2. ASSUME NEW i \in 1 .. Len(next)
          PROVE  rest[m + i] = Longer(next[i])
      <3>1. m + i \in 1 .. m + Len(next) /\ ~(m + i <= m) /\ (m + i) - m = i
        BY <1>6, <1>12
      <3> QED
        BY <1>11, <1>12, <3>1
    <2> QED
      BY <2>1, <2>2
  <1>14. ASSUME NEW i \in 1 .. Len(rest)
         PROVE  \/ i \in 1 .. m /\ rest[i] = queue[i + 1]
                \/ i > m /\ \E h \in more : rest[i] = Longer(h)
    <2>1. CASE i <= m
      BY <1>12, <1>13, <2>1
    <2>2. CASE i > m
      <3>1. i - m \in 1 .. Len(next) /\ m + (i - m) = i
        BY <1>6, <1>12, <2>2
      <3>2. rest[i] = Longer(next[i - m])
        BY <1>13, <3>1
      <3> QED
        BY <1>6, <2>2, <3>1, <3>2
    <2> QED
      BY <1>12, <2>1, <2>2
  <1>15. \A h \in visited : d[h] \in Nat /\ d[h] <= MaxHops /\ d[h] <= n
    BY <1>1, <1>2, HopsAssumption
  <1>16. /\ e \in [all -> 0 .. MaxHops]
         /\ \A h \in visited : e[h] = d[h]
         /\ \A h \in more : e[h] = n
    <2>1. \A h \in more : n \in 0 .. MaxHops
      BY <1>1, <1>4, HopsAssumption
    <2> HIDE DEF n
    <2> QED
      BY <1>2, <2>1
  <1> HIDE DEF e, n, p
  <1>17. \A j \in 1 .. Len(queue) : /\ Len(queue[j]) \in Nat /\ Len(queue[j]) >= n /\ Len(queue[j]) <= n + 1
                                    /\ Last(queue[j]) \in visited
    <2> TAKE j \in 1 .. Len(queue)
    <2>1. Route(queue[j], s) /\ Range(queue[j]) \subseteq visited /\ d[Last(queue[j])] = Len(queue[j]) - 1
      BY <1>2
    <2>2. Len(queue[j]) \in Nat /\ Last(queue[j]) \in visited
      BY <2>1, RouteFacts
    <2>3. Len(queue[1]) <= Len(queue[j])
      BY <1>1, <1>2
    <2> QED
      BY <1>1, <1>15, <2>1, <2>2, <2>3 DEF n
  <1>18. ASSUME NEW i \in 1 .. Len(rest)
         PROVE  /\ Route(rest[i], s) /\ Range(rest[i]) \subseteq all
                /\ e[Last(rest[i])] = Len(rest[i]) - 1
                /\ Len(rest[i]) \in Nat /\ Len(rest[i]) >= n
    <2>1. CASE i \in 1 .. m /\ rest[i] = queue[i + 1]
      <3>1. i + 1 \in 1 .. Len(queue)
        BY <1>13, <2>1
      <3> QED
        BY <1>2, <1>16, <1>17, <2>1, <3>1
    <2>2. ASSUME NEW h \in more, rest[i] = Longer(h)
          PROVE  /\ Route(rest[i], s) /\ Range(rest[i]) \subseteq all
                 /\ e[Last(rest[i])] = Len(rest[i]) - 1
                 /\ Len(rest[i]) \in Nat /\ Len(rest[i]) >= n
      BY <1>1, <1>9, <1>16, <2>2
    <2> QED
      BY <1>14, <2>1, <2>2
  <1>19. ASSUME NEW i \in 1 .. Len(rest), NEW j \in 1 .. Len(rest), i <= j
         PROVE  Len(rest[i]) <= Len(rest[j])
    <2>1. i \in Nat /\ j \in Nat /\ m \in Nat
      BY <1>12
    <2>2. CASE j \in 1 .. m /\ rest[j] = queue[j + 1]
      <3>1. i \in 1 .. m
        BY <1>19, <2>1, <2>2
      <3>2. /\ rest[i] = queue[i + 1] /\ i + 1 \in 1 .. Len(queue)
            /\ j + 1 \in 1 .. Len(queue) /\ i + 1 <= j + 1
        BY <1>13, <1>19, <2>1, <2>2, <3>1
      <3>3. Len(queue[i + 1]) <= Len(queue[j + 1])
        BY <1>2, <3>2
      <3> QED
        BY <2>2, <3>2, <3>3
    <2>3. ASSUME NEW h \in more, rest[j] = Longer(h)
          PROVE  Len(rest[i]) <= Len(rest[j])
      <3>1. Len(rest[j]) = n + 1
        BY <1>9, <2>3
      <3>2. Len(rest[i]) <= n + 1
        <4>1. CASE i \in 1 .. m /\ rest[i] = queue[i + 1]
          BY <1>13, <1>17, <4>1
        <4>2. ASSUME NEW g \in more, rest[i] = Longer(g)
              PROVE  Len(rest[i]) <= n + 1
          BY <1>1, <1>9, <4>2
        <4> QED
          BY <1>14, <4>1, <4>2
      <3> QED
        BY <3>1, <3>2
    <2> QED
      BY <1>14, <2>2, <2>3
  <1>20. \A h \in more : \E i \in 1 .. Len(rest) : Last(rest[i]) = h
    <2> TAKE h \in more
    <2>1. PICK i \in 1 .. Len(next) : next[i] = h
      BY <1>7
    <2>2. m + i \in 1 .. Len(rest)
      BY <1>6, <1>12
    <2> QED
      BY <1>9, <1>13, <2>1, <2>2
  <1>21. ASSUME NEW h \in visited
         PROVE  \/ \E i \in 1 .. Len(rest) : Last(rest[i]) = h
                \/ e[h] = MaxHops \/ Beyond(all, e, h)
    <2>1. CASE h = Last(p) /\ TooLong(p)
      BY <1>1, <1>4, <1>16, <2>1
    <2>2. CASE h = Last(p) /\ ~TooLong(p)
      <3> SUFFICES ASSUME NEW g \in Hosts, Adjacent(h, g)
                   PROVE  g \in all /\ e[g] <= e[h] + 1
        BY DEF Beyond
      <3>1. g \in all
        BY <2>2 DEF p
      <3>2. e[h] = n - 1
        BY <1>1, <1>16, <2>2
      <3>3. e[g] <= n
        BY <1>1, <1>15, <1>16, <3>1
      <3> QED
        BY <1>1, <3>1, <3>2, <3>3
    <2>3. CASE d[h] = MaxHops
      BY <1>16, <2>3
    <2>4. CASE Beyond(visited, d, h)
      BY <1>16, <2>4 DEF Beyond
    <2>5. ASSUME NEW j \in 1 .. Len(queue), Last(queue[j]) = h, h # Last(p)
          PROVE  \E i \in 1 .. Len(rest) : Last(rest[i]) = h
      <3>1. j # 1
        BY <1>1, <2>5
      <3>2. j - 1 \in 1 .. m /\ (j - 1) + 1 = j /\ j - 1 \in 1 .. Len(rest)
        BY <1>1, <1>6, <1>12, <3>1 DEF m
      <3>3. rest[j - 1] = queue[j]
        BY <1>13, <3>2
      <3> QED
        BY <2>5, <3>2, <3>3
    <2> QED
      BY <1>2, <2>1, <2>2, <2>3, <2>4, <2>5
  <1>22. \A h \in all, i \in 1 .. Len(rest) : e[h] <= Len(rest[i])
    <2> TAKE h \in all, i \in 1 .. Len(rest)
    <2>1. e[h] \in Nat /\ e[h] <= n
      <3>1. CASE h \in visited
        BY <1>15, <1>16, <3>1
      <3>2. CASE h \in more
        BY <1>1, <1>16, <3>2
      <3> QED
        BY <3>1, <3>2
    <2>2. Len(rest[i]) \in Nat /\ Len(rest[i]) >= n
      BY <1>18
    <2> QED
      BY <1>1, <2>1, <2>2
  <1>23. s \in all /\ e[s] = 0 /\ t \notin all
    BY <1>2, <1>16
  <1>24. Levelled(all, rest, s, t, e)
    BY <1>16, <1>18, <1>19, <1>20, <1>21, <1>22, <1>23 DEF Levelled
  <1>25. rest \in Seq(Seq(Hosts)) /\ e \in [all -> 0 .. MaxHops]
    BY <1>12, <1>16
  <1> HIDE DEF all
  <1>26. rest = Turned(queue, next)
    BY DEF rest, tail, new, p, Turned
  <1> QED
    BY <1>24, <1>25, <1>26 DEF all

-----------------------------------------------------------------------------
(***************************************************************************)
(* Every step of the recommendation.                                       *)
(***************************************************************************)

LEMMA CrossingFacts ==
    ASSUME NEW c
    PROVE  c \in Crossings <=>
               /\ c[1] \in Boundaries /\ c[2] \in Hosts /\ c[3] \in Hosts /\ c = <<c[1], c[2], c[3]>>
               /\ PlaceOf[c[2]] = c[1][1] /\ PlaceOf[c[3]] = c[1][2] /\ c[2] # c[3]
  BY DEF Crossings

LEMMA NoPathIsNone == \A s \in Hosts : \A t : \A p \in Shortest(s, t) : p # NoPath
  BY ShortestAre, NoPathAssumption DEF Route

\* A search goes on, whatever else the step does.
LEMMA StillSearching ==
    ASSUME cabled' = cabled, NEW c \in Crossings, NEW visited \in SUBSET Hosts, NEW queue \in Seq(Seq(Hosts)),
           \E d \in [visited -> 0 .. MaxHops] : Levelled(visited, queue, c[2], c[3], d),
           search'.crossing = c, search'.visited = visited, search'.queue = queue
    PROVE  Searching'
  <1>1. PICK d \in [visited -> 0 .. MaxHops] : Levelled(visited, queue, c[2], c[3], d)
    OBVIOUS
  <1>2. \A p, s : Route(p, s)' <=> Route(p, s)
    BY DEF Route, Adjacent
  <1>3. \A h : Beyond(visited, d, h)' <=> Beyond(visited, d, h)
    BY DEF Beyond, Adjacent
  <1>4. Levelled(visited, queue, c[2], c[3], d)'
    BY <1>1, <1>2, <1>3 DEF Levelled
  <1>5. Crossings' = Crossings
    BY DEF Crossings
  <1> QED
    BY <1>1, <1>4, <1>5 DEF Searching

LEMMA PathInitially == PathInit => Checked
  <1> SUFFICES ASSUME PathInit
               PROVE  Checked
    OBVIOUS
  <1>1. /\ cabled \subseteq Hosts \X Hosts /\ crossings = Crossings /\ found = {} /\ missing = Undecided
        /\ search.pc = "rest" /\ DOMAIN search = DOMAIN Resting
    BY HostsAssumption DEF PathInit, Resting
  <1> QED
    BY <1>1 DEF Checked, Searching, Searched, Decided

\* What is said of a finding stays.
LEMMA ExactStays ==
    ASSUME UNCHANGED <<cabled, capable>>, NEW f, Exact(f)
    PROVE  Exact(f)'
  <1>1. \A s : PathsFrom(s)' = PathsFrom(s)
    BY DEF PathsFrom, Adjacent
  <1>2. \A s, t : Shortest(s, t)' = Shortest(s, t)
    BY <1>1 DEF Shortest
  <1> QED
    BY <1>2 DEF Exact, CrossingOf, Crossings

LEMMA Starting == Checked /\ BeginSearch => Checked'
  <1> SUFFICES ASSUME Checked, BeginSearch
               PROVE  Checked'
    OBVIOUS
  <1>1. PICK c \in crossings :
            /\ crossings' = crossings \ {c} /\ UNCHANGED <<cabled, capable, found, missing>>
            /\ search' = [pc |-> "search", crossing |-> c, visited |-> {c[2]}, queue |-> <<<<c[2]>>>>]
    BY DEF BeginSearch
  <1>2. search.pc = "rest" /\ crossings \subseteq Crossings /\ missing = Undecided
    BY DEF BeginSearch, Checked, Searched, Decided
  <1>3. c \in Crossings /\ c[2] \in Hosts /\ c[2] # c[3]
    BY <1>2, CrossingFacts
  <1>4. /\ search'.pc = "search" /\ search'.crossing = c /\ search'.visited = {c[2]}
        /\ search'.queue = <<<<c[2]>>>> /\ DOMAIN search' = DOMAIN Resting
    BY <1>1 DEF Resting
  <1>5. /\ <<<<c[2]>>>> \in Seq(Seq(Hosts)) /\ {c[2]} \in SUBSET Hosts
        /\ \E d \in [{c[2]} -> 0 .. MaxHops] : Levelled({c[2]}, <<<<c[2]>>>>, c[2], c[3], d)
    <2>1. {c[2]} \in SUBSET Hosts
      BY <1>3
    <2> QED
      BY <1>3, <2>1, SearchStarts
  <1>6. Searching'
    BY <1>1, <1>3, <1>4, <1>5, StillSearching
  <1>7. Searched'
    <2>1. \A f \in found : Exact(f)'
      BY <1>1, ExactStays DEF Checked, Searched
    <2>2. \A x \in Crossings \ crossings' : x = c \/ \E f \in found : CrossingOf(f) = x
      BY <1>1, <1>2 DEF Checked, Searched
    <2> QED
      BY <1>1, <1>2, <1>4, <2>1, <2>2 DEF Searched, CrossingOf, Crossings
  <1>8. Decided'
    BY <1>1, <1>2 DEF Decided, Undecided
  <1> QED
    BY <1>1, <1>4, <1>6, <1>7, <1>8 DEF Checked, Resting

LEMMA Exploring == Checked /\ Explore => Checked'
  <1> SUFFICES ASSUME Checked, Explore
               PROVE  Checked'
    OBVIOUS
  <1> DEFINE more == NewNeighbours(Path)
             s == search.crossing[2]
             visited == search.visited
             queue == search.queue
  <1>1. /\ search.pc = "search" /\ queue # <<>> /\ Goal \notin more
        /\ UNCHANGED <<cabled, capable, crossings, found, missing>>
    BY DEF Explore
  <1>2. PICK next \in SetToSeqs(more) :
            search' = [search EXCEPT !.visited = @ \cup more,
                                     !.queue = Tail(@) \o [i \in DOMAIN next |-> Append(Path, next[i])]]
    BY DEF Explore
  <1>3. /\ search.crossing \in Crossings /\ visited \subseteq Hosts /\ queue \in Seq(Seq(Hosts))
        /\ DOMAIN search = DOMAIN Resting
    BY <1>1 DEF Checked, Searching
  <1>4. PICK d : Levelled(visited, queue, s, Goal, d)
    BY <1>1 DEF Checked, Searching, Goal
  <1> DEFINE all == visited \cup more
             rest == Turned(queue, next)
  <1>5. /\ search'.pc = "search" /\ search'.crossing = search.crossing
        /\ search'.visited = all /\ search'.queue = rest /\ DOMAIN search' = DOMAIN Resting
    BY <1>1, <1>2, <1>3 DEF Resting, Path, Turned
  <1>6. /\ more \in SUBSET Hosts /\ more \cap visited = {} /\ Goal \notin more
        /\ \A h \in more : Adjacent(Last(Head(queue)), h)
        /\ more # {} => ~TooLong(Head(queue))
        /\ ~TooLong(Head(queue)) =>
               \A h \in Hosts : Adjacent(Last(Head(queue)), h) => h \in visited \cup more
    BY <1>1 DEF NewNeighbours, Path
  <1> HIDE DEF more, visited, queue, s
  <1>7. /\ rest \in Seq(Seq(Hosts))
        /\ \E e \in [all -> 0 .. MaxHops] : Levelled(all, rest, s, Goal, e)
    <2>1. visited \in SUBSET Hosts /\ next \in SetToSeqs(more)
      BY <1>2, <1>3
    <2> QED
      BY <1>1, <1>3, <1>4, <1>6, <2>1, SearchTurns
  <1> HIDE DEF all, rest
  <1>8. all \subseteq Hosts
    BY <1>3, <1>6 DEF all
  <1>9. Searching'
    <2>1. \E e \in [all -> 0 .. MaxHops] :
              Levelled(all, rest, search.crossing[2], search.crossing[3], e)
      BY <1>7 DEF s, Goal
    <2>2. all \in SUBSET Hosts
      BY <1>8
    <2> QED
      BY <1>1, <1>3, <1>5, <1>7, <2>1, <2>2, StillSearching
  <1>10. Searched'
    <2>1. \A f \in found : Exact(f)'
      BY <1>1, ExactStays DEF Checked, Searched
    <2> QED
      BY <1>1, <1>5, <2>1 DEF Checked, Searched, CrossingOf, Crossings
  <1>11. Decided'
    BY <1>1, <1>5 DEF Checked, Decided, Undecided
  <1> QED
    BY <1>1, <1>5, <1>9, <1>10, <1>11 DEF Checked, Resting

\* A search that ends with what it should.
LEMMA SearchEnds ==
    ASSUME Checked, search.pc = "search", NEW path, EndSearch(path),
           \/ path \in Shortest(search.crossing[2], Goal)
           \/ path = NoPath /\ Shortest(search.crossing[2], Goal) = {}
    PROVE  Checked'
  <1> DEFINE f == Finding(path)
             c == search.crossing
  <1>1. /\ search' = Resting /\ found' = found \cup {f} /\ UNCHANGED <<cabled, capable, crossings, missing>>
    BY DEF EndSearch
  <1>2. c \in Crossings /\ missing = Undecided
    BY DEF Checked, Searching, Decided
  <1>3. /\ f.boundary = c[1] /\ f.source = c[2] /\ f.target = Goal /\ f.path = path /\ CrossingOf(f) = c
        /\ f.protected <=> path # NoPath /\ Range(path) \cap capable # {}
    BY <1>2, CrossingFacts DEF Finding, CrossingOf, Goal
  <1> HIDE DEF f
  <1>4. Exact(f)
    BY <1>2, <1>3 DEF Exact
  <1>5. \A g \in found' : Exact(g)'
    BY <1>1, <1>4, ExactStays DEF Checked, Searched
  <1>6. \A x \in Crossings \ crossings : \E g \in found' : CrossingOf(g) = x
    BY <1>1, <1>3 DEF Checked, Searched
  <1>7. search'.pc = "rest"
    BY <1>1 DEF Resting
  <1> QED
    BY <1>1, <1>2, <1>5, <1>6, <1>7
       DEF Checked, Searching, Searched, Decided, Undecided, CrossingOf, Crossings, Resting

LEMMA Reaching == Checked /\ Reach => Checked'
  <1> SUFFICES ASSUME Checked, Reach
               PROVE  Checked'
    OBVIOUS
  <1>1. search.pc = "search" /\ search.queue # <<>> /\ EndSearch(Append(Path, Goal))
    BY DEF Reach
  <1>2. ~TooLong(Path) /\ Adjacent(Last(Path), Goal) /\ Goal \in Hosts
    BY DEF Reach, NewNeighbours
  <1>3. search.queue \in Seq(Seq(Hosts))
        /\ \E d : Levelled(search.visited, search.queue, search.crossing[2], Goal, d)
    BY <1>1 DEF Checked, Searching, Goal
  <1>4. Append(Path, Goal) \in Shortest(search.crossing[2], Goal)
    BY <1>1, <1>2, <1>3, FirstIsShortest DEF Path
  <1> QED
    BY <1>1, <1>4, SearchEnds

LEMMA GivingUp == Checked /\ GiveUp => Checked'
  <1> SUFFICES ASSUME Checked, GiveUp
               PROVE  Checked'
    OBVIOUS
  <1>1. search.pc = "search" /\ search.queue = <<>> /\ EndSearch(NoPath)
    BY DEF GiveUp
  <1>2. search.crossing[2] \in Hosts
        /\ \E d : Levelled(search.visited, <<>>, search.crossing[2], Goal, d)
    BY <1>1, CrossingFacts DEF Checked, Searching, Goal
  <1>3. Shortest(search.crossing[2], Goal) = {}
    BY <1>2, NoneIsNone
  <1> QED
    BY <1>1, <1>3, SearchEnds

\* The rest of a search is as it was.
LEMMA Recommending ==
    ASSUME Checked, UNCHANGED <<cabled, capable, crossings, search, found>>,
           missing' # Undecided => search.pc = "rest" /\ crossings = {} /\ missing' = [p \in Places |-> Gap(p)]
    PROVE  Checked'
  <1>1. Searching'
    <2>1. CASE search.pc = "search"
      <3>1. /\ search.crossing \in Crossings /\ search.visited \in SUBSET Hosts
            /\ search.queue \in Seq(Seq(Hosts))
            /\ \E d \in [search.visited -> 0 .. MaxHops] :
                  Levelled(search.visited, search.queue, search.crossing[2], search.crossing[3], d)
        BY <2>1 DEF Checked, Searching
      <3> QED
        BY <3>1, StillSearching
    <2> QED
      BY <2>1 DEF Searching
  <1>2. Searched'
    <2>1. \A f \in found : Exact(f)'
      BY ExactStays DEF Checked, Searched
    <2> QED
      BY <2>1 DEF Checked, Searched, CrossingOf, Crossings
  <1>3. \A p : Gap(p)' = Gap(p)
    BY DEF Gap, Existing, UnprotectedAt, Unprotected, Paths, At, Required, CeilDiv
  <1>4. Decided'
    BY <1>3 DEF Decided, Undecided
  <1> QED
    BY <1>1, <1>2, <1>4 DEF Checked, Resting

LEMMA PathSteps == Checked /\ [PathNext]_pathVars => Checked'
  <1> SUFFICES ASSUME Checked, [PathNext]_pathVars
               PROVE  Checked'
    OBVIOUS
  <1>1. CASE Recommend
    BY <1>1, Recommending DEF Recommend
  <1>2. CASE UNCHANGED pathVars
    BY <1>2, Recommending DEF pathVars, Checked, Decided
  <1> QED
    BY <1>1, <1>2, Starting, Exploring, Reaching, GivingUp DEF PathNext

-----------------------------------------------------------------------------
(***************************************************************************)
(* What is missing.                                                        *)
(***************************************************************************)

LEMMA LargerOfTwo ==
    \A x, y \in Int : Max({x, y}) = IF x >= y THEN x ELSE y
  <1> TAKE x \in Int, y \in Int
  <1> DEFINE m == IF x >= y THEN x ELSE y
  <1>1. m \in {x, y} /\ \A z \in {x, y} : m >= z
    OBVIOUS
  <1>2. \A n \in {x, y} : (\A z \in {x, y} : n >= z) => n = m
    OBVIOUS
  <1> QED
    BY <1>1, <1>2 DEF Max

LEMMA RequiredType ==
    ASSUME NEW rule, rule.least \in Nat, rule.per \in Nat, NEW n \in Nat
    PROVE  Required(rule, n) \in Nat
  <1>1. CASE rule.per = 0
    BY <1>1 DEF Required
  <1>2. CASE rule.per # 0
    <2> DEFINE per == rule.per
               up == (n + per - 1) \div per
    <2>1. up \in Nat
      BY <1>2
    <2>2. CeilDiv(n, rule.per) = up
      BY DEF CeilDiv
    <2> HIDE DEF up
    <2>3. Max({rule.least, up}) \in Nat
      BY <2>1, LargerOfTwo
    <2> QED
      BY <1>2, <2>2, <2>3 DEF Required
  <1> QED
    BY <1>1, <1>2

\* When everything is searched, a boundary is unprotected or not as its shortest paths are.
LEMMA BoundariesJudged ==
    ASSUME Checked, missing # Undecided, NEW b \in Boundaries
    PROVE  (Bypassed(b) => Unprotected(b)) /\ (Safe(b) => ~Unprotected(b))
  <1>1. b[1] # b[2]
    BY BoundaryAssumption
  <1>2. ASSUME NEW f \in Paths, f.boundary = b
        PROVE  /\ f.source \in At(b[1]) /\ f.target \in At(b[2])
               /\ f.path \in Shortest(f.source, f.target)
               /\ f.protected <=> Range(f.path) \cap capable # {}
    <2>1. Exact(f) /\ f.path # NoPath
      BY DEF Paths, Checked, Searched
    <2>2. CrossingOf(f) \in Crossings
      BY <2>1 DEF Exact
    <2>3. f.source \in At(b[1]) /\ f.target \in At(b[2])
      BY <1>2, <2>2, CrossingFacts DEF CrossingOf, At
    <2> QED
      BY <2>1, <2>3 DEF Exact
  <1>3. ASSUME NEW s \in At(b[1]), NEW t \in At(b[2]), Shortest(s, t) # {}
        PROVE  \E f \in Paths : f.boundary = b /\ f.source = s /\ f.target = t
    <2>1. s \in Hosts /\ t \in Hosts /\ PlaceOf[s] = b[1] /\ PlaceOf[t] = b[2]
      BY DEF At
    <2>2. <<b, s, t>> \in Crossings
      <3> DEFINE c == <<b, s, t>>
      <3>1. c[1] = b /\ c[2] = s /\ c[3] = t /\ s # t
        BY <1>1, <2>1
      <3> QED
        BY <2>1, <3>1, CrossingFacts
    <2>3. PICK f \in found : CrossingOf(f) = <<b, s, t>>
      BY <2>2 DEF Checked, Searched, Decided
    <2>4. f.boundary = b /\ f.source = s /\ f.target = t
      BY <2>3 DEF CrossingOf
    <2>5. f.path \in Shortest(s, t)
      BY <1>3, <2>4 DEF Exact, Checked, Searched
    <2>6. f \in Paths
      BY <2>1, <2>5, NoPathIsNone DEF Paths
    <2> QED
      BY <2>4, <2>6
  <1>4. ASSUME Bypassed(b)
        PROVE  Unprotected(b)
    <2>1. \E f \in Paths : f.boundary = b
      BY <1>3, <1>4 DEF Bypassed, Crossed
    <2>2. \A f \in Paths : f.boundary = b => ~f.protected
      BY <1>2, <1>4 DEF Bypassed
    <2> QED
      BY <2>1, <2>2 DEF Unprotected
  <1>5. ASSUME Safe(b), Unprotected(b)
        PROVE  FALSE
    <2>1. Crossed(b)
      BY <1>2, <1>5 DEF Crossed, Unprotected
    <2>2. PICK s \in At(b[1]), t \in At(b[2]) : Shortest(s, t) # {} /\ Guarded(s, t)
      BY <1>5, <2>1 DEF Safe
    <2>3. PICK f \in Paths : f.boundary = b /\ f.source = s /\ f.target = t
      BY <1>3, <2>2
    <2>4. f.protected
      BY <1>2, <2>2, <2>3 DEF Guarded
    <2> QED
      BY <1>5, <2>3, <2>4 DEF Unprotected
  <1> QED
    BY <1>4, <1>5

LEMMA GapsAre ==
    ASSUME NEW p \in Places, Rule[p].kind # "none"
    PROVE  /\ UnprotectedAt(p) => Gap(p) = Needed(p)
           /\ ~UnprotectedAt(p) => Gap(p) = Max({0, Needed(p) - Cardinality(At(p) \cap capable)})
  <1> DEFINE own == Cardinality(At(p) \cap capable)
             all == Cardinality(At(Rule[p].metric))
  <1>1. own \in Nat /\ all \in Nat
    <2>1. IsFiniteSet(At(p) \cap capable) /\ IsFiniteSet(At(Rule[p].metric))
      BY HostsAssumption, FS_Subset DEF At
    <2> QED
      BY <2>1, FS_CardinalityType
  <1>2. Existing(p) = IF UnprotectedAt(p) THEN 0 ELSE own
    BY DEF Existing
  <1>3. CASE Rule[p].kind = "present"
    <2>1. Needed(p) = 1 /\ Gap(p) = IF Existing(p) > 0 THEN 0 ELSE 1
      BY <1>3 DEF Needed, Gap
    <2> HIDE DEF own
    <2>2. Max({0, 1 - own}) = IF own > 0 THEN 0 ELSE 1
      BY <1>1, LargerOfTwo
    <2>3. own = Cardinality(At(p) \cap capable)
      BY DEF own
    <2> QED
      BY <1>2, <2>1, <2>2, <2>3
  <1>4. CASE Rule[p].kind # "present"
    <2>1. Rule[p].kind = "scale" /\ Rule[p].least \in Nat /\ Rule[p].per \in Nat
      BY <1>4, RuleAssumption
    <2> DEFINE need == Required(Rule[p], all)
    <2>2. need \in Nat
      BY <1>1, <2>1, RequiredType
    <2>3. Needed(p) = need /\ Gap(p) = Max({0, need - Existing(p)})
      BY <2>1 DEF Needed, Gap
    <2> HIDE DEF need
    <2>4. Max({0, need - 0}) = need
      BY <2>2, LargerOfTwo
    <2> QED
      BY <1>2, <2>3, <2>4
  <1> QED
    BY <1>3, <1>4

\* Every search ends with a shortest of the simple paths of at most MaxHops hops, or with none
\* if there is none, whatever the links and the order in which they come (shortest_path).
THEOREM SearchesAreExact == PathSpec => []SearchIsExact
  <1>1. Checked => SearchIsExact
    BY DEF Checked, Searched, Exact, SearchIsExact
  <1> QED
    BY <1>1, PathInitially, PathSteps, PTL DEF PathSpec

\* What is recommended is what the shortest paths between the places call for: all that is
\* needed where none of them is guarded, and what a place lacks where each boundary has a
\* crossing that is (analyze_real_paths, generate_recommendation, compute_scale_gaps).
THEOREM GapsArePaths == PathSpec => []GapsFollowPaths
  <1>1. Checked => GapsFollowPaths
    <2> SUFFICES ASSUME Checked, missing # Undecided, NEW p \in Places, Rule[p].kind # "none"
                 PROVE  LET mine == {b \in Boundaries : p \in {b[1], b[2]}}
                        IN  /\ (\E b \in mine : Bypassed(b)) => missing[p] = Needed(p)
                            /\ (\A b \in mine : Safe(b)) =>
                                   missing[p] = Max({0, Needed(p) - Cardinality(At(p) \cap capable)})
      BY DEF GapsFollowPaths
    <2> DEFINE mine == {b \in Boundaries : p \in {b[1], b[2]}}
    <2>1. missing[p] = Gap(p)
      BY DEF Checked, Decided
    <2>2. (\E b \in mine : Bypassed(b)) => UnprotectedAt(p)
      BY BoundariesJudged DEF UnprotectedAt
    <2>3. (\A b \in mine : Safe(b)) => ~UnprotectedAt(p)
      BY BoundariesJudged DEF UnprotectedAt
    <2> QED
      BY <2>1, <2>2, <2>3, GapsAre
  <1> QED
    BY <1>1, PathInitially, PathSteps, PTL DEF PathSpec
=============================================================================
