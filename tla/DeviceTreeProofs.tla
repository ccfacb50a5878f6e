-------------------------- MODULE DeviceTreeProofs --------------------------
(***************************************************************************)
(* The tree of DeviceMap: whatever is added and removed, its pointers stay *)
(* sound, a removal takes one subtree, and an emulated sink stays.         *)
(***************************************************************************)
EXTENDS DeviceMapProofs, WellFoundedInduction, FiniteSetTheorems

------------------------------------------------------------------------------
\* Numbers

\* Of some natural numbers one is the smallest.
LEMMA Least ==
  ASSUME NEW S \in SUBSET Nat, S # {}
  PROVE  \E n \in S : \A m \in S : n <= m
<1>1. PICK n \in S : \A m \in S : ~ (<<m, n>> \in OpToRel(<, Nat))
  BY NatLessThanWellFounded, WFMin
<1>2. ASSUME NEW m \in S PROVE n <= m
  <2>1. m \in Nat /\ n \in Nat
    OBVIOUS
  <2>2. CASE m < n
    <3> DEFINE z == <<m, n>>
    <3>1. z \in Nat \X Nat /\ z[1] < z[2]
      BY <2>1, <2>2
    <3>2. z \in OpToRel(<, Nat)
      BY Zenon, <3>1 DEF OpToRel
    <3> QED
      BY <1>1, <3>2
  <2> QED
    BY <2>1, <2>2
<1> QED
  BY <1>2

\* And, if they have a bound, one is the largest.
LEMMA Greatest ==
  ASSUME NEW b \in Nat, NEW S \in SUBSET (0 .. b), S # {}
  PROVE  \E n \in S : \A m \in S : m <= n
<1> DEFINE T == {b - n : n \in S}
<1>1. T \in SUBSET Nat /\ T # {}
  <2>1. \A n \in S : b - n \in Nat
    OBVIOUS
  <2> QED
    BY <2>1
<1>2. PICK t \in T : \A u \in T : t <= u
  BY <1>1, Least
<1>3. PICK n \in S : t = b - n
  OBVIOUS
<1>4. ASSUME NEW m \in S PROVE m <= n
  <2>1. b - n <= b - m
    BY <1>2, <1>3
  <2> QED
    BY <2>1
<1> QED
  BY <1>4

\* What Largest gives.
LEMMA LargestOf ==
  ASSUME NEW b \in Nat, NEW S \in SUBSET (1 .. b)
  PROVE  /\ Largest(S) \in S \cup {NULL}
         /\ Largest(S) = NULL <=> S = {}
         /\ \A j \in S : j <= Largest(S)
<1>1. CASE S = {}
  BY <1>1 DEF Largest
<1>2. CASE S # {}
  <2>0. S \in SUBSET (0 .. b)
    OBVIOUS
  <2>1. \E m \in S : \A j \in S : j <= m
    BY <1>2, <2>0, Greatest
  <2>2. /\ Largest(S) \in S
        /\ \A j \in S : j <= Largest(S)
    BY <2>1 DEF Largest
  <2>3. Largest(S) # NULL
    BY <2>2 DEF NULL
  <2> QED
    BY <1>2, <2>2, <2>3
<1> QED
  BY <1>1, <1>2

------------------------------------------------------------------------------
\* What is reached

\* The devices reached from n lead to none but themselves.
LEMMA ReachedIsClosed ==
  ASSUME NEW n, NEW pointers
  PROVE  /\ Reached(n, pointers) \subseteq live
         /\ n \in live => n \in Reached(n, pointers)
         /\ \A f \in pointers : \A m \in Reached(n, pointers) :
              f[m] \in live => f[m] \in Reached(n, pointers)
BY DEF Reached

\* And they are the fewest.
LEMMA ReachedIsLeast ==
  ASSUME NEW n, NEW pointers, NEW S \in SUBSET live, n \in live => n \in S,
         \A f \in pointers : \A m \in S : f[m] \in live => f[m] \in S
  PROVE  Reached(n, pointers) \subseteq S
<1> DEFINE start == {n} \cap live
<1>1. S = start \cup (S \ start) /\ S \ start \in SUBSET (live \ start)
  OBVIOUS
<1>2. S \in {start \cup others : others \in SUBSET (live \ start)}
  BY <1>1
<1> QED
  BY <1>2 DEF Reached

\* Following the pointers F and X from top leads to all of L.
Connected(top, L, F, X) ==
  \A S \in SUBSET L :
    /\ top \in S
    /\ \A m \in S : (F[m] \in L => F[m] \in S) /\ (X[m] \in L => X[m] \in S)
    => S = L

\* That is, destroying the root would free them all.
LEMMA ConnectedReaches ==
  ASSUME Root \in live
  PROVE  Connected(Root, live, first_child, next_sibling) <=>
           Destroyed(Root, first_child, next_sibling) = live
<1> DEFINE R == Destroyed(Root, first_child, next_sibling)
<1>1. /\ R \subseteq live /\ Root \in R
      /\ \A m \in R : /\ first_child[m] \in live => first_child[m] \in R
                      /\ next_sibling[m] \in live => next_sibling[m] \in R
  BY ReachedIsClosed DEF Destroyed
<1>2. ASSUME NEW S \in SUBSET live, Root \in S,
             \A m \in S : /\ first_child[m] \in live => first_child[m] \in S
                          /\ next_sibling[m] \in live => next_sibling[m] \in S
      PROVE  R \subseteq S
  BY <1>2, ReachedIsLeast DEF Destroyed
<1> QED
  BY <1>1, <1>2 DEF Connected

------------------------------------------------------------------------------
\* The pointers

\* The root is in the map and has no siblings, the pointers of a device lead
\* to devices of the map whose parents they say, no two pointers lead to the
\* same device, and the root leads to all.
Linked ==
  /\ Root \in live /\ parent[Root] = NULL /\ next_sibling[Root] = NULL
  /\ \A m \in live : parent[m] = NULL => m = Root
  /\ \A m \in live : first_child[m] # NULL =>
       first_child[m] \in live /\ parent[first_child[m]] = m
  /\ \A m \in live : next_sibling[m] # NULL =>
       next_sibling[m] \in live /\ parent[next_sibling[m]] = parent[m]
  /\ \A m, k \in live : next_sibling[m] # NULL =>
       /\ next_sibling[k] = next_sibling[m] => k = m
       /\ first_child[k] # next_sibling[m]
  /\ Connected(Root, live, first_child, next_sibling)

\* A set of devices with the root and where its members lead has them all.
LEMMA NoneIsLeftOut ==
  ASSUME Linked, NEW S \in SUBSET live, Root \in S,
         \A m \in S : /\ first_child[m] \in live => first_child[m] \in S
                      /\ next_sibling[m] \in live => next_sibling[m] \in S
  PROVE  S = live
BY DEF Linked, Connected

\* The parent of a device is in the map.
LEMMA ParentLives ==
  ASSUME IInv, Linked, NEW n \in live, n # Root
  PROVE  parent[n] \in live
<1> DEFINE T == {m \in live : m = Root \/ parent[m] \in live}
<1>1. NULL \notin live /\ NULL # Root
  BY Numbers DEF IInv, Linked
<1>2. T \in SUBSET live /\ Root \in T
  BY DEF Linked
<1>3. ASSUME NEW m \in T, first_child[m] \in live PROVE first_child[m] \in T
  BY <1>1, <1>3 DEF Linked
<1>4. ASSUME NEW m \in T, next_sibling[m] \in live PROVE next_sibling[m] \in T
  BY <1>1, <1>4 DEF Linked
<1> HIDE DEF T
<1>5. T = live
  BY <1>2, <1>3, <1>4, NoneIsLeftOut
<1> QED
  BY <1>5 DEF T

------------------------------------------------------------------------------
\* RemoveDevice

\* What is freed is a child of the root with everything below it.
LEMMA GoneIsSubtree ==
  ASSUME IInv, Linked, NEW n \in Listed(first_child[Root]),
         NEW gone, gone = Destroyed(n, first_child, Unlinked(n))
  PROVE  /\ n \in live /\ parent[n] = Root /\ n \in gone
         /\ gone \subseteq live /\ Root \notin gone
         /\ \A m \in gone : first_child[m] \in live => first_child[m] \in gone
         /\ \A m \in gone \ {n} : next_sibling[m] \in live => next_sibling[m] \in gone
         /\ \A m \in gone \ {n} : parent[m] \in gone
         /\ \A m \in live \ gone : parent[m] \notin gone
<1>0. /\ \A m \in live : m \in Node
      /\ NULL \notin live /\ NULL # Root /\ Root \in live
  BY Numbers DEF IInv, Linked
<1>1. n \in live /\ parent[n] = Root
  <2> DEFINE S == {m \in live : parent[m] = Root}
  <2>1. first_child[Root] \in live => first_child[Root] \in S
    BY <1>0 DEF Linked
  <2>2. \A m \in S : next_sibling[m] \in live => next_sibling[m] \in S
    BY <1>0 DEF Linked
  <2>3. Listed(first_child[Root]) \subseteq S
    <3> HIDE DEF S
    <3>1. S \in SUBSET live
      BY DEF S
    <3> QED
      BY <2>1, <2>2, <3>1, ReachedIsLeast DEF Listed
  <2> QED
    BY <2>3
<1>2. /\ gone \subseteq live /\ n \in gone
      /\ \A m \in gone : /\ first_child[m] \in live => first_child[m] \in gone
                         /\ Unlinked(n)[m] \in live => Unlinked(n)[m] \in gone
  BY <1>1, ReachedIsClosed DEF Destroyed
<1>3. \A m \in live : Unlinked(n)[m] =
        IF m = n THEN NULL
        ELSE IF next_sibling[m] = n THEN next_sibling[n] ELSE next_sibling[m]
  BY <1>0 DEF Unlinked
<1>4. \A m \in live : Unlinked(n)[m] \in live => parent[Unlinked(n)[m]] = parent[m]
  BY <1>0, <1>1, <1>3 DEF Linked
<1>5. \A m \in gone \ {n} : parent[m] \in gone
  <2> DEFINE S == {m \in gone : m = n \/ parent[m] \in gone}
  <2>1. n \in S
    BY <1>2
  <2>2. ASSUME NEW m \in S, first_child[m] \in live PROVE first_child[m] \in S
    BY <1>0, <1>2, <2>2 DEF Linked
  <2>3. ASSUME NEW m \in S, Unlinked(n)[m] \in live PROVE Unlinked(n)[m] \in S
    <3>1. m # n
      BY <1>0, <1>1, <1>3, <2>3
    <3>2. parent[m] \in gone
      BY <3>1
    <3> QED
      BY <1>2, <1>4, <2>3, <3>2
  <2>4. S \in SUBSET live
    BY <1>2
  <2> HIDE DEF S
  <2>5. gone \subseteq S
    BY <2>1, <2>2, <2>3, <2>4, ReachedIsLeast DEF Destroyed
  <2> QED
    BY <2>5 DEF S
<1>6. Root \notin gone
  BY <1>0, <1>1, <1>2, <1>5 DEF Linked
<1>7. \A m \in gone \ {n} : next_sibling[m] \in live => next_sibling[m] \in gone
  BY <1>2, <1>3
<1>8. \A m \in live \ gone : parent[m] \notin gone
  <2> DEFINE S == {m \in live : parent[m] \in gone => m \in gone}
  <2>1. S \in SUBSET live /\ Root \in S
    BY <1>0, <1>2 DEF Linked
  <2>2. ASSUME NEW m \in S, first_child[m] \in live PROVE first_child[m] \in S
    <3>1. parent[first_child[m]] = m
      BY <1>0, <2>2 DEF Linked
    <3> QED
      BY <1>2, <2>2, <3>1
  <2>3. ASSUME NEW m \in S, next_sibling[m] \in live PROVE next_sibling[m] \in S
    <3>1. parent[next_sibling[m]] = parent[m]
      BY <1>0, <2>3 DEF Linked
    <3>2. parent[m] \in gone => m \in gone \ {n}
      BY <1>1, <1>6
    <3> QED
      BY <1>7, <2>3, <3>1, <3>2
  <2> HIDE DEF S
  <2>4. S = live
    BY <2>1, <2>2, <2>3 DEF Linked, Connected
  <2> QED
    BY <2>4 DEF S
<1> QED
  BY <1>1, <1>2, <1>5, <1>6, <1>7, <1>8

\* What is left is linked as before.
LEMMA RemoveLinked ==
  ASSUME IInv, Linked, NEW n \in Listed(first_child[Root]), Removes(n)
  PROVE  Linked'
<1> DEFINE gone == Destroyed(n, first_child, Unlinked(n))
<1>1. /\ n \in live /\ parent[n] = Root /\ n \in gone
      /\ gone \subseteq live /\ Root \notin gone
      /\ \A m \in gone : first_child[m] \in live => first_child[m] \in gone
      /\ \A m \in gone \ {n} : next_sibling[m] \in live => next_sibling[m] \in gone
      /\ \A m \in gone \ {n} : parent[m] \in gone
      /\ \A m \in live \ gone : parent[m] \notin gone
  BY Zenon, GoneIsSubtree
<1>2. live' = live \ gone /\ parent' = parent
  BY DEF Removes
<1> HIDE DEF gone
<1>3. /\ \A m \in live : m \in Node
      /\ NULL \notin live /\ NULL # Root /\ Root \in live
      /\ first_child \in [Node -> Ref] /\ Root \in Node
  BY Numbers DEF IInv, Linked, Tree, Within
<1>4. \A m \in live : next_sibling'[m] =
        IF m = n THEN NULL
        ELSE IF next_sibling[m] = n THEN next_sibling[n] ELSE next_sibling[m]
  BY <1>3 DEF Removes, Unlinked
<1>5. \A m \in live : first_child'[m] =
        IF m = Root /\ first_child[m] = n THEN next_sibling[n] ELSE first_child[m]
  BY <1>3 DEF Removes
\* What follows n stays.
<1>6. next_sibling[n] # NULL =>
        next_sibling[n] \in live' /\ parent[next_sibling[n]] = Root
  <2> SUFFICES ASSUME next_sibling[n] # NULL
               PROVE  next_sibling[n] \in live' /\ parent[next_sibling[n]] = Root
    OBVIOUS
  <2>1. next_sibling[n] \in live /\ parent[next_sibling[n]] = Root
    BY <1>1 DEF Linked
  <2>2. ASSUME next_sibling[n] = n PROVE FALSE
    <3> DEFINE others == live \ {n}
    <3>1. Root \in others /\ others \in SUBSET live
      BY <1>1, <1>3
    <3>2. \A m \in others : first_child[m] # n /\ next_sibling[m] # n
      BY <1>1, <1>3, <2>2 DEF Linked
    <3>3. \A m \in others :
            /\ first_child[m] \in live => first_child[m] \in others
            /\ next_sibling[m] \in live => next_sibling[m] \in others
      BY <3>2
    <3> HIDE DEF others
    <3>5. others = live
      BY <3>1, <3>3, NoneIsLeftOut
    <3> QED
      BY <1>1, <3>5 DEF others
  <2> QED
    BY <1>1, <1>2, <2>1, <2>2
<1>7. /\ Root \in live' /\ parent'[Root] = NULL /\ next_sibling'[Root] = NULL
      /\ \A m \in live' : parent'[m] = NULL => m = Root
  BY <1>1, <1>2, <1>3, <1>4 DEF Linked
<1>8. ASSUME NEW m \in live', first_child'[m] # NULL
      PROVE  first_child'[m] \in live' /\ parent'[first_child'[m]] = m
  <2>1. CASE m = Root /\ first_child[m] = n
    BY <1>2, <1>5, <1>6, <1>8, <2>1
  <2>2. CASE ~ (m = Root /\ first_child[m] = n)
    BY <1>1, <1>2, <1>5, <1>8, <2>2 DEF Linked
  <2> QED
    BY <2>1, <2>2
<1>9. ASSUME NEW m \in live', next_sibling'[m] # NULL
      PROVE  next_sibling'[m] \in live' /\ parent'[next_sibling'[m]] = parent'[m]
  <2>0. m \in live /\ m # n
    BY <1>1, <1>2
  <2>1. CASE next_sibling[m] = n
    BY <1>1, <1>2, <1>4, <1>6, <1>9, <2>0, <2>1 DEF Linked
  <2>2. CASE next_sibling[m] # n
    BY <1>1, <1>2, <1>4, <1>9, <2>0, <2>2 DEF Linked
  <2> QED
    BY <2>1, <2>2
<1>10. ASSUME NEW m \in live', NEW k \in live', next_sibling'[m] # NULL
       PROVE  /\ next_sibling'[k] = next_sibling'[m] => k = m
              /\ first_child'[k] # next_sibling'[m]
  <2>0. /\ m \in live /\ m # n /\ k \in live /\ k # n
    BY <1>1, <1>2
  <2>1. n # NULL
    BY <1>1, <1>3
  <2> QED
    BY <1>1, <1>3, <1>4, <1>5, <1>10, <2>0, <2>1 DEF Linked
<1>11. Connected(Root, live', first_child', next_sibling')
  <2> SUFFICES ASSUME NEW S \in SUBSET live', Root \in S,
                      \A m \in S :
                        /\ first_child'[m] \in live' => first_child'[m] \in S
                        /\ next_sibling'[m] \in live' => next_sibling'[m] \in S
               PROVE  S = live'
    BY DEF Connected
  <2>0. /\ S \subseteq live /\ n \notin S /\ gone \cap S = {} /\ n # NULL
    BY <1>1, <1>2, <1>3
  <2>1. CASE first_child[Root] = n \/ \E m \in S : next_sibling[m] = n
    <3> DEFINE T == S \cup gone
    <3>1. next_sibling[n] \in live => next_sibling[n] \in S
      BY <1>3, <1>4, <1>5, <1>6, <2>0, <2>1
    <3>2. ASSUME NEW m \in T, first_child[m] \in live PROVE first_child[m] \in T
      BY <1>1, <1>2, <1>5, <2>0, <3>2
    <3>3. ASSUME NEW m \in T, next_sibling[m] \in live PROVE next_sibling[m] \in T
      BY <1>1, <1>2, <1>4, <2>0, <3>1, <3>3
    <3>4. T \in SUBSET live /\ Root \in T
      BY <1>1, <2>0
    <3> HIDE DEF T
    <3>5. T = live
      BY <3>2, <3>3, <3>4 DEF Linked, Connected
    <3> QED
      BY <1>2, <2>0, <3>5 DEF T
  <2>2. CASE first_child[Root] # n /\ ~ \E m \in S : next_sibling[m] = n
    <3>1. ASSUME NEW m \in S, first_child[m] \in live PROVE first_child[m] \in S
      <4>1. parent[first_child[m]] = m /\ first_child'[m] = first_child[m]
        BY <1>3, <1>5, <2>0, <2>2, <3>1 DEF Linked
      <4> QED
        BY <1>1, <1>2, <2>0, <2>2, <3>1, <4>1
    <3>2. ASSUME NEW m \in S, next_sibling[m] \in live PROVE next_sibling[m] \in S
      <4>1. parent[next_sibling[m]] = parent[m] /\ next_sibling'[m] = next_sibling[m]
        BY <1>3, <1>4, <2>0, <2>2, <3>2 DEF Linked
      <4> QED
        BY <1>1, <1>2, <2>0, <2>2, <3>2, <4>1
    <3>3. S = live
      BY <2>0, <3>1, <3>2 DEF Linked, Connected
    <3> QED
      BY <1>1, <2>0, <3>3
  <2> QED
    BY <2>1, <2>2
<1> QED
  BY <1>7, <1>8, <1>9, <1>10, <1>11 DEF Linked

------------------------------------------------------------------------------
\* Descriptions

\* The positions first_child and next_sibling have in a description.
FirstPos(d, k) == Largest(Children(d, k))

NextPos(d, k) ==
  IF d[k].up = NULL THEN NULL ELSE Largest({j \in Children(d, d[k].up) : j < k})

\* The list of the children of k: the pointers lead to children of k, each to
\* a different one.
LEMMA PositionsLinked ==
  ASSUME NEW d, IsDescription(d), NEW k \in 1 .. Len(d), NEW j \in 1 .. Len(d)
  PROVE  /\ FirstPos(d, k) # NULL =>
              FirstPos(d, k) \in 2 .. Len(d) /\ d[FirstPos(d, k)].up = k
         /\ NextPos(d, k) # NULL =>
              /\ NextPos(d, k) \in 2 .. Len(d) /\ d[NextPos(d, k)].up = d[k].up
              /\ NextPos(d, j) = NextPos(d, k) => j = k
              /\ FirstPos(d, j) # NextPos(d, k)
         /\ NextPos(d, 1) = NULL
<1>1. /\ Len(d) \in Nat /\ d[1].up = 0
      /\ \A i \in 1 .. Len(d) : d[i].up \in 0 .. Len(d)
  BY EntryOf DEF IsDescription
<1> DEFINE C(u) == Children(d, u)
           B(i) == {m \in C(d[i].up) : m < i}
<1>2. \A u : C(u) \in SUBSET (1 .. Len(d)) /\ \A m \in C(u) : d[m].up = u
  BY DEF Children
<1>3. \A u : u # 0 => 1 \notin C(u)
  BY <1>1, <1>2
<1>4. \A i : B(i) \in SUBSET (1 .. Len(d)) /\ B(i) \subseteq C(d[i].up)
  BY <1>2
<1>5. \A i \in 1 .. Len(d) : i \in C(d[i].up)
  BY DEF Children
<1>6. \A i \in 1 .. Len(d) :
        /\ FirstPos(d, i) # NULL =>
             FirstPos(d, i) \in C(i) /\ \A m \in C(i) : m <= FirstPos(d, i)
        /\ NextPos(d, i) # NULL =>
             /\ d[i].up # 0 /\ NextPos(d, i) \in B(i)
             /\ \A m \in B(i) : m <= NextPos(d, i)
  <2> SUFFICES ASSUME NEW i \in 1 .. Len(d)
               PROVE  /\ FirstPos(d, i) # NULL =>
                           /\ FirstPos(d, i) \in C(i)
                           /\ \A m \in C(i) : m <= FirstPos(d, i)
                      /\ NextPos(d, i) # NULL =>
                           /\ d[i].up # 0 /\ NextPos(d, i) \in B(i)
                           /\ \A m \in B(i) : m <= NextPos(d, i)
    OBVIOUS
  <2>1. /\ Largest(C(i)) \in C(i) \cup {NULL}
        /\ \A m \in C(i) : m <= Largest(C(i))
    BY <1>1, <1>2, LargestOf
  <2>2. /\ Largest(B(i)) \in B(i) \cup {NULL}
        /\ \A m \in B(i) : m <= Largest(B(i))
    BY <1>1, <1>4, LargestOf
  <2>3. NextPos(d, i) = IF d[i].up = NULL THEN NULL ELSE Largest(B(i))
    BY DEF NextPos
  <2>4. FirstPos(d, i) = Largest(C(i))
    BY DEF FirstPos
  <2> HIDE DEF B, C
  <2> QED
    BY <2>1, <2>2, <2>3, <2>4 DEF NULL
<1>7. \A i \in 1 .. Len(d) : \A m : m \in B(i) <=> m \in C(d[i].up) /\ m < i
  OBVIOUS
<1>8. NextPos(d, 1) = NULL
  BY <1>1 DEF NextPos, NULL
<1> HIDE DEF B, C
<1>9. FirstPos(d, k) # NULL =>
        FirstPos(d, k) \in 2 .. Len(d) /\ d[FirstPos(d, k)].up = k
  BY <1>1, <1>2, <1>3, <1>6
<1>10. ASSUME NextPos(d, k) # NULL
       PROVE  /\ NextPos(d, k) \in 2 .. Len(d) /\ d[NextPos(d, k)].up = d[k].up
              /\ NextPos(d, j) = NextPos(d, k) => j = k
              /\ FirstPos(d, j) # NextPos(d, k)
  <2>1. /\ NextPos(d, k) \in B(k) /\ NextPos(d, k) \in C(d[k].up) /\ d[k].up # 0
        /\ NextPos(d, k) < k
    BY <1>6, <1>7, <1>10
  <2>2. NextPos(d, k) \in 2 .. Len(d) /\ d[NextPos(d, k)].up = d[k].up
    BY <1>1, <1>2, <1>3, <2>1
  <2>3. ASSUME NextPos(d, j) = NextPos(d, k) PROVE j = k
    <3>1. /\ NextPos(d, j) \in C(d[j].up) /\ NextPos(d, j) < j
          /\ \A m \in B(j) : m <= NextPos(d, j)
          /\ \A m \in B(k) : m <= NextPos(d, k)
      BY <1>6, <1>7, <1>10, <2>3
    <3>2. d[j].up = d[k].up
      BY <1>2, <2>2, <2>3, <3>1
    <3>3. CASE j < k
      <4>1. j \in B(k)
        BY <1>5, <1>7, <3>2, <3>3
      <4> QED
        BY <2>3, <3>1, <4>1, <2>2
    <3>4. CASE k < j
      <4>1. k \in B(j)
        BY <1>5, <1>7, <3>2, <3>4
      <4> QED
        BY <2>1, <2>2, <2>3, <3>1, <4>1
    <3> QED
      BY <3>3, <3>4
  <2>4. ASSUME FirstPos(d, j) = NextPos(d, k) PROVE FALSE
    <3>1. FirstPos(d, j) \in C(j) /\ \A m \in C(j) : m <= FirstPos(d, j)
      BY <1>6, <1>10, <2>4
    <3>2. d[k].up = j
      BY <1>2, <2>2, <2>4, <3>1
    <3>3. k \in C(j)
      BY <1>5, <3>2
    <3> QED
      BY <2>1, <2>2, <2>4, <3>1, <3>3
  <2> QED
    BY <2>2, <2>3, <2>4
<1> QED
  BY <1>8, <1>9, <1>10

\* The pointers lead from the first entry to all: of those left out, take the
\* last one on the device described first, which the entry before it on that
\* list leads to.
LEMMA PositionsConnected ==
  ASSUME NEW d, IsDescription(d), NEW S \in SUBSET (1 .. Len(d)), 1 \in S,
         \A k \in S : /\ FirstPos(d, k) # NULL => FirstPos(d, k) \in S
                      /\ NextPos(d, k) # NULL => NextPos(d, k) \in S
  PROVE  S = 1 .. Len(d)
<1> DEFINE M == (1 .. Len(d)) \ S
<1> SUFFICES ASSUME M # {} PROVE FALSE
  OBVIOUS
<1>1. /\ Len(d) \in Nat
      /\ \A i \in 1 .. Len(d) : d[i].up \in 0 .. Len(d) /\ d[i].up < i
      /\ \A i \in 2 .. Len(d) : d[i].up >= 1
  <2>1. \A i \in 2 .. Len(d) : d[i].up \in 1 .. i - 1
    BY DEF IsDescription
  <2> QED
    BY <2>1, EntryOf
<1> DEFINE U == {d[k].up : k \in M}
<1>2. PICK u \in U : \A v \in U : u <= v
  <2>1. U \in SUBSET Nat /\ U # {}
    BY <1>1
  <2> HIDE DEF U
  <2> QED
    BY <2>1, Least
<1> DEFINE K == {k \in M : d[k].up = u}
<1>3. PICK k \in K : \A m \in K : m <= k
  <2>1. K \in SUBSET (0 .. Len(d)) /\ K # {}
    OBVIOUS
  <2> HIDE DEF K
  <2> QED
    BY <1>1, <2>1, Greatest
<1>4. /\ k \in 2 .. Len(d) /\ k \notin S /\ d[k].up = u
      /\ u \in 1 .. Len(d) /\ u < k
  <2>1. k \in 1 .. Len(d) /\ k \notin S /\ d[k].up = u
    OBVIOUS
  <2>2. k # 1
    BY <2>1
  <2>3. k \in 2 .. Len(d)
    BY <1>1, <2>1, <2>2
  <2> QED
    BY <1>1, <2>1, <2>3
<1>5. u \in S
  <2>1. ASSUME u \notin S PROVE FALSE
    <3>1. d[u].up \in U
      BY <1>4, <2>1
    <3>2. d[u].up < u /\ d[u].up \in Nat
      BY <1>1, <1>4
    <3>3. u <= d[u].up
      BY <1>2, <3>1
    <3> QED
      BY <1>4, <3>2, <3>3
  <2> QED
    BY <2>1
<1> DEFINE C == Children(d, u)
<1>6. C \in SUBSET (1 .. Len(d)) /\ k \in C /\ \A m \in C : d[m].up = u /\ m \in Nat
  BY <1>4 DEF Children
<1>7. FirstPos(d, u) \in C /\ k < FirstPos(d, u)
  <2>1. FirstPos(d, u) = Largest(C)
    BY DEF FirstPos
  <2> HIDE DEF C
  <2>0. /\ Largest(C) \in C \cup {NULL}
        /\ Largest(C) = NULL <=> C = {}
        /\ \A m \in C : m <= Largest(C)
    BY <1>1, <1>6, LargestOf
  <2>2. FirstPos(d, u) \in C /\ FirstPos(d, u) # NULL /\ k <= FirstPos(d, u)
    BY <1>6, <2>0, <2>1
  <2>3. FirstPos(d, u) \in S
    BY <1>5, <2>2
  <2>4. FirstPos(d, u) # k /\ FirstPos(d, u) \in Nat
    BY Zenon, <1>4, <1>6, <2>2, <2>3
  <2> QED
    BY <1>4, <2>2, <2>4
<1> HIDE DEF C
<1> DEFINE J == {j \in C : k < j}
<1>8. PICK j \in J : \A m \in J : j <= m
  <2>0. FirstPos(d, u) \in J
    BY Zenon, <1>7
  <2>1. J \in SUBSET Nat /\ J # {}
    BY Zenon, <1>6, <2>0
  <2> HIDE DEF J
  <2> QED
    BY <2>1, Least
<1>9. j \in C /\ k < j /\ j \in 1 .. Len(d) /\ d[j].up = u
  BY <1>6, <1>8
<1>10. j \in S
  <2>1. ASSUME j \notin S PROVE FALSE
    <3>1. j \in K
      BY <1>9, <2>1
    <3>2. j <= k
      BY <1>3, <3>1
    <3> QED
      BY <1>4, <1>9, <3>2
  <2> QED
    BY <2>1
<1> DEFINE B == {m \in C : m < j}
<1>11. NextPos(d, j) = Largest(B)
  BY <1>4, <1>9 DEF NextPos, NULL, C
<1>12. /\ Largest(B) \in B /\ Largest(B) # NULL
       /\ k <= Largest(B)
  <2>1. B \in SUBSET (1 .. Len(d)) /\ k \in B
    BY <1>6, <1>9
  <2> HIDE DEF B
  <2>2. /\ Largest(B) \in B \cup {NULL}
        /\ Largest(B) = NULL <=> B = {}
        /\ \A m \in B : m <= Largest(B)
    BY <1>1, <2>1, LargestOf
  <2> QED
    BY <2>1, <2>2
<1>13. Largest(B) = k
  <2> DEFINE x == Largest(B)
  <2>0. x \in C /\ x < j
    BY Zenon, <1>12
  <2>1. x \in C /\ x < j /\ k <= x /\ x \in Nat
    BY Zenon, <1>6, <1>12, <2>0
  <2> HIDE DEF x
  <2>2. ASSUME k < x PROVE FALSE
    <3>1. x \in J
      BY <2>1, <2>2
    <3>2. j <= x
      BY <1>8, <3>1
    <3> QED
      BY <1>9, <2>1, <3>2
  <2>3. x = k
    BY <1>4, <2>1, <2>2
  <2> QED
    BY <2>3 DEF x
<1> QED
  BY <1>4, <1>10, <1>11, <1>12, <1>13

------------------------------------------------------------------------------
\* Building a tree

\* The pointers of the nodes built, and of the others.
LEMMA BuiltAt ==
  ASSUME NEW base \in Nat, NEW d, IsDescription(d), base + Len(d) <= MaxNodes, NEW f
  PROVE  /\ \A k \in 1 .. Len(d) :
              /\ base + k \in Node
              /\ BuiltParent(f, base, d)[base + k] = Shifted(base, d[k].up)
              /\ BuiltFirst(f, base, d)[base + k] = Shifted(base, FirstPos(d, k))
              /\ BuiltNext(f, base, d)[base + k] = Shifted(base, NextPos(d, k))
         /\ \A n \in Node : n <= base =>
              /\ BuiltParent(f, base, d)[n] = f[n]
              /\ BuiltFirst(f, base, d)[n] = f[n]
              /\ BuiltNext(f, base, d)[n] = f[n]
<1>1. Len(d) \in Nat /\ MaxNodes \in Nat
  BY EntryOf, Bound
<1>2. ASSUME NEW k \in 1 .. Len(d)
      PROVE  base + k \in Node /\ (base + k) - base = k
  BY <1>1 DEF Node
<1>3. ASSUME NEW n \in Node, n <= base PROVE n - base \notin 1 .. Len(d)
  BY <1>1, <1>3 DEF Node
<1>4. ASSUME NEW k \in 1 .. Len(d)
      PROVE  BuiltNext(f, base, d)[base + k] = Shifted(base, NextPos(d, k))
  <2>1. Shifted(base, NULL) = NULL
    BY DEF Shifted
  <2> QED
    BY <1>2, <2>1 DEF BuiltNext, Built, NextPos, NULL
<1>5. ASSUME NEW k \in 1 .. Len(d)
      PROVE  /\ BuiltParent(f, base, d)[base + k] = Shifted(base, d[k].up)
             /\ BuiltFirst(f, base, d)[base + k] = Shifted(base, FirstPos(d, k))
  BY <1>2 DEF BuiltParent, BuiltFirst, Built, FirstPos
<1>6. ASSUME NEW n \in Node, n <= base
      PROVE  /\ BuiltParent(f, base, d)[n] = f[n]
             /\ BuiltFirst(f, base, d)[n] = f[n]
             /\ BuiltNext(f, base, d)[n] = f[n]
  BY <1>3, <1>6 DEF BuiltParent, BuiltFirst, BuiltNext, Built
<1> QED
  BY <1>2, <1>4, <1>5, <1>6

\* The pointers P, F and X of the nodes N stay within N and agree with one
\* another; top has no parent and no sibling.
WellBuilt(top, N, P, F, X) ==
  /\ top \in N /\ P[top] = NULL /\ X[top] = NULL
  /\ \A n \in N : P[n] = NULL => n = top
  /\ \A n \in N : F[n] # NULL => F[n] \in N \ {top} /\ P[F[n]] = n
  /\ \A n \in N : X[n] # NULL => X[n] \in N \ {top} /\ P[X[n]] = P[n]
  /\ \A n, m \in N : X[n] # NULL => /\ X[m] = X[n] => m = n
                                  /\ F[m] # X[n]

\* What is built is linked, from its first node.
LEMMA BuiltLinked ==
  ASSUME NEW base \in Nat, NEW d, IsDescription(d), base + Len(d) <= MaxNodes,
         NEW p, NEW f, NEW x
  PROVE  WellBuilt(base + 1, base + 1 .. base + Len(d), BuiltParent(p, base, d),
                   BuiltFirst(f, base, d), BuiltNext(x, base, d))
<1> DEFINE P == BuiltParent(p, base, d)
           F == BuiltFirst(f, base, d)
           X == BuiltNext(x, base, d)
           N == base + 1 .. base + Len(d)
<1>1. Len(d) \in Nat /\ Len(d) >= 1 /\ d[1].up = NULL
      /\ \A k \in 2 .. Len(d) : d[k].up \in 1 .. k - 1
  BY EntryOf DEF IsDescription, NULL
<1> DEFINE L == 1 .. Len(d)
<1>2. ASSUME NEW n \in N PROVE n - base \in L /\ base + (n - base) = n
  BY <1>1
<1>3. \A k \in L : /\ P[base + k] = Shifted(base, d[k].up)
                   /\ F[base + k] = Shifted(base, FirstPos(d, k))
                   /\ X[base + k] = Shifted(base, NextPos(d, k))
  BY BuiltAt
<1> HIDE DEF P, F, X
<1>4. \A k \in L :
        /\ FirstPos(d, k) # NULL => FirstPos(d, k) \in 2 .. Len(d) /\ d[FirstPos(d, k)].up = k
        /\ NextPos(d, k) # NULL =>
             NextPos(d, k) \in 2 .. Len(d) /\ d[NextPos(d, k)].up = d[k].up
  BY PositionsLinked
<1>5. \A k, j \in L : NextPos(d, k) # NULL =>
        /\ NextPos(d, j) = NextPos(d, k) => j = k
        /\ FirstPos(d, j) # NextPos(d, k)
  BY PositionsLinked
<1>6. /\ \A k \in L : Shifted(base, k) = base + k /\ base + k # NULL /\ base + k \in N
      /\ Shifted(base, NULL) = NULL
  BY <1>1 DEF Shifted, NULL
<1>7. \A k, j \in L \cup {NULL} : Shifted(base, k) = Shifted(base, j) => k = j
  BY <1>1 DEF Shifted, NULL
<1>8. \A k \in L : FirstPos(d, k) \in L \cup {NULL} /\ NextPos(d, k) \in L \cup {NULL}
                 /\ d[k].up \in L \cup {NULL}
  <2>1. \A k \in L : k = 1 \/ k \in 2 .. Len(d)
    BY <1>1
  <2>2. 2 .. Len(d) \subseteq L /\ \A k \in L : 1 .. k - 1 \subseteq L
    BY <1>1
  <2> QED
    BY <1>1, <1>4, <2>1, <2>2
<1>9. NextPos(d, 1) = NULL /\ 1 \in L
  BY <1>1, PositionsLinked
<1>10. base + 1 \in N /\ P[base + 1] = NULL /\ X[base + 1] = NULL
  BY <1>1, <1>3, <1>6, <1>9
<1>11. ASSUME NEW n \in N, P[n] = NULL PROVE n = base + 1
  <2>1. PICK k \in L : n = base + k
    BY <1>2
  <2>2. d[k].up = NULL
    BY <1>3, <1>6, <1>7, <1>8, <1>11, <2>1
  <2>3. k = 1
    BY <1>1, <2>2 DEF NULL
  <2> QED
    BY <2>1, <2>3
<1>12. ASSUME NEW n \in N, F[n] # NULL PROVE F[n] \in N \ {base + 1} /\ P[F[n]] = n
  <2>1. PICK k \in L : n = base + k
    BY <1>2
  <2>2. FirstPos(d, k) # NULL
    BY <1>3, <1>6, <1>12, <2>1
  <2>3. PICK j \in L : j = FirstPos(d, k) /\ j # 1 /\ d[j].up = k
    BY <1>4, <1>8, <2>2
  <2>4. F[n] = base + j /\ P[base + j] = base + k
    BY <1>3, <1>6, <2>1, <2>3
  <2> QED
    BY <1>6, <2>1, <2>3, <2>4
<1>13. ASSUME NEW n \in N, X[n] # NULL PROVE X[n] \in N \ {base + 1} /\ P[X[n]] = P[n]
  <2>1. PICK k \in L : n = base + k
    BY <1>2
  <2>2. NextPos(d, k) # NULL
    BY <1>3, <1>6, <1>13, <2>1
  <2>3. PICK j \in L : j = NextPos(d, k) /\ j # 1 /\ d[j].up = d[k].up
    BY <1>4, <1>8, <2>2
  <2>4. X[n] = base + j /\ P[base + j] = P[base + k]
    BY <1>3, <1>6, <2>1, <2>3
  <2> QED
    BY <1>6, <2>1, <2>3, <2>4
<1>14. ASSUME NEW n \in N, NEW m \in N, X[n] # NULL
       PROVE  (X[m] = X[n] => m = n) /\ F[m] # X[n]
  <2>1. PICK k \in L : n = base + k
    BY <1>2
  <2>2. PICK j \in L : m = base + j
    BY <1>2
  <2>3. NextPos(d, k) # NULL
    BY <1>3, <1>6, <1>14, <2>1
  <2>4. /\ X[n] = Shifted(base, NextPos(d, k)) /\ X[m] = Shifted(base, NextPos(d, j))
        /\ F[m] = Shifted(base, FirstPos(d, j))
    BY Zenon, <1>3, <2>1, <2>2
  <2>5. /\ NextPos(d, k) \in L \cup {NULL} /\ NextPos(d, j) \in L \cup {NULL}
        /\ FirstPos(d, j) \in L \cup {NULL}
    BY Zenon, <1>8
  <2>6. ASSUME X[m] = X[n] PROVE m = n
    BY Zenon, <1>5, <1>7, <2>1, <2>2, <2>3, <2>4, <2>5, <2>6
  <2>7. F[m] # X[n]
    BY Zenon, <1>5, <1>7, <2>3, <2>4, <2>5
  <2> QED
    BY <2>6, <2>7
<1>16. /\ \A n \in N : P[n] = NULL => n = base + 1
       /\ \A n \in N : F[n] # NULL => F[n] \in N \ {base + 1} /\ P[F[n]] = n
       /\ \A n \in N : X[n] # NULL => X[n] \in N \ {base + 1} /\ P[X[n]] = P[n]
  BY Zenon, <1>11, <1>12, <1>13
<1>17. \A n, m \in N : X[n] # NULL => /\ X[m] = X[n] => m = n
                                     /\ F[m] # X[n]
  BY Zenon, <1>14
<1>18. WellBuilt(base + 1, N, P, F, X)
  BY Zenon, <1>10, <1>16, <1>17 DEF WellBuilt
<1> QED
  BY <1>18 DEF P, F, X

\* And its first node leads to all of it.
LEMMA BuiltConnected ==
  ASSUME NEW base \in Nat, NEW d, IsDescription(d), base + Len(d) <= MaxNodes,
         NEW f, NEW x
  PROVE  Connected(base + 1, base + 1 .. base + Len(d), BuiltFirst(f, base, d),
                   BuiltNext(x, base, d))
<1> DEFINE F == BuiltFirst(f, base, d)
           X == BuiltNext(x, base, d)
           N == base + 1 .. base + Len(d)
<1>0. SUFFICES ASSUME NEW S \in SUBSET N, base + 1 \in S,
                      \A n \in S : /\ F[n] \in N => F[n] \in S
                                   /\ X[n] \in N => X[n] \in S
               PROVE  S = N
  BY DEF Connected
<1> DEFINE L == 1 .. Len(d)
           T == {k \in L : base + k \in S}
<1>1. Len(d) \in Nat /\ Len(d) >= 1 /\ 1 \in L
  BY EntryOf
<1>2. ASSUME NEW n \in N PROVE n - base \in L /\ base + (n - base) = n
  BY <1>1
<1>3. \A k \in L : /\ F[base + k] = Shifted(base, FirstPos(d, k))
                   /\ X[base + k] = Shifted(base, NextPos(d, k))
  BY BuiltAt
<1> HIDE DEF F, X
<1>4. \A k \in L : Shifted(base, k) = base + k /\ base + k \in N
  BY <1>1 DEF Shifted, NULL
<1>5. \A k \in L : /\ FirstPos(d, k) # NULL => FirstPos(d, k) \in L
                   /\ NextPos(d, k) # NULL => NextPos(d, k) \in L
  <2>1. 2 .. Len(d) \subseteq L
    BY <1>1
  <2> QED
    BY <2>1, PositionsLinked
<1>6. 1 \in T /\ T \in SUBSET L
  BY <1>0, <1>1
<1>7. ASSUME NEW k \in T, FirstPos(d, k) # NULL PROVE FirstPos(d, k) \in T
  <2>1. FirstPos(d, k) \in L
    BY <1>5, <1>7
  <2>2. F[base + k] = base + FirstPos(d, k) /\ base + FirstPos(d, k) \in N
    BY <1>3, <1>4, <2>1
  <2> QED
    BY <1>0, <2>1, <2>2
<1>8. ASSUME NEW k \in T, NextPos(d, k) # NULL PROVE NextPos(d, k) \in T
  <2>1. NextPos(d, k) \in L
    BY <1>5, <1>8
  <2>2. X[base + k] = base + NextPos(d, k) /\ base + NextPos(d, k) \in N
    BY <1>3, <1>4, <2>1
  <2> QED
    BY <1>0, <2>1, <2>2
<1> HIDE DEF T
<1>9. T = L
  BY <1>6, <1>7, <1>8, PositionsConnected
<1>10. \A n \in N : n \in S
  BY <1>2, <1>9 DEF T
<1> QED
  BY <1>10

\* The map a session is opened with.
LEMMA InitLinked == Init => Linked
<1> SUFFICES ASSUME NEW profile \in Profiles, Open(profile) PROVE Linked
  BY DEF Init
<1> DEFINE d == profile.device_map
           none == [n \in Node |-> NULL]
           N == 0 + 1 .. 0 + Len(d)
<1>1. /\ live = 1 .. Len(d) /\ parent = BuiltParent(none, 0, d)
      /\ first_child = BuiltFirst(none, 0, d) /\ next_sibling = BuiltNext(none, 0, d)
  BY DEF Open
<1>2. IsDescription(d) /\ Len(d) <= MaxNodes
  BY Descriptions
<1> HIDE DEF d, none
<1>3. Len(d) \in Nat
  BY <1>2, EntryOf
<1>4. live = N /\ 0 + 1 = Root
  BY <1>1, <1>3 DEF Root
<1> HIDE DEF N
<1>5. 0 \in Nat /\ 0 + Len(d) <= MaxNodes
  BY <1>2, <1>3
<1>6. WellBuilt(Root, live, parent, first_child, next_sibling)
  <2>1. WellBuilt(0 + 1, 0 + 1 .. 0 + Len(d), BuiltParent(none, 0, d),
                  BuiltFirst(none, 0, d), BuiltNext(none, 0, d))
    BY <1>2, <1>5, BuiltLinked
  <2> QED
    BY Zenon, <1>1, <1>4, <2>1 DEF N
<1>7. Connected(Root, live, first_child, next_sibling)
  <2>1. Connected(0 + 1, 0 + 1 .. 0 + Len(d), BuiltFirst(none, 0, d),
                  BuiltNext(none, 0, d))
    BY <1>2, <1>5, BuiltConnected
  <2> QED
    BY Zenon, <1>1, <1>4, <2>1 DEF N
<1> QED
  BY <1>6, <1>7 DEF Linked, WellBuilt

\* A device that is added becomes the first child of its parent.
LEMMA AddLinked ==
  ASSUME IInv, Linked, NEW d \in Additions, NEW name \in Names, AddDevice(d, name)
  PROVE  Linked'
<1> DEFINE top == used + 1
           N == used + 1 .. used + Len(d)
           P == BuiltParent(parent, used, d)
           F == BuiltFirst(first_child, used, d)
           X == BuiltNext(next_sibling, used, d)
<1>1. PICK p \in live :
        /\ parent' = [P EXCEPT ![top] = p]
        /\ next_sibling' = InsertFirst(X, p, top)
        /\ first_child' = [F EXCEPT ![p] = top]
  BY DEF AddDevice
<1>2. /\ used \in Nat /\ used + Len(d) <= MaxNodes /\ IsDescription(d)
      /\ live' = live \cup N
  BY Descriptions DEF AddDevice, IInv, Counts
<1>3. /\ Len(d) \in Nat /\ Len(d) >= 1
      /\ \A m \in live : m \in Node /\ m <= used /\ m \notin N /\ m # top
      /\ \A m \in N : m \in Node
      /\ NULL \notin live /\ NULL \notin N /\ Root \in live /\ top \in N
  <2>1. Len(d) \in Nat /\ Len(d) >= 1
    BY <1>2, EntryOf
  <2>2. \A m \in live : m \in Node /\ m \in 1 .. used
    BY Numbers DEF IInv, Counts
  <2> QED
    BY <1>2, <2>1, <2>2, Bound DEF Linked, Node, NULL
<1>4. \A m \in live : /\ P[m] = parent[m] /\ F[m] = first_child[m]
                      /\ X[m] = next_sibling[m]
  BY <1>2, <1>3, BuiltAt
<1>5. WellBuilt(top, N, P, F, X) /\ Connected(top, N, F, X)
  BY <1>2, BuiltLinked, BuiltConnected
<1>6. DOMAIN P = Node /\ DOMAIN F = Node /\ DOMAIN X = Node
  BY DEF BuiltParent, BuiltFirst, BuiltNext, Built
<1> HIDE DEF P, F, X
<1>7. /\ X[top] = NULL
      /\ \A n \in N : P[n] = NULL => n = top
      /\ \A n \in N : F[n] # NULL => F[n] \in N \ {top} /\ P[F[n]] = n
      /\ \A n \in N : X[n] # NULL => X[n] \in N \ {top} /\ P[X[n]] = P[n]
      /\ \A n, m \in N : X[n] # NULL => /\ X[m] = X[n] => m = n
                                      /\ F[m] # X[n]
  BY Zenon, <1>5 DEF WellBuilt
<1>8. \A m \in live' :
        /\ parent'[m] = IF m = top THEN p ELSE P[m]
        /\ first_child'[m] = IF m = p THEN top ELSE F[m]
        /\ next_sibling'[m] = IF m = top THEN first_child[p] ELSE X[m]
  BY <1>1, <1>2, <1>3, <1>7, <1>6 DEF InsertFirst
<1> HIDE DEF N, top
<1>9. /\ Root \in live' /\ parent'[Root] = NULL /\ next_sibling'[Root] = NULL
      /\ \A m \in live' : parent'[m] = NULL => m = Root
  BY <1>2, <1>3, <1>4, <1>7, <1>8 DEF Linked
<1>10. ASSUME NEW m \in live', first_child'[m] # NULL
       PROVE  first_child'[m] \in live' /\ parent'[first_child'[m]] = m
  <2>1. CASE m = p
    BY <1>2, <1>3, <1>8, <2>1
  <2>2. CASE m \in live /\ m # p
    BY <1>2, <1>3, <1>4, <1>8, <1>10, <2>2 DEF Linked
  <2>3. CASE m \in N
    BY <1>2, <1>3, <1>7, <1>8, <1>10, <2>3
  <2> QED
    BY <1>2, <2>1, <2>2, <2>3
<1>11. ASSUME NEW m \in live', next_sibling'[m] # NULL
       PROVE  next_sibling'[m] \in live' /\ parent'[next_sibling'[m]] = parent'[m]
  <2>1. CASE m = top
    BY <1>2, <1>3, <1>4, <1>8, <1>11, <2>1 DEF Linked
  <2>2. CASE m \in live
    BY <1>2, <1>3, <1>4, <1>8, <1>11, <2>2 DEF Linked
  <2>3. CASE m \in N /\ m # top
    BY <1>2, <1>3, <1>7, <1>8, <1>11, <2>3
  <2> QED
    BY <1>2, <2>1, <2>2, <2>3
<1>12. ASSUME NEW m \in live', NEW k \in live', next_sibling'[m] # NULL
       PROVE  /\ next_sibling'[k] = next_sibling'[m] => k = m
              /\ first_child'[k] # next_sibling'[m]
  <2>0. /\ \A i \in live : first_child[i] \in live \cup {NULL}
        /\ \A i \in live : next_sibling[i] \in live \cup {NULL}
        /\ \A i \in N : F[i] \in (N \cup {NULL}) \ {top}
        /\ \A i \in N : X[i] \in (N \cup {NULL}) \ {top}
    BY <1>3, <1>7 DEF Linked
  <2>1. CASE m = top
    BY <1>2, <1>3, <1>4, <1>8, <1>12, <2>0, <2>1 DEF Linked
  <2>2. CASE m \in live
    BY <1>2, <1>3, <1>4, <1>8, <1>12, <2>0, <2>2 DEF Linked
  <2>3. CASE m \in N /\ m # top
    BY <1>2, <1>3, <1>4, <1>7, <1>8, <1>12, <2>0, <2>3
  <2> QED
    BY <1>2, <2>1, <2>2, <2>3
<1>13. ASSUME NEW S \in SUBSET live', Root \in S,
              \A m \in S :
                /\ first_child'[m] \in live' => first_child'[m] \in S
                /\ next_sibling'[m] \in live' => next_sibling'[m] \in S
       PROVE  S = live'
  <2>1. S \cap live = live
    <3> DEFINE T == S \cap live
    <3>1. T \in SUBSET live /\ Root \in T
      BY <1>3, <1>13
    <3>2. \A m \in T : first_child[m] \in live => first_child[m] \in T
      BY <1>2, <1>3, <1>4, <1>8, <1>13
    <3>3. \A m \in T : next_sibling[m] \in live => next_sibling[m] \in T
      BY <1>2, <1>3, <1>4, <1>8, <1>13
    <3> HIDE DEF T
    <3>4. T = live
      BY <3>1, <3>2, <3>3, NoneIsLeftOut
    <3> QED
      BY <3>4 DEF T
  <2>2. top \in S
    BY <1>2, <1>3, <1>8, <1>13, <2>1
  <2>3. S \cap N = N
    <3> DEFINE T == S \cap N
    <3>1. T \in SUBSET N /\ top \in T
      BY <1>3, <2>2
    <3>2. \A m \in T : (F[m] \in N => F[m] \in T) /\ (X[m] \in N => X[m] \in T)
      BY <1>2, <1>3, <1>7, <1>8, <1>13
    <3> HIDE DEF T
    <3>3. T = N
      BY <1>5, <3>1, <3>2 DEF Connected
    <3> QED
      BY <3>3 DEF T
  <2> QED
    BY <1>2, <2>1, <2>3
<1>14. Connected(Root, live', first_child', next_sibling')
  BY <1>13 DEF Connected
<1> QED
  BY <1>9, <1>10, <1>11, <1>12, <1>14 DEF Linked

------------------------------------------------------------------------------
\* Every step

\* Only the two messages touch the tree, and nobody changes which device is
\* the emulated one.
LEMMA TreeSteps ==
  ASSUME [Next]_vars
  PROVE  /\ \/ UNCHANGED treeVars
            \/ \E d \in Additions, name \in Names : AddDevice(d, name)
            \/ \E n \in Listed(first_child[Root]) : Removes(n)
         /\ emulated_device' = emulated_device
         /\ fault' # fault => TouchEmulated
<1>1. CASE Visit
  BY <1>1 DEF Visit, AllocateLogical, halVars, TouchEmulated
<1>2. CASE openEnd \/ Announce
  BY <1>2 DEF openEnd, Announce, halVars
<1>3. ASSUME NEW d \in Additions, NEW name \in Names, AddDevice(d, name)
      PROVE  emulated_device' = emulated_device /\ fault' = fault
  BY <1>3 DEF AddDevice, halVars
<1>4. ASSUME NEW name \in Names, RemoveDevice(name)
      PROVE  emulated_device' = emulated_device /\ fault' = fault
  BY <1>4 DEF RemoveDevice, halVars
<1>5. CASE Application
  BY <1>5 DEF Application, HdmiCecAddLogicalAddress, HdmiCecRemoveLogicalAddress, HalReads,
    halVars
<1>6. CASE UNCHANGED vars
  BY <1>6 DEF vars, halVars
<1> QED
  BY <1>1, <1>2, <1>3, <1>4, <1>5, <1>6, RemoveFinds DEF Next, Handler, Messages

\* Each of them leaves the tree linked.
LEMMA StepLinked == IInv /\ Linked /\ [Next]_vars => Linked'
<1> SUFFICES ASSUME IInv, Linked, [Next]_vars PROVE Linked'
  OBVIOUS
<1>1. CASE UNCHANGED treeVars
  BY <1>1 DEF treeVars, Linked, Connected
<1>2. CASE \E d \in Additions, name \in Names : AddDevice(d, name)
  BY <1>2, AddLinked
<1>3. CASE \E n \in Listed(first_child[Root]) : Removes(n)
  BY <1>3, RemoveLinked
<1> QED
  BY <1>1, <1>2, <1>3, TreeSteps

\* So it always is.
THEOREM LinkedAlways == Spec => []Linked
BY InitLinked, StepLinked, InitIInv, StepIInv, PTL DEF Spec

------------------------------------------------------------------------------
\* The properties

\* In a linked tree a device other than the root has one predecessor: the
\* brother before it, or its parent if it is the first.
LEMMA OnePredecessor ==
  ASSUME IInv, Linked, NEW n \in live
  PROVE  Cardinality({m \in live : first_child[m] = n})
           + Cardinality({m \in live : next_sibling[m] = n})
         = IF n = Root THEN 0 ELSE 1
<1> DEFINE P == {m \in live : first_child[m] = n}
           B == {m \in live : next_sibling[m] = n}
<1>1. NULL \notin live /\ NULL # Root /\ Root \in live
  BY Numbers DEF IInv, Linked
<1>2. CASE n = Root
  <2>1. P = {} /\ B = {}
    BY <1>1, <1>2 DEF Linked
  <2> QED
    BY <1>2, <2>1, FS_EmptySet
<1>3. CASE n # Root
  <2>1. \E m \in live : first_child[m] = n \/ next_sibling[m] = n
    <3> SUFFICES ASSUME \A m \in live : first_child[m] # n /\ next_sibling[m] # n
                 PROVE  FALSE
      OBVIOUS
    <3> DEFINE S == live \ {n}
    <3>1. S \in SUBSET live /\ Root \in S
      BY <1>1, <1>3
    <3>2. \A m \in S : /\ first_child[m] \in live => first_child[m] \in S
                       /\ next_sibling[m] \in live => next_sibling[m] \in S
      OBVIOUS
    <3> HIDE DEF S
    <3>3. S = live
      BY <3>1, <3>2, NoneIsLeftOut
    <3> QED
      BY <3>3 DEF S
  <2>2. \/ B = {} /\ \E m : P = {m}
        \/ P = {} /\ \E m : B = {m}
    <3>1. ASSUME NEW m \in live, first_child[m] = n PROVE P = {m} /\ B = {}
      <4>1. \A k \in live : first_child[k] = n => k = m
        BY <1>1, <3>1 DEF Linked
      <4>2. \A k \in live : next_sibling[k] # n
        BY <1>1, <3>1 DEF Linked
      <4> QED
        BY <3>1, <4>1, <4>2
    <3>2. ASSUME NEW m \in live, next_sibling[m] = n PROVE B = {m} /\ P = {}
      <4>1. \A k \in live : next_sibling[k] = n => k = m
        BY <1>1, <3>2 DEF Linked
      <4>2. \A k \in live : first_child[k] # n
        BY <1>1, <3>2 DEF Linked
      <4> QED
        BY <3>2, <4>1, <4>2
    <3> QED
      BY <2>1, <3>1, <3>2
  <2> HIDE DEF P, B
  <2>3. \/ Cardinality(B) = 0 /\ Cardinality(P) = 1
        \/ Cardinality(P) = 0 /\ Cardinality(B) = 1
    BY <2>2, FS_EmptySet, FS_Singleton
  <2> QED
    BY <1>3, <2>3 DEF P, B
<1> QED
  BY <1>2, <1>3

\* Whatever devices AddDevice puts in and RemoveDevice takes out, the map is
\* a tree without dangling pointers in which every device hangs once.
THEOREM TreeCorrect == Spec => []TreeSound
<1>1. IInv /\ Linked => TreeSound
  <2> SUFFICES ASSUME IInv, Linked PROVE TreeSound
    OBVIOUS
  <2>1. Destroyed(Root, first_child, next_sibling) = live
    BY ConnectedReaches DEF Linked
  <2>2. /\ Root \in live
        /\ \A n \in live :
             /\ first_child[n] # NULL =>
                  first_child[n] \in live /\ parent[first_child[n]] = n
             /\ next_sibling[n] # NULL =>
                  next_sibling[n] \in live /\ parent[next_sibling[n]] = parent[n]
    BY DEF Linked
  <2> QED
    BY <2>1, <2>2, OnePredecessor DEF TreeSound
<1> QED
  BY <1>1, Inductive, LinkedAlways, PTL

\* RemoveDevice frees a child of the root with everything below it, and
\* nothing else: the brothers of the removed device stay.
RemovesOneSubtree ==
  [][LET gone == live \ live' IN
       gone # {} =>
         /\ \E top \in gone :
              /\ parent[top] = Root
              /\ \A n \in gone \ {top} : parent[n] \in gone
         /\ \A n \in live' : parent[n] \notin gone]_vars

\* So it is, and no other message frees anything.
THEOREM RemovalCorrect == Spec => RemovesOneSubtree
<1> DEFINE gone == live \ live'
           Subtree == gone # {} =>
                        /\ \E top \in gone :
                             /\ parent[top] = Root
                             /\ \A n \in gone \ {top} : parent[n] \in gone
                        /\ \A n \in live' : parent[n] \notin gone
<1>1. IInv /\ Linked /\ [Next]_vars => Subtree
  <2> SUFFICES ASSUME IInv, Linked, [Next]_vars PROVE Subtree
    OBVIOUS
  <2>1. CASE UNCHANGED treeVars
    BY <2>1 DEF treeVars
  <2>2. CASE \E d \in Additions, name \in Names : AddDevice(d, name)
    BY <2>2 DEF AddDevice
  <2>3. ASSUME NEW n \in Listed(first_child[Root]), Removes(n) PROVE Subtree
    <3> DEFINE D == Destroyed(n, first_child, Unlinked(n))
    <3>1. /\ n \in live /\ parent[n] = Root /\ n \in D /\ D \subseteq live
          /\ \A m \in D \ {n} : parent[m] \in D
          /\ \A m \in live \ D : parent[m] \notin D
      BY Zenon, GoneIsSubtree
    <3>2. live' = live \ D
      BY <2>3 DEF Removes
    <3> HIDE DEF D
    <3>3. gone = D
      BY <3>1, <3>2
    <3> QED
      BY <3>1, <3>2, <3>3
  <2> QED
    BY <2>1, <2>2, <2>3, TreeSteps
<1> QED
  BY <1>1, Inductive, LinkedAlways, PTL DEF Spec, RemovesOneSubtree

------------------------------------------------------------------------------
\* DeviceMap implements Network

\* The refinement mapping.
TypeIn == [n \in live |-> info[n].type]
HangsOn == [n \in live |-> parent[n]]
AddressIn == [n \in live |-> logical_address[n]]

\* Where pointers that agree with the parents up lead from top to all of N,
\* all of N hangs on top.
LEMMA AllBelow ==
  ASSUME NEW N, NEW top, NEW up, NEW F, NEW X, Connected(top, N, F, X), top \in N,
         X[top] \notin N,
         \A n \in N : F[n] \in N => up[F[n]] = n,
         \A n \in N : X[n] \in N => up[X[n]] = up[n]
  PROVE  Net!Below(top, N, up) = N
<1>1. ASSUME NEW S \in SUBSET N, top \in S, \A k \in N : up[k] \in S => k \in S
      PROVE  S = N
  <2> DEFINE T == {m \in S : m = top \/ up[m] \in S}
  <2>1. T \in SUBSET N /\ top \in T
    BY <1>1
  <2>2. \A m \in T : (F[m] \in N => F[m] \in T) /\ (X[m] \in N => X[m] \in T)
    BY <1>1
  <2> HIDE DEF T
  <2>3. T = N
    BY <2>1, <2>2 DEF Connected
  <2> QED
    BY <2>3 DEF T
<1> QED
  BY <1>1 DEF Net!Below

\* RemoveDevice frees those that hang on the device it removes.
LEMMA GoneIsBelow ==
  ASSUME IInv, Linked, NEW n \in Listed(first_child[Root]),
         NEW gone, gone = Destroyed(n, first_child, Unlinked(n))
  PROVE  gone = Net!Below(n, live, HangsOn)
<1>0. NULL \notin live /\ \A m \in live : m \in Node
  BY Numbers DEF IInv
<1>1. /\ n \in live /\ parent[n] = Root /\ n \in gone /\ gone \subseteq live
      /\ \A m \in live \ gone : parent[m] \notin gone
  BY Zenon, GoneIsSubtree
<1>2. \A m \in live : HangsOn[m] = parent[m]
  BY DEF HangsOn
<1>3. ASSUME NEW m \in Net!Below(n, live, HangsOn) PROVE m \in gone
  <2>1. gone \in SUBSET live /\ n \in gone
        /\ \A k \in live : HangsOn[k] \in gone => k \in gone
    BY <1>1, <1>2
  <2> QED
    BY <1>3, <2>1 DEF Net!Below
<1>4. ASSUME NEW S \in SUBSET live, n \in S,
             \A k \in live : HangsOn[k] \in S => k \in S
      PROVE  gone \subseteq S
  <2> DEFINE T == {m \in S : m = n \/ parent[m] \in S}
  <2>1. T \in SUBSET live /\ n \in T /\ \A k \in live : parent[k] \in S => k \in T
    BY <1>2, <1>4
  <2>2. ASSUME NEW m \in T, first_child[m] \in live PROVE first_child[m] \in T
    BY <1>0, <2>1, <2>2 DEF Linked
  <2>3. ASSUME NEW m \in T, Unlinked(n)[m] \in live PROVE Unlinked(n)[m] \in T
    <3>1. /\ Unlinked(n)[m] = IF m = n THEN NULL
                              ELSE IF next_sibling[m] = n THEN next_sibling[n]
                              ELSE next_sibling[m]
          /\ m \in live
      BY <1>0, <2>1 DEF Unlinked
    <3>2. m # n /\ parent[Unlinked(n)[m]] = parent[m]
      BY <1>0, <1>1, <2>3, <3>1 DEF Linked
    <3>3. parent[m] \in S
      BY <3>2
    <3> QED
      BY <2>1, <2>3, <3>2, <3>3
  <2> HIDE DEF T
  <2>4. gone \subseteq T
    BY <2>1, <2>2, <2>3, ReachedIsLeast DEF Destroyed
  <2> QED
    BY <2>4 DEF T
<1> QED
  BY <1>1, <1>3, <1>4 DEF Net!Below

\* Only RemoveDevice frees devices, those below a child of the root that has the
\* name it carries.
LEMMA FreedByName ==
  ASSUME IInv, Linked, [Next]_vars, NEW m \in live \ live'
  PROVE  \E top \in live \ live', name \in Names :
           /\ named' = vcDevice_Get(name)
           /\ info[top].name = name
           /\ parent[top] = Root
           /\ m \in Net!Below(top, live, parent)
<1>1. PICK name \in Names : RemoveDevice(name)
  <2>1. \/ live' = live
        \/ \E d \in Additions, name \in Names : AddDevice(d, name)
        \/ \E name \in Names : RemoveDevice(name)
    BY DEF Next, Handler, Messages, Application, Visit, openEnd, Announce, HalReads,
           HdmiCecAddLogicalAddress, HdmiCecRemoveLogicalAddress, treeVars, vars
  <2>2. ASSUME NEW d \in Additions, NEW name \in Names, AddDevice(d, name)
        PROVE  live \subseteq live'
    BY <2>2 DEF AddDevice
  <2> QED
    BY <2>1, <2>2
<1>2. PICK top \in ChildNamed(name) : Removes(top)
  <2>1. live' # live
    OBVIOUS
  <2> QED
    BY <1>1, <2>1 DEF RemoveDevice, Removes, treeVars
<1>3. top \in Listed(first_child[Root]) /\ info[top].name = name
  BY DEF ChildNamed
<1>4. named' = vcDevice_Get(name)
  BY <1>1 DEF RemoveDevice
<1> DEFINE gone == Destroyed(top, first_child, Unlinked(top))
<1>5. live' = live \ gone
  BY <1>2 DEF Removes
<1>6. top \in live /\ parent[top] = Root /\ top \in gone
  BY Zenon, <1>3, GoneIsSubtree
<1>7. gone = Net!Below(top, live, HangsOn)
  BY Zenon, <1>3, GoneIsBelow
<1>8. Net!Below(top, live, HangsOn) = Net!Below(top, live, parent)
  BY DEF Net!Below, HangsOn
<1> HIDE DEF gone
<1>9. m \in Net!Below(top, live, parent) /\ top \in live \ live'
  BY <1>5, <1>6, <1>7, <1>8
<1> QED
  BY <1>3, <1>4, <1>6, <1>9

\* The emulated device, a source behind any number of others too, is freed only
\* by a message that names the device under the root it is connected through;
\* a sink, which is the root, never is.
THEOREM EmulatedCorrect == Spec => EmulatedLeavesOnlyIfNamed
<1> DEFINE Named == \E top \in live \ live', name \in Names :
                      /\ named' = vcDevice_Get(name)
                      /\ info[top].name = name
                      /\ parent[top] = Root
                      /\ emulated_device \in Net!Below(top, live, parent)
           Leaves == emulated_device \in live \ live'
<1>1. IInv /\ Linked /\ [Next]_vars => (Leaves => Named)
  BY FreedByName
<1>2. [][Leaves => Named]_vars => EmulatedLeavesOnlyIfNamed
  BY DEF EmulatedLeavesOnlyIfNamed
<1> HIDE DEF Named, Leaves
<1> QED
  BY <1>1, <1>2, Inductive, LinkedAlways, PTL DEF Spec

\* What a device is given is an address of its type that is not marked, or 15.
LEMMA AllocationFits ==
  ASSUME NEW t \in DeviceType
  PROVE  vcDevice_AllocateLogicalAddress(t) \in
           (Net!AddressesOf(t) \ allocated) \cup {15}
<1> DEFINE s == PossibleAddresses(t)
<1>1. Len(s) \in 1 .. 4 /\ \A i \in 1 .. Len(s) : s[i] \in Net!AddressesOf(t) \cup {15}
  <2>1. CASE t = "TV"
    <3>1. s = <<0, 14>> /\ Net!AddressesOf(t) = {0, 14}
      BY <2>1 DEF PossibleAddresses, Net!AddressesOf
    <3> QED
      BY <3>1
  <2>2. CASE t = "Playback"
    <3>1. s = <<4, 8, 11>> /\ Net!AddressesOf(t) = {4, 8, 11}
      BY <2>2 DEF PossibleAddresses, Net!AddressesOf
    <3> QED
      BY <3>1
  <2>3. CASE t = "AudioSystem"
    <3>1. s = <<5>> /\ Net!AddressesOf(t) = {5}
      BY <2>3 DEF PossibleAddresses, Net!AddressesOf
    <3> QED
      BY <3>1
  <2>4. CASE t = "Recorder"
    <3>1. s = <<1, 2, 9>> /\ Net!AddressesOf(t) = {1, 2, 9}
      BY <2>4 DEF PossibleAddresses, Net!AddressesOf
    <3> QED
      BY <3>1
  <2>5. CASE t = "Tuner"
    <3>1. s = <<3, 6, 7, 10>> /\ Net!AddressesOf(t) = {3, 6, 7, 10}
      BY <2>5 DEF PossibleAddresses, Net!AddressesOf
    <3> QED
      BY <3>1
  <2>6. CASE t = "Other"
    <3>1. s = <<15>>
      BY <2>6 DEF PossibleAddresses, LOGICAL_ADDRESS_UNREGISTERED
    <3> QED
      BY <3>1
  <2> QED
    BY <2>1, <2>2, <2>3, <2>4, <2>5, <2>6 DEF DeviceType
<1> DEFINE S == FreeAddresses(t)
           first == CHOOSE i \in S : \A j \in S : i <= j
<1>2. S = {i \in 1 .. Len(s) : s[i] \notin allocated}
  BY DEF FreeAddresses
<1>3. vcDevice_AllocateLogicalAddress(t) = IF S = {} THEN 15 ELSE s[first]
  BY DEF vcDevice_AllocateLogicalAddress, LOGICAL_ADDRESS_UNREGISTERED
<1>4. S # {} => first \in S
  <2>1. S \in SUBSET (1 .. 4)
    BY <1>1, <1>2
  <2> HIDE DEF S
  <2> QED
    BY <2>1, Smallest
<1> HIDE DEF s, first
<1>5. CASE S = {}
  BY <1>3, <1>5
<1>6. CASE S # {}
  <2>1. first \in 1 .. Len(s) /\ s[first] \notin allocated
    BY <1>2, <1>4, <1>6
  <2> QED
    BY <1>1, <1>3, <1>6, <2>1
<1> QED
  BY <1>5, <1>6

\* The map as it is opened is a network.
LEMMA InitNetwork == Init => Net!Init
<1> SUFFICES ASSUME Init PROVE Net!Init
  OBVIOUS
<1>1. IInv /\ Linked
  BY InitIInv, InitLinked
<1>2. /\ live \subseteq Node /\ NULL \notin live /\ Root \in live /\ parent[Root] = NULL
  BY <1>1, Numbers DEF IInv, Linked
<1>3. HangsOn \in [live -> live \cup {NULL}] /\ HangsOn[Root] = NULL
  BY <1>1, <1>2, ParentLives DEF HangsOn
<1>4. TypeIn \in [live -> Net!DeviceType]
  BY <1>1, <1>2 DEF TypeIn, IInv, Tree, DeviceType, Net!DeviceType
<1>5. Net!Below(Root, live, HangsOn) = live
  <2>1. next_sibling[Root] \notin live
    BY <1>1, <1>2 DEF Linked
  <2>2. \A n \in live : first_child[n] \in live => HangsOn[first_child[n]] = n
    BY <1>1, <1>2 DEF Linked, HangsOn
  <2>3. \A n \in live : next_sibling[n] \in live =>
          HangsOn[next_sibling[n]] = HangsOn[n]
    BY <1>1, <1>2 DEF Linked, HangsOn
  <2>4. Connected(Root, live, first_child, next_sibling)
    BY <1>1 DEF Linked
  <2> QED
    BY <1>2, <2>1, <2>2, <2>3, <2>4, AllBelow
<1>6. AddressIn = [n \in live |-> -1]
  <2>1. \A n \in Node : logical_address[n] = -1
    BY DEF Init, Open, LOGICAL_ADDRESS_UNKNOWN
  <2> QED
    BY <1>2, <2>1 DEF AddressIn
<1> QED
  BY <1>2, <1>3, <1>4, <1>5, <1>6 DEF Net!Init, Net!None, HangsOn, TypeIn, AddressIn

\* A device of the map hangs on one of the map, or is the root.
LEMMA ParentsIn == IInv /\ Linked => \A n \in live : parent[n] \in live \cup {NULL}
BY ParentLives DEF Linked

\* AddDevice is a device, with what hangs on it, that joins.
LEMMA AddJoins ==
  ASSUME IInv, Linked, IInv', Linked', NEW d \in Additions, NEW name \in Names,
         AddDevice(d, name)
  PROVE  \E new \in Node : Net!Join(new)
<1> DEFINE top == used + 1
           N == used + 1 .. used + Len(d)
           P == BuiltParent(parent, used, d)
           F == BuiltFirst(first_child, used, d)
           X == BuiltNext(next_sibling, used, d)
<1>1. PICK p \in live : parent' = [P EXCEPT ![top] = p]
  BY DEF AddDevice
<1>2. /\ used \in Nat /\ used + Len(d) <= MaxNodes /\ IsDescription(d)
      /\ live' = live \cup N /\ info' = BuiltInfo(info, used, d)
      /\ logical_address' = logical_address /\ emulated_device' = emulated_device
  BY Descriptions DEF AddDevice, IInv, Counts, addressVars, halVars
<1>3. /\ Len(d) \in Nat /\ Len(d) >= 1
      /\ \A m \in live : m \in Node /\ m <= used /\ m \notin N /\ m # top
      /\ \A m \in N : m \in Node /\ m > used
      /\ NULL \notin N /\ top \in N
  <2>1. Len(d) \in Nat /\ Len(d) >= 1
    BY <1>2, EntryOf
  <2>2. \A m \in live : m \in Node /\ m \in 1 .. used
    BY Numbers DEF IInv, Counts
  <2> QED
    BY <1>2, <2>1, <2>2, Bound DEF Node, NULL
<1>4. \A m \in live : P[m] = parent[m]
  BY <1>2, <1>3, BuiltAt
<1>5. \A m \in live : info'[m] = info[m]
  <2> SUFFICES ASSUME NEW m \in live PROVE info'[m] = info[m]
    OBVIOUS
  <2>1. m \in Node /\ m - used \notin 1 .. Len(d)
    BY <1>2, <1>3 DEF Node
  <2> QED
    BY <1>2, <2>1 DEF BuiltInfo, Built
<1>6. WellBuilt(top, N, P, F, X) /\ Connected(top, N, F, X)
  BY <1>2, BuiltLinked, BuiltConnected
<1>7. DOMAIN P = Node
  BY DEF BuiltParent, Built
<1> HIDE DEF P, F, X
<1>8. /\ X[top] = NULL
      /\ \A n \in N : F[n] # NULL => F[n] \in N \ {top} /\ P[F[n]] = n
      /\ \A n \in N : X[n] # NULL => X[n] \in N \ {top} /\ P[X[n]] = P[n]
  BY Zenon, <1>6 DEF WellBuilt
<1>9. \A m \in live' : parent'[m] = IF m = top THEN p ELSE P[m]
  BY <1>1, <1>2, <1>3, <1>7
<1> HIDE DEF N, top
<1>10. live' \ live = N
  BY <1>2, <1>3
<1>11. HangsOn' = [n \in live' |-> parent'[n]]
  BY DEF HangsOn
<1>12. Net!Below(top, N, HangsOn') = N
  <2>1. X[top] \notin N /\ top \in N
    BY <1>3, <1>8
  <2>2. \A n \in N : n # top => HangsOn'[n] = P[n]
    BY <1>2, <1>9, <1>11
  <2>3. \A n \in N : F[n] \in N => HangsOn'[F[n]] = n
    BY <1>3, <1>8, <2>2
  <2>4. \A n \in N : X[n] \in N => HangsOn'[X[n]] = HangsOn'[n]
    BY <1>3, <1>8, <2>1, <2>2
  <2> HIDE DEF HangsOn
  <2> QED
    BY <1>6, <2>1, <2>3, <2>4, AllBelow
<1>13. /\ top \notin live /\ top \in live' /\ live \subseteq live' /\ live' \subseteq Node
       /\ HangsOn'[top] \in live
       /\ \A n \in live : TypeIn'[n] = TypeIn[n] /\ HangsOn'[n] = HangsOn[n]
  <2>1. top \in live' /\ live \subseteq live' /\ live' \subseteq Node /\ top \notin live
    BY <1>2, <1>3
  <2>2. \A n \in live' : TypeIn'[n] = info'[n].type /\ HangsOn'[n] = parent'[n]
    BY DEF TypeIn, HangsOn
  <2>3. \A n \in live : TypeIn[n] = info[n].type /\ HangsOn[n] = parent[n]
    BY DEF TypeIn, HangsOn
  <2> QED
    BY <1>3, <1>4, <1>5, <1>9, <2>1, <2>2, <2>3
<1>14. HangsOn' \in [live' -> live' \cup {NULL}]
  <2>1. (\A n \in live : parent[n] \in live \cup {NULL})'
    BY ParentsIn, PTL
  <2> QED
    BY <1>11, <2>1
<1>15. TypeIn' \in [live' -> Net!DeviceType]
  <2>1. \A n \in Node : info'[n].type \in Net!DeviceType
    BY DEF IInv, Tree, DeviceType, Net!DeviceType
  <2> QED
    BY <1>13, <2>1 DEF TypeIn
<1>16. AddressIn' = [n \in live' |-> IF n \in live THEN AddressIn[n] ELSE -1]
  <2>1. \A n \in live' : n \notin live => logical_address'[n] = -1
    BY <1>2, <1>3 DEF IInv, Pool
  <2> QED
    BY <1>2, <2>1 DEF AddressIn
<1>17. PICK new \in Node : new = top
  BY <1>3
<1>18. Net!Join(new)
  BY <1>2, <1>10, <1>12, <1>13, <1>14, <1>15, <1>16, <1>17
    DEF Net!Join, Net!None, HangsOn, TypeIn, AddressIn
<1> QED
  BY <1>18

\* RemoveDevice is a device under the root that leaves.
LEMMA RemoveLeaves ==
  ASSUME IInv, Linked, NEW n \in Listed(first_child[Root]), Removes(n),
         UNCHANGED <<logical_address, emulated_device>>
  PROVE  n \in live /\ Net!Leave(n)
<1> DEFINE gone == Destroyed(n, first_child, Unlinked(n))
<1>1. /\ n \in live /\ parent[n] = Root /\ n \in gone
      /\ gone = Net!Below(n, live, HangsOn)
  BY Zenon, GoneIsSubtree, GoneIsBelow
<1>2. /\ live' = live \ gone /\ UNCHANGED <<info, parent>>
  BY DEF Removes
<1> HIDE DEF gone
<1>3. HangsOn[n] = Root /\ n \notin live' /\ live' = live \ Net!Below(n, live, HangsOn)
  BY <1>1, <1>2 DEF HangsOn
<1>4. /\ TypeIn' = [m \in live' |-> TypeIn[m]]
      /\ HangsOn' = [m \in live' |-> HangsOn[m]]
      /\ AddressIn' = [m \in live' |-> AddressIn[m]]
  BY <1>2 DEF TypeIn, HangsOn, AddressIn
<1> QED
  BY <1>1, <1>3, <1>4 DEF Net!Leave, HangsOn, TypeIn, AddressIn

\* A visit gives a device of the network an address, or nothing.
LEMMA VisitAssigns ==
  ASSUME IInv, NEW n \in live, AllocateLogical(n), UNCHANGED <<live, info, parent, emulated_device>>
  PROVE  \/ UNCHANGED AddressIn
         \/ \E a \in 0 .. 15 : Net!Assign(n, a)
<1>1. n \in Node /\ info[n].type \in DeviceType /\ live \subseteq Node
  BY Numbers DEF IInv, Tree
<1>2. CASE UNCHANGED logical_address
  BY <1>2 DEF AddressIn
<1>3. ASSUME NEW a \in (Net!AddressesOf(info[n].type) \ allocated) \cup {15},
             logical_address[n] = -1,
             logical_address' = [logical_address EXCEPT ![n] = a]
      PROVE  \E b \in 0 .. 15 : Net!Assign(n, b)
  <2>0. a \in 0 .. 15 /\ (a # 15 => a \in 0 .. 14 /\ a \notin allocated)
    <3>1. Net!AddressesOf(info[n].type) \subseteq 0 .. 14
      BY DEF Net!AddressesOf
    <3> QED
      BY <3>1
  <2>1. AddressIn[n] = -1 /\ AddressIn' = [AddressIn EXCEPT ![n] = a]
    BY <1>1, <1>3 DEF AddressIn, IInv, Addresses
  <2>2. a = 15 \/ /\ a \in Net!AddressesOf(TypeIn[n])
                  /\ \A m \in live : AddressIn[m] = a => m = emulated_device /\ a = 0
    <3>1. TypeIn[n] = info[n].type /\ \A m \in live : AddressIn[m] = logical_address[m]
      BY DEF TypeIn, AddressIn
    <3>2. a # 15 => \A m \in Node : logical_address[m] = a => m = emulated_device /\ a = 0
      BY <2>0 DEF IInv, Pool
    <3> QED
      BY <1>1, <3>1, <3>2
  <2>3. UNCHANGED <<TypeIn, HangsOn>>
    BY DEF TypeIn, HangsOn
  <2>4. Net!Assign(n, a)
    BY <2>1, <2>2, <2>3
      DEF Net!Assign, Net!None, Net!Unregistered, TypeIn, HangsOn, AddressIn
  <2> QED
    BY <2>0, <2>4
<1>4. CASE logical_address[n] # LOGICAL_ADDRESS_UNKNOWN
  BY <1>2, <1>4 DEF AllocateLogical
<1>5. CASE logical_address[n] = LOGICAL_ADDRESS_UNKNOWN /\ parent[n] = NULL
  BY <1>2, <1>3, <1>5 DEF AllocateLogical, LOGICAL_ADDRESS_UNKNOWN,
    LOGICAL_ADDRESS_UNREGISTERED
<1>6. CASE logical_address[n] = LOGICAL_ADDRESS_UNKNOWN /\ parent[n] # NULL
  BY <1>1, <1>3, <1>6, AllocationFits DEF AllocateLogical, LOGICAL_ADDRESS_UNKNOWN
<1> QED
  BY <1>4, <1>5, <1>6

\* The application changes the address of the TV it speaks for.
LEMMA CallChanges ==
  ASSUME IInv, EmulatesTv, NEW a \in {0, 15},
         logical_address' = [logical_address EXCEPT ![emulated_device] = a],
         UNCHANGED <<live, info, parent, emulated_device>>
  PROVE  UNCHANGED AddressIn \/ Net!Change(a)
<1>1. live \subseteq Node /\ emulated_device \in Node
  BY Numbers DEF IInv
<1>2. CASE emulated_device \notin live
  BY <1>1, <1>2 DEF AddressIn, IInv, Addresses
<1>3. CASE emulated_device \in live
  <2>1. AddressIn' = [AddressIn EXCEPT ![emulated_device] = a]
    BY <1>1, <1>3 DEF AddressIn, IInv, Addresses
  <2>2. TypeIn[emulated_device] = "TV" /\ UNCHANGED <<TypeIn, HangsOn>>
    BY <1>3 DEF TypeIn, HangsOn, EmulatesTv
  <2> QED
    BY <1>3, <2>1, <2>2
      DEF Net!Change, Net!Unregistered, TypeIn, HangsOn, AddressIn
<1> QED
  BY <1>2, <1>3

\* Every step is one of a network, or none.
LEMMA StepNetwork ==
  IInv /\ Linked /\ IInv' /\ Linked' /\ [Next]_vars => [Net!Next]_(Net!networkVars)
<1> SUFFICES ASSUME IInv, Linked, IInv', Linked', [Next]_vars
             PROVE  [Net!Next]_(Net!networkVars)
  OBVIOUS
<1>0. ASSUME UNCHANGED <<live, info, parent, emulated_device>>, UNCHANGED AddressIn
      PROVE  UNCHANGED Net!networkVars
  BY <1>0 DEF Net!networkVars, AddressIn
<1>1. CASE Visit
  <2> DEFINE n == Head(todo)
  <2>1. AllocateLogical(n) /\ UNCHANGED <<live, info, parent, emulated_device>>
    BY <1>1 DEF Visit, treeVars, halVars
  <2> HIDE DEF n
  <2>2. CASE n \in live
    BY <1>0, <2>1, <2>2, VisitAssigns DEF Net!Next
  <2>3. CASE n \notin live
    <3>1. UNCHANGED logical_address
            \/ \E a : logical_address' = [logical_address EXCEPT ![n] = a]
      BY <2>1 DEF AllocateLogical
    <3>2. logical_address \in [Node -> LogicalAddress] /\ live \subseteq Node
      BY Numbers DEF IInv, Addresses
    <3>3. \A m \in live : logical_address'[m] = logical_address[m]
      BY <2>3, <3>1, <3>2
    <3>4. UNCHANGED AddressIn
      BY <2>1, <3>3 DEF AddressIn
    <3> QED
      BY <1>0, <2>1, <3>4
  <2> QED
    BY <2>2, <2>3
<1>2. CASE openEnd
  <2>1. UNCHANGED <<live, info, parent, emulated_device>>
    BY <1>2 DEF openEnd, treeVars, halVars
  <2>2. CASE EmulatesTv
    <3>1. logical_address' = [logical_address EXCEPT ![emulated_device] = 15]
      BY <1>2, <2>2 DEF openEnd, EmulatesTv, LOGICAL_ADDRESS_UNREGISTERED
    <3>2. UNCHANGED AddressIn \/ Net!Change(15)
      BY <2>1, <2>2, <3>1, CallChanges
    <3> QED
      BY <1>0, <2>1, <3>2 DEF Net!Next, Net!Unregistered
  <2>3. CASE ~ EmulatesTv
    <3>1. UNCHANGED logical_address
      BY <1>2, <2>3 DEF openEnd, EmulatesTv
    <3> QED
      BY <1>0, <2>1, <3>1 DEF AddressIn
  <2> QED
    BY <2>2, <2>3
<1>3. CASE Announce \/ HalReads \/ UNCHANGED vars
  <2>1. UNCHANGED <<live, info, parent, emulated_device, logical_address>>
    BY <1>3 DEF Announce, HalReads, vars, treeVars, addressVars, halVars
  <2> QED
    BY <1>0, <2>1 DEF AddressIn
<1>4. ASSUME NEW d \in Additions, NEW name \in Names, AddDevice(d, name)
      PROVE  Net!Next
  BY <1>4, AddJoins DEF Net!Next
<1>5. ASSUME NEW name \in Names, RemoveDevice(name)
      PROVE  [Net!Next]_(Net!networkVars)
  <2>1. UNCHANGED <<logical_address, emulated_device>>
    BY <1>5 DEF RemoveDevice, addressVars, halVars
  <2>2. CASE UNCHANGED treeVars
    BY <1>0, <2>1, <2>2 DEF treeVars, AddressIn
  <2>3. ASSUME NEW n \in Listed(first_child[Root]), Removes(n) PROVE Net!Next
    BY <2>1, <2>3, RemoveLeaves DEF Net!Next
  <2> QED
    BY <1>5, <2>2, <2>3, RemoveFinds
<1>6. CASE HdmiCecAddLogicalAddress \/ HdmiCecRemoveLogicalAddress
  <2>1. UNCHANGED <<live, info, parent, emulated_device>>
    BY <1>6 DEF HdmiCecAddLogicalAddress, HdmiCecRemoveLogicalAddress, treeVars, halVars
  <2>2. CASE EmulatesTv
    <3>1. PICK a \in {0, 15} :
            logical_address' = [logical_address EXCEPT ![emulated_device] = a]
      BY <1>6, <2>2 DEF HdmiCecAddLogicalAddress, HdmiCecRemoveLogicalAddress,
        LOGICAL_ADDRESS_TV, LOGICAL_ADDRESS_UNREGISTERED
    <3>2. UNCHANGED AddressIn \/ Net!Change(a)
      BY <2>1, <2>2, <3>1, CallChanges
    <3> QED
      BY <1>0, <2>1, <3>2 DEF Net!Next, Net!Unregistered
  <2>3. CASE ~ EmulatesTv
    <3>1. UNCHANGED logical_address
      BY <1>6, <2>3 DEF HdmiCecAddLogicalAddress, HdmiCecRemoveLogicalAddress
    <3> QED
      BY <1>0, <2>1, <3>1 DEF AddressIn
  <2> QED
    BY <2>2, <2>3
<1> QED
  BY <1>1, <1>2, <1>3, <1>4, <1>5, <1>6 DEF Next, Handler, Messages, Application

\* The pointers of the map and the pool of addresses, with two threads at
\* them, implement the abstract network, step by step.
THEOREM ImplementsNetwork == Spec => NetworkSpec
BY InitNetwork, StepNetwork, Inductive, LinkedAlways, PTL DEF Spec, NetworkSpec, Net!Spec
=============================================================================
