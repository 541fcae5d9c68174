------------------------ MODULE SlidingWindow_proofs ------------------------
(***************************************************************************)
(* Lemmas on the deque operators of the rate limiter, for every history,   *)
(* threshold and window.  Proofs about the limiter and about the access    *)
(* manager cite them.                                                      *)
(***************************************************************************)
EXTENDS SlidingWindow, SequenceTheorems, FiniteSetTheorems,
        WellFoundedInduction, TLAPS

\* f is what is left of l once its first Len(l) - Len(f) entries are popped.
IsTail(f, l) ==
    /\ Len(f) <= Len(l)
    /\ \A i \in 1 .. Len(f) : f[i] = l[Len(l) - Len(f) + i]

\* Times never decrease along h.
Sorted(h) == \A i, j \in 1 .. Len(h) : i <= j => h[i] <= h[j]

\* A non-empty set of naturals has a least element.
LEMMA LeastNatural ==
    ASSUME NEW T, T \subseteq Nat, T # {}
    PROVE  \E m \in T : \A n \in T : m <= n
<1>1. PICK m \in T : \A n \in T : ~ (<<n, m>> \in OpToRel(<, Nat))
    BY NatLessThanWellFounded, WFMin, Zenon
<1>2. ASSUME NEW n \in T
      PROVE  m <= n
    <2>1. n < m => <<n, m>> \in OpToRel(<, Nat)
        BY DEF OpToRel
    <2>2. ~ (n < m)
        BY <1>1, <2>1
    <2> QED
        BY <2>2
<1> QED
    BY <1>2

\* Pruning pops old entries only, and stops at a live one or at the end.
LEMMA PrunePops ==
    ASSUME NEW h \in Seq(Nat), NEW now \in Nat
    PROVE  /\ Prune(h, now) \in Seq(Nat)
           /\ IsTail(Prune(h, now), h)
           /\ \A i \in 1 .. Len(h) - Len(Prune(h, now)) : h[i] <= now - Window
           /\ Prune(h, now) # << >> => Prune(h, now)[1] > now - Window
<1> USE LimiterAssumption
<1>0. ASSUME NEW i \in 1 .. Len(h)
      PROVE  h[i] \in Nat
    BY ElementOfSeq
<1>1. CASE Live(h, now) = {}
    <2>1. \A i \in 1 .. Len(h) : h[i] <= now - Window
        BY <1>0, <1>1 DEF Live
    <2>2. Prune(h, now) = << >>
        BY <1>1 DEF Prune
    <2> QED
        BY <2>1, <2>2 DEF IsTail
<1>2. CASE Live(h, now) # {}
    <2> DEFINE first == CHOOSE i \in Live(h, now) :
                            \A j \in Live(h, now) : i <= j
    <2>1. Live(h, now) \subseteq Nat
        BY DEF Live
    <2>2. \E i \in Live(h, now) : \A j \in Live(h, now) : i <= j
        BY <1>2, <2>1, LeastNatural, Zenon
    <2>3. /\ first \in Live(h, now)
          /\ \A j \in Live(h, now) : first <= j
        BY <2>2, Zenon
    <2>4. Prune(h, now) = SubSeq(h, first, Len(h))
        BY <1>2, Zenon DEF Prune
    <2> HIDE DEF first
    <2>5. first \in 1 .. Len(h) /\ h[first] > now - Window
        BY <2>3 DEF Live
    <2>6. ASSUME NEW i \in 1 .. first - 1
          PROVE  h[i] <= now - Window
        <3>1. i \in 1 .. Len(h) /\ i \notin Live(h, now)
            BY <2>3, <2>5
        <3> QED
            BY <3>1, <1>0 DEF Live
    <2>7. \A i \in first .. Len(h) : h[i] \in Nat
        BY <2>5, <1>0
    <2>8. /\ SubSeq(h, first, Len(h)) \in Seq(Nat)
          /\ Len(SubSeq(h, first, Len(h))) = Len(h) - first + 1
          /\ \A i \in 1 .. Len(h) - first + 1 :
                SubSeq(h, first, Len(h))[i] = h[first + i - 1]
        BY <2>5, <2>7, SubSeqProperties
    <2>9. IsTail(Prune(h, now), h)
        BY <2>4, <2>5, <2>8 DEF IsTail
    <2> QED
        BY <2>4, <2>5, <2>6, <2>8, <2>9
<1> QED
    BY <1>1, <1>2

\* A tail of a tail is a tail.
LEMMA TailOfTail ==
    ASSUME NEW f \in Seq(Nat), NEW g \in Seq(Nat), NEW l \in Seq(Nat),
           IsTail(g, f), IsTail(f, l)
    PROVE  IsTail(g, l)
<1>1. ASSUME NEW i \in 1 .. Len(g)
      PROVE  g[i] = l[Len(l) - Len(g) + i]
    <2>1. Len(f) - Len(g) + i \in 1 .. Len(f)
        BY DEF IsTail
    <2>2. /\ g[i] = f[Len(f) - Len(g) + i]
          /\ f[Len(f) - Len(g) + i]
                = l[Len(l) - Len(f) + (Len(f) - Len(g) + i)]
        BY <2>1 DEF IsTail
    <2> QED
        BY <2>2
<1> QED
    BY <1>1 DEF IsTail

\* f remembers every failure of l that is still inside the window.
Remembers(f, l, now) ==
    /\ IsTail(f, l)
    /\ \A i \in 1 .. Len(l) - Len(f) : l[i] <= now - Window

\* Pruning forgets nothing that is still inside the window.
LEMMA PruneRemembers ==
    ASSUME NEW f \in Seq(Nat), NEW l \in Seq(Nat), NEW now \in Nat,
           Remembers(f, l, now)
    PROVE  Remembers(Prune(f, now), l, now)
<1> DEFINE g == Prune(f, now)
<1>1. /\ g \in Seq(Nat)
      /\ IsTail(g, f)
      /\ \A i \in 1 .. Len(f) - Len(g) : f[i] <= now - Window
    BY PrunePops
<1> HIDE DEF g
<1>2. IsTail(g, l)
    BY <1>1, TailOfTail DEF Remembers
<1>3. ASSUME NEW i \in 1 .. Len(l) - Len(g)
      PROVE  l[i] <= now - Window
    <2>1. CASE i <= Len(l) - Len(f)
        BY <2>1 DEF Remembers, IsTail
    <2>2. CASE i > Len(l) - Len(f)
        <3> DEFINE j == i - (Len(l) - Len(f))
        <3>1. j \in 1 .. Len(f) - Len(g) /\ j \in 1 .. Len(f)
            BY <2>2, <1>1 DEF IsTail, Remembers
        <3>2. l[Len(l) - Len(f) + j] = f[j]
            BY <3>1 DEF IsTail, Remembers
        <3> QED
            BY <3>1, <3>2, <1>1
    <2> QED
        BY <2>1, <2>2
<1>4. Remembers(g, l, now)
    BY <1>2, <1>3 DEF Remembers
<1> QED
    BY <1>4 DEF g

\* A new failure is remembered.
LEMMA FailureRemembers ==
    ASSUME NEW f \in Seq(Nat), NEW l \in Seq(Nat), NEW now \in Nat,
           Remembers(f, l, now)
    PROVE  /\ AfterFailure(f, now) \in Seq(Nat)
           /\ Remembers(AfterFailure(f, now), Append(l, now), now)
<1>1. Append(f, now) \in Seq(Nat) /\ Append(l, now) \in Seq(Nat)
    BY AppendProperties
<1>2. Remembers(Append(f, now), Append(l, now), now)
    <2> DEFINE fa == Append(f, now)
               la == Append(l, now)
    <2>1. /\ Len(fa) = Len(f) + 1 /\ fa[Len(f) + 1] = now
          /\ \A i \in 1 .. Len(f) : fa[i] = f[i]
          /\ Len(la) = Len(l) + 1 /\ la[Len(l) + 1] = now
          /\ \A i \in 1 .. Len(l) : la[i] = l[i]
        BY AppendProperties
    <2>2. Len(f) \in Nat /\ Len(l) \in Nat /\ Len(f) <= Len(l)
        BY LenProperties DEF Remembers, IsTail
    <2> HIDE DEF fa, la
    <2>3. ASSUME NEW i \in 1 .. Len(fa)
          PROVE  fa[i] = la[Len(la) - Len(fa) + i]
        <3>1. CASE i = Len(f) + 1
            BY <2>1, <2>2, <3>1
        <3>2. CASE i \in 1 .. Len(f)
            <4>1. Len(l) - Len(f) + i \in 1 .. Len(l)
                BY <2>2, <3>2
            <4>2. f[i] = l[Len(l) - Len(f) + i]
                BY <3>2 DEF Remembers, IsTail
            <4>3. Len(la) - Len(fa) + i = Len(l) - Len(f) + i
                BY <2>1, <2>2, <3>2
            <4> QED
                BY <2>1, <3>2, <4>1, <4>2, <4>3
        <3> QED
            BY <2>1, <2>2, <3>1, <3>2
    <2>4. ASSUME NEW i \in 1 .. Len(la) - Len(fa)
          PROVE  la[i] <= now - Window
        <3>1. i \in 1 .. Len(l) - Len(f) /\ i \in 1 .. Len(l)
            BY <2>1, <2>2
        <3> QED
            BY <2>1, <3>1 DEF Remembers
    <2>5. Remembers(fa, la, now)
        BY <2>1, <2>2, <2>3, <2>4 DEF Remembers, IsTail
    <2> QED
        BY <2>5 DEF fa, la
<1>3. /\ Prune(Append(f, now), now) \in Seq(Nat)
      /\ Remembers(Prune(Append(f, now), now), Append(l, now), now)
    BY <1>1, <1>2, PruneRemembers, PrunePops
<1> QED
    BY <1>3 DEF AfterFailure

\* When the log is in order, the pruned deque is as long as there are live
\* failures in the log, and its head is the oldest of them.
LEMMA PrunedAreLive ==
    ASSUME NEW f \in Seq(Nat), NEW l \in Seq(Nat), NEW now \in Nat,
           Remembers(f, l, now), Sorted(l)
    PROVE  /\ Live(l, now) = Len(l) - Len(Prune(f, now)) + 1 .. Len(l)
           /\ Cardinality(Live(l, now)) = Len(Prune(f, now))
           /\ IsTail(Prune(f, now), l)
<1> USE LimiterAssumption
<1> DEFINE g == Prune(f, now)
<1>1. /\ g \in Seq(Nat)
      /\ g # << >> => g[1] > now - Window
    BY PrunePops
<1>2. Remembers(g, l, now)
    BY PruneRemembers
<1> HIDE DEF g
<1>3. ASSUME NEW i \in 1 .. Len(l)
      PROVE  l[i] > now - Window <=> i > Len(l) - Len(g)
    <2>0. l[i] \in Nat
        BY ElementOfSeq
    <2>1. CASE i <= Len(l) - Len(g)
        BY <2>0, <2>1, <1>2 DEF Remembers
    <2>2. CASE i > Len(l) - Len(g)
        <3>1. g # << >> /\ Len(g) \in Nat \ {0}
            BY <2>2, <1>1, EmptySeq, LenProperties
        <3>2. Len(l) - Len(g) + 1 \in 1 .. Len(l)
            BY <3>1, <1>2 DEF Remembers, IsTail
        <3>3. g[1] = l[Len(l) - Len(g) + 1]
            BY <3>1, <1>2 DEF Remembers, IsTail
        <3>4. l[Len(l) - Len(g) + 1] <= l[i]
            BY <2>2, <3>1, <3>2 DEF Sorted
        <3>5. g[1] \in Nat /\ g[1] > now - Window
            BY <3>1, <1>1, ElementOfSeq
        <3>6. l[i] > now - Window
            BY <2>0, <3>3, <3>4, <3>5
        <3> QED
            BY <2>2, <3>6
    <2> QED
        BY <2>1, <2>2
<1>4. Len(g) \in Nat /\ Len(l) \in Nat /\ Len(g) <= Len(l)
    BY <1>1, <1>2, LenProperties DEF Remembers, IsTail
<1>5. Live(l, now) = Len(l) - Len(g) + 1 .. Len(l)
    <2>1. ASSUME NEW i
          PROVE  i \in Live(l, now) <=> i \in Len(l) - Len(g) + 1 .. Len(l)
        BY <1>3, <1>4 DEF Live
    <2> QED
        BY <2>1, Zenon
<1>6. Cardinality(Live(l, now)) = Len(g)
    <2> DEFINE a == Len(l) - Len(g) + 1
    <2>1. a \in Int /\ Len(l) \in Int
        BY <1>4
    <2>2. Cardinality(a .. Len(l)) = IF a > Len(l) THEN 0 ELSE Len(l) - a + 1
        BY <2>1, FS_Interval, Zenon
    <2> QED
        BY <1>4, <1>5, <2>2
<1> QED
    BY <1>2, <1>5, <1>6 DEF g, Remembers

-----------------------------------------------------------------------------
(* What a call does to a lockout, for histories in any order.              *)

\* Pruning twice at the same time is pruning once.
LEMMA PruneTwice ==
    ASSUME NEW h \in Seq(Nat), NEW now \in Nat
    PROVE  Len(Prune(Prune(h, now), now)) = Len(Prune(h, now))
<1> USE LimiterAssumption
<1> DEFINE g == Prune(h, now)
           k == Prune(g, now)
<1>1. g \in Seq(Nat) /\ (g # << >> => g[1] > now - Window)
    BY PrunePops
<1>2. /\ k \in Seq(Nat) /\ Len(k) <= Len(g)
      /\ \A i \in 1 .. Len(g) - Len(k) : g[i] <= now - Window
    BY <1>1, PrunePops DEF IsTail
<1> HIDE DEF g, k
<1>3. Len(g) \in Nat /\ Len(k) \in Nat
    BY <1>1, <1>2, LenProperties
<1>4. ASSUME Len(k) < Len(g)
      PROVE  FALSE
    <2>1. 1 \in 1 .. Len(g) - Len(k) /\ 1 \in 1 .. Len(g)
        BY <1>3, <1>4
    <2>2. g # << >> /\ g[1] \in Nat
        BY <1>1, <1>3, <1>4, <2>1, EmptySeq, ElementOfSeq
    <2> QED
        BY <1>1, <1>2, <2>1, <2>2
<1>5. Len(k) = Len(g)
    BY <1>2, <1>3, <1>4
<1> QED
    BY <1>5 DEF g, k

\* A new failure does not make what is left of the deque shorter.
LEMMA FailureCounts ==
    ASSUME NEW h \in Seq(Nat), NEW now \in Nat
    PROVE  Len(AfterFailure(h, now)) >= Len(Prune(h, now))
<1> USE LimiterAssumption
<1> DEFINE a == Append(h, now)
           g == Prune(h, now)
           k == Prune(a, now)
<1>1. /\ a \in Seq(Nat) /\ Len(a) = Len(h) + 1
      /\ \A i \in 1 .. Len(h) : a[i] = h[i]
    BY AppendProperties
<1>2. /\ g \in Seq(Nat) /\ (g # << >> => g[1] > now - Window)
      /\ Len(g) <= Len(h)
      /\ \A i \in 1 .. Len(g) : g[i] = h[Len(h) - Len(g) + i]
    BY PrunePops DEF IsTail
<1>3. /\ k \in Seq(Nat)
      /\ \A i \in 1 .. Len(a) - Len(k) : a[i] <= now - Window
    BY <1>1, PrunePops
<1> HIDE DEF a, g, k
<1>4. Len(h) \in Nat /\ Len(g) \in Nat /\ Len(k) \in Nat
    BY <1>2, <1>3, LenProperties
<1>5. ASSUME Len(k) < Len(g)
      PROVE  FALSE
    <2> DEFINE first == Len(h) - Len(g) + 1
    <2>1. /\ first \in 1 .. Len(h) /\ first \in 1 .. Len(a) - Len(k)
          /\ 1 \in 1 .. Len(g)
        BY <1>1, <1>2, <1>4, <1>5
    <2>2. g # << >> /\ g[1] \in Nat
        BY <1>2, <1>4, <1>5, <2>1, EmptySeq, ElementOfSeq
    <2>3. h[first] = g[1] /\ a[first] = h[first]
        BY <1>1, <1>2, <1>4, <2>1
    <2>4. a[first] <= now - Window
        BY <1>3, <2>1
    <2> HIDE DEF first
    <2>5. g[1] > now - Window
        BY <1>2, <2>2
    <2> QED
        BY <2>2, <2>3, <2>4, <2>5
<1>6. Len(k) >= Len(g)
    BY <1>4, <1>5
<1> QED
    BY <1>6 DEF AfterFailure, a, g, k

\* Once its oldest entry has left the window a deque gets shorter.
LEMMA HeadLeaves ==
    ASSUME NEW h \in Seq(Nat), NEW now \in Nat,
           h # << >>, h[1] <= now - Window
    PROVE  Len(Prune(h, now)) < Len(h)
<1> USE LimiterAssumption
<1> DEFINE g == Prune(h, now)
<1>1. /\ g \in Seq(Nat) /\ (g # << >> => g[1] > now - Window)
      /\ Len(g) <= Len(h)
      /\ \A i \in 1 .. Len(g) : g[i] = h[Len(h) - Len(g) + i]
    BY PrunePops DEF IsTail
<1> HIDE DEF g
<1>2. Len(h) \in Nat \ {0} /\ Len(g) \in Nat
    BY <1>1, LenProperties, EmptySeq
<1>3. ASSUME Len(g) = Len(h)
      PROVE  FALSE
    <2>1. g # << >> /\ 1 \in 1 .. Len(g) /\ h[1] \in Nat
        BY <1>2, <1>3, EmptySeq, ElementOfSeq
    <2>2. g[1] = h[1]
        BY <1>1, <1>2, <1>3, <2>1
    <2> QED
        BY <1>1, <2>1, <2>2
<1>4. Len(g) < Len(h)
    BY <1>1, <1>2, <1>3
<1> QED
    BY <1>4 DEF g
=============================================================================
