-------------------------- MODULE LockOrderProofs --------------------------
(***************************************************************************)
(* Every script of LockOrder keeps to one discipline, whatever clients,    *)
(* channels and orders of the maps there are.  Types and the absence of    *)
(* circles follow from it.                                                 *)
(***************************************************************************)
EXTENDS LockOrder, SequenceTheorems, FiniteSetTheorems, WellFoundedInduction, TLAPS

Ops      == [op : {"lock", "try", "unlock"}, lock : Locks, mode : LockModes]
Maps     == {ClientsMap, ChannelsMap}
Holdings == [Grants -> Nat]
Nothing  == [g \in Grants |-> 0]

Owned(h) == {l \in Locks : \E m \in LockModes : h[Grant(l, m)] > 0}

-----------------------------------------------------------------------------
(* The discipline.                                                          *)

\* Nobody asks for what it has.  The maps are taken under the server's mutex,
\* and only the dispatcher asks for anything else while it holds something.
\* The health task keeps to none of this.
MayLock(t, O, l, m) ==
    t # Health =>
        /\ l \notin O
        /\ l \in Maps \cup {Server} => m = "write"
        /\ l \in Maps => Server \in O
        /\ l = Server => O \cap Maps = {}
        /\ t # Dispatcher => O \subseteq {Server} /\ (O # {} => l \in Maps)

\* The server's mutex is not released before the maps.
MayUnlock(t, h, l, m) ==
    /\ h[Grant(l, m)] > 0
    /\ t # Health /\ l = Server => Owned(h) \cap Maps = {}

Allowed(t, h, o) ==
    \/ o.op = "lock" /\ MayLock(t, Owned(h), o.lock, o.mode)
    \/ o.op = "unlock" /\ MayUnlock(t, h, o.lock, o.mode)
    \/ o.op = "try" /\ h = Nothing /\ o.lock = Server /\ o.mode = "write"

Taken(h, l, m) == [h EXCEPT ![Grant(l, m)] = @ + 1]
Given(h, l, m) == [h EXCEPT ![Grant(l, m)] = @ - 1]

After(h, o) ==
    IF o.op = "unlock" THEN Given(h, o.lock, o.mode) ELSE Taken(h, o.lock, o.mode)

\* H is what t holds before and after each step of s.
Trace(t, s, H) ==
    /\ H \in [0 .. Len(s) -> Holdings]
    /\ \A i \in 1 .. Len(s) : Allowed(t, H[i - 1], s[i]) /\ H[i] = After(H[i - 1], s[i])

\* t, which holds h, may run s, and holds k then.
Runs(t, h, s, k) ==
    /\ s \in Seq(Ops)
    /\ \E H : Trace(t, s, H) /\ H[0] = h /\ H[Len(s)] = k

\* Whoever owns O may run s, and has the same afterwards.
Balanced(t, O, s) ==
    \A h \in Holdings : Owned(h) = O => Runs(t, h, s, h)

-----------------------------------------------------------------------------
(* Numbers and sequences.                                                   *)

\* A set of numbers that is not empty has a least element.
LEMMA LeastNumber ==
    ASSUME NEW T \in SUBSET Nat, T # {}
    PROVE  \E n \in T : \A k \in T : n <= k
<1>1. IsWellFoundedOn(OpToRel(<, Nat), Nat)
  BY NatLessThanWellFounded, Zenon
<1>2. PICK n \in T : \A k \in T : <<k, n>> \notin OpToRel(<, Nat)
  BY <1>1, WFMin, Zenon
<1>3. \A k \in T : ~(k < n)
  BY <1>2, Zenon DEF OpToRel
<1> QED
  BY <1>3

\* Induction up to n, for a set instead of a predicate.
LEMMA InductionUpTo ==
    ASSUME NEW n \in Nat, NEW S,
           0 \in S,
           \A k \in 0 .. n - 1 : k \in S => k + 1 \in S
    PROVE  0 .. n \subseteq S
<1> DEFINE T == {k \in 0 .. n : k \notin S}
<1> SUFFICES ASSUME T # {} PROVE FALSE
  OBVIOUS
<1>1. PICK k \in T : \A j \in T : k <= j
  <2>1. T \in SUBSET Nat
    OBVIOUS
  <2> HIDE DEF T
  <2> QED
    BY <2>1, LeastNumber, Zenon
<1>2. k \in 0 .. n /\ k # 0 /\ k \notin S
  BY <1>1
<1>3. k - 1 \in 0 .. n - 1 /\ k - 1 \notin T
  BY <1>1, <1>2
<1>4. k - 1 \in S
  BY <1>2, <1>3
<1>5. (k - 1) + 1 \in S
  BY <1>3, <1>4
<1> QED
  BY <1>2, <1>5

\* What the function in FlattenSeq is: it appends one sequence after another.
LEMMA FlattenIsConcatenation ==
    ASSUME NEW n \in Nat \ {0}, NEW X, NEW ss \in [1 .. n -> X]
    PROVE  \E f : /\ f = [i \in 1 .. n |-> IF i = 1 THEN ss[i] ELSE f[i - 1] \o ss[i]]
                  /\ FlattenSeq(ss) = f[n]
<1> DEFINE Join1(g, i) == IF i = 1 THEN ss[i] ELSE g[i - 1] \o ss[i]
<1> DEFINE S == {k \in 0 .. n : \E g : \A i \in 1 .. k : g[i] = Join1(g, i)}
<1>1. 0 \in S
  <2>1. \A i \in 1 .. 0 : ss[i] = Join1(ss, i)
    OBVIOUS
  <2>2. \E g : \A i \in 1 .. 0 : g[i] = Join1(g, i)
    BY <2>1, Zenon
  <2> QED
    BY <2>2
<1>2. ASSUME NEW k \in 0 .. n - 1, k \in S PROVE k + 1 \in S
  <2>1. PICK g : \A i \in 1 .. k : g[i] = Join1(g, i)
    BY <1>2
  <2> DEFINE g2 == [i \in 1 .. k + 1 |-> IF i <= k THEN g[i] ELSE Join1(g, i)]
  <2>2. ASSUME NEW i \in 1 .. k + 1 PROVE g2[i] = Join1(g2, i)
    <3>1. CASE i = 1
      BY <3>1, <2>1
    <3>2. CASE i # 1
      <4>1. i - 1 \in 1 .. k + 1 /\ i - 1 \in 1 .. k
        BY <3>2
      <4>2. g2[i - 1] = g[i - 1]
        BY <4>1
      <4>3. Join1(g2, i) = Join1(g, i)
        BY <4>2
      <4>4. g2[i] = Join1(g, i)
        BY <2>1
      <4> QED
        BY <4>3, <4>4
    <3> QED
      BY <3>1, <3>2
  <2> HIDE DEF g2, Join1
  <2>3. \E f : \A i \in 1 .. k + 1 : f[i] = Join1(f, i)
    BY <2>2, Zenon
  <2> QED
    BY <2>3
<1>3. n \in S
  <2> HIDE DEF S
  <2>1. \A k \in 0 .. n - 1 : k \in S => k + 1 \in S
    BY <1>2
  <2>2. 0 .. n \subseteq S
    BY <1>1, <2>1, InductionUpTo, Zenon, n \in Nat
  <2> QED
    BY <2>2
<1>4. PICK g : \A i \in 1 .. n : g[i] = Join1(g, i)
  BY <1>3
<1> DEFINE Good(f) == f = [i \in 1 .. n |-> Join1(f, i)]
<1>5. Good([i \in 1 .. n |-> g[i]])
  <2> DEFINE f == [i \in 1 .. n |-> g[i]]
  <2>1. \A i \in 1 .. n : i # 1 => i - 1 \in 1 .. n
    OBVIOUS
  <2>2. \A i \in 1 .. n : f[i] = Join1(f, i)
    BY <1>4, <2>1
  <2> QED
    BY <2>2
<1> DEFINE f == CHOOSE f : Good(f)
<1>6. Good(f)
  <2> HIDE DEF Good
  <2> QED
    BY <1>5, Zenon
<1>7. Len(ss) = n
  OBVIOUS
<1>8. FlattenSeq(ss) = f[n]
  BY <1>7, n # 0 DEF FlattenSeq
<1> HIDE DEF f
<1> QED
  BY <1>6, <1>8, Zenon


-----------------------------------------------------------------------------
(* What a task holds.                                                       *)

\* A guard says its lock and its mode.
LEMMA GrantType ==
    ASSUME NEW l \in Locks, NEW m \in LockModes
    PROVE  /\ Grant(l, m) \in Grants
           /\ \A l2, m2 : Grant(l, m) = Grant(l2, m2) => l = l2 /\ m = m2
BY DEF Grant, Grants

\* Who has no guard owns no lock.
LEMMA NothingOwned == Nothing \in Holdings /\ Owned(Nothing) = {}
BY GrantType DEF Nothing, Holdings, Owned

\* One more guard of l, and one less again.
LEMMA OneMore ==
    ASSUME NEW h \in Holdings, NEW l \in Locks, NEW m \in LockModes
    PROVE  /\ Taken(h, l, m) \in Holdings
           /\ Owned(Taken(h, l, m)) = Owned(h) \cup {l}
           /\ Taken(h, l, m)[Grant(l, m)] > 0
           /\ Given(Taken(h, l, m), l, m) = h
<1> DEFINE k == Taken(h, l, m)
<1>1. Grant(l, m) \in Grants /\ h \in [Grants -> Nat]
  BY GrantType DEF Holdings
<1>2. /\ k \in [Grants -> Nat]
      /\ k[Grant(l, m)] = h[Grant(l, m)] + 1
      /\ \A g \in Grants : g # Grant(l, m) => k[g] = h[g]
  BY <1>1 DEF Taken
<1> HIDE DEF k
<1>3. k[Grant(l, m)] > 0
  BY <1>1, <1>2
<1>4. Owned(k) \subseteq Owned(h) \cup {l}
  <2> SUFFICES ASSUME NEW x \in Locks, x # l, NEW y \in LockModes, k[Grant(x, y)] > 0
               PROVE  h[Grant(x, y)] > 0
    BY DEF Owned
  <2> QED
    BY <1>2, GrantType
<1>5. Owned(h) \subseteq Owned(k)
  <2> SUFFICES ASSUME NEW x \in Locks, NEW y \in LockModes, h[Grant(x, y)] > 0
               PROVE  k[Grant(x, y)] > 0
    BY DEF Owned
  <2> QED
    BY <1>1, <1>2, GrantType
<1>6. l \in Owned(k)
  BY <1>3 DEF Owned
<1>7. Given(k, l, m) = h
  <2> DEFINE h2 == Given(k, l, m)
  <2>1. h2 \in [Grants -> Int]
    BY <1>1, <1>2 DEF Given
  <2>2. \A g \in Grants : h2[g] = h[g]
    BY <1>1, <1>2 DEF Given
  <2> HIDE DEF h2
  <2>3. h2 = h
    BY <1>1, <2>1, <2>2
  <2> QED
    BY <2>3 DEF h2
<1> QED
  BY <1>2, <1>3, <1>4, <1>5, <1>6, <1>7 DEF Holdings, k

\* What is released was held.
LEMMA OneLess ==
    ASSUME NEW h \in Holdings, NEW l \in Locks, NEW m \in LockModes, h[Grant(l, m)] > 0
    PROVE  /\ Given(h, l, m) \in Holdings
           /\ Owned(Given(h, l, m)) \subseteq Owned(h)
           /\ Owned(h) \subseteq Owned(Given(h, l, m)) \cup {l}
           /\ \A g \in Grants : Given(h, l, m)[g] <= h[g]
<1> DEFINE k == Given(h, l, m)
<1>1. Grant(l, m) \in Grants /\ h \in [Grants -> Nat]
  BY GrantType DEF Holdings
<1>2. /\ k \in [Grants -> Nat]
      /\ \A g \in Grants : k[g] <= h[g]
      /\ \A g \in Grants : g # Grant(l, m) => k[g] = h[g]
  BY <1>1 DEF Given
<1> HIDE DEF k
<1>3. Owned(k) \subseteq Owned(h)
  <2> SUFFICES ASSUME NEW x \in Locks, NEW y \in LockModes, k[Grant(x, y)] > 0
               PROVE  h[Grant(x, y)] > 0
    BY DEF Owned
  <2> QED
    BY <1>1, <1>2, GrantType
<1>4. Owned(h) \subseteq Owned(k) \cup {l}
  <2> SUFFICES ASSUME NEW x \in Locks, x # l, NEW y \in LockModes, h[Grant(x, y)] > 0
               PROVE  k[Grant(x, y)] > 0
    BY DEF Owned
  <2> QED
    BY <1>2, GrantType
<1> QED
  BY <1>2, <1>3, <1>4 DEF Holdings, k

\* An allowed step leaves a count of guards.
LEMMA AfterType ==
    ASSUME NEW t, NEW h \in Holdings, NEW o \in Ops, Allowed(t, h, o)
    PROVE  After(h, o) \in Holdings
<1>1. o.lock \in Locks /\ o.mode \in LockModes
  BY DEF Ops
<1>2. CASE o.op = "unlock"
  BY <1>1, <1>2, OneLess DEF Allowed, After, MayUnlock
<1>3. CASE o.op # "unlock"
  BY <1>1, <1>3, OneMore DEF After
<1> QED
  BY <1>2, <1>3

-----------------------------------------------------------------------------
(* Runs of scripts.                                                         *)

\* The empty script may always be run, and changes nothing.
LEMMA RunsEmpty ==
    ASSUME NEW t, NEW h \in Holdings
    PROVE  Runs(t, h, <<>>, h)
<1> DEFINE H == [i \in 0 .. 0 |-> h]
<1>1. Len(<<>>) = 0 /\ <<>> \in Seq(Ops)
  BY EmptySeq
<1>2. Trace(t, <<>>, H)
  BY <1>1 DEF Trace
<1>3. H[0] = h
  OBVIOUS
<1> HIDE DEF H
<1> QED
  BY <1>1, <1>2, <1>3 DEF Runs

\* One allowed step is a run.
LEMMA RunsOne ==
    ASSUME NEW t, NEW h \in Holdings, NEW o \in Ops, Allowed(t, h, o)
    PROVE  Runs(t, h, <<o>>, After(h, o))
<1> DEFINE s == <<o>>
<1> DEFINE H == [i \in 0 .. 1 |-> IF i = 0 THEN h ELSE After(h, o)]
<1>1. Len(s) = 1 /\ s \in Seq(Ops) /\ s[1] = o
  OBVIOUS
<1>2. H \in [0 .. 1 -> Holdings] /\ H[0] = h /\ H[1] = After(h, o)
  BY AfterType
<1> HIDE DEF H, s
<1>3. Trace(t, s, H)
  BY <1>1, <1>2 DEF Trace
<1>4. Runs(t, h, s, After(h, o))
  BY <1>1, <1>2, <1>3 DEF Runs
<1> QED
  BY <1>4 DEF s

\* A run from where another one ended continues it.
LEMMA RunsConcat ==
    ASSUME NEW t, NEW h, NEW k, NEW j, NEW a, NEW b, Runs(t, h, a, k), Runs(t, k, b, j)
    PROVE  Runs(t, h, a \o b, j)
<1> DEFINE n == Len(a)
<1> DEFINE p == Len(b)
<1>1. a \in Seq(Ops) /\ b \in Seq(Ops) /\ n \in Nat /\ p \in Nat
  BY DEF Runs
<1>2. PICK F : Trace(t, a, F) /\ F[0] = h /\ F[n] = k
  BY DEF Runs
<1>3. PICK G : Trace(t, b, G) /\ G[0] = k /\ G[p] = j
  BY DEF Runs
<1> DEFINE s == a \o b
<1> DEFINE H == [i \in 0 .. n + p |-> IF i <= n THEN F[i] ELSE G[i - n]]
<1>4. s \in Seq(Ops) /\ Len(s) = n + p
  BY <1>1, ConcatProperties
<1>5. \A i \in 1 .. n + p : s[i] = IF i <= n THEN a[i] ELSE b[i - n]
  BY <1>1, ConcatProperties
<1>6. F \in [0 .. n -> Holdings] /\ G \in [0 .. p -> Holdings]
  BY <1>2, <1>3 DEF Trace
<1>7. H \in [0 .. n + p -> Holdings]
  <2>1. ASSUME NEW i \in 0 .. n + p PROVE (IF i <= n THEN F[i] ELSE G[i - n]) \in Holdings
    <3>1. CASE i <= n
      <4>1. i \in 0 .. n
        BY <1>1, <3>1
      <4> QED
        BY <1>6, <3>1, <4>1
    <3>2. CASE i > n
      <4>1. i - n \in 0 .. p
        BY <1>1, <3>2
      <4> QED
        BY <1>1, <1>6, <3>2, <4>1
    <3> QED
      BY <1>1, <3>1, <3>2
  <2> QED
    BY <2>1
<1>8. H[0] = h /\ H[n + p] = j
  BY <1>1, <1>2, <1>3
<1>9. ASSUME NEW i \in 1 .. n + p
      PROVE  Allowed(t, H[i - 1], s[i]) /\ H[i] = After(H[i - 1], s[i])
  <2>1. CASE i <= n
    <3>1. i \in 1 .. n /\ H[i] = F[i] /\ H[i - 1] = F[i - 1] /\ s[i] = a[i]
      BY <1>1, <1>5, <2>1
    <3>2. Allowed(t, F[i - 1], a[i]) /\ F[i] = After(F[i - 1], a[i])
      BY <1>2, <3>1 DEF Trace
    <3> QED
      BY <3>1, <3>2
  <2>2. CASE i > n
    <3>1. i - n \in 1 .. p /\ H[i] = G[i - n] /\ s[i] = b[i - n]
      BY <1>1, <1>5, <2>2
    <3>2. H[i - 1] = G[(i - n) - 1]
      <4>1. CASE i = n + 1
        <5>1. H[i - 1] = F[n] /\ (i - n) - 1 = 0
          BY <1>1, <4>1
        <5> QED
          BY <1>2, <1>3, <5>1
      <4>2. CASE i # n + 1
        <5>1. i - 1 \in 0 .. n + p /\ ~(i - 1 <= n) /\ (i - 1) - n = (i - n) - 1
          BY <1>1, <2>2, <4>2
        <5> QED
          BY <5>1
      <4> QED
        BY <4>1, <4>2
    <3>3. Allowed(t, G[(i - n) - 1], b[i - n]) /\ G[i - n] = After(G[(i - n) - 1], b[i - n])
      BY <1>3, <3>1 DEF Trace
    <3> QED
      BY <3>1, <3>2, <3>3
  <2> QED
    BY <1>1, <2>1, <2>2
<1>10. Trace(t, s, H)
  <2> HIDE DEF H, s
  <2> QED
    BY <1>4, <1>7, <1>9 DEF Trace
<1> HIDE DEF H, s
<1>11. Runs(t, h, s, j)
  BY <1>4, <1>8, <1>10 DEF Runs
<1> QED
  BY <1>11 DEF s

\* The first step of a run, and the rest.
LEMMA RunsHead ==
    ASSUME NEW t, NEW h, NEW s, NEW k, Runs(t, h, s, k), s # <<>>
    PROVE  /\ Head(s) \in Ops
           /\ h \in Holdings
           /\ Allowed(t, h, Head(s))
           /\ Runs(t, After(h, Head(s)), Tail(s), k)
<1> DEFINE n == Len(s)
<1>1. s \in Seq(Ops) /\ n \in Nat /\ n # 0
  BY DEF Runs
<1>2. PICK F : Trace(t, s, F) /\ F[0] = h /\ F[n] = k
  BY DEF Runs
<1> DEFINE r == Tail(s)
<1> DEFINE H == [i \in 0 .. n - 1 |-> F[i + 1]]
<1>3. /\ Head(s) = s[1] /\ Head(s) \in Ops
      /\ r \in Seq(Ops) /\ Len(r) = n - 1
      /\ \A i \in 1 .. n - 1 : r[i] = s[i + 1]
  BY <1>1, HeadTailProperties
<1>4. F \in [0 .. n -> Holdings]
  BY <1>2 DEF Trace
<1>5. H \in [0 .. n - 1 -> Holdings] /\ H[0] = F[1] /\ H[n - 1] = k
  BY <1>1, <1>2, <1>4
<1>6. Allowed(t, h, s[1]) /\ F[1] = After(h, s[1])
  <2>1. 1 \in 1 .. n
    BY <1>1
  <2>2. Allowed(t, F[1 - 1], s[1]) /\ F[1] = After(F[1 - 1], s[1])
    BY <1>2, <2>1 DEF Trace
  <2> QED
    BY <1>2, <2>2
<1>7. ASSUME NEW i \in 1 .. n - 1
      PROVE  Allowed(t, H[i - 1], r[i]) /\ H[i] = After(H[i - 1], r[i])
  <2>1. i + 1 \in 1 .. n /\ H[i - 1] = F[i] /\ H[i] = F[i + 1] /\ r[i] = s[i + 1]
    BY <1>1, <1>3
  <2>2. Allowed(t, F[(i + 1) - 1], s[i + 1]) /\ F[i + 1] = After(F[(i + 1) - 1], s[i + 1])
    BY <1>2, <2>1 DEF Trace
  <2>3. (i + 1) - 1 = i
    OBVIOUS
  <2> QED
    BY <2>1, <2>2, <2>3
<1>8. Trace(t, r, H)
  <2> HIDE DEF H, r
  <2> QED
    BY <1>3, <1>5, <1>7 DEF Trace
<1>9. h \in Holdings
  BY <1>1, <1>2, <1>4
<1>10. Runs(t, F[1], r, k)
  <2> HIDE DEF H, r
  <2> QED
    BY <1>3, <1>5, <1>8 DEF Runs
<1> QED
  BY <1>3, <1>6, <1>9, <1>10

\* The steps one by one.
LEMMA RunsSteps ==
    ASSUME NEW t, NEW h \in Holdings, NEW l \in Locks, NEW m \in LockModes
    PROVE  /\ MayLock(t, Owned(h), l, m) => Runs(t, h, Lock(l, m), Taken(h, l, m))
           /\ MayUnlock(t, h, l, m) => Runs(t, h, Unlock(l, m), Given(h, l, m))
           /\ h = Nothing /\ l = Server /\ m = "write" => Runs(t, h, Try(l), Taken(h, l, m))
<1> DEFINE lock == [op |-> "lock", lock |-> l, mode |-> m]
<1> DEFINE unlock == [op |-> "unlock", lock |-> l, mode |-> m]
<1> DEFINE try == [op |-> "try", lock |-> l, mode |-> m]
<1>1. lock \in Ops /\ unlock \in Ops /\ try \in Ops
  BY DEF Ops
<1>2. /\ After(h, lock) = Taken(h, l, m)
      /\ After(h, try) = Taken(h, l, m)
      /\ After(h, unlock) = Given(h, l, m)
  BY DEF After
<1>3. /\ MayLock(t, Owned(h), l, m) => Allowed(t, h, lock)
      /\ MayUnlock(t, h, l, m) => Allowed(t, h, unlock)
      /\ h = Nothing /\ l = Server /\ m = "write" => Allowed(t, h, try)
  BY DEF Allowed
<1>4. /\ Lock(l, m) = <<lock>>
      /\ Unlock(l, m) = <<unlock>>
      /\ m = "write" => Try(l) = <<try>>
  BY DEF Lock, Unlock, Try
<1> HIDE DEF lock, unlock, try
<1> QED
  BY <1>1, <1>2, <1>3, <1>4, RunsOne

-----------------------------------------------------------------------------
(* Scripts that give back what they take.                                   *)

\* The empty script is balanced.
LEMMA BalancedEmpty == ASSUME NEW t, NEW O PROVE Balanced(t, O, <<>>)
BY RunsEmpty DEF Balanced

\* Balanced scripts in a row are balanced.
LEMMA BalancedConcat ==
    ASSUME NEW t, NEW O, NEW a, NEW b, Balanced(t, O, a), Balanced(t, O, b)
    PROVE  Balanced(t, O, a \o b)
<1> SUFFICES ASSUME NEW h \in Holdings, Owned(h) = O PROVE Runs(t, h, a \o b, h)
  BY DEF Balanced
<1>1. Runs(t, h, a, h) /\ Runs(t, h, b, h)
  BY DEF Balanced
<1> QED
  BY <1>1, RunsConcat

\* A balanced body inside a guard that may be taken is balanced.
LEMMA BalancedWith ==
    ASSUME NEW t, NEW O, NEW l \in Locks, NEW m \in LockModes, NEW body,
           MayLock(t, O, l, m), Balanced(t, O \cup {l}, body)
    PROVE  Balanced(t, O, With(l, m, body))
<1> SUFFICES ASSUME NEW h \in Holdings, Owned(h) = O PROVE Runs(t, h, With(l, m, body), h)
  BY DEF Balanced
<1> DEFINE k == Taken(h, l, m)
<1>1. k \in Holdings /\ Owned(k) = O \cup {l} /\ k[Grant(l, m)] > 0 /\ Given(k, l, m) = h
  BY OneMore
<1>2. Runs(t, h, Lock(l, m), k)
  BY RunsSteps
<1> HIDE DEF k
<1>3. Runs(t, k, body, k)
  BY <1>1 DEF Balanced
<1>4. MayUnlock(t, k, l, m)
  BY <1>1, LocksAssumption DEF MayUnlock, MayLock, Maps
<1>5. Runs(t, k, Unlock(l, m), h)
  BY <1>1, <1>4, RunsSteps
<1> QED
  BY <1>2, <1>3, <1>5, RunsConcat DEF With

\* The locks of every element of s, one after another.
LEMMA BalancedEach ==
    ASSUME NEW t, NEW O, NEW X, NEW s \in Seq(X), NEW ss,
           ss = [i \in DOMAIN s |-> ss[i]],
           \A i \in DOMAIN s : Balanced(t, O, ss[i])
    PROVE  Balanced(t, O, FlattenSeq(ss))
<1> DEFINE n == Len(s)
<1>1. n \in Nat /\ DOMAIN s = 1 .. n
  OBVIOUS
<1>2. CASE n = 0
  <2>1. ss = <<>>
    BY <1>1, <1>2
  <2>2. FlattenSeq(ss) = <<>>
    BY <2>1 DEF FlattenSeq
  <2> QED
    BY <2>2, BalancedEmpty
<1>3. CASE n # 0
  <2> DEFINE Y == {ss[i] : i \in 1 .. n}
  <2>1. ss \in [1 .. n -> Y]
    BY <1>1
  <2> HIDE DEF Y
  <2>2. PICK f : /\ f = [i \in 1 .. n |-> IF i = 1 THEN ss[i] ELSE f[i - 1] \o ss[i]]
                 /\ FlattenSeq(ss) = f[n]
    BY <1>1, <1>3, <2>1, FlattenIsConcatenation
  <2>3. /\ \A i \in 1 .. n : f[i] = IF i = 1 THEN ss[i] ELSE f[i - 1] \o ss[i]
    BY <2>2
  <2> DEFINE G == {k \in 0 .. n : k # 0 => Balanced(t, O, f[k])}
  <2>4. \A k \in 0 .. n - 1 : k \in G => k + 1 \in G
    <3> SUFFICES ASSUME NEW k \in 0 .. n - 1, k \in G PROVE Balanced(t, O, f[k + 1])
      OBVIOUS
    <3>1. k + 1 \in 1 .. n /\ (k + 1) - 1 = k
      OBVIOUS
    <3>2. f[k + 1] = IF k + 1 = 1 THEN ss[k + 1] ELSE f[k] \o ss[k + 1]
      BY <2>3, <3>1
    <3>3. Balanced(t, O, ss[k + 1])
      BY <1>1, <3>1
    <3> QED
      BY <3>2, <3>3, BalancedConcat
  <2>5. 0 \in G
    OBVIOUS
  <2> HIDE DEF G
  <2>6. 0 .. n \subseteq G
    BY <1>1, <2>4, <2>5, InductionUpTo
  <2>7. n \in G
    BY <1>1, <2>6
  <2> QED
    BY <1>3, <2>2, <2>7 DEF G
<1> QED
  BY <1>2, <1>3

-----------------------------------------------------------------------------
(* Parts of the handlers.                                                   *)

\* The kinds of locks, and that they are disjoint.
LEMMA LockKinds ==
    /\ Locks = Clients \cup Rooms \cup {Server} \cup Maps
    /\ Server \notin Clients /\ Server \notin Rooms /\ Server \notin Maps
    /\ \A l \in Maps : l \notin Clients /\ l \notin Rooms
    /\ \A c \in Clients, r \in Rooms : c # r
    /\ ClientsMap \in Maps /\ ChannelsMap \in Maps /\ ClientsMap # ChannelsMap
    /\ \A l : l \in Maps => l = ClientsMap \/ l = ChannelsMap
    /\ "read" \in LockModes /\ "write" \in LockModes
BY LocksAssumption DEF Locks, Maps, LockModes

\* A section on one lock, with nothing taken within it.
LEMMA ReadOrWrite ==
    ASSUME NEW t, NEW O, NEW l \in Locks
    PROVE  /\ MayLock(t, O, l, "read") => Balanced(t, O, Read(l))
           /\ MayLock(t, O, l, "write") => Balanced(t, O, Write(l))
<1>1. Balanced(t, O \cup {l}, <<>>)
  BY BalancedEmpty
<1> QED
  BY <1>1, BalancedWith, LockKinds DEF Read, Write

\* Clients and channels may be locked by who holds nothing ...
LEMMA MayLockFirst ==
    ASSUME NEW t, NEW l \in Clients \cup Rooms, NEW m \in LockModes
    PROVE  MayLock(t, {}, l, m)
BY LockKinds DEF MayLock

\* Whoever holds nothing may have a section on a client or a channel.
LEMMA SectionFirst ==
    ASSUME NEW t, NEW l \in Clients \cup Rooms
    PROVE  Balanced(t, {}, Read(l)) /\ Balanced(t, {}, Write(l))
BY MayLockFirst, ReadOrWrite, LockKinds

\* ... and so may the server.
LEMMA OnMaps ==
    ASSUME NEW t, NEW O, MayLock(t, O, Server, "write")
    PROVE  Balanced(t, O, OnClientsMap) /\ Balanced(t, O, OnChannelsMap)
<1> DEFINE P == O \cup {Server}
<1>1. MayLock(t, P, ClientsMap, "write") /\ MayLock(t, P, ChannelsMap, "write")
  BY LockKinds DEF MayLock
<1>2. Balanced(t, P, Write(ClientsMap)) /\ Balanced(t, P, Write(ChannelsMap))
  BY <1>1, ReadOrWrite, LockKinds
<1> QED
  BY <1>2, BalancedWith, LockKinds DEF OnClientsMap, OnChannelsMap

\* Whoever holds nothing may ask a method of the server.
LEMMA OnMapsFirst ==
    ASSUME NEW t
    PROVE  /\ MayLock(t, {}, Server, "write")
           /\ Balanced(t, {}, Write(Server))
           /\ Balanced(t, {}, OnClientsMap)
           /\ Balanced(t, {}, OnChannelsMap)
<1>1. MayLock(t, {}, Server, "write")
  BY LockKinds DEF MayLock
<1> QED
  BY <1>1, OnMaps, ReadOrWrite, LockKinds

\* What the dispatcher may lock while it owns O.
LEMMA DispatcherWith ==
    ASSUME NEW O, NEW P, NEW l, NEW m \in LockModes, NEW body,
           P = O \cup {l}, l \notin O,
           \/ l \in Clients \cup Rooms
           \/ l = Server /\ O \cap Maps = {} /\ m = "write"
           \/ l \in Maps /\ Server \in O /\ m = "write",
           Balanced(Dispatcher, P, body)
    PROVE  Balanced(Dispatcher, O, With(l, m, body))
<1>1. MayLock(Dispatcher, O, l, m) /\ l \in Locks
  BY LockKinds DEF MayLock
<1> QED
  BY <1>1, BalancedWith

\* The dispatcher may have a section on what it does not own, in the order server, map.
LEMMA DispatcherSection ==
    ASSUME NEW O, NEW l, l \notin O
    PROVE  /\ l \in Clients \cup Rooms => /\ Balanced(Dispatcher, O, Read(l))
                                          /\ Balanced(Dispatcher, O, Write(l))
           /\ l = Server /\ O \cap Maps = {} => Balanced(Dispatcher, O, Write(l))
           /\ l \in Maps /\ Server \in O => Balanced(Dispatcher, O, Write(l))
<1>1. Balanced(Dispatcher, O \cup {l}, <<>>)
  BY BalancedEmpty
<1> QED
  BY <1>1, DispatcherWith, LockKinds DEF Read, Write

\* client_name_to_uuid and sendto_wallops, by a dispatcher with the server's mutex and no client.
LEMMA ClientNamesBalanced ==
    ASSUME NEW O, NEW cs \in Seq(Clients),
           Server \in O, ClientsMap \notin O, O \cap Clients = {}
    PROVE  Balanced(Dispatcher, O, ClientNames(cs)) /\ Balanced(Dispatcher, O, Wallops(cs))
<1> DEFINE P == O \cup {ClientsMap}
<1> DEFINE names == [i \in DOMAIN cs |-> Read(cs[i])]
<1> DEFINE tells == [i \in DOMAIN cs |-> Read(cs[i]) \o Write(cs[i])]
<1>1. ASSUME NEW i \in DOMAIN cs
      PROVE  Balanced(Dispatcher, P, Read(cs[i])) /\ Balanced(Dispatcher, P, Write(cs[i]))
  <2>1. cs[i] \in Clients /\ cs[i] \notin P
    BY LockKinds
  <2> QED
    BY <2>1, DispatcherSection
<1>2. \A i \in DOMAIN cs : Balanced(Dispatcher, P, names[i])
  BY <1>1
<1>3. \A i \in DOMAIN cs : Balanced(Dispatcher, P, tells[i])
  BY <1>1, BalancedConcat
<1>4. Balanced(Dispatcher, P, FlattenSeq(names))
  BY <1>2, BalancedEach
<1>5. Balanced(Dispatcher, P, FlattenSeq(tells))
  BY <1>3, BalancedEach
<1>6. /\ ClientNames(cs) = With(ClientsMap, "write", FlattenSeq(names))
      /\ Wallops(cs) = With(ClientsMap, "write", FlattenSeq(tells))
  BY DEF ClientNames, Wallops, Each
<1> HIDE DEF names, tells
<1> QED
  BY <1>4, <1>5, <1>6, DispatcherWith, LockKinds

\* channel_name_to_uuid, by a dispatcher with the server's mutex and no channel.
LEMMA ChannelNamesBalanced ==
    ASSUME NEW O, NEW rs \in Seq(Rooms),
           Server \in O, ChannelsMap \notin O, O \cap Rooms = {}
    PROVE  Balanced(Dispatcher, O, ChannelNames(rs))
<1> DEFINE P == O \cup {ChannelsMap}
<1> DEFINE names == [i \in DOMAIN rs |-> Read(rs[i])]
<1>1. ASSUME NEW i \in DOMAIN rs
      PROVE  Balanced(Dispatcher, P, names[i])
  <2>1. rs[i] \in Rooms /\ rs[i] \notin P
    BY LockKinds
  <2> QED
    BY <2>1, DispatcherSection
<1>2. Balanced(Dispatcher, P, FlattenSeq(names))
  BY <1>1, BalancedEach
<1>3. ChannelNames(rs) = With(ChannelsMap, "write", FlattenSeq(names))
  BY DEF ChannelNames, Each
<1> HIDE DEF names
<1> QED
  BY <1>2, <1>3, DispatcherWith, LockKinds

\* Leaving all channels after an error, by the dispatcher or a connection.
LEMMA HandleClientErrorBalanced ==
    ASSUME NEW t, NEW c \in Clients, NEW rs \in Seq(Rooms)
    PROVE  Balanced(t, {}, HandleClientError(c, rs))
<1> DEFINE Leave(r) ==
        OnChannelsMap \o Write(r) \o Read(r) \o Write(r) \o Read(r) \o OnChannelsMap
<1> DEFINE leaves == [i \in DOMAIN rs |-> Leave(rs[i])]
<1>1. ASSUME NEW r \in Rooms PROVE Balanced(t, {}, Leave(r))
  BY SectionFirst, OnMapsFirst, BalancedConcat
<1> HIDE DEF Leave
<1>2. \A i \in DOMAIN rs : Balanced(t, {}, leaves[i])
  BY <1>1
<1>3. Balanced(t, {}, FlattenSeq(leaves))
  BY <1>2, BalancedEach
<1>4. HandleClientError(c, rs) = Write(c) \o FlattenSeq(leaves) \o OnClientsMap
  BY DEF HandleClientError, Each, Leave
<1> HIDE DEF leaves
<1> QED
  BY <1>3, <1>4, SectionFirst, OnMapsFirst, BalancedConcat

-----------------------------------------------------------------------------
(* The handlers of the dispatcher.                                          *)


\* Both ends of an authentication release what they take.
LEMMA AuthBalanced ==
    ASSUME NEW c \in Clients, NEW cs \in Seq(Clients), NEW rs \in Seq(Rooms)
    PROVE  /\ Balanced(Dispatcher, {}, AuthAccepted(c, cs, rs))
           /\ Balanced(Dispatcher, {}, AuthInvalid(c))
<1> DEFINE Enter(r) == With(Server, "write", Write(ChannelsMap) \o Write(r))
<1> DEFINE enters == [i \in DOMAIN rs |-> Enter(rs[i])]
<1>1. Balanced(Dispatcher, {}, With(Server, "write", ClientNames(cs)))
  <2>1. Balanced(Dispatcher, {Server}, ClientNames(cs))
    BY ClientNamesBalanced, LockKinds
  <2> QED
    BY <2>1, DispatcherWith, LockKinds
<1>2. ASSUME NEW r \in Rooms PROVE Balanced(Dispatcher, {c}, Enter(r))
  <2>1. Balanced(Dispatcher, {c, Server}, Write(ChannelsMap))
    BY DispatcherSection, LockKinds
  <2>2. Balanced(Dispatcher, {c, Server}, Write(r))
    BY DispatcherSection, LockKinds
  <2>3. Balanced(Dispatcher, {c, Server}, Write(ChannelsMap) \o Write(r))
    BY <2>1, <2>2, BalancedConcat
  <2> QED
    BY <2>3, DispatcherWith, LockKinds
<1> HIDE DEF Enter
<1>3. ASSUME NEW i \in DOMAIN rs PROVE Balanced(Dispatcher, {c}, enters[i])
  <2>1. rs[i] \in Rooms /\ enters[i] = Enter(rs[i])
    OBVIOUS
  <2> QED
    BY <2>1, <1>2
<1>4. Balanced(Dispatcher, {c}, FlattenSeq(enters))
  BY <1>3, BalancedEach
<1>5. AuthAccepted(c, cs, rs) = With(Server, "write", ClientNames(cs))
                                    \o With(c, "write", Write(Server) \o FlattenSeq(enters))
  BY DEF AuthAccepted, Each, Enter
<1> HIDE DEF enters
<1>6. Balanced(Dispatcher, {}, With(c, "write", Write(Server) \o FlattenSeq(enters)))
  <2>1. Balanced(Dispatcher, {c}, Write(Server))
    BY DispatcherSection, LockKinds
  <2>2. Balanced(Dispatcher, {c}, Write(Server) \o FlattenSeq(enters))
    BY <2>1, <1>4, BalancedConcat
  <2> QED
    BY <2>2, DispatcherWith, LockKinds
<1>7. Balanced(Dispatcher, {}, AuthInvalid(c))
  <2>1. Balanced(Dispatcher, {Server, c}, Write(ClientsMap))
    BY DispatcherSection, LockKinds
  <2>2. Balanced(Dispatcher, {Server}, With(c, "read", Write(ClientsMap)))
    BY <2>1, DispatcherWith, LockKinds
  <2>3. Balanced(Dispatcher, {}, With(Server, "write", With(c, "read", Write(ClientsMap))))
    BY <2>2, DispatcherWith, LockKinds
  <2> QED
    BY <2>3, SectionFirst, BalancedConcat DEF AuthInvalid
<1> QED
  BY <1>1, <1>5, <1>6, <1>7, BalancedConcat

\* So does set_channel_topic ...
LEMMA TopicBalanced ==
    ASSUME NEW c \in Clients, NEW r \in Rooms
    PROVE  Balanced(Dispatcher, {}, Topic(c, r))
<1>1. Balanced(Dispatcher, {c}, Read(r) \o Write(r))
  BY DispatcherSection, BalancedConcat, LockKinds
<1>2. Balanced(Dispatcher, {}, With(c, "write", Read(r) \o Write(r)))
  BY <1>1, DispatcherWith, LockKinds
<1> QED
  BY <1>2, OnMapsFirst, BalancedConcat DEF Topic

\* ... channel_list ...
LEMMA ListBalanced ==
    ASSUME NEW c \in Clients, NEW rs \in Seq(Rooms)
    PROVE  Balanced(Dispatcher, {}, ChannelList(c, rs))
<1> DEFINE Show(r) == With(r, "read", Read(c))
<1> DEFINE shows == [i \in DOMAIN rs |-> Show(rs[i])]
<1>1. ASSUME NEW r \in Rooms PROVE Balanced(Dispatcher, {}, Show(r))
  <2>1. Balanced(Dispatcher, {r}, Read(c))
    BY DispatcherSection, LockKinds
  <2> QED
    BY <2>1, DispatcherWith, LockKinds
<1> HIDE DEF Show
<1>2. \A i \in DOMAIN rs : Balanced(Dispatcher, {}, shows[i])
  BY <1>1
<1>3. Balanced(Dispatcher, {}, FlattenSeq(shows))
  BY <1>2, BalancedEach
<1>4. ChannelList(c, rs) = OnChannelsMap \o FlattenSeq(shows) \o Write(c)
  BY DEF ChannelList, Each, Show
<1> HIDE DEF shows
<1> QED
  BY <1>3, <1>4, OnMapsFirst, SectionFirst, BalancedConcat

\* ... join, whether it joins, refuses or creates ...
LEMMA JoinBalanced ==
    ASSUME NEW c \in Clients, NEW r \in Rooms, NEW rs \in Seq(Rooms)
    PROVE  /\ Balanced(Dispatcher, {}, Join(c, r, rs))
           /\ Balanced(Dispatcher, {}, JoinRefused(c, r, rs))
           /\ Balanced(Dispatcher, {}, Create(c, rs))
<1>1. /\ Balanced(Dispatcher, {Server}, Read(c))
      /\ Balanced(Dispatcher, {Server}, ChannelNames(rs))
      /\ Balanced(Dispatcher, {Server}, Write(ChannelsMap))
  <2>1. ChannelsMap \notin {Server} /\ {Server} \cap Rooms = {}
    BY LockKinds
  <2>2. Balanced(Dispatcher, {Server}, ChannelNames(rs))
    BY <2>1, ChannelNamesBalanced
  <2> QED
    BY <2>2, DispatcherSection, LockKinds
<1>2. Balanced(Dispatcher, {Server, r}, Read(c)) /\ Balanced(Dispatcher, {Server, r}, Write(c))
  BY DispatcherSection, LockKinds
<1>3. Balanced(Dispatcher, {Server, c}, Write(ChannelsMap))
  BY DispatcherSection, LockKinds
<1>4. /\ Balanced(Dispatcher, {Server}, With(r, "read", Read(c)))
      /\ Balanced(Dispatcher, {Server}, With(r, "write", Write(c)))
  BY <1>2, DispatcherWith, LockKinds
<1>5. Balanced(Dispatcher, {Server}, With(r, "read", Read(c) \o Write(c)))
  <2>1. Balanced(Dispatcher, {Server, r}, Read(c) \o Write(c))
    BY <1>2, BalancedConcat
  <2> QED
    BY <2>1, DispatcherWith, LockKinds
<1>6. Balanced(Dispatcher, {Server}, With(c, "write", Write(ChannelsMap)))
  BY <1>3, DispatcherWith, LockKinds
<1>7. /\ Balanced(Dispatcher, {Server},
                  Read(c) \o ChannelNames(rs) \o Write(ChannelsMap)
                      \o With(r, "read", Read(c)) \o With(r, "write", Write(c)))
      /\ Balanced(Dispatcher, {Server},
                  Read(c) \o ChannelNames(rs) \o Write(ChannelsMap)
                      \o With(r, "read", Read(c) \o Write(c)))
      /\ Balanced(Dispatcher, {Server},
                  Read(c) \o ChannelNames(rs) \o With(c, "write", Write(ChannelsMap)))
  BY <1>1, <1>4, <1>5, <1>6, BalancedConcat
<1> QED
  BY <1>7, DispatcherWith, LockKinds DEF Join, JoinRefused, Create

\* ... part ...
LEMMA PartBalanced ==
    ASSUME NEW c \in Clients, NEW r \in Rooms
    PROVE  Balanced(Dispatcher, {}, Part(c, r))
<1>1. /\ Balanced(Dispatcher, {Server}, Read(c))
      /\ Balanced(Dispatcher, {Server}, Write(c))
      /\ Balanced(Dispatcher, {Server}, Read(r))
      /\ Balanced(Dispatcher, {Server}, Write(r))
      /\ Balanced(Dispatcher, {Server}, Write(ChannelsMap))
  BY DispatcherSection, LockKinds
<1>2. Balanced(Dispatcher, {Server}, With(r, "read", Read(c)))
  <2>1. Balanced(Dispatcher, {Server, r}, Read(c))
    BY DispatcherSection, LockKinds
  <2> QED
    BY <2>1, DispatcherWith, LockKinds
<1>3. /\ Balanced(Dispatcher, {Server},
                  Write(ChannelsMap) \o With(r, "read", Read(c)) \o Read(c) \o Read(r)
                      \o Write(c) \o Write(r) \o Read(r))
      /\ Balanced(Dispatcher, {Server}, Read(r) \o Write(ChannelsMap))
  BY <1>1, <1>2, BalancedConcat
<1>4. /\ Balanced(Dispatcher, {}, With(Server, "write",
                  Write(ChannelsMap) \o With(r, "read", Read(c)) \o Read(c) \o Read(r)
                      \o Write(c) \o Write(r) \o Read(r)))
      /\ Balanced(Dispatcher, {}, With(Server, "write", Read(r) \o Write(ChannelsMap)))
  BY <1>3, DispatcherWith, LockKinds
<1> QED
  BY <1>4, SectionFirst, BalancedConcat DEF Part

\* ... kick, whoever it is about ...
LEMMA KickBalanced ==
    ASSUME NEW c \in Clients, NEW t \in Clients, NEW r \in Rooms
    PROVE  Balanced(Dispatcher, {}, Kick(c, t, r))
<1>1. Balanced(Dispatcher, {}, With(r, "read", Read(c)))
  <2>1. Balanced(Dispatcher, {r}, Read(c))
    BY DispatcherSection, LockKinds
  <2> QED
    BY <2>1, DispatcherWith, LockKinds
<1>2. /\ Balanced(Dispatcher, {}, Read(c)) /\ Balanced(Dispatcher, {}, Read(r))
      /\ Balanced(Dispatcher, {}, Read(t)) /\ Balanced(Dispatcher, {}, Write(r))
      /\ Balanced(Dispatcher, {}, Write(t))
  BY SectionFirst
<1> QED
  BY <1>1, <1>2, OnMapsFirst, BalancedConcat DEF Kick

\* ... kill, of another client or of the source itself ...
LEMMA KillBalanced ==
    ASSUME NEW c \in Clients, NEW t \in Clients,
           NEW cs \in Seq(Clients), NEW rs \in Seq(Rooms)
    PROVE  Balanced(Dispatcher, {}, Kill(c, t, cs, rs))
<1> DEFINE Leave(r) == OnChannelsMap \o Write(r) \o Read(r)
                        \o With(Server, "write", With(r, "read", Read(t)) \o Write(ChannelsMap))
<1> DEFINE leaves == [i \in DOMAIN rs |-> Leave(rs[i])]
<1>1. ASSUME NEW r \in Rooms PROVE Balanced(Dispatcher, {}, Leave(r))
  <2>1. Balanced(Dispatcher, {Server, r}, Read(t))
    BY DispatcherSection, LockKinds
  <2>2. Balanced(Dispatcher, {Server}, With(r, "read", Read(t)))
    BY <2>1, DispatcherWith, LockKinds
  <2>3. Balanced(Dispatcher, {Server}, Write(ChannelsMap))
    BY DispatcherSection, LockKinds
  <2>4. Balanced(Dispatcher, {Server}, With(r, "read", Read(t)) \o Write(ChannelsMap))
    BY <2>2, <2>3, BalancedConcat
  <2>5. Balanced(Dispatcher, {},
                 With(Server, "write", With(r, "read", Read(t)) \o Write(ChannelsMap)))
    BY <2>4, DispatcherWith, LockKinds
  <2> QED
    BY <2>5, SectionFirst, OnMapsFirst, BalancedConcat
<1> HIDE DEF Leave
<1>2. \A i \in DOMAIN rs : Balanced(Dispatcher, {}, leaves[i])
  BY <1>1
<1>3. Balanced(Dispatcher, {}, FlattenSeq(leaves))
  BY <1>2, BalancedEach
<1>4. Kill(c, t, cs, rs) =
          Read(c) \o OnClientsMap \o Read(t) \o FlattenSeq(leaves) \o Write(t) \o OnClientsMap
              \o With(Server, "write", Wallops(cs))
  BY DEF Kill, Each, Leave
<1> HIDE DEF leaves
<1>5. Balanced(Dispatcher, {}, With(Server, "write", Wallops(cs)))
  <2>1. Balanced(Dispatcher, {Server}, Wallops(cs))
    BY ClientNamesBalanced, LockKinds
  <2> QED
    BY <2>1, DispatcherWith, LockKinds
<1>6. /\ Balanced(Dispatcher, {}, Read(c)) /\ Balanced(Dispatcher, {}, Read(t))
      /\ Balanced(Dispatcher, {}, Write(t))
  BY SectionFirst
<1> QED
  BY <1>3, <1>4, <1>5, <1>6, OnMapsFirst, BalancedConcat

\* ... kline up to its kills ...
LEMMA KlineBalanced ==
    ASSUME NEW c \in Clients, NEW cs \in Seq(Clients)
    PROVE  Balanced(Dispatcher, {}, Kline(c, cs))
<1> DEFINE P == {Server, ClientsMap}
<1> DEFINE writes == [i \in DOMAIN cs |-> Write(cs[i])]
<1>1. ASSUME NEW i \in DOMAIN cs PROVE Balanced(Dispatcher, P, writes[i])
  <2>1. cs[i] \in Clients /\ cs[i] \notin P
    BY LockKinds
  <2> QED
    BY <2>1, DispatcherSection
<1>2. Balanced(Dispatcher, P, FlattenSeq(writes))
  BY <1>1, BalancedEach
<1>3. Kline(c, cs) =
          Read(c) \o Write(Server)
          \o With(Server, "write",
                 Read(c) \o Write(ClientsMap) \o With(ClientsMap, "write", FlattenSeq(writes))
                     \o Read(c) \o Wallops(cs))
  BY DEF Kline, Each
<1> HIDE DEF writes
<1>4. /\ Balanced(Dispatcher, {Server}, Read(c))
      /\ Balanced(Dispatcher, {Server}, Write(ClientsMap))
      /\ Balanced(Dispatcher, {Server}, With(ClientsMap, "write", FlattenSeq(writes)))
      /\ Balanced(Dispatcher, {Server}, Wallops(cs))
  <2>1. Balanced(Dispatcher, {Server}, Read(c))
        /\ Balanced(Dispatcher, {Server}, Write(ClientsMap))
    BY DispatcherSection, LockKinds
  <2>2. Balanced(Dispatcher, {Server}, With(ClientsMap, "write", FlattenSeq(writes)))
    BY <1>2, DispatcherWith, LockKinds
  <2>3. Balanced(Dispatcher, {Server}, Wallops(cs))
    <3>1. ClientsMap \notin {Server} /\ {Server} \cap Clients = {}
      BY LockKinds
    <3> QED
      BY <3>1, ClientNamesBalanced
  <2> QED
    BY <2>1, <2>2, <2>3
<1>5. Balanced(Dispatcher, {Server},
               Read(c) \o Write(ClientsMap) \o With(ClientsMap, "write", FlattenSeq(writes))
                   \o Read(c) \o Wallops(cs))
  BY <1>4, BalancedConcat
<1>6. Balanced(Dispatcher, {}, With(Server, "write",
               Read(c) \o Write(ClientsMap) \o With(ClientsMap, "write", FlattenSeq(writes))
                   \o Read(c) \o Wallops(cs)))
  BY <1>5, DispatcherWith, LockKinds
<1> QED
  BY <1>3, <1>6, OnMapsFirst, SectionFirst, BalancedConcat

\* ... typing ...
LEMMA TypingBalanced ==
    ASSUME NEW c \in Clients, NEW r \in Rooms
    PROVE  Balanced(Dispatcher, {}, Typing(c, r))
<1>1. Balanced(Dispatcher, {Server}, Write(ChannelsMap) \o Read(r) \o Read(c) \o Write(r))
  BY DispatcherSection, BalancedConcat, LockKinds
<1> QED
  BY <1>1, DispatcherWith, LockKinds DEF Typing

\* ... and message.
LEMMA MessageBalanced ==
    ASSUME NEW c \in Clients, NEW r \in Rooms
    PROVE  Balanced(Dispatcher, {}, Message(c, r))
<1> DEFINE body == Write(ChannelsMap) \o Read(r) \o Write(r) \o Read(r)
<1>1. /\ Balanced(Dispatcher, {c, Server}, Write(ChannelsMap))
      /\ Balanced(Dispatcher, {c, Server}, Read(r))
      /\ Balanced(Dispatcher, {c, Server}, Write(r))
  BY DispatcherSection, LockKinds
<1>2. Balanced(Dispatcher, {c, Server}, body)
  BY <1>1, BalancedConcat
<1>3. Balanced(Dispatcher, {c}, With(Server, "write", body))
  <2> HIDE DEF body
  <2> QED
    BY <1>2, DispatcherWith, LockKinds
<1>4. Balanced(Dispatcher, {}, With(c, "read", With(Server, "write", body)))
  <2> HIDE DEF body
  <2> QED
    BY <1>3, DispatcherWith, LockKinds
<1> QED
  BY <1>4 DEF Message

\* The order in which two guards are taken does not show.
LEMMA TwoGuards ==
    ASSUME NEW h \in Holdings, NEW l1 \in Locks, NEW l2 \in Locks, l1 # l2,
           NEW m1 \in LockModes, NEW m2 \in LockModes
    PROVE  Taken(Taken(h, l1, m1), l2, m2) = Taken(Taken(h, l2, m2), l1, m1)
<1>1. /\ Grant(l1, m1) \in Grants /\ Grant(l2, m2) \in Grants
      /\ Grant(l1, m1) # Grant(l2, m2)
      /\ h \in [Grants -> Nat]
  BY GrantType DEF Holdings
<1> QED
  BY <1>1 DEF Taken

\* The client's guard goes before the channel's.
LEMMA ModesRuns ==
    ASSUME NEW c \in Clients, NEW r \in Rooms
    PROVE  Runs(Dispatcher, Nothing, Modes(c, r), Nothing)
<1> DEFINE h1 == Taken(Nothing, c, "write")
<1> DEFINE h2 == Taken(h1, r, "write")
<1> DEFINE h3 == Taken(Nothing, r, "write")
<1>1. c \in Locks /\ r \in Locks /\ c # r /\ "write" \in LockModes
  BY LockKinds
<1>2. Nothing \in Holdings /\ Owned(Nothing) = {}
  BY NothingOwned
<1>3. h1 \in Holdings /\ Owned(h1) = {} \cup {c}
  BY <1>1, <1>2, OneMore
<1>4. /\ h3 \in Holdings /\ Owned(h3) = {} \cup {r}
      /\ h3[Grant(r, "write")] > 0 /\ Given(h3, r, "write") = Nothing
  BY <1>1, <1>2, OneMore
<1>5. h2 = Taken(h3, c, "write")
  BY <1>1, <1>2, TwoGuards
<1>6. /\ h2 \in Holdings
      /\ h2[Grant(c, "write")] > 0 /\ Given(h2, c, "write") = h3
  <2> HIDE DEF h2, h3
  <2> QED
    BY <1>1, <1>4, <1>5, OneMore
<1>7. /\ MayLock(Dispatcher, {}, c, "write")
      /\ MayLock(Dispatcher, {c}, r, "write")
      /\ MayUnlock(Dispatcher, h2, c, "write")
      /\ MayUnlock(Dispatcher, h3, r, "write")
  <2> HIDE DEF h2, h3
  <2> QED
    BY <1>4, <1>6, LockKinds DEF MayLock, MayUnlock
<1>8. Runs(Dispatcher, Nothing, Lock(c, "write"), h1)
  BY <1>1, <1>2, <1>7, RunsSteps
<1>9. Runs(Dispatcher, h1, Read(r), h1)
  <2>1. Balanced(Dispatcher, {c}, Read(r))
    BY DispatcherSection, LockKinds
  <2> HIDE DEF h1
  <2> QED
    BY <1>3, <2>1 DEF Balanced
<1>10. Runs(Dispatcher, h1, Lock(r, "write"), h2)
  <2>1. Owned(h1) = {c}
    BY <1>3
  <2> HIDE DEF h1
  <2> QED
    BY <1>1, <1>3, <1>7, <2>1, RunsSteps
<1>11. Runs(Dispatcher, h2, Unlock(c, "write"), h3)
  <2> HIDE DEF h2, h3
  <2> QED
    BY <1>1, <1>6, <1>7, RunsSteps
<1>12. Runs(Dispatcher, h3, Unlock(r, "write"), Nothing)
  <2> HIDE DEF h3
  <2> QED
    BY <1>1, <1>4, <1>7, RunsSteps
<1> HIDE DEF h1, h2, h3
<1>13. Runs(Dispatcher, Nothing, OnChannelsMap, Nothing)
  BY <1>2, OnMapsFirst DEF Balanced
<1>14. Runs(Dispatcher, Nothing, OnChannelsMap \o Lock(c, "write"), h1)
  BY <1>13, <1>8, RunsConcat
<1>15. Runs(Dispatcher, Nothing, OnChannelsMap \o Lock(c, "write") \o Read(r), h1)
  BY <1>14, <1>9, RunsConcat
<1>16. Runs(Dispatcher, Nothing, OnChannelsMap \o Lock(c, "write") \o Read(r)
                                     \o Lock(r, "write"), h2)
  BY <1>15, <1>10, RunsConcat
<1>17. Runs(Dispatcher, Nothing, OnChannelsMap \o Lock(c, "write") \o Read(r)
                                     \o Lock(r, "write") \o Unlock(c, "write"), h3)
  BY <1>16, <1>11, RunsConcat
<1>18. Runs(Dispatcher, Nothing, OnChannelsMap \o Lock(c, "write") \o Read(r)
                                     \o Lock(r, "write") \o Unlock(c, "write")
                                     \o Unlock(r, "write"), Nothing)
  BY <1>17, <1>12, RunsConcat
<1> QED
  BY <1>18 DEF Modes

\* Every handler may be run by a dispatcher with nothing, and leaves it with nothing.
LEMMA HandlersRun ==
    ASSUME NEW c \in Clients, NEW t \in Clients, NEW r \in Rooms,
           NEW cs \in Seq(Clients), NEW rs \in Seq(Rooms),
           NEW k \in AllCommands, NEW s \in Handlers(c, t, r, cs, rs)[k]
    PROVE  Runs(Dispatcher, Nothing, s, Nothing)
<1>1. ASSUME Balanced(Dispatcher, {}, s) PROVE Runs(Dispatcher, Nothing, s, Nothing)
  BY <1>1, NothingOwned DEF Balanced
<1>2. CASE k = "Auth"
  BY <1>1, <1>2, AuthBalanced DEF Handlers
<1>3. CASE k = "AuthInvalid"
  BY <1>1, <1>3, AuthBalanced DEF Handlers
<1>4. CASE k = "BadRequest"
  <2>1. <<>> \in Seq(Rooms)
    BY EmptySeq
  <2> QED
    BY <1>1, <1>4, <2>1, HandleClientErrorBalanced DEF Handlers
<1>5. CASE k = "Modes"
  BY <1>5, ModesRuns DEF Handlers
<1>6. CASE k = "Topic"
  BY <1>1, <1>6, TopicBalanced DEF Handlers
<1>7. CASE k = "List"
  BY <1>1, <1>7, ListBalanced DEF Handlers
<1>8. CASE k = "Join"
  BY <1>1, <1>8, JoinBalanced DEF Handlers
<1>9. CASE k = "Create"
  BY <1>1, <1>9, JoinBalanced DEF Handlers
<1>10. CASE k = "Part"
  BY <1>1, <1>10, PartBalanced DEF Handlers
<1>11. CASE k = "Kick"
  BY <1>1, <1>11, KickBalanced DEF Handlers
<1>12. CASE k = "Kill"
  BY <1>1, <1>12, KillBalanced DEF Handlers
<1>13. CASE k = "Kline"
  BY <1>1, <1>13, KlineBalanced, KillBalanced, BalancedConcat DEF Handlers
<1>14. CASE k = "Typing"
  BY <1>1, <1>14, TypingBalanced DEF Handlers
<1>15. CASE k = "Message"
  BY <1>1, <1>15, MessageBalanced DEF Handlers
<1> QED
  BY <1>2, <1>3, <1>4, <1>5, <1>6, <1>7, <1>8, <1>9, <1>10, <1>11, <1>12, <1>13, <1>14, <1>15
     DEF AllCommands

\* Sequences of all clients, and of all channels.
LEMMA OrdersType == Orders \subseteq Seq(Clients) /\ Lists \subseteq Seq(Rooms)
<1>1. Cardinality(Clients) \in Nat /\ Cardinality(Rooms) \in Nat
  BY LocksAssumption, FS_CardinalityType
<1> QED
  BY <1>1 DEF Orders, Lists, SetToSeqs

\* try_lock is called by who holds nothing.
LEMMA PollRuns ==
    ASSUME NEW t
    PROVE  \E k \in Holdings : /\ Owned(k) = {Server}
                               /\ Runs(t, Nothing, Try(Server), k)
                               /\ Runs(t, k, Unlock(Server, "write"), Nothing)
<1> DEFINE k == Taken(Nothing, Server, "write")
<1>1. Nothing \in Holdings /\ Owned(Nothing) = {} /\ Server \in Locks /\ "write" \in LockModes
  BY NothingOwned, LockKinds
<1>2. /\ k \in Holdings /\ Owned(k) = {} \cup {Server}
      /\ k[Grant(Server, "write")] > 0 /\ Given(k, Server, "write") = Nothing
  BY <1>1, OneMore
<1>3. Runs(t, Nothing, Try(Server), k)
  BY <1>1, RunsSteps
<1> HIDE DEF k
<1>4. MayUnlock(t, k, Server, "write")
  BY <1>2, LockKinds DEF MayUnlock
<1>5. Runs(t, k, Unlock(Server, "write"), Nothing)
  BY <1>1, <1>2, <1>4, RunsSteps
<1> QED
  BY <1>2, <1>3, <1>5

\* So may every turn of the dispatcher's loop, from try_recv to the end of the handler.
LEMMA TurnsRun == ASSUME NEW s \in Turns PROVE Runs(Dispatcher, Nothing, s, Nothing)
<1> DEFINE poll == Try(Server) \o Unlock(Server, "write")
<1>1. Runs(Dispatcher, Nothing, poll, Nothing)
  BY PollRuns, RunsConcat
<1>2. PICK c \in Clients, t \in Clients, r \in Rooms, cs \in Orders, rs \in Lists :
          s \in Turn(c, t, r, cs, rs)
  BY DEF Turns
<1> DEFINE head == OnClientsMap \o Write(c)
<1>3. Runs(Dispatcher, Nothing, head, Nothing)
  <2>1. Balanced(Dispatcher, {}, head)
    BY OnMapsFirst, SectionFirst, BalancedConcat
  <2> QED
    BY <2>1, NothingOwned DEF Balanced
<1>4. ASSUME NEW k \in Commands, NEW h \in Handlers(c, t, r, cs, rs)[k]
      PROVE  Runs(Dispatcher, Nothing, poll \o head \o h, Nothing)
  <2>1. Runs(Dispatcher, Nothing, h, Nothing)
    BY HandlersRun, OrdersType, LocksAssumption
  <2> HIDE DEF poll, head
  <2> QED
    BY <1>1, <1>3, <2>1, RunsConcat
<1>5. s \in {poll} \cup {poll \o head \o h :
                             h \in UNION {Handlers(c, t, r, cs, rs)[k] : k \in Commands}}
  BY <1>2 DEF Turn
<1> HIDE DEF poll, head
<1> QED
  BY <1>1, <1>4, <1>5

-----------------------------------------------------------------------------
(* The other tasks.                                                         *)

\* The accept loop, from the look at the bans to the next accept.
LEMMA AcceptRuns == Runs(Acceptor, Nothing, Accept, Nothing)
<1>1. PICK k \in Holdings : /\ Owned(k) = {Server}
                            /\ Runs(Acceptor, Nothing, Try(Server), k)
                            /\ Runs(Acceptor, k, Unlock(Server, "write"), Nothing)
  BY PollRuns
<1>2. Runs(Acceptor, Nothing, Write(Server), Nothing)
  BY OnMapsFirst, NothingOwned DEF Balanced
<1>3. Runs(Acceptor, k, Write(ChannelsMap), k) /\ Runs(Acceptor, k, Write(ClientsMap), k)
  <2>1. /\ MayLock(Acceptor, {Server}, ChannelsMap, "write")
        /\ MayLock(Acceptor, {Server}, ClientsMap, "write")
    BY LockKinds DEF MayLock
  <2>2. /\ Balanced(Acceptor, {Server}, Write(ChannelsMap))
        /\ Balanced(Acceptor, {Server}, Write(ClientsMap))
    BY <2>1, ReadOrWrite, LockKinds
  <2> QED
    BY <1>1, <2>2 DEF Balanced
<1>4. Runs(Acceptor, Nothing, Write(Server) \o Try(Server), k)
  BY <1>1, <1>2, RunsConcat
<1>5. Runs(Acceptor, Nothing, Write(Server) \o Try(Server) \o Write(ChannelsMap), k)
  BY <1>3, <1>4, RunsConcat
<1>6. Runs(Acceptor, Nothing, Write(Server) \o Try(Server) \o Write(ChannelsMap)
                                  \o Write(ClientsMap), k)
  BY <1>3, <1>5, RunsConcat
<1> QED
  BY <1>1, <1>6, RunsConcat DEF Accept

\* What a connection task does for one message or error.
LEMMA ConnectionRuns ==
    ASSUME NEW c \in Clients, NEW rs \in Seq(Rooms), NEW s \in Connection(c, rs)
    PROVE  Runs(c, Nothing, s, Nothing)
<1>1. Balanced(c, {}, Read(c)) /\ Balanced(c, {}, Write(c))
  BY SectionFirst
<1>2. Balanced(c, {}, HandleClientError(c, rs))
  BY HandleClientErrorBalanced
<1>3. Balanced(c, {}, Write(c) \o HandleClientError(c, rs) \o OnClientsMap \o OnClientsMap)
  BY <1>1, <1>2, OnMapsFirst, BalancedConcat
<1>4. Balanced(c, {}, s)
  BY <1>1, <1>3 DEF Connection
<1> QED
  BY <1>4, NothingOwned DEF Balanced

\* The health task is only known to release what it takes.
LEMMA HealthSections ==
    ASSUME NEW O, NEW l \in Locks
    PROVE  /\ \A body : \A m \in LockModes : Balanced(Health, O \cup {l}, body) =>
                  Balanced(Health, O, With(l, m, body))
           /\ Balanced(Health, O, Read(l)) /\ Balanced(Health, O, Write(l))
           /\ Balanced(Health, O, OnClientsMap) /\ Balanced(Health, O, OnChannelsMap)
<1>1. \A k, m : MayLock(Health, O, k, m)
  BY DEF MayLock
<1> QED
  BY <1>1, BalancedWith, ReadOrWrite, OnMaps, LockKinds

\* What the health task does for one expired client; it asks for what it has, and releases as much.
LEMMA ExpireBalanced ==
    ASSUME NEW c \in Clients, NEW rs \in Seq(Rooms)
    PROVE  Balanced(Health, {}, Expire(c, rs))
<1> DEFINE Leave(r) == OnChannelsMap \o Read(c) \o Write(r) \o Read(r)
                           \o With(r, "read", Read(c)) \o OnChannelsMap
<1> DEFINE leaves == [i \in DOMAIN rs |-> Leave(rs[i])]
<1>1. ASSUME NEW r \in Rooms PROVE Balanced(Health, {c}, Leave(r))
  <2>1. c \in Locks /\ r \in Locks /\ "read" \in LockModes
    BY LockKinds
  <2>2. Balanced(Health, {c}, With(r, "read", Read(c)))
    BY <2>1, HealthSections
  <2>3. /\ Balanced(Health, {c}, OnChannelsMap) /\ Balanced(Health, {c}, Read(c))
        /\ Balanced(Health, {c}, Write(r)) /\ Balanced(Health, {c}, Read(r))
    BY <2>1, HealthSections
  <2> QED
    BY <2>2, <2>3, BalancedConcat
<1> HIDE DEF Leave
<1>2. ASSUME NEW i \in DOMAIN rs PROVE Balanced(Health, {c}, leaves[i])
  <2>1. rs[i] \in Rooms /\ leaves[i] = Leave(rs[i])
    OBVIOUS
  <2> QED
    BY <2>1, <1>1
<1>3. Balanced(Health, {c}, FlattenSeq(leaves))
  BY <1>2, BalancedEach
<1>4. Expire(c, rs) = OnClientsMap \o With(c, "read", FlattenSeq(leaves))
                          \o Write(c) \o OnClientsMap
  BY DEF Expire, Each, Leave
<1> HIDE DEF leaves
<1>5. Balanced(Health, {}, With(c, "read", FlattenSeq(leaves)))
  <2>1. Balanced(Health, {} \cup {c}, FlattenSeq(leaves))
    BY <1>3
  <2> QED
    BY <2>1, HealthSections, LockKinds
<1>6. Balanced(Health, {}, OnClientsMap) /\ Balanced(Health, {}, Write(c))
  BY HealthSections, LockKinds
<1> QED
  BY <1>4, <1>5, <1>6, BalancedConcat

\* A pass of the health task ends with nothing.
LEMMA PassRuns ==
    ASSUME NEW cs \in Seq(Clients), NEW rs \in Seq(Rooms), NEW gone \in Seq(Clients)
    PROVE  Runs(Health, Nothing, Pass(cs, rs, gone), Nothing)
<1> DEFINE writes == [i \in DOMAIN cs |-> Write(cs[i])]
<1> DEFINE expires == [i \in DOMAIN gone |-> Expire(gone[i], rs)]
<1>1. ASSUME NEW i \in DOMAIN cs PROVE Balanced(Health, {ClientsMap}, writes[i])
  <2>1. cs[i] \in Clients
    OBVIOUS
  <2> QED
    BY <2>1, HealthSections, LockKinds
<1>2. ASSUME NEW i \in DOMAIN gone PROVE Balanced(Health, {}, expires[i])
  <2>1. gone[i] \in Clients
    OBVIOUS
  <2> QED
    BY <2>1, ExpireBalanced
<1>3. Balanced(Health, {ClientsMap}, FlattenSeq(writes))
  BY <1>1, BalancedEach
<1>4. Balanced(Health, {}, FlattenSeq(expires))
  BY <1>2, BalancedEach
<1>5. Pass(cs, rs, gone) =
          OnClientsMap \o With(ClientsMap, "write", FlattenSeq(writes)) \o FlattenSeq(expires)
  BY DEF Pass, Each
<1> HIDE DEF writes, expires
<1>6. Balanced(Health, {}, With(ClientsMap, "write", FlattenSeq(writes)))
  <2>1. Balanced(Health, {} \cup {ClientsMap}, FlattenSeq(writes))
    BY <1>3
  <2> QED
    BY <2>1, HealthSections, LockKinds
<1>7. Balanced(Health, {}, OnClientsMap)
  BY OnMapsFirst
<1>8. Balanced(Health, {}, Pass(cs, rs, gone))
  BY <1>4, <1>5, <1>6, <1>7, BalancedConcat
<1> QED
  BY <1>8, NothingOwned DEF Balanced

\* Every task may run every script it starts, and ends with nothing.
LEMMA ScriptsRun ==
    ASSUME NEW t \in Tasks, NEW s \in Scripts[t]
    PROVE  Runs(t, Nothing, s, Nothing)
<1>1. CASE t = Dispatcher
  <2>1. s \in Turns
    BY <1>1, LocksAssumption DEF Scripts
  <2> QED
    BY <1>1, <2>1, TurnsRun
<1>2. CASE t = Acceptor
  <2>1. s = Accept
    BY <1>2, LocksAssumption DEF Scripts
  <2> QED
    BY <1>2, <2>1, AcceptRuns
<1>3. CASE t = Health
  <2>1. s \in Passes
    BY <1>3, LocksAssumption DEF Scripts
  <2>2. PICK cs \in Orders, rs \in Lists \cup {<<>>},
             gone \in {<<>>} \cup {<<c>> : c \in MayExpire} : s = Pass(cs, rs, gone)
    BY <2>1 DEF Passes
  <2>3. cs \in Seq(Clients) /\ rs \in Seq(Rooms)
    BY OrdersType, EmptySeq
  <2>4. gone \in Seq(Clients)
    <3>1. \A c \in MayExpire : <<c>> \in Seq(Clients)
      BY LocksAssumption
    <3> QED
      BY <3>1, EmptySeq
  <2> QED
    BY <1>3, <2>2, <2>3, <2>4, PassRuns
<1>4. CASE t \in Clients
  <2>1. s \in UNION {Connection(t, rs) : rs \in Lists \cup {<<>>}}
    BY <1>4, LocksAssumption DEF Scripts
  <2>2. PICK rs \in Lists \cup {<<>>} : s \in Connection(t, rs)
    BY <2>1
  <2>3. rs \in Seq(Rooms)
    BY OrdersType, EmptySeq
  <2> QED
    BY <1>4, <2>2, <2>3, ConnectionRuns
<1> QED
  BY <1>1, <1>2, <1>3, <1>4 DEF Tasks

-----------------------------------------------------------------------------
(* The inductive invariant.                                                 *)

Types ==
    /\ script \in [Tasks -> Seq(Ops)]
    /\ held \in [Tasks -> Holdings]
    /\ queue \in [Locks -> Seq([task : Tasks, mode : LockModes])]

Exclusive == \A t, u \in Tasks, l \in Locks : t # u /\ Writes(t, l) => ~Has(u, l)

\* Every task may run the rest of its script.
Disciplined == \A t \in Tasks : Runs(t, held[t], script[t], Nothing)

\* The server's mutex and the maps are never read-locked, and who has a map
\* has the server.
MapsInside ==
    \A t \in Tasks \ {Health} :
        /\ \A l \in Maps \cup {Server} : held[t][Grant(l, "read")] = 0
        /\ Owned(held[t]) \cap Maps # {} => Server \in Owned(held[t])

\* Who waits is about to lock what it waits for, and waits once.
Queued ==
    \A l \in Locks : \A i \in 1 .. Len(queue[l]) :
        LET q == queue[l][i] IN
        /\ script[q.task] # <<>>
        /\ Head(script[q.task]) = [op |-> "lock", lock |-> l, mode |-> q.mode]
        /\ \A j \in 1 .. Len(queue[l]) : queue[l][j].task = q.task => j = i

Inv == Types /\ Exclusive /\ Disciplined /\ MapsInside /\ Queued

\* The type invariant of LockOrder is the first two conjuncts.
LEMMA TypeOKParts == TypeOK <=> Types /\ Exclusive
BY DEF TypeOK, Types, Exclusive, Ops, Holdings

\* Where a script has ended nothing is held.
LEMMA RunsEnd ==
    ASSUME NEW t, NEW h, Runs(t, h, <<>>, Nothing)
    PROVE  h = Nothing
BY DEF Runs

\* The requests in the queues, and who makes them.
LEMMA Requests ==
    ASSUME Types, NEW l \in Locks
    PROVE  /\ Len(queue[l]) \in Nat /\ DOMAIN queue[l] = 1 .. Len(queue[l])
           /\ \A i \in 1 .. Len(queue[l]) :
                  queue[l][i].task \in Tasks /\ queue[l][i].mode \in LockModes
<1> DEFINE R == [task : Tasks, mode : LockModes]
<1>1. queue[l] \in Seq(R)
  BY DEF Types
<1>2. \A q \in R : q.task \in Tasks /\ q.mode \in LockModes
  OBVIOUS
<1> HIDE DEF R
<1> QED
  BY <1>1, <1>2, LenProperties, ElementOfSeq

\* What t, which is not in a queue, does to its script is of no concern to those
\* that wait.
LEMMA QueuedKept ==
    ASSUME Types, Queued, NEW t \in Tasks, ~Waiting(t), UNCHANGED queue,
           NEW s, script' = [script EXCEPT ![t] = s]
    PROVE  Queued'
<1> SUFFICES ASSUME NEW l \in Locks, NEW i \in 1 .. Len(queue[l])
             PROVE  /\ script'[queue[l][i].task] # <<>>
                    /\ Head(script'[queue[l][i].task])
                           = [op |-> "lock", lock |-> l, mode |-> queue[l][i].mode]
                    /\ \A j \in 1 .. Len(queue[l]) :
                           queue[l][j].task = queue[l][i].task => j = i
  BY DEF Queued
<1>1. queue[l][i].task # t /\ queue[l][i].task \in Tasks
  BY Requests DEF Waiting
<1>2. script'[queue[l][i].task] = script[queue[l][i].task]
  BY <1>1 DEF Types
<1> QED
  BY <1>2 DEF Queued

\* A lock is taken, at once or from the queue.
LEMMA TakeStep ==
    ASSUME Types, Exclusive, Disciplined, MapsInside,
           NEW t \in Tasks, NEW l, NEW m,
           script[t] # <<>>, Head(script[t]).op \in {"lock", "try"},
           l = Head(script[t]).lock, m = Head(script[t]).mode,
           Free(l, m), Take(t, l, m)
    PROVE  /\ script' \in [Tasks -> Seq(Ops)] /\ held' \in [Tasks -> Holdings]
           /\ Exclusive' /\ Disciplined' /\ MapsInside'
<1> DEFINE o == Head(script[t])
<1> DEFINE h == held[t]
<1> DEFINE k == Taken(h, l, m)
<1>1. Runs(t, h, script[t], Nothing)
  BY DEF Disciplined
<1>2. /\ o \in Ops /\ h \in Holdings /\ Allowed(t, h, o)
      /\ Runs(t, After(h, o), Tail(script[t]), Nothing)
  BY <1>1, RunsHead
<1>3. l \in Locks /\ m \in LockModes
  BY <1>2 DEF Ops
<1>4. After(h, o) = k
  BY DEF After
<1>5. k \in Holdings /\ Owned(k) = Owned(h) \cup {l}
  BY <1>2, <1>3, OneMore
<1>6. /\ held' = [held EXCEPT ![t] = k]
      /\ script' = [script EXCEPT ![t] = Tail(script[t])]
  BY DEF Take, Taken, Types
<1>7. \A g \in Grants : g # Grant(l, m) => k[g] = h[g]
  BY <1>2, <1>3, GrantType DEF Taken, Holdings
<1>8. Tail(script[t]) \in Seq(Ops)
  BY <1>2 DEF Runs
<1>9. script' \in [Tasks -> Seq(Ops)] /\ held' \in [Tasks -> Holdings]
  <2> HIDE DEF k
  <2> QED
    BY <1>5, <1>6, <1>8 DEF Types
<1>10. /\ held'[t] = k /\ script'[t] = Tail(script[t])
       /\ \A u \in Tasks : u # t => held'[u] = held[u] /\ script'[u] = script[u]
  <2> HIDE DEF k
  <2> QED
    BY <1>6 DEF Types
<1> HIDE DEF k
<1>11. Disciplined'
  <2> SUFFICES ASSUME NEW u \in Tasks PROVE Runs(u, held'[u], script'[u], Nothing)
    BY DEF Disciplined
  <2>1. CASE u = t
    BY <1>2, <1>4, <1>10, <2>1
  <2>2. CASE u # t
    BY <1>10, <2>2 DEF Disciplined
  <2> QED
    BY <2>1, <2>2
<1>12. Exclusive'
  <2> SUFFICES ASSUME NEW u \in Tasks, NEW v \in Tasks, NEW x \in Locks, u # v,
                      held'[u][Grant(x, "write")] > 0,
                      NEW y \in LockModes, held'[v][Grant(x, y)] > 0
               PROVE  FALSE
    BY DEF Exclusive, Writes, Has
  <2>1. CASE u = t /\ held[t][Grant(x, "write")] > 0
    BY <1>10, <2>1 DEF Exclusive, Writes, Has
  <2>2. CASE u = t /\ ~(held[t][Grant(x, "write")] > 0)
    <3>1. Grant(x, "write") = Grant(l, m)
      BY <1>7, <1>10, <2>2, GrantType DEF LockModes
    <3>2. x = l /\ m = "write"
      BY <3>1, <1>3, GrantType DEF LockModes
    <3>3. Has(v, l)
      BY <1>10, <2>2, <3>2 DEF Has
    <3> QED
      BY <3>2, <3>3 DEF Free, Excludes
  <2>3. CASE v = t /\ held[t][Grant(x, y)] > 0
    BY <1>10, <2>3 DEF Exclusive, Writes, Has
  <2>4. CASE v = t /\ ~(held[t][Grant(x, y)] > 0)
    <3>1. Grant(x, y) = Grant(l, m)
      BY <1>7, <1>10, <2>4, GrantType
    <3>2. x = l
      BY <3>1, GrantType
    <3>3. Writes(u, l) /\ Has(u, l)
      BY <1>10, <2>4, <3>2 DEF Writes, Has, LockModes
    <3> QED
      BY <3>3 DEF Free, Excludes
  <2>5. CASE u # t /\ v # t
    BY <1>10, <2>5 DEF Exclusive, Writes, Has
  <2> QED
    BY <2>1, <2>2, <2>3, <2>4, <2>5
<1>13. ASSUME t # Health
       PROVE  /\ l \in Maps \cup {Server} => m = "write"
              /\ l \in Maps => Server \in Owned(h)
  BY <1>2, <1>13, LockKinds DEF Allowed, MayLock
<1>14. MapsInside'
  <2> SUFFICES ASSUME NEW u \in Tasks \ {Health}
               PROVE  /\ \A x \in Maps \cup {Server} : held'[u][Grant(x, "read")] = 0
                      /\ Owned(held'[u]) \cap Maps # {} => Server \in Owned(held'[u])
    BY DEF MapsInside
  <2>1. CASE u # t
    BY <1>10, <2>1 DEF MapsInside
  <2>2. CASE u = t
    <3>1. /\ \A x \in Maps \cup {Server} : h[Grant(x, "read")] = 0
          /\ Owned(h) \cap Maps # {} => Server \in Owned(h)
      BY <2>2 DEF MapsInside
    <3>2. ASSUME NEW x \in Maps \cup {Server} PROVE k[Grant(x, "read")] = 0
      <4>1. Grant(x, "read") # Grant(l, m)
        BY <1>3, <1>13, <2>2, GrantType, LockKinds
      <4>2. Grant(x, "read") \in Grants
        BY GrantType, LockKinds
      <4> QED
        BY <1>7, <3>1, <4>1, <4>2
    <3>3. Owned(k) \cap Maps # {} => Server \in Owned(k)
      BY <1>5, <1>13, <2>2, <3>1
    <3> QED
      BY <1>10, <2>2, <3>2, <3>3
  <2> QED
    BY <2>1, <2>2
<1> QED
  BY <1>9, <1>11, <1>12, <1>14

\* Dropping a guard keeps the invariant.
LEMMA ReleaseStep ==
    ASSUME Types, Exclusive, Disciplined, MapsInside, Queued,
           NEW t \in Tasks, Release(t)
    PROVE  Types' /\ Exclusive' /\ Disciplined' /\ MapsInside' /\ Queued'
<1> DEFINE o == Head(script[t])
<1> DEFINE h == held[t]
<1> DEFINE k == Given(h, o.lock, o.mode)
<1>1. script[t] # <<>> /\ o.op = "unlock" /\ ~Waiting(t) /\ UNCHANGED queue
  BY DEF Release, NextOp
<1>2. /\ o \in Ops /\ h \in Holdings /\ Allowed(t, h, o)
      /\ Runs(t, After(h, o), Tail(script[t]), Nothing)
  BY <1>1, RunsHead DEF Disciplined
<1>3. /\ o.lock \in Locks /\ o.mode \in LockModes
      /\ MayUnlock(t, h, o.lock, o.mode) /\ After(h, o) = k
  BY <1>1, <1>2 DEF Ops, Allowed, After
<1>4. /\ k \in Holdings
      /\ Owned(k) \subseteq Owned(h) /\ Owned(h) \subseteq Owned(k) \cup {o.lock}
      /\ \A g \in Grants : k[g] <= h[g]
  BY <1>2, <1>3, OneLess DEF MayUnlock
<1>5. /\ held' = [held EXCEPT ![t] = k]
      /\ script' = [script EXCEPT ![t] = Tail(script[t])]
  BY DEF Release, Given, Types
<1>6. Tail(script[t]) \in Seq(Ops)
  BY <1>2 DEF Runs
<1> HIDE DEF k
<1>7. Types'
  BY <1>1, <1>4, <1>5, <1>6 DEF Types
<1>8. /\ held'[t] = k /\ script'[t] = Tail(script[t])
      /\ \A u \in Tasks : u # t => held'[u] = held[u] /\ script'[u] = script[u]
  BY <1>5 DEF Types
<1>9. \A u \in Tasks, g \in Grants : held'[u][g] > 0 => held[u][g] > 0
  <2> SUFFICES ASSUME NEW u \in Tasks, NEW g \in Grants, held'[u][g] > 0
               PROVE  held[u][g] > 0
    OBVIOUS
  <2>1. held[u][g] \in Nat /\ held'[u][g] \in Nat
    BY <1>7 DEF Types, Holdings
  <2> QED
    BY <1>4, <1>8, <2>1
<1>10. Exclusive'
  <2> SUFFICES ASSUME NEW u \in Tasks, NEW v \in Tasks, NEW x \in Locks, u # v,
                      held'[u][Grant(x, "write")] > 0,
                      NEW y \in LockModes, held'[v][Grant(x, y)] > 0
               PROVE  FALSE
    BY DEF Exclusive, Writes, Has
  <2>1. Grant(x, "write") \in Grants /\ Grant(x, y) \in Grants
    BY GrantType, LockKinds
  <2> QED
    BY <1>9, <2>1 DEF Exclusive, Writes, Has
<1>11. Disciplined'
  <2> SUFFICES ASSUME NEW u \in Tasks PROVE Runs(u, held'[u], script'[u], Nothing)
    BY DEF Disciplined
  <2>1. CASE u = t
    BY <1>2, <1>3, <1>8, <2>1
  <2>2. CASE u # t
    BY <1>8, <2>2 DEF Disciplined
  <2> QED
    BY <2>1, <2>2
<1>12. MapsInside'
  <2> SUFFICES ASSUME NEW u \in Tasks \ {Health}
               PROVE  /\ \A x \in Maps \cup {Server} : held'[u][Grant(x, "read")] = 0
                      /\ Owned(held'[u]) \cap Maps # {} => Server \in Owned(held'[u])
    BY DEF MapsInside
  <2>1. CASE u # t
    BY <1>8, <2>1 DEF MapsInside
  <2>2. CASE u = t
    <3>1. ASSUME NEW x \in Maps \cup {Server} PROVE k[Grant(x, "read")] = 0
      <4>1. Grant(x, "read") \in Grants
        BY GrantType, LockKinds
      <4>2. h[Grant(x, "read")] = 0
        BY <2>2 DEF MapsInside
      <4>3. k[Grant(x, "read")] \in Nat /\ k[Grant(x, "read")] <= h[Grant(x, "read")]
        BY <1>4, <4>1 DEF Holdings
      <4> QED
        BY <4>2, <4>3
    <3>2. ASSUME Owned(k) \cap Maps # {} PROVE Server \in Owned(k)
      <4>1. Owned(h) \cap Maps # {}
        BY <1>4, <3>2
      <4>2. Server \in Owned(h) /\ o.lock # Server
        BY <1>3, <2>2, <4>1 DEF MapsInside, MayUnlock
      <4> QED
        BY <1>4, <4>2
    <3> QED
      BY <1>8, <2>2, <3>1, <3>2
  <2> QED
    BY <2>1, <2>2
<1>13. Queued'
  BY <1>1, <1>5, QueuedKept
<1> QED
  BY <1>7, <1>10, <1>11, <1>12, <1>13

\* Taking a free lock at once keeps it.
LEMMA AcquireStep ==
    ASSUME Types, Exclusive, Disciplined, MapsInside, Queued,
           NEW t \in Tasks, Acquire(t)
    PROVE  Types' /\ Exclusive' /\ Disciplined' /\ MapsInside' /\ Queued'
<1> DEFINE l == Head(script[t]).lock
<1> DEFINE m == Head(script[t]).mode
<1>1. /\ script[t] # <<>> /\ Head(script[t]).op = "lock" /\ ~Waiting(t)
      /\ Free(l, m) /\ Take(t, l, m) /\ UNCHANGED queue
  BY DEF Acquire, NextOp
<1>2. /\ script' \in [Tasks -> Seq(Ops)] /\ held' \in [Tasks -> Holdings]
      /\ Exclusive' /\ Disciplined' /\ MapsInside'
  <2> HIDE DEF l, m
  <2>1. l = Head(script[t]).lock /\ m = Head(script[t]).mode
    BY DEF l, m
  <2> QED
    BY <1>1, <2>1, TakeStep
<1>3. Types'
  BY <1>1, <1>2 DEF Types
<1>4. script' = [script EXCEPT ![t] = Tail(script[t])]
  BY <1>1 DEF Take
<1>5. Queued'
  BY <1>1, <1>4, QueuedKept
<1> QED
  BY <1>2, <1>3, <1>5

\* A try_lock keeps it, with the lock or without.
LEMMA TryLockStep ==
    ASSUME Types, Exclusive, Disciplined, MapsInside, Queued,
           NEW t \in Tasks, TryLock(t)
    PROVE  Types' /\ Exclusive' /\ Disciplined' /\ MapsInside' /\ Queued'
<1> DEFINE o == Head(script[t])
<1>1. script[t] # <<>> /\ o.op = "try" /\ ~Waiting(t) /\ UNCHANGED queue
  BY DEF TryLock, NextOp
<1>2. o \in Ops /\ Allowed(t, held[t], o)
  BY <1>1, RunsHead DEF Disciplined
<1>3. held[t] = Nothing /\ o.mode = "write"
  BY <1>1, <1>2 DEF Allowed
<1>4. CASE queue[o.lock] = <<>> /\ Free(o.lock, "write")
  <2>1. Take(t, o.lock, o.mode) /\ Free(o.lock, o.mode)
    BY <1>3, <1>4 DEF TryLock
  <2>2. /\ script' \in [Tasks -> Seq(Ops)] /\ held' \in [Tasks -> Holdings]
        /\ Exclusive' /\ Disciplined' /\ MapsInside'
    BY <1>1, <2>1, TakeStep
  <2>3. Types'
    BY <1>1, <2>2 DEF Types
  <2>4. script' = [script EXCEPT ![t] = Tail(script[t])]
    BY <2>1 DEF Take
  <2>5. Queued'
    BY <1>1, <2>4, QueuedKept
  <2> QED
    BY <2>2, <2>3, <2>5
<1>5. CASE ~(queue[o.lock] = <<>> /\ Free(o.lock, "write"))
  <2>1. script' = [script EXCEPT ![t] = <<>>] /\ UNCHANGED held
    BY <1>5 DEF TryLock
  <2>2. Types'
    BY <1>1, <2>1, EmptySeq DEF Types
  <2>3. Exclusive' /\ MapsInside'
    BY <2>1 DEF Exclusive, MapsInside, Writes, Has
  <2>4. Disciplined'
    <3> SUFFICES ASSUME NEW u \in Tasks PROVE Runs(u, held'[u], script'[u], Nothing)
      BY DEF Disciplined
    <3>1. CASE u = t
      BY <1>3, <2>1, <3>1, RunsEmpty, NothingOwned DEF Types
    <3>2. CASE u # t
      BY <2>1, <3>2 DEF Disciplined, Types
    <3> QED
      BY <3>1, <3>2
  <2>5. Queued'
    BY <1>1, <2>1, QueuedKept
  <2> QED
    BY <2>2, <2>3, <2>4, <2>5
<1> QED
  BY <1>4, <1>5

\* Starting a script keeps it.
LEMMA StartStep ==
    ASSUME Types, Exclusive, Disciplined, MapsInside, Queued,
           NEW t \in Tasks, Start(t)
    PROVE  Types' /\ Exclusive' /\ Disciplined' /\ MapsInside' /\ Queued'
<1>1. PICK s \in Scripts[t] : script' = [script EXCEPT ![t] = s]
  BY DEF Start
<1>2. script[t] = <<>> /\ UNCHANGED <<held, queue>>
  BY DEF Start
<1>3. held[t] = Nothing
  BY <1>2, RunsEnd DEF Disciplined
<1>4. Runs(t, Nothing, s, Nothing)
  BY ScriptsRun
<1>5. Types'
  BY <1>1, <1>2, <1>4 DEF Types, Runs
<1>6. Exclusive' /\ MapsInside'
  BY <1>2 DEF Exclusive, MapsInside, Writes, Has
<1>7. Disciplined'
  <2> SUFFICES ASSUME NEW u \in Tasks PROVE Runs(u, held'[u], script'[u], Nothing)
    BY DEF Disciplined
  <2>1. CASE u = t
    BY <1>1, <1>2, <1>3, <1>4, <2>1 DEF Types
  <2>2. CASE u # t
    BY <1>1, <1>2, <2>2 DEF Disciplined, Types
  <2> QED
    BY <2>1, <2>2
<1>8. ~Waiting(t)
  <2> SUFFICES ASSUME NEW l \in Locks, NEW i \in DOMAIN queue[l], queue[l][i].task = t
               PROVE  FALSE
    BY DEF Waiting
  <2> QED
    BY <1>2, Requests DEF Queued
<1>9. Queued'
  BY <1>1, <1>2, <1>8, QueuedKept
<1> QED
  BY <1>5, <1>6, <1>7, <1>9

\* Queueing for a lock that is taken keeps it.
LEMMA EnqueueStep ==
    ASSUME Types, Exclusive, Disciplined, MapsInside, Queued,
           NEW t \in Tasks, Enqueue(t)
    PROVE  Types' /\ Exclusive' /\ Disciplined' /\ MapsInside' /\ Queued'
<1> DEFINE l == Head(script[t]).lock
<1> DEFINE m == Head(script[t]).mode
<1> DEFINE R == [task : Tasks, mode : LockModes]
<1> DEFINE new == Request(t, m)
<1>1. script[t] # <<>> /\ Head(script[t]).op = "lock" /\ ~Waiting(t) /\ UNCHANGED <<script, held>>
  BY DEF Enqueue, NextOp
<1>2. Head(script[t]) \in Ops
  BY <1>1, RunsHead DEF Disciplined
<1>3. /\ l \in Locks /\ m \in LockModes
      /\ Head(script[t]) = [op |-> "lock", lock |-> l, mode |-> m]
  BY <1>1, <1>2 DEF Ops
<1>4. new \in R /\ new.task = t /\ new.mode = m
  BY <1>3 DEF Request
<1>5. queue' = [queue EXCEPT ![l] = Append(queue[l], new)]
  BY DEF Enqueue
<1>6. queue \in [Locks -> Seq(R)]
  BY DEF Types
<1>7. \A x \in Locks : queue[x] \in Seq(R)
  BY <1>6
<1> DEFINE n == Len(queue[l])
<1> HIDE DEF l, m, R, new
<1>8. /\ Append(queue[l], new) \in Seq(R)
      /\ n \in Nat /\ Len(Append(queue[l], new)) = n + 1
      /\ \A i \in 1 .. n : Append(queue[l], new)[i] = queue[l][i]
      /\ Append(queue[l], new)[n + 1] = new
  <2>1. queue[l] \in Seq(R)
    BY <1>3, <1>7
  <2> QED
    BY <1>4, <2>1, AppendProperties, LenProperties
<1>9. Types'
  BY <1>1, <1>3, <1>5, <1>6, <1>8 DEF Types, R
<1>10. Exclusive' /\ Disciplined' /\ MapsInside'
  BY <1>1 DEF Exclusive, Disciplined, MapsInside, Writes, Has
<1>11. /\ queue'[l] = Append(queue[l], new)
       /\ \A x \in Locks : x # l => queue'[x] = queue[x]
  BY <1>3, <1>5, <1>6
<1>12. \A x \in Locks : \A i \in 1 .. Len(queue[x]) : queue[x][i].task # t
  BY <1>1, Requests DEF Waiting
<1>13. Queued'
  <2> SUFFICES ASSUME NEW x \in Locks, NEW i \in 1 .. Len(queue'[x])
               PROVE  LET q == queue'[x][i] IN
                      /\ script[q.task] # <<>>
                      /\ Head(script[q.task]) = [op |-> "lock", lock |-> x, mode |-> q.mode]
                      /\ \A j \in 1 .. Len(queue'[x]) : queue'[x][j].task = q.task => j = i
    BY <1>1 DEF Queued
  <2>1. CASE x # l
    BY <1>11, <2>1 DEF Queued
  <2>2. CASE x = l /\ i = n + 1
    <3>1. queue'[x][i] = new
      BY <1>8, <1>11, <2>2
    <3>2. \A j \in 1 .. n : queue'[x][j].task # t
      BY <1>3, <1>8, <1>11, <1>12, <2>2
    <3>3. \A j \in 1 .. Len(queue'[x]) : queue'[x][j].task = t => j = i
      BY <1>8, <1>11, <2>2, <3>2
    <3> QED
      BY <1>1, <1>3, <1>4, <2>2, <3>1, <3>3
  <2>3. CASE x = l /\ i # n + 1
    <3>1. i \in 1 .. n /\ queue'[x][i] = queue[l][i] /\ queue[l][i].task # t
      BY <1>3, <1>8, <1>11, <1>12, <2>3
    <3>2. \A j \in 1 .. Len(queue'[x]) : queue'[x][j].task = queue[l][i].task => j = i
      <4> SUFFICES ASSUME NEW j \in 1 .. Len(queue'[x]),
                          queue'[x][j].task = queue[l][i].task
                   PROVE  j = i
        OBVIOUS
      <4>1. j # n + 1
        BY <1>4, <1>8, <1>11, <2>3, <3>1
      <4>2. j \in 1 .. n /\ queue'[x][j] = queue[l][j]
        BY <1>8, <1>11, <2>3, <4>1
      <4> QED
        BY <1>3, <3>1, <4>2 DEF Queued
    <3>3. /\ script[queue[l][i].task] # <<>>
          /\ Head(script[queue[l][i].task])
                 = [op |-> "lock", lock |-> l, mode |-> queue[l][i].mode]
      BY <1>3, <3>1 DEF Queued
    <3> QED
      BY <2>3, <3>1, <3>2, <3>3
  <2> QED
    BY <2>1, <2>2, <2>3
<1> QED
  BY <1>9, <1>10, <1>13

\* A lock that goes to the oldest request keeps it.
LEMMA GrantedStep ==
    ASSUME Types, Exclusive, Disciplined, MapsInside, Queued,
           NEW l \in Locks, Granted(l)
    PROVE  Types' /\ Exclusive' /\ Disciplined' /\ MapsInside' /\ Queued'
<1> DEFINE R == [task : Tasks, mode : LockModes]
<1> DEFINE req == Head(queue[l])
<1> DEFINE t == req.task
<1> DEFINE n == Len(queue[l])
<1>1. queue \in [Locks -> Seq(R)] /\ queue[l] \in Seq(R) /\ queue[l] # <<>>
  BY DEF Types, Granted
<1>2. /\ Free(l, req.mode) /\ Take(t, l, req.mode)
      /\ queue' = [queue EXCEPT ![l] = Tail(queue[l])]
  BY DEF Granted
<1> HIDE DEF R
<1>3. /\ n \in Nat /\ n >= 1 /\ req = queue[l][1]
      /\ Tail(queue[l]) \in Seq(R) /\ Len(Tail(queue[l])) = n - 1
      /\ \A i \in 1 .. n - 1 : Tail(queue[l])[i] = queue[l][i + 1]
  BY <1>1, HeadTailProperties, EmptySeq
<1>4. /\ t \in Tasks /\ script[t] # <<>>
      /\ Head(script[t]) = [op |-> "lock", lock |-> l, mode |-> req.mode]
      /\ \A j \in 1 .. n : queue[l][j].task = t => j = 1
  BY <1>3, Requests DEF Queued
<1>5. /\ script' \in [Tasks -> Seq(Ops)] /\ held' \in [Tasks -> Holdings]
      /\ Exclusive' /\ Disciplined' /\ MapsInside'
  <2>1. /\ Head(script[t]).op = "lock" /\ l = Head(script[t]).lock
        /\ req.mode = Head(script[t]).mode
    BY <1>4
  <2> HIDE DEF t, req
  <2> QED
    BY <1>2, <1>4, <2>1, TakeStep
<1>6. Types'
  BY <1>1, <1>2, <1>3, <1>5 DEF Types, R
<1>7. /\ queue'[l] = Tail(queue[l])
      /\ \A x \in Locks : x # l => queue'[x] = queue[x]
  BY <1>1, <1>2
<1>8. \A u \in Tasks : u # t => script'[u] = script[u]
  BY <1>2 DEF Take, Types
<1> HIDE DEF t, req
<1>9. Queued'
  <2> SUFFICES ASSUME NEW x \in Locks, NEW i \in 1 .. Len(queue'[x])
               PROVE  LET q == queue'[x][i] IN
                      /\ script'[q.task] # <<>>
                      /\ Head(script'[q.task]) = [op |-> "lock", lock |-> x, mode |-> q.mode]
                      /\ \A j \in 1 .. Len(queue'[x]) : queue'[x][j].task = q.task => j = i
    BY DEF Queued
  <2>1. CASE x # l
    <3>1. queue'[x] = queue[x]
      BY <1>7, <2>1
    <3>2. LET q == queue[x][i] IN
          /\ script[q.task] # <<>>
          /\ Head(script[q.task]) = [op |-> "lock", lock |-> x, mode |-> q.mode]
          /\ \A j \in 1 .. Len(queue[x]) : queue[x][j].task = q.task => j = i
      BY <3>1 DEF Queued
    <3>3. queue[x][i].task # t
      <4> SUFFICES ASSUME queue[x][i].task = t PROVE FALSE
        OBVIOUS
      <4>1. [op |-> "lock", lock |-> x, mode |-> queue[x][i].mode]
                = [op |-> "lock", lock |-> l, mode |-> req.mode]
        BY <1>4, <3>2
      <4> QED
        BY <2>1, <4>1
    <3>4. queue[x][i].task \in Tasks
      BY <3>1, Requests
    <3> QED
      BY <1>8, <3>1, <3>2, <3>3, <3>4
  <2>2. CASE x = l
    <3>0. queue'[x] = Tail(queue[l]) /\ Len(queue'[x]) = n - 1
      BY <1>3, <1>7, <2>2
    <3> HIDE DEF n
    <3>1. i \in 1 .. n - 1 /\ queue'[x][i] = queue[l][i + 1] /\ i + 1 \in 1 .. n
      BY <1>3, <3>0
    <3>2. LET q == queue[l][i + 1] IN
          /\ script[q.task] # <<>>
          /\ Head(script[q.task]) = [op |-> "lock", lock |-> l, mode |-> q.mode]
          /\ \A j \in 1 .. n : queue[l][j].task = q.task => j = i + 1
      BY <3>1 DEF Queued, n
    <3>3. queue[l][i + 1].task # t
      <4>1. i + 1 # 1
        BY <3>1
      <4> QED
        BY <1>4, <3>1, <4>1
    <3>4. queue[l][i + 1].task \in Tasks
      BY <3>1, Requests DEF n
    <3>5. \A j \in 1 .. Len(queue'[x]) : queue'[x][j].task = queue[l][i + 1].task => j = i
      <4> SUFFICES ASSUME NEW j \in 1 .. Len(queue'[x]),
                          queue'[x][j].task = queue[l][i + 1].task
                   PROVE  j = i
        OBVIOUS
      <4>1. j \in 1 .. n - 1 /\ queue'[x][j] = queue[l][j + 1] /\ j + 1 \in 1 .. n
        BY <1>3, <3>0
      <4>2. j + 1 = i + 1
        BY <3>2, <4>1
      <4> QED
        BY <3>1, <4>1, <4>2
    <3> QED
      BY <1>8, <2>2, <3>1, <3>2, <3>3, <3>4, <3>5
  <2> QED
    BY <2>1, <2>2
<1> QED
  BY <1>5, <1>6, <1>9

\* The invariant holds at the start ...
LEMMA InvInit == Init => Inv
<1> SUFFICES ASSUME Init PROVE Inv
  OBVIOUS
<1>1. /\ \A t \in Tasks : script[t] = <<>> /\ held[t] = Nothing
      /\ \A l \in Locks : queue[l] = <<>>
  BY DEF Init, Nothing
<1>2. Nothing \in Holdings /\ Owned(Nothing) = {} /\ \A g \in Grants : Nothing[g] = 0
  BY NothingOwned DEF Nothing
<1>3. Types
  BY <1>2, EmptySeq DEF Init, Types, Nothing
<1>4. Exclusive
  BY <1>1, <1>2, GrantType, LockKinds DEF Exclusive, Writes
<1>5. Disciplined
  BY <1>1, <1>2, RunsEmpty DEF Disciplined
<1>6. MapsInside
  BY <1>1, <1>2, GrantType, LockKinds DEF MapsInside
<1>7. Queued
  BY <1>1 DEF Queued
<1> QED
  BY <1>3, <1>4, <1>5, <1>6, <1>7 DEF Inv

\* ... is kept by every step ...
LEMMA InvNext == Inv /\ [Next]_vars => Inv'
<1> SUFFICES ASSUME Inv, [Next]_vars PROVE Inv'
  OBVIOUS
<1> USE DEF Inv
<1>1. CASE UNCHANGED vars
  BY <1>1 DEF vars, Types, Exclusive, Disciplined, MapsInside, Queued, Writes, Has
<1>2. ASSUME NEW t \in Tasks, Start(t) PROVE Inv'
  BY <1>2, StartStep
<1>3. ASSUME NEW t \in Tasks, Acquire(t) PROVE Inv'
  BY <1>3, AcquireStep
<1>4. ASSUME NEW t \in Tasks, Enqueue(t) PROVE Inv'
  BY <1>4, EnqueueStep
<1>5. ASSUME NEW t \in Tasks, Release(t) PROVE Inv'
  BY <1>5, ReleaseStep
<1>6. ASSUME NEW t \in Tasks, TryLock(t) PROVE Inv'
  BY <1>6, TryLockStep
<1>7. ASSUME NEW l \in Locks, Granted(l) PROVE Inv'
  BY <1>7, GrantedStep
<1> QED
  BY <1>1, <1>2, <1>3, <1>4, <1>5, <1>6, <1>7 DEF Next, Step

\* ... and so holds always.
LEMMA InvAlways == Spec => []Inv
BY InvInit, InvNext, PTL DEF Spec

\* Whatever the tasks run and however they interleave, the health task included,
\* nobody releases a guard it does not have, and a lock that is held for writing
\* is held by nobody else (RwLock and Mutex, as main.rs and commands.rs use them).
THEOREM TypeOKAlways == Spec => []TypeOK
<1>1. Inv => TypeOK
  BY TypeOKParts DEF Inv
<1> QED
  BY <1>1, InvAlways, PTL

-----------------------------------------------------------------------------
(* No circle.                                                               *)

\* Without the health task's passes its script stays empty.
HealthIdle == script[Health] = <<>>

\* A health task that makes no pass never has a script.
LEMMA HealthIdleAlways ==
    ASSUME ~HealthRuns
    PROVE  Spec => []HealthIdle
<1>1. Init => HealthIdle
  BY DEF Init, HealthIdle, Tasks
<1>2. Inv /\ HealthIdle /\ [Next]_vars => HealthIdle'
  <2> SUFFICES ASSUME Inv, HealthIdle, [Next]_vars PROVE HealthIdle'
    OBVIOUS
  <2> USE DEF Inv, HealthIdle
  <2>1. Health \in Tasks
    BY DEF Tasks
  <2>2. CASE UNCHANGED vars
    BY <2>2 DEF vars
  <2>3. ASSUME NEW t \in Tasks, Start(t) PROVE HealthIdle'
    <3>1. Scripts[Health] = {}
      BY <2>1, LocksAssumption DEF Scripts, Passes
    <3>2. t # Health
      BY <2>3, <3>1 DEF Start
    <3> QED
      BY <2>3, <2>1, <3>2 DEF Start, Types
  <2>4. ASSUME NEW t \in Tasks, Step(t) PROVE HealthIdle'
    <3>1. t # Health
      BY <2>4 DEF Step, Acquire, Enqueue, Release, TryLock, NextOp
    <3> QED
      BY <2>4, <2>1, <3>1
         DEF Step, Acquire, Enqueue, Release, TryLock, Take, Types
  <2>5. ASSUME NEW l \in Locks, Granted(l) PROVE HealthIdle'
    <3>1. queue[l] # <<>> /\ queue[l] \in Seq([task : Tasks, mode : LockModes])
      BY <2>5 DEF Granted, Types
    <3>2. Head(queue[l]) = queue[l][1] /\ 1 \in 1 .. Len(queue[l])
      BY <3>1, EmptySeq
    <3>3. Head(queue[l]).task # Health
      BY <3>2 DEF Queued
    <3> QED
      BY <2>5, <2>1, <3>3 DEF Granted, Take, Types
  <2> QED
    BY <2>2, <2>3, <2>4, <2>5 DEF Next
<1> QED
  BY <1>1, <1>2, InvAlways, PTL DEF Spec

\* Task t is in the queue of lock l.
Waits(t, l) == \E i \in 1 .. Len(queue[l]) : queue[l][i].task = t

\* Has of LockOrder, in terms of what is owned.
LEMMA HasOwned == \A t \in Tasks, l \in Locks : Has(t, l) <=> l \in Owned(held[t])
BY DEF Has, Owned

\* What is known of a task that waits.
LEMMA Waiter ==
    ASSUME Inv, HealthIdle, NEW t \in Tasks, NEW l \in Locks, Waits(t, l)
    PROVE  /\ t # Health
           /\ ~Has(t, l)
           /\ t # Dispatcher => /\ \A x \in Locks : Has(t, x) => x = Server
                                /\ \A x \in Locks : Has(t, x) => l \in Maps
<1>1. PICK i \in 1 .. Len(queue[l]) : queue[l][i].task = t
  BY DEF Waits
<1>2. /\ script[t] # <<>>
      /\ Head(script[t]) = [op |-> "lock", lock |-> l, mode |-> queue[l][i].mode]
  BY <1>1 DEF Inv, Queued
<1>3. Allowed(t, held[t], Head(script[t]))
  BY <1>2, RunsHead DEF Inv, Disciplined
<1>4. MayLock(t, Owned(held[t]), l, queue[l][i].mode)
  BY <1>2, <1>3 DEF Allowed
<1>5. t # Health
  BY <1>2 DEF HealthIdle
<1> QED
  BY <1>4, <1>5, HasOwned DEF MayLock

\* A task waits in one place only.
LEMMA OnePlace ==
    ASSUME Inv, NEW l \in Locks, NEW i \in 1 .. Len(queue[l]),
           NEW k \in Locks, NEW j \in 1 .. Len(queue[k]),
           queue[l][i].task = queue[k][j].task
    PROVE  l = k /\ i = j
<1>1. Head(script[queue[l][i].task]) = [op |-> "lock", lock |-> l, mode |-> queue[l][i].mode]
  BY DEF Inv, Queued
<1>2. Head(script[queue[l][i].task]) = [op |-> "lock", lock |-> k, mode |-> queue[k][j].mode]
  BY DEF Inv, Queued
<1>3. l = k
  <2>1. [op |-> "lock", lock |-> l, mode |-> queue[l][i].mode].lock
            = [op |-> "lock", lock |-> k, mode |-> queue[k][j].mode].lock
    BY <1>1, <1>2
  <2> QED
    BY <2>1
<1> QED
  BY <1>3 DEF Inv, Queued

\* In a circle the first in a queue waits for a holder, not for another that waits.
LEMMA HolderInCircle ==
    ASSUME Inv, NEW D \in SUBSET Tasks, \A t \in D : \E u \in D : WaitsFor(t, u),
           NEW s \in D, NEW l \in Locks, Waits(s, l)
    PROVE  \E u \in D : Has(u, l)
<1> DEFINE T == {i \in 1 .. Len(queue[l]) : queue[l][i].task \in D}
<1>1. T \in SUBSET Nat /\ T # {}
  BY DEF Waits
<1>2. PICK i \in T : \A j \in T : i <= j
  <2> HIDE DEF T
  <2> QED
    BY <1>1, LeastNumber
<1>3. i \in 1 .. Len(queue[l]) /\ queue[l][i].task \in D
  OBVIOUS
<1>4. PICK u \in D : WaitsFor(queue[l][i].task, u)
  BY <1>3
<1>5. PICK k \in Locks : \E j \in DOMAIN queue[k] :
          /\ queue[k][j].task = queue[l][i].task
          /\ \/ Excludes(u, k, queue[k][j].mode)
             \/ \E p \in 1 .. j - 1 : queue[k][p].task = u
  BY <1>4 DEF WaitsFor
<1>6. PICK j \in 1 .. Len(queue[k]) :
          /\ queue[k][j].task = queue[l][i].task
          /\ \/ Excludes(u, k, queue[k][j].mode)
             \/ \E p \in 1 .. j - 1 : queue[k][p].task = u
  BY <1>5, Requests DEF Inv
<1>7. l = k /\ i = j
  BY <1>3, <1>6, OnePlace
<1>8. ~ \E p \in 1 .. j - 1 : queue[k][p].task = u
  <2> SUFFICES ASSUME NEW p \in 1 .. j - 1, queue[k][p].task = u PROVE FALSE
    OBVIOUS
  <2>1. p \in 1 .. Len(queue[l]) /\ p < i
    BY <1>3, <1>7, Requests DEF Inv
  <2>2. p \in T
    BY <1>7, <2>1
  <2> QED
    BY <1>2, <2>1, <2>2
<1>9. Excludes(u, l, queue[l][i].mode)
  BY <1>6, <1>7, <1>8
<1>10. Has(u, l)
  BY <1>9, LockKinds DEF Excludes, Has, Writes
<1> QED
  BY <1>10

\* The invariant leaves no room for a circle: whoever else holds something in it shares
\* the server with the dispatcher, and the dispatcher does not wait for itself.
LEMMA NoCircle ==
    ASSUME Inv, HealthIdle
    PROVE  NoDeadlock
<1> SUFFICES ASSUME NEW D \in SUBSET Tasks, D # {},
                    \A t \in D : \E u \in D : WaitsFor(t, u)
             PROVE  FALSE
  BY DEF NoDeadlock
<1>1. ASSUME NEW t \in D PROVE \E l \in Locks : Waits(t, l)
  <2>1. PICK l \in Locks : \E i \in DOMAIN queue[l] : queue[l][i].task = t
    BY DEF WaitsFor
  <2> QED
    BY <2>1, Requests DEF Waits, Inv
<1>2. ASSUME NEW u \in D, NEW l \in Locks, Has(u, l), u # Dispatcher PROVE FALSE
  <2>1. PICK m \in Locks : Waits(u, m)
    BY <1>1
  <2>2. l = Server /\ m \in Maps /\ u # Health
    BY <1>2, <2>1, Waiter
  <2>3. PICK v \in D : Has(v, m)
    BY <2>1, HolderInCircle
  <2>4. PICK k \in Locks : Waits(v, k)
    BY <1>1
  <2>5. v = Dispatcher
    <3>1. m # Server
      BY <2>2, LockKinds
    <3> QED
      BY <2>3, <2>4, <3>1, Waiter
  <2>6. Has(Dispatcher, Server)
    <3>1. Dispatcher # Health /\ Dispatcher \in Tasks
      BY LocksAssumption DEF Tasks
    <3>2. m \in Owned(held[Dispatcher])
      BY <2>3, <2>5, <3>1, HasOwned
    <3>3. Server \in Owned(held[Dispatcher])
      BY <2>2, <3>1, <3>2 DEF Inv, MapsInside
    <3> QED
      BY <3>1, <3>3, HasOwned, LockKinds
  <2>7. Writes(u, Server)
    <3>1. held[u][Grant(Server, "read")] = 0
      BY <2>2, LockKinds DEF Inv, MapsInside
    <3> QED
      BY <1>2, <2>2, <3>1 DEF Has, Writes, LockModes
  <2> QED
    BY <1>2, <2>5, <2>6, <2>7, LockKinds DEF Inv, Exclusive
<1>3. PICK t \in D : TRUE
  OBVIOUS
<1>4. PICK l \in Locks : Waits(t, l)
  BY <1>1
<1>5. Dispatcher \in D
  BY <1>2, <1>4, HolderInCircle
<1>6. PICK k \in Locks : Waits(Dispatcher, k)
  BY <1>1, <1>5
<1>7. Has(Dispatcher, k)
  BY <1>2, <1>5, <1>6, HolderInCircle
<1> QED
  BY <1>5, <1>6, <1>7, Waiter

\* While the health task makes no pass, no set of tasks waits in a circle: for any
\* clients, channels and orders of the maps, whoever a kick or a kill is about,
\* the handlers of the dispatcher, the accept loop and the connections take the
\* locks in orders that fit together (main.rs, commands.rs, server.rs).
THEOREM NoDeadlockAlways ==
    ASSUME ~HealthRuns
    PROVE  Spec => []NoDeadlock
BY NoCircle, InvAlways, HealthIdleAlways, PTL

=============================================================================
